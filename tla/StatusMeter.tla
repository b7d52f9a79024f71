---------------------------- MODULE StatusMeter ----------------------------
(***************************************************************************)
(* The terminal during a scan (status/status.go, sure/progress.go, the     *)
(* meter of sure/local.go): log messages scroll by above a meter that is   *)
(* overwritten in place.  The main goroutine and the workers that hash the *)
(* files share a Manager, a Progress and the standard logger, each with    *)
(* its lock.                                                               *)
(*                                                                         *)
(* Every method of Manager and Meter but Manager.Close waits for nothing   *)
(* while it holds Manager.lock, so each is one action that needs the lock  *)
(* to be free.  A line of the terminal is known by what printed it.        *)
(***************************************************************************)
EXTENDS Integers, Sequences, FiniteSets

CONSTANTS Workers,     \* goroutines that hash files
          MaxDirs,     \* directories of the tree
          MaxFiles,    \* files without a hash
          Heights,     \* how many lines the text of a meter may have
          Main, Free   \* the main goroutine; no one

ASSUME StatusAssumption == /\ IsFiniteSet(Workers) /\ Main \notin Workers
                           /\ Free \notin Workers \cup {Main}
                           /\ MaxDirs \in Nat /\ MaxFiles \in Nat
                           /\ Heights \subseteq Nat \ {0}

VARIABLES
    screen,    \* the lines on the terminal
    logged,    \* messages that the logger has printed
    meter,     \* Manager.meter, as lines
    due,       \* Meter.next has passed for sure: nothing was shown yet
    mgrLock,   \* who holds Manager.lock
    logLock,   \* ... the lock of the standard logger
    progLock,  \* ... Progress.lock
    pc,        \* where the main goroutine is
    left,      \* directories to scan, and after that files to hash
    dirs,      \* scanMeter.dirs
    files,     \* Progress.curFiles
    wpc,       \* where each worker is
    text       \* the number of files in the text that a goroutine has formatted

terminal == <<screen, logged, meter, due>>
locks    == <<mgrLock, logLock, progLock>>
vars     == <<terminal, locks, pc, left, dirs, files, wpc, text>>

\* Lines are of the log (of = 0), or of a text that meter number "of" showed.
LogLine(n)    == [of |-> 0, n |-> n, height |-> 1]
Text(k, n, h) == [i \in 1..h |-> [of |-> k, n |-> n, height |-> h]]

-----------------------------------------------------------------------------
(***************************************************************************)
(* Manager and Meter.                                                      *)
(***************************************************************************)

\* Fault: the meter is not erased.
ClearedNot == screen

\* Fault: one line is erased, whether a meter is there or not.
ClearedLine == SubSeq(screen, 1, Len(screen) - 1)

\* clear moves the cursor up and erases a line for each line of Manager.meter.
Cleared == SubSeq(screen, 1, Len(screen) - Len(meter))

\* Manager.Write
Write(line) == screen' = Append(Cleared, line) \o meter /\ UNCHANGED <<meter, due>>

\* Meter.Write: the text is shown, or kept when the last one is too recent.
MeterWrite(k, n) ==
    \E h \in Heights :
        /\ meter' = Text(k, n, h)
        /\ \/ screen' = Cleared \o Text(k, n, h) /\ due' = FALSE
           \/ ~ due /\ UNCHANGED <<screen, due>>
        /\ UNCHANGED logged

\* Fault: Meter.Close does not print the text that was kept last.
MeterCloseSilent ==
    /\ meter' = << >>
    /\ due' = TRUE
    /\ UNCHANGED <<screen, logged>>

\* Meter.Close; the next meter starts with Manager.Meter.
MeterClose ==
    /\ screen' = Cleared \o meter
    /\ meter' = << >>
    /\ due' = TRUE
    /\ UNCHANGED logged

-----------------------------------------------------------------------------
(***************************************************************************)
(* log.Printf: the logger calls Manager.Write with its own lock held.      *)
(***************************************************************************)

LockLogger(g) == logLock = Free /\ logLock' = g /\ UNCHANGED <<mgrLock, progLock>>

PrintLog(g) ==
    /\ logLock = g /\ mgrLock = Free
    /\ logged' = logged + 1
    /\ Write(LogLine(logged + 1))
    /\ logLock' = Free
    /\ UNCHANGED <<mgrLock, progLock>>

-----------------------------------------------------------------------------
(***************************************************************************)
(* The main goroutine: Scan (drive.go) and the command around it.          *)
(***************************************************************************)

\* ReadDat, which may have to log that there is no prior scan.
Start ==
    /\ pc = "start"
    /\ pc' = "scan"
    /\ left' = MaxDirs
    /\ LockLogger(Main) \/ UNCHANGED locks
    /\ UNCHANGED <<terminal, dirs, files, wpc, text>>

\* walkFs has read a directory, or logs that it could not.
ScanDir ==
    /\ pc = "scan" /\ logLock # Main /\ mgrLock = Free
    /\ left > 0 /\ left' = left - 1
    /\ \/ /\ dirs' = dirs + 1
          /\ MeterWrite(1, dirs + 1)
          /\ UNCHANGED locks
       \/ /\ LockLogger(Main)
          /\ UNCHANGED <<terminal, dirs>>
    /\ UNCHANGED <<pc, files, wpc, text>>

MainLog ==
    /\ PrintLog(Main)
    /\ pc' = IF pc = "fatal" THEN "exited" ELSE pc
    /\ UNCHANGED <<left, dirs, files, wpc, text>>

CloseScanMeter ==
    /\ pc = "scan" /\ logLock # Main /\ mgrLock = Free
    /\ left = 0
    /\ MeterClose
    /\ pc' = "scanned"
    /\ UNCHANGED <<locks, left, dirs, files, wpc, text>>

\* log.Fatal after a failed scan or a failed write of the store.  It exits
\* without the deferred Manager.Close.
Fatal ==
    /\ pc \in {"scanned", "write"}
    /\ LockLogger(Main)
    /\ pc' = "fatal"
    /\ UNCHANGED <<terminal, left, dirs, files, wpc, text>>

\* HashUpdate: prog.Flush shows that no file is hashed yet.
FlushProgress ==
    /\ pc = "scanned" /\ mgrLock = Free
    /\ MeterWrite(2, 0)
    /\ left' = MaxFiles
    /\ pc' = "hash"
    /\ UNCHANGED <<locks, dirs, files, wpc, text>>

\* Fault: the workers are not waited for.
CloseHashMeterEarly ==
    /\ pc = "hash" /\ mgrLock = Free
    /\ left = 0
    /\ MeterClose
    /\ pc' = "write"
    /\ UNCHANGED <<locks, left, dirs, files, wpc, text>>

\* ComputeHashes has returned.
CloseHashMeter ==
    /\ pc = "hash" /\ mgrLock = Free
    /\ \A w \in Workers : wpc[w] = "done"
    /\ MeterClose
    /\ pc' = "write"
    /\ UNCHANGED <<locks, left, dirs, files, wpc, text>>

\* Manager.Close, up to log.SetOutput, which needs the lock of the logger.
CloseManager ==
    /\ pc = "write" /\ mgrLock = Free
    /\ mgrLock' = Main
    /\ screen' = Cleared \o meter
    /\ pc' = "close"
    /\ UNCHANGED <<logged, meter, due, logLock, progLock, left, dirs, files, wpc, text>>

RestoreLogger ==
    /\ pc = "close" /\ logLock = Free
    /\ meter' = << >>
    /\ mgrLock' = Free
    /\ pc' = "closed"
    /\ UNCHANGED <<screen, logged, due, logLock, progLock, left, dirs, files, wpc, text>>

-----------------------------------------------------------------------------
(***************************************************************************)
(* updateWorker and Progress.Update.                                       *)
(***************************************************************************)

Goto(w, l) == wpc' = [wpc EXCEPT ![w] = l]

\* Fault: the file stays in the channel.
HashFileAgain(w) ==
    /\ pc = "hash" /\ wpc[w] = "next"
    /\ left > 0
    /\ Goto(w, "update") \/ Goto(w, "fail")
    /\ UNCHANGED <<terminal, locks, pc, left, dirs, files, text>>

\* The next file is hashed or cannot be, or there is none.
HashFile(w) ==
    /\ pc = "hash" /\ wpc[w] = "next"
    /\ \/ left > 0 /\ left' = left - 1 /\ (Goto(w, "update") \/ Goto(w, "fail"))
       \/ left = 0 /\ left' = left /\ Goto(w, "done")
    /\ UNCHANGED <<terminal, locks, pc, dirs, files, text>>

StartLog(w) ==
    /\ wpc[w] = "fail"
    /\ LockLogger(w)
    /\ Goto(w, "log")
    /\ UNCHANGED <<terminal, pc, left, dirs, files, text>>

WorkerLog(w) ==
    /\ wpc[w] = "log"
    /\ PrintLog(w)
    /\ Goto(w, "next")
    /\ UNCHANGED <<pc, left, dirs, files, text>>

\* Fault: Progress.Update without its lock.
UpdateUnlocked(w) ==
    /\ wpc[w] = "update"
    /\ files' = files + 1
    /\ text' = [text EXCEPT ![w] = files + 1]
    /\ Goto(w, "flush")
    /\ UNCHANGED <<terminal, locks, pc, left, dirs>>

\* Update counts the file and formats the text ...
Update(w) ==
    /\ wpc[w] = "update"
    /\ progLock = Free /\ progLock' = w
    /\ files' = files + 1
    /\ text' = [text EXCEPT ![w] = files + 1]
    /\ Goto(w, "flush")
    /\ UNCHANGED <<terminal, mgrLock, logLock, pc, left, dirs>>

\* ... and writes it to the meter before it gives its lock back.
Flush(w) ==
    /\ wpc[w] = "flush" /\ mgrLock = Free
    /\ MeterWrite(2, text[w])
    /\ progLock' = Free
    /\ Goto(w, "next")
    /\ UNCHANGED <<mgrLock, logLock, pc, left, dirs, files, text>>

-----------------------------------------------------------------------------
Init ==
    /\ screen = << >> /\ logged = 0 /\ meter = << >> /\ due = TRUE
    /\ mgrLock = Free /\ logLock = Free /\ progLock = Free
    /\ pc = "start" /\ left = 0 /\ dirs = 0 /\ files = 0
    /\ wpc = [w \in Workers |-> "next"]
    /\ text = [w \in Workers |-> 0]

MainStep == \/ Start \/ ScanDir \/ MainLog \/ CloseScanMeter \/ Fatal
            \/ FlushProgress \/ CloseHashMeter \/ CloseManager \/ RestoreLogger

Worker(w) == \/ HashFile(w) \/ StartLog(w) \/ WorkerLog(w) \/ Update(w)
             \/ Flush(w)

Next == MainStep \/ \E w \in Workers : Worker(w)

Spec == Init /\ [][Next]_vars

\* Goroutines that can run are run; a mutex is given to those that wait.
FairSpec == Spec /\ WF_vars(MainStep) /\ \A w \in Workers : WF_vars(Worker(w))

-----------------------------------------------------------------------------
(***************************************************************************)
(* Type invariant                                                          *)
(***************************************************************************)

Line == [of : {0}, n : Nat, height : {1}] \cup [of : {1, 2}, n : Nat, height : Heights]

\* Every variable has its type.
TypeOK ==
    /\ screen \in Seq(Line) /\ logged \in Nat
    /\ meter \in Seq(Line) /\ due \in BOOLEAN
    /\ mgrLock \in {Main, Free}
    /\ logLock \in Workers \cup {Main, Free}
    /\ progLock \in Workers \cup {Free}
    /\ pc \in {"start", "scan", "scanned", "hash", "write", "close", "closed",
               "fatal", "exited"}
    /\ left \in Nat /\ dirs \in 0..MaxDirs /\ files \in 0..MaxFiles
    /\ wpc \in [Workers -> {"next", "fail", "log", "update", "flush", "done"}]
    /\ text \in [Workers -> 0..MaxFiles]

-----------------------------------------------------------------------------
(***************************************************************************)
(* Safety                                                                  *)
(***************************************************************************)

\* "Responsible for making sure all of this output is presented cleanly"
\* (status.go): the messages of the logger are all on the terminal, in their
\* order, however often the meter was drawn and erased between them.
LogKept ==
    LET messages == {i \in 1..Len(screen) : screen[i].of = 0}
    IN  /\ {screen[i].n : i \in messages} = 1..logged
        /\ \A i, j \in messages : i < j => screen[i].n < screen[j].n

\* Of each meter the terminal shows one text at most, and the current meter
\* is below everything else.
OneMeter ==
    /\ \A i, j \in 1..Len(screen) :
           (screen[i].of = screen[j].of /\ screen[i].of # 0) =>
               screen[i].n = screen[j].n /\ i - j < screen[i].height
    /\ meter # << >> => screen # << >> /\ screen[Len(screen)].of = meter[1].of

\* A meter that was closed is left with the last text written to it, also when
\* that text was held back as too recent.
LastTextShown ==
    LET shows(k, n) == \E i \in 1..Len(screen) : screen[i].of = k /\ screen[i].n = n
    IN  /\ pc \notin {"start", "scan"} /\ dirs > 0 => shows(1, dirs)
        /\ pc \in {"write", "close", "closed"} => shows(2, files)

\* A message takes the logger's lock and then the manager's, Manager.Close the
\* manager's and then the logger's: no message is under way when it does.
CloseUndisturbed == mgrLock = Main => logLock = Free

\* A meter does not go back: of two texts the later one counts no less.
Forward ==
    [][(meter # << >> /\ meter' # << >> /\ meter'[1].of = meter[1].of) =>
           meter'[1].n >= meter[1].n]_vars

-----------------------------------------------------------------------------
(***************************************************************************)
(* Liveness                                                                *)
(***************************************************************************)

\* The program comes to its end, however its goroutines wait for the locks of
\* each other.
Ends == <>(pc \in {"closed", "exited"})
=============================================================================
