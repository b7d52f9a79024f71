------------------------------ MODULE HashPool ------------------------------
(***************************************************************************)
(* Hashing the files of a tree: Tree.ComputeHashes (sure/hashes.go) sends  *)
(* the files without a hash through a channel to one worker per CPU, and   *)
(* waits for them.  The workers share a pool of read buffers               *)
(* (sha/hashfile.go) and a progress meter (sure/progress.go).              *)
(*                                                                         *)
(* Files are numbered in the order of the walk.  Their contents and the    *)
(* hashes do not matter here, only whether a file has its hash.            *)
(***************************************************************************)
EXTENDS Integers, Sequences, FiniteSets

CONSTANTS Workers,     \* the goroutines that ComputeHashes starts
          MaxFiles,    \* regular files in the tree
          PoolCap      \* capacity of bufPool (16 in the code)

ASSUME PoolAssumption == /\ IsFiniteSet(Workers) /\ Workers # {}
                         /\ MaxFiles \in Nat /\ PoolCap \in Nat

VARIABLES
    sha,       \* sha[f]: Sha1 of file f is set
    total,     \* Progress.totalFiles
    cur,       \* Progress.curFiles
    walker,    \* where ComputeHashes is
    next,      \* the file that hashWalk looks at
    req,       \* the channel of requests
    closed,    \* the channel is closed
    pc,        \* where each worker is
    job,       \* the file it is at
    pool,      \* buffers in bufPool
    running,   \* counter of the WaitGroup
    failed     \* files for which an error was logged

progress == <<total, cur>>
main     == <<walker, next, closed>>
vars     == <<sha, total, cur, walker, next, req, closed, pc, job, pool,
              running, failed>>

Files == 1..MaxFiles

\* Capacity of req: two requests per worker.
ReqCap == 2 * Cardinality(Workers)

-----------------------------------------------------------------------------
(***************************************************************************)
(* ComputeHashes and hashWalk.                                             *)
(***************************************************************************)

\* Fault: files that have a hash are sent as well.
WalkAll ==
    /\ walker = "walk" /\ next <= MaxFiles
    /\ next' = next + 1
    /\ Len(req) < ReqCap /\ req' = Append(req, next)
    /\ UNCHANGED <<sha, progress, walker, closed, pc, job, pool, running, failed>>

\* A file that has a hash (from the previous scan) is passed over; the
\* request for another one waits for room in the channel.
Walk ==
    /\ walker = "walk" /\ next <= MaxFiles
    /\ next' = next + 1
    /\ IF sha[next]
       THEN UNCHANGED req
       ELSE Len(req) < ReqCap /\ req' = Append(req, next)
    /\ UNCHANGED <<sha, progress, walker, closed, pc, job, pool, running, failed>>

Close ==
    /\ walker = "walk" /\ next > MaxFiles
    /\ closed' = TRUE
    /\ walker' = "wait"
    /\ UNCHANGED <<sha, progress, next, req, pc, job, pool, running, failed>>

\* wg.Wait
Return ==
    /\ walker = "wait" /\ running = 0
    /\ walker' = "returned"
    /\ UNCHANGED <<sha, progress, next, req, closed, pc, job, pool, running, failed>>

-----------------------------------------------------------------------------
(***************************************************************************)
(* updateWorker, with HashFile.                                            *)
(***************************************************************************)

Goto(w, l) == pc' = [pc EXCEPT ![w] = l]

\* Fault: the request stays in the channel.
ReceivePeek(w) ==
    /\ pc[w] = "receive" /\ req # << >>
    /\ job' = [job EXCEPT ![w] = Head(req)]
    /\ Goto(w, "open")
    /\ UNCHANGED <<sha, progress, main, req, pool, running, failed>>

Receive(w) ==
    /\ pc[w] = "receive" /\ req # << >>
    /\ job' = [job EXCEPT ![w] = Head(req)]
    /\ req' = Tail(req)
    /\ Goto(w, "open")
    /\ UNCHANGED <<sha, progress, main, pool, running, failed>>

\* Fault: a worker stops at an empty channel that may not be closed yet.
DoneWhenEmpty(w) ==
    /\ pc[w] = "receive" /\ req = << >>
    /\ running' = running - 1
    /\ Goto(w, "done")
    /\ UNCHANGED <<sha, progress, main, req, job, pool, failed>>

\* The channel is closed and used up.
Done(w) ==
    /\ pc[w] = "receive" /\ req = << >> /\ closed
    /\ running' = running - 1
    /\ Goto(w, "done")
    /\ UNCHANGED <<sha, progress, main, req, job, pool, failed>>

\* Fault: the worker returns when a file cannot be hashed.
LogErrorExits(w) == /\ failed' = failed \cup {job[w]}
                    /\ Goto(w, "done")

\* HashFile returns an error: it is logged, and the file stays without hash.
LogError(w) == /\ failed' = failed \cup {job[w]}
               /\ Goto(w, "receive")

OpenFile(w) ==
    /\ pc[w] = "open"
    /\ \/ Goto(w, "get") /\ UNCHANGED failed
       \/ LogError(w)
    /\ UNCHANGED <<sha, progress, main, req, job, pool, running>>

\* Fault: the pool is not asked whether it is empty.
GetBufferUnchecked(w) ==
    /\ pc[w] = "get"
    /\ pool' = pool - 1
    /\ Goto(w, "read")
    /\ UNCHANGED <<sha, progress, main, req, job, running, failed>>

\* Fault: a new buffer each time.
GetBufferFresh(w) ==
    /\ pc[w] = "get"
    /\ Goto(w, "read")
    /\ UNCHANGED <<sha, progress, main, req, job, pool, running, failed>>

\* A buffer from the pool, or a new one.
GetBuffer(w) ==
    /\ pc[w] = "get"
    /\ pool' = IF pool > 0 THEN pool - 1 ELSE pool
    /\ Goto(w, "read")
    /\ UNCHANGED <<sha, progress, main, req, job, running, failed>>

\* The file is read to its end, or an error comes first: then the buffer is
\* dropped.
ReadFile(w) ==
    /\ pc[w] = "read"
    /\ \/ Goto(w, "put") /\ UNCHANGED failed
       \/ LogError(w)
    /\ UNCHANGED <<sha, progress, main, req, job, pool, running>>

\* The select has no default: the worker waits while the pool is full.
PutBuffer(w) ==
    /\ pc[w] = "put" /\ pool < PoolCap
    /\ pool' = pool + 1
    /\ Goto(w, "store")
    /\ UNCHANGED <<sha, progress, main, req, job, running, failed>>

StoreHash(w) ==
    /\ pc[w] = "store"
    /\ sha' = [sha EXCEPT ![job[w]] = TRUE]
    /\ Goto(w, "update")
    /\ UNCHANGED <<progress, main, req, job, pool, running, failed>>

\* Progress.Update, under its lock.
Update(w) ==
    /\ pc[w] = "update"
    /\ cur' = cur + 1
    /\ Goto(w, "receive")
    /\ UNCHANGED <<sha, total, main, req, job, pool, running, failed>>

-----------------------------------------------------------------------------
\* EstimateHashes has counted the files without a hash.  The pool is what
\* earlier calls have left in it: each of their workers at most one buffer.
Init ==
    /\ sha \in [Files -> BOOLEAN]
    /\ total = Cardinality({f \in Files : ~ sha[f]})
    /\ cur = 0
    /\ walker = "walk" /\ next = 1
    /\ req = << >> /\ closed = FALSE
    /\ pc = [w \in Workers |-> "receive"]
    /\ job = [w \in Workers |-> 0]
    /\ pool \in {n \in 0..PoolCap : n <= Cardinality(Workers)}
    /\ running = Cardinality(Workers)
    /\ failed = {}

Main == Walk \/ Close \/ Return

Worker(w) == \/ Receive(w) \/ Done(w) \/ OpenFile(w) \/ GetBuffer(w)
             \/ ReadFile(w) \/ PutBuffer(w) \/ StoreHash(w) \/ Update(w)

Next == Main \/ \E w \in Workers : Worker(w)

Spec == Init /\ [][Next]_vars

\* Goroutines that can run are run.
FairSpec == Spec /\ WF_vars(Main) /\ \A w \in Workers : WF_vars(Worker(w))

-----------------------------------------------------------------------------
(***************************************************************************)
(* Type invariant                                                          *)
(***************************************************************************)

PC == {"receive", "open", "get", "read", "put", "store", "update", "done"}

\* Every variable has its type.
TypeOK ==
    /\ sha \in [Files -> BOOLEAN]
    /\ total \in Nat /\ cur \in Nat
    /\ walker \in {"walk", "wait", "returned"}
    /\ next \in 1..MaxFiles + 1
    /\ req \in Seq(Files) /\ closed \in BOOLEAN
    /\ pc \in [Workers -> PC]
    /\ job \in [Workers -> Files \cup {0}]
    /\ pool \in 0..PoolCap
    /\ running \in Int
    /\ failed \subseteq Files

-----------------------------------------------------------------------------
(***************************************************************************)
(* Safety                                                                  *)
(***************************************************************************)

\* Workers that have taken a buffer and not given it back.
Holders == {w \in Workers : pc[w] \in {"read", "put"}}

Busy == {w \in Workers : pc[w] \notin {"receive", "done"}}

\* With no more workers than the pool has room for, a worker never finds the
\* pool full when it gives its buffer back: there are never more buffers than
\* workers, although putBuffer counts on a default that is not there.
PoolHasRoom ==
    Cardinality(Workers) <= PoolCap =>
        \A w \in Workers : pc[w] = "put" => pool < PoolCap

\* A file is looked at by one goroutine at a time: no two workers have the
\* same file, none has one that is still in the channel or that hashWalk has
\* yet to look at.  The accesses to Sha1, which no lock protects, do not race.
NoRace ==
    /\ \A v, w \in Busy : v # w => job[v] # job[w]
    /\ \A w \in Busy : /\ job[w] \in 1..next - 1
                       /\ \A i \in 1..Len(req) : req[i] # job[w]

\* When ComputeHashes returns, no worker is left that could still touch the
\* tree (store.Write encodes it next), every file has its hash or its error
\* was logged, and the meter has counted the others.
ReturnsComplete ==
    walker = "returned" =>
        /\ \A w \in Workers : pc[w] = "done"
        /\ \A f \in Files : sha[f] <=> f \notin failed
        /\ cur + Cardinality(failed) = total

\* The meter never shows more files than were estimated.
WithinEstimate == cur <= total

-----------------------------------------------------------------------------
(***************************************************************************)
(* Liveness                                                                *)
(***************************************************************************)

\* "Wait for everyone to finish" (hashes.go) comes to an end: "Return the
\* buffer to the pool, discarding it if the pool is full" (hashfile.go) keeps
\* no worker.
Returns == <>(walker = "returned")
=============================================================================
