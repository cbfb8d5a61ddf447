-------------------------- MODULE AsyncSyncQueue --------------------------
(***************************************************************************)
(* The in-memory queue that decouples a parse request from the lexicon     *)
(* writes it causes: core/domain/services/sync_queue.py, with the          *)
(* shutdown sequence of ParseAndSyncInteractor.close.                      *)
(*                                                                         *)
(* Three kinds of threads meet here: request threads that enqueue, worker  *)
(* threads that claim and handle jobs, and the one thread that shuts the   *)
(* queue down.  Every "with self._lock" block that nothing can be seen     *)
(* inside of is one action; the block of enqueue is two, because the stop  *)
(* event is set without the lock and may change between its check and the  *)
(* put.  The worker's idle snapshot and its test of the stop event are     *)
(* separate actions, as they are separate in _worker_loop.                 *)
(***************************************************************************)
EXTENDS Integers, Sequences, FiniteSets

CONSTANTS
    Jobs,       \* one job per request, each offered at most once
    Workers,    \* the worker threads
    MaxSize,    \* max_size of the constructor, after max(1, _)
    NoJob       \* "no job": a value that is not one

ASSUME WorkersAssumption == IsFiniteSet(Workers) /\ Workers # {}
ASSUME SizeAssumption == MaxSize \in Nat \ {0}
ASSUME NoJobAssumption == NoJob \notin Jobs

VARIABLES
    queue,          \* _queue: the jobs in it, oldest first
    unfinished,     \* _queue.unfinished_tasks: puts not yet matched by task_done
    queuedJobs,     \* _queued_jobs
    inFlightJobs,   \* _in_flight_jobs
    stopEvent,      \* _stop_event
    enqueuing,      \* the job whose enqueue holds _lock across its two steps
    workerPc,       \* where each worker thread is in _worker_loop
    sawIdle,        \* is_idle of each worker's last snapshot
    current,        \* the job each worker handles
    closer,         \* where the closing thread is
    drain,          \* the drain argument of shutdown
    report,         \* the report dictionary of shutdown
    fate            \* history: what became of each job

workerVars == <<workerPc, sawIdle, current>>
closerVars == <<closer, drain, report>>
countVars == <<queuedJobs, inFlightJobs, unfinished>>
vars == <<queue, countVars, stopEvent, enqueuing, workerVars, closerVars, fate>>

LockFree == enqueuing = NoJob

(* Mutation: a decrement that is lost. *)
LostDec(n) == n

(* max(0, n - 1), as every decrement in the code is written. *)
Dec(n) == IF n > 0 THEN n - 1 ELSE 0

(* Mutation: idle as the queue alone shows it. *)
IdleWithoutInFlight == queue = <<>> /\ queuedJobs = 0

(* The is_idle of _snapshot_state. *)
IsIdle == queue = <<>> /\ queuedJobs = 0 /\ inFlightJobs = 0

(* Mutation: newest first, as a LifoQueue would hand jobs out. *)
LastJob == queue[Len(queue)]

(* get_nowait: the job it returns and what it leaves in the queue. *)
NextJob == Head(queue)

RestOfQueue == Tail(queue)

Exited == {w \in Workers : workerPc[w] = "exited"}

(* Jobs the queue answered True for and that are neither run nor canceled. *)
Outstanding == {j \in Jobs : fate[j] \in {"queued", "running"}}

Init ==
    /\ queue = <<>>
    /\ unfinished = 0
    /\ queuedJobs = 0
    /\ inFlightJobs = 0
    /\ stopEvent = FALSE
    /\ enqueuing = NoJob
    /\ workerPc = [w \in Workers |-> "snapshot"]
    /\ sawIdle = [w \in Workers |-> FALSE]
    /\ current = [w \in Workers |-> NoJob]
    /\ closer = "open"
    /\ drain = FALSE
    /\ report = [made |-> FALSE, waited |-> FALSE, idle |-> FALSE, depth |-> 0,
                 inFlight |-> 0, canceled |-> 0, alive |-> 0]
    /\ fate = [j \in Jobs |-> "new"]

-----------------------------------------------------------------------------
(* Request threads: enqueue.                                               *)

(* Take the lock; a set stop event refuses the job at once. *)
EnqueueRefused(j) ==
    /\ LockFree
    /\ fate[j] = "new"
    /\ stopEvent
    /\ fate' = [fate EXCEPT ![j] = "rejected"]
    /\ UNCHANGED <<queue, countVars, stopEvent, enqueuing, workerVars, closerVars>>

EnqueueEnter(j) ==
    /\ LockFree
    /\ fate[j] = "new"
    /\ ~stopEvent
    /\ enqueuing' = j
    /\ UNCHANGED <<queue, countVars, stopEvent, workerVars, closerVars, fate>>

(* put_nowait: room in the queue, or queue.Full. *)
EnqueuePut(j) ==
    /\ enqueuing = j
    /\ Len(queue) < MaxSize
    /\ queue' = Append(queue, j)
    /\ unfinished' = unfinished + 1
    /\ queuedJobs' = queuedJobs + 1
    /\ fate' = [fate EXCEPT ![j] = "queued"]
    /\ enqueuing' = NoJob
    /\ UNCHANGED <<inFlightJobs, stopEvent, workerVars, closerVars>>

EnqueueFull(j) ==
    /\ enqueuing = j
    /\ Len(queue) >= MaxSize
    /\ fate' = [fate EXCEPT ![j] = "rejected"]
    /\ enqueuing' = NoJob
    /\ UNCHANGED <<queue, countVars, stopEvent, workerVars, closerVars>>

Enqueue(j) == EnqueueRefused(j) \/ EnqueueEnter(j)

EnqueueReturn(j) == EnqueuePut(j) \/ EnqueueFull(j)

-----------------------------------------------------------------------------
(* Worker threads: _worker_loop.                                           *)

Goto(w, pc) == workerPc' = [workerPc EXCEPT ![w] = pc]

WorkerSnapshot(w) ==
    /\ workerPc[w] = "snapshot"
    /\ LockFree
    /\ sawIdle' = [sawIdle EXCEPT ![w] = IsIdle]
    /\ Goto(w, "decide")
    /\ UNCHANGED <<queue, countVars, stopEvent, enqueuing, current, closerVars, fate>>

(* Mutation: an idle worker leaves without looking at the stop event. *)
ExitWhenIdle(w) == sawIdle[w]

MayExit(w) == stopEvent /\ sawIdle[w]

WorkerDecide(w) ==
    /\ workerPc[w] = "decide"
    /\ Goto(w, IF MayExit(w) THEN "exited" ELSE "claim")
    /\ UNCHANGED <<queue, countVars, stopEvent, enqueuing, sawIdle, current,
                   closerVars, fate>>

(* _claim_next_job, nothing to claim: sleep and take a new snapshot. *)
ClaimNothing(w) ==
    /\ workerPc[w] = "claim"
    /\ LockFree
    /\ queuedJobs <= 0
    /\ Goto(w, "snapshot")
    /\ UNCHANGED <<queue, countVars, stopEvent, enqueuing, sawIdle, current,
                   closerVars, fate>>

(* _claim_next_job with a positive count.  On queue.Empty the counters are *)
(* resynchronised and the worker goes back; otherwise the job is in flight.*)
ClaimJob(w) ==
    /\ workerPc[w] = "claim"
    /\ LockFree
    /\ queuedJobs > 0
    /\ IF queue = <<>>
       THEN /\ inFlightJobs' = Dec(inFlightJobs + 1)
            /\ queuedJobs' = 0
            /\ Goto(w, "snapshot")
            /\ UNCHANGED <<queue, current, fate>>
       ELSE /\ inFlightJobs' = inFlightJobs + 1
            /\ queuedJobs' = Dec(queuedJobs)
            /\ queue' = RestOfQueue
            /\ current' = [current EXCEPT ![w] = NextJob]
            /\ fate' = [fate EXCEPT ![NextJob] = "running"]
            /\ Goto(w, "handle")
    /\ UNCHANGED <<unfinished, stopEvent, enqueuing, sawIdle, closerVars>>

(* Mutation: task_done after the handler instead of in finally. *)
HandlerEndsNoFinally(w) ==
    /\ workerPc[w] = "handle"
    /\ \/ /\ fate' = [fate EXCEPT ![current[w]] = "handled"]
          /\ unfinished' = unfinished - 1
       \/ /\ fate' = [fate EXCEPT ![current[w]] = "failed"]
          /\ UNCHANGED unfinished
    /\ current' = [current EXCEPT ![w] = NoJob]
    /\ Goto(w, "release")
    /\ UNCHANGED <<queue, queuedJobs, inFlightJobs, stopEvent, enqueuing, sawIdle,
                   closerVars>>

(* The handler returns or raises an Exception (logged); either way the     *)
(* finally clause calls task_done.                                         *)
HandlerEnds(w) ==
    /\ workerPc[w] = "handle"
    /\ \E outcome \in {"handled", "failed"} :
           fate' = [fate EXCEPT ![current[w]] = outcome]
    /\ unfinished' = unfinished - 1
    /\ current' = [current EXCEPT ![w] = NoJob]
    /\ Goto(w, "release")
    /\ UNCHANGED <<queue, queuedJobs, inFlightJobs, stopEvent, enqueuing, sawIdle,
                   closerVars>>

ReleaseInFlight(w) ==
    /\ workerPc[w] = "release"
    /\ LockFree
    /\ inFlightJobs' = Dec(inFlightJobs)
    /\ Goto(w, "snapshot")
    /\ UNCHANGED <<queue, queuedJobs, unfinished, stopEvent, enqueuing, sawIdle,
                   current, closerVars, fate>>

Worker(w) ==
    \/ WorkerSnapshot(w)
    \/ WorkerDecide(w)
    \/ ClaimNothing(w)
    \/ ClaimJob(w)
    \/ HandlerEnds(w)
    \/ ReleaseInFlight(w)

-----------------------------------------------------------------------------
(* The closing thread: close of ParseAndSyncInteractor waits for idle and  *)
(* drains only when it saw idle; shutdown is also called on its own.       *)

CloseBegin ==
    /\ closer = "open"
    /\ closer' = "await_idle"
    /\ UNCHANGED <<queue, countVars, stopEvent, enqueuing, workerVars, drain, report,
                   fate>>

(* wait_for_idle returns True on a snapshot that is idle, and False when   *)
(* the deadline passes on one that is not.                                 *)
CloseIdleWaited ==
    /\ closer = "await_idle"
    /\ LockFree
    /\ drain' = IsIdle
    /\ closer' = "shutdown"
    /\ UNCHANGED <<queue, countVars, stopEvent, enqueuing, workerVars, report, fate>>

ShutdownCalled ==
    /\ closer = "open"
    /\ drain' \in BOOLEAN
    /\ closer' = "shutdown"
    /\ UNCHANGED <<queue, countVars, stopEvent, enqueuing, workerVars, report, fate>>

SetStop ==
    /\ closer = "shutdown"
    /\ stopEvent' = TRUE
    /\ closer' = IF drain THEN "drain" ELSE "clear"
    /\ UNCHANGED <<queue, countVars, enqueuing, workerVars, drain, report, fate>>

DrainWaited ==
    /\ closer = "drain"
    /\ LockFree
    /\ report' = [report EXCEPT !.waited = IsIdle]
    /\ closer' = "join"
    /\ UNCHANGED <<queue, countVars, stopEvent, enqueuing, workerVars, drain, fate>>

(* One iteration of _clear_queued_jobs, up to the release of the lock. *)
ClearPop ==
    /\ closer = "clear"
    /\ LockFree
    /\ queuedJobs > 0
    /\ IF queue = <<>>
       THEN /\ queuedJobs' = 0
            /\ closer' = "join"
            /\ UNCHANGED <<queue, fate>>
       ELSE /\ queue' = RestOfQueue
            /\ queuedJobs' = Dec(queuedJobs)
            /\ fate' = [fate EXCEPT ![NextJob] = "canceled"]
            /\ closer' = "clear_done"
    /\ UNCHANGED <<inFlightJobs, unfinished, stopEvent, enqueuing, workerVars, drain,
                   report>>

ClearTaskDone ==
    /\ closer = "clear_done"
    /\ unfinished' = unfinished - 1
    /\ report' = [report EXCEPT !.canceled = @ + 1]
    /\ closer' = "clear"
    /\ UNCHANGED <<queue, queuedJobs, inFlightJobs, stopEvent, enqueuing, workerVars,
                   drain, fate>>

ClearEnds ==
    /\ closer = "clear"
    /\ LockFree
    /\ queuedJobs <= 0
    /\ closer' = "join"
    /\ UNCHANGED <<queue, countVars, stopEvent, enqueuing, workerVars, drain, report,
                   fate>>

(* The joins return when the workers are gone or the deadline has passed;  *)
(* either way is_alive is read next and the snapshot is taken after it.    *)
Joined ==
    /\ closer = "join"
    /\ report' = [report EXCEPT !.alive = Cardinality(Workers \ Exited)]
    /\ closer' = "joined"
    /\ UNCHANGED <<queue, countVars, stopEvent, enqueuing, workerVars, drain, fate>>

(* Mutation: a report that forgets the jobs in flight. *)
ReportWithoutInFlight ==
    /\ closer = "joined"
    /\ LockFree
    /\ report' = [report EXCEPT !.made = TRUE, !.idle = IsIdle, !.depth = queuedJobs]
    /\ closer' = "closed"
    /\ UNCHANGED <<queue, countVars, stopEvent, enqueuing, workerVars, drain, fate>>

ReportMade ==
    /\ closer = "joined"
    /\ LockFree
    /\ report' = [report EXCEPT !.made = TRUE, !.idle = IsIdle,
                                !.depth = queuedJobs, !.inFlight = inFlightJobs]
    /\ closer' = "closed"
    /\ UNCHANGED <<queue, countVars, stopEvent, enqueuing, workerVars, drain, fate>>

Closer ==
    \/ CloseIdleWaited
    \/ SetStop
    \/ DrainWaited
    \/ ClearPop
    \/ ClearTaskDone
    \/ ClearEnds
    \/ Joined
    \/ ReportMade

(* Everything has stopped: the only stuttering the model needs to name. *)
Terminated ==
    /\ closer = "closed"
    /\ Exited = Workers
    /\ LockFree
    /\ UNCHANGED vars

-----------------------------------------------------------------------------
Next ==
    \/ \E j \in Jobs : Enqueue(j) \/ EnqueueReturn(j)
    \/ \E w \in Workers : Worker(w)
    \/ CloseBegin \/ ShutdownCalled
    \/ Closer
    \/ Terminated

(* Threads are scheduled; the lock is not held forever; handlers end (their *)
(* HTTP calls carry timeouts); deadlines pass.  Nobody has to offer a job   *)
(* or to close the queue.                                                   *)
Fairness ==
    /\ \A j \in Jobs : WF_vars(EnqueueReturn(j))
    /\ \A w \in Workers : WF_vars(Worker(w))
    /\ WF_vars(Closer)

Spec == Init /\ [][Next]_vars

FairSpec == Spec /\ Fairness

-----------------------------------------------------------------------------
(* Properties.                                                             *)

Fates == {"new", "rejected", "queued", "running", "handled", "failed", "canceled"}

(* Every variable keeps its type; in particular the counters of            *)
(* sync_queue.py and queue.Queue's unfinished_tasks never go negative      *)
(* (task_done raises ValueError when it would).                            *)
TypeOK ==
    /\ queue \in Seq(Jobs)
    /\ unfinished \in Nat
    /\ queuedJobs \in Nat
    /\ inFlightJobs \in Nat
    /\ stopEvent \in BOOLEAN
    /\ enqueuing \in Jobs \union {NoJob}
    /\ workerPc \in [Workers -> {"snapshot", "decide", "claim", "handle", "release",
                                 "exited"}]
    /\ sawIdle \in [Workers -> BOOLEAN]
    /\ current \in [Workers -> Jobs \union {NoJob}]
    /\ closer \in {"open", "await_idle", "shutdown", "drain", "clear", "clear_done",
                   "join", "joined", "closed"}
    /\ drain \in BOOLEAN
    /\ report \in [made : BOOLEAN, waited : BOOLEAN, idle : BOOLEAN, depth : Nat,
                   inFlight : Nat, canceled : Nat, alive : Nat]
    /\ fate \in [Jobs -> Fates]

Handling == {w \in Workers : workerPc[w] = "handle"}

Busy == {w \in Workers : workerPc[w] \in {"handle", "release"}}

(* The counters _queued_jobs and _in_flight_jobs, kept by hand next to the *)
(* queue, never drift from it: the queue.Empty resynchronisation of        *)
(* _claim_next_job and _clear_queued_jobs and every max(0, _) is dead code.*)
(* unfinished_tasks is balanced too, so task_done never raises.            *)
CountersMatch ==
    /\ queuedJobs = Len(queue)
    /\ inFlightJobs = Cardinality(Busy)
    /\ unfinished = Len(queue) + Cardinality(Handling)
                    + (IF closer = "clear_done" THEN 1 ELSE 0)

(* An idle_reached (or a True of wait_for_idle inside shutdown) is a       *)
(* promise that holds from then on: no accepted job is left, and none can  *)
(* be accepted later, although the stop event is set without the lock.     *)
IdleIsFinal ==
    (report.waited \/ report.idle) => Outstanding = {}

(* The report of shutdown hides no work: what is still outstanding is      *)
(* within remaining_depth plus in_flight_jobs, and canceled_jobs counts    *)
(* exactly the jobs that were canceled.                                    *)
ReportIsComplete ==
    report.made =>
        /\ Cardinality(Outstanding) <= report.depth + report.inFlight
        /\ report.canceled = Cardinality({j \in Jobs : fate[j] = "canceled"})

(* After the stop event is set every worker thread leaves _worker_loop, so *)
(* the joins of shutdown can succeed.                                      *)
WorkersExit == stopEvent ~> (Exited = Workers)

(* While nobody stops the queue an accepted job is eventually handled.     *)
AcceptedIsHandled ==
    \A j \in Jobs :
        fate[j] = "queued" ~> (stopEvent \/ fate[j] \in {"handled", "failed"})

(* What the shutdown tests assert of every drain that left no worker       *)
(* alive: remaining_depth == 0.  _worker_loop breaks it.                   *)
DrainLeavesNothing ==
    (report.made /\ drain /\ report.alive = 0) => report.depth = 0

(* The queue implements its contract.  It is open until the stop event is  *)
(* set and the enqueue that had already passed the check is through.       *)
Contract == INSTANCE JobQueueContract WITH
    Slots <- Cardinality(Workers),
    backlog <- queue,
    running <- {j \in Jobs : fate[j] = "running"},
    settled <- {j \in Jobs : fate[j] \in {"handled", "failed"}},
    canceled <- {j \in Jobs : fate[j] = "canceled"},
    open <- ~stopEvent \/ enqueuing # NoJob

(* Jobs start in the order they were accepted, within the bound of the     *)
(* queue, one per worker, and only a stopped queue cancels.                *)
ImplementsContract == Contract!Spec
=============================================================================
