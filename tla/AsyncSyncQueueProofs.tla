----------------------- MODULE AsyncSyncQueueProofs -----------------------
(***************************************************************************)
(* What holds of AsyncSyncQueue for every set of jobs and workers and      *)
(* every queue size.  The counters are proved first, because the type of   *)
(* unfinished_tasks (never negative) rests on them; where each job is      *)
(* comes second.                                                           *)
(***************************************************************************)
EXTENDS AsyncSyncQueue, FiniteSetTheorems, TLAPS

(* A worker has a job in its hands exactly while it runs the handler. *)
HandsFull == \A w \in Workers : workerPc[w] = "handle" <=> current[w] # NoJob

(* The counting invariant: inductive on its own. *)
CountInv == TypeOK /\ CountersMatch /\ HandsFull

(* The workers with a job in their hands are finitely many, so they can    *)
(* be counted.                                                             *)
LEMMA WorkerSetsFinite ==
    /\ IsFiniteSet(Busy) /\ Cardinality(Busy) \in Nat
    /\ IsFiniteSet(Handling) /\ Cardinality(Handling) \in Nat
<1>1. Busy \subseteq Workers /\ Handling \subseteq Workers
    BY DEF Busy, Handling
<1>2. IsFiniteSet(Busy) /\ IsFiniteSet(Handling)
    BY <1>1, WorkersAssumption, FS_Subset
<1>3. QED
    BY <1>2, FS_CardinalityType

(* A worker that claims a job joins a set of workers: one more. *)
LEMMA WorkerEnters ==
    ASSUME NEW S, IsFiniteSet(S), NEW x, x \notin S
    PROVE  Cardinality(S \union {x}) = Cardinality(S) + 1
BY FS_AddElement

(* A worker that gives its job up leaves a set of workers: one less. *)
LEMMA WorkerLeaves ==
    ASSUME NEW S, IsFiniteSet(S), NEW x \in S
    PROVE  /\ Cardinality(S \ {x}) = Cardinality(S) - 1
           /\ Cardinality(S) > 0
<1>1. Cardinality(S \ {x}) = Cardinality(S) - 1
    BY FS_RemoveElement
<1>2. Cardinality(S \ {x}) \in Nat /\ Cardinality(S) \in Nat
    BY FS_RemoveElement, FS_CardinalityType
<1>3. QED
    BY <1>1, <1>2

(* The constructor of AsyncSyncQueue establishes the counting invariant. *)
LEMMA CountInit == Init => CountInv
<1> SUFFICES ASSUME Init PROVE CountInv
    OBVIOUS
<1>1. Busy = {} /\ Handling = {}
    BY DEF Init, Busy, Handling
<1>2. TypeOK
    <2>1. queue \in Seq(Jobs)
        BY DEF Init
    <2>2. report \in [made : BOOLEAN, waited : BOOLEAN, idle : BOOLEAN, depth : Nat,
                      inFlight : Nat, canceled : Nat, alive : Nat]
        BY DEF Init
    <2>3. /\ workerPc \in [Workers -> {"snapshot", "decide", "claim", "handle",
                                      "release", "exited"}]
          /\ sawIdle \in [Workers -> BOOLEAN]
          /\ current \in [Workers -> Jobs \union {NoJob}]
          /\ fate \in [Jobs -> Fates]
        BY DEF Init, Fates
    <2>4. QED
        BY <2>1, <2>2, <2>3 DEF Init, TypeOK
<1>3. CountersMatch
    BY <1>1, FS_EmptySet DEF Init, CountersMatch
<1>4. HandsFull
    BY DEF Init, HandsFull
<1>5. QED
    BY <1>2, <1>3, <1>4 DEF CountInv

(* Actions of no worker leave the workers' sets and hands alone. *)
LEMMA WorkersUnmoved ==
    ASSUME UNCHANGED workerVars
    PROVE  Busy' = Busy /\ Handling' = Handling /\ (HandsFull => HandsFull')
BY DEF workerVars, Busy, Handling, HandsFull

(* enqueue keeps the counts: put_nowait, unfinished_tasks and              *)
(* _queued_jobs move together under the lock.                              *)
LEMMA CountEnqueue ==
    ASSUME CountInv, NEW j \in Jobs, Enqueue(j) \/ EnqueueReturn(j)
    PROVE  CountInv'
<1> USE DEF CountInv
<1>1. UNCHANGED workerVars
    BY DEF Enqueue, EnqueueReturn, EnqueueRefused, EnqueueEnter, EnqueuePut,
           EnqueueFull
<1>2. CASE EnqueueRefused(j) \/ EnqueueEnter(j) \/ EnqueueFull(j)
    <2>1. TypeOK'
        BY <1>2 DEF EnqueueRefused, EnqueueEnter, EnqueueFull, TypeOK, Fates, countVars,
                    closerVars, workerVars
    <2>2. CountersMatch'
        BY <1>1, <1>2, WorkersUnmoved
           DEF EnqueueRefused, EnqueueEnter, EnqueueFull, CountersMatch, countVars,
               closerVars
    <2>3. QED
        BY <1>1, <2>1, <2>2, WorkersUnmoved
<1>3. CASE EnqueuePut(j)
    <2>1. TypeOK'
        BY <1>3 DEF EnqueuePut, TypeOK, Fates, closerVars, workerVars
    <2>2. Len(queue') = Len(queue) + 1
        BY <1>3 DEF EnqueuePut, TypeOK
    <2>3. CountersMatch'
        <3>1. Busy' = Busy /\ Handling' = Handling
            BY <1>1, WorkersUnmoved
        <3>2. /\ queuedJobs' = queuedJobs + 1
              /\ unfinished' = unfinished + 1
              /\ UNCHANGED <<inFlightJobs, closer>>
            BY <1>3 DEF EnqueuePut, closerVars
        <3>3. Len(queue) \in Nat
            BY DEF TypeOK
        <3>4. queuedJobs' = Len(queue') /\ inFlightJobs' = Cardinality(Busy')
            BY <2>2, <3>1, <3>2, <3>3 DEF CountersMatch
        <3>5. unfinished' = Len(queue') + Cardinality(Handling')
                            + (IF closer' = "clear_done" THEN 1 ELSE 0)
            BY <2>2, <3>1, <3>2, <3>3, WorkerSetsFinite DEF CountersMatch
        <3>6. QED
            BY <3>4, <3>5 DEF CountersMatch
    <2>4. QED
        BY <1>1, <2>1, <2>3, WorkersUnmoved
<1>4. QED
    BY <1>2, <1>3 DEF Enqueue, EnqueueReturn

(* A worker that only looks around stays out of both sets. *)
LEMMA CountWorkerIdles ==
    ASSUME CountInv, NEW w \in Workers,
           WorkerSnapshot(w) \/ WorkerDecide(w) \/ ClaimNothing(w)
    PROVE  CountInv'
<1> USE DEF CountInv
<1>1. PICK pc \in {"snapshot", "decide", "claim", "exited"} :
          workerPc' = [workerPc EXCEPT ![w] = pc]
    BY DEF WorkerSnapshot, WorkerDecide, ClaimNothing, Goto
<1>2. workerPc[w] \in {"snapshot", "decide", "claim"}
    BY DEF WorkerSnapshot, WorkerDecide, ClaimNothing
<1>3. UNCHANGED <<queue, countVars, current, closer>>
    BY DEF WorkerSnapshot, WorkerDecide, ClaimNothing, closerVars
<1>4. Busy' = Busy /\ Handling' = Handling
    BY <1>1, <1>2 DEF Busy, Handling, TypeOK
<1>5. TypeOK'
    <2>1. sawIdle' \in [Workers -> BOOLEAN]
        BY DEF WorkerSnapshot, WorkerDecide, ClaimNothing, IsIdle, TypeOK
    <2>2. UNCHANGED <<queue, countVars, stopEvent, enqueuing, current, closerVars, fate>>
        BY DEF WorkerSnapshot, WorkerDecide, ClaimNothing
    <2>3. workerPc' \in [Workers -> {"snapshot", "decide", "claim", "handle", "release",
                                    "exited"}]
        BY <1>1 DEF TypeOK
    <2>4. QED
        BY <2>1, <2>2, <2>3 DEF TypeOK, countVars, closerVars
<1>6. CountersMatch'
    BY <1>3, <1>4 DEF CountersMatch, countVars
<1>7. HandsFull'
    BY <1>1, <1>2, <1>3 DEF HandsFull, TypeOK
<1>8. QED
    BY <1>5, <1>6, <1>7

(* _claim_next_job keeps the counts: what leaves the queue is in flight,   *)
(* and queue.Empty cannot happen.                                          *)
LEMMA CountClaimJob ==
    ASSUME CountInv, NEW w \in Workers, ClaimJob(w)
    PROVE  CountInv'
<1> USE DEF CountInv
<1>1. queue # <<>>
    BY DEF ClaimJob, CountersMatch, TypeOK
<1>2. /\ NextJob \in Jobs
      /\ RestOfQueue \in Seq(Jobs)
      /\ Len(RestOfQueue) = Len(queue) - 1
    BY <1>1 DEF NextJob, RestOfQueue, TypeOK
<1>3. /\ workerPc[w] = "claim"
      /\ inFlightJobs' = inFlightJobs + 1
      /\ queuedJobs' = Dec(queuedJobs)
      /\ queuedJobs > 0
      /\ queue' = RestOfQueue
      /\ current' = [current EXCEPT ![w] = NextJob]
      /\ fate' = [fate EXCEPT ![NextJob] = "running"]
      /\ workerPc' = [workerPc EXCEPT ![w] = "handle"]
      /\ UNCHANGED <<unfinished, stopEvent, enqueuing, sawIdle, closerVars>>
    BY <1>1 DEF ClaimJob, Goto
<1>4. /\ w \notin Busy /\ Busy' = Busy \union {w}
      /\ w \notin Handling /\ Handling' = Handling \union {w}
    BY <1>3 DEF Busy, Handling, TypeOK
<1>5. TypeOK'
    BY <1>2, <1>3 DEF TypeOK, Fates, Dec, closerVars
<1>6. CountersMatch'
    <2>1. /\ Cardinality(Busy') = Cardinality(Busy) + 1
          /\ Cardinality(Handling') = Cardinality(Handling) + 1
        BY <1>4, WorkerSetsFinite, WorkerEnters
    <2>2. queuedJobs' = queuedJobs - 1 /\ closer' = closer
        BY <1>3 DEF Dec, TypeOK, closerVars
    <2>3. Len(queue') = Len(queue) - 1 /\ Len(queue) \in Nat
        BY <1>2, <1>3 DEF TypeOK
    <2>4. inFlightJobs' = inFlightJobs + 1 /\ unfinished' = unfinished
        BY <1>3
    <2>5. QED
        BY <2>1, <2>2, <2>3, <2>4, WorkerSetsFinite DEF CountersMatch
<1>7. HandsFull'
    BY <1>2, <1>3, NoJobAssumption DEF HandsFull, TypeOK
<1>8. QED
    BY <1>5, <1>6, <1>7

(* The finally clause keeps the counts: task_done has a put to match. *)
LEMMA CountHandlerEnds ==
    ASSUME CountInv, NEW w \in Workers, HandlerEnds(w)
    PROVE  CountInv'
<1> USE DEF CountInv
<1>1. /\ workerPc[w] = "handle"
      /\ unfinished' = unfinished - 1
      /\ current' = [current EXCEPT ![w] = NoJob]
      /\ workerPc' = [workerPc EXCEPT ![w] = "release"]
      /\ UNCHANGED <<queue, queuedJobs, inFlightJobs, stopEvent, enqueuing, sawIdle,
                     closerVars>>
    BY DEF HandlerEnds, Goto
<1>2. PICK outcome \in {"handled", "failed"} :
          fate' = [fate EXCEPT ![current[w]] = outcome]
    BY DEF HandlerEnds
<1>3. Busy' = Busy /\ w \in Handling /\ Handling' = Handling \ {w}
    BY <1>1 DEF Busy, Handling, TypeOK
<1>4. /\ Cardinality(Handling') = Cardinality(Handling) - 1
      /\ Cardinality(Handling) > 0
    BY <1>3, WorkerSetsFinite, WorkerLeaves
<1>5. unfinished > 0
    BY <1>1, <1>4, WorkerSetsFinite DEF CountersMatch, TypeOK
<1>6. TypeOK'
    <2>1. fate' \in [Jobs -> Fates]
        BY <1>2 DEF TypeOK, Fates
    <2>2. unfinished' \in Nat
        BY <1>1, <1>5 DEF TypeOK
    <2>3. /\ workerPc' \in [Workers -> {"snapshot", "decide", "claim", "handle",
                                       "release", "exited"}]
          /\ current' \in [Workers -> Jobs \union {NoJob}]
        BY <1>1 DEF TypeOK
    <2>4. QED
        BY <1>1, <2>1, <2>2, <2>3 DEF TypeOK, closerVars
<1>7. CountersMatch'
    <2>1. closer' = closer
        BY <1>1 DEF closerVars
    <2>2. QED
        <3>1. Len(queue) \in Nat /\ UNCHANGED <<queue, queuedJobs, inFlightJobs>>
            BY <1>1 DEF TypeOK
        <3>2. unfinished' = unfinished - 1
            BY <1>1
        <3>3. QED
            BY <1>3, <1>4, <2>1, <3>1, <3>2, WorkerSetsFinite DEF CountersMatch
<1>8. HandsFull'
    BY <1>1 DEF HandsFull, TypeOK
<1>9. QED
    BY <1>6, <1>7, <1>8

(* _release_in_flight keeps the counts: the worker it is called by was     *)
(* counted.                                                                *)
LEMMA CountReleaseInFlight ==
    ASSUME CountInv, NEW w \in Workers, ReleaseInFlight(w)
    PROVE  CountInv'
<1> USE DEF CountInv
<1>1. /\ workerPc[w] = "release"
      /\ inFlightJobs' = Dec(inFlightJobs)
      /\ workerPc' = [workerPc EXCEPT ![w] = "snapshot"]
      /\ UNCHANGED <<queue, queuedJobs, unfinished, stopEvent, enqueuing, sawIdle,
                     current, closerVars, fate>>
    BY DEF ReleaseInFlight, Goto
<1>2. Handling' = Handling /\ w \in Busy /\ Busy' = Busy \ {w}
    BY <1>1 DEF Busy, Handling, TypeOK
<1>3. /\ Cardinality(Busy') = Cardinality(Busy) - 1
      /\ Cardinality(Busy) > 0
    BY <1>2, WorkerSetsFinite, WorkerLeaves
<1>4. TypeOK'
    BY <1>1 DEF TypeOK, Dec, closerVars
<1>5. CountersMatch'
    <2>1. inFlightJobs' = inFlightJobs - 1 /\ closer' = closer
        BY <1>1, <1>3 DEF Dec, CountersMatch, closerVars
    <2>2. QED
        BY <1>1, <1>2, <1>3, <2>1, WorkerSetsFinite DEF CountersMatch, TypeOK
<1>6. HandsFull'
    BY <1>1 DEF HandsFull, TypeOK
<1>7. QED
    BY <1>4, <1>5, <1>6

(* Every step of _worker_loop keeps the counts. *)
LEMMA CountWorker ==
    ASSUME CountInv, NEW w \in Workers, Worker(w)
    PROVE  CountInv'
BY CountWorkerIdles, CountClaimJob, CountHandlerEnds, CountReleaseInFlight DEF Worker

(* The closing thread's steps that neither take a job nor settle one. *)
LEMMA CountCloserLooks ==
    ASSUME CountInv,
           \/ CloseBegin \/ ShutdownCalled \/ CloseIdleWaited \/ SetStop
           \/ DrainWaited \/ ClearEnds \/ Joined \/ ReportMade
    PROVE  CountInv'
<1> USE DEF CountInv
<1>1. /\ UNCHANGED <<queue, countVars, enqueuing, workerVars, fate>>
      /\ closer # "clear_done" /\ closer' # "clear_done"
      /\ stopEvent' \in BOOLEAN
      /\ closer' \in {"await_idle", "shutdown", "drain", "clear", "join", "joined",
                      "closed"}
      /\ drain' \in BOOLEAN
    BY DEF CloseBegin, ShutdownCalled, CloseIdleWaited, SetStop, DrainWaited,
           ClearEnds, Joined, ReportMade, TypeOK, IsIdle
<1>2. Busy' = Busy /\ Handling' = Handling /\ HandsFull'
    BY <1>1, WorkersUnmoved
<1>3. report' \in [made : BOOLEAN, waited : BOOLEAN, idle : BOOLEAN, depth : Nat,
                   inFlight : Nat, canceled : Nat, alive : Nat]
    <2>1. Cardinality(Workers \ Exited) \in Nat
        BY WorkersAssumption, FS_Subset, FS_CardinalityType
    <2>2. QED
        BY <2>1 DEF CloseBegin, ShutdownCalled, CloseIdleWaited, SetStop, DrainWaited,
                    ClearEnds, Joined, ReportMade, TypeOK, IsIdle
<1>4. TypeOK'
    BY <1>1, <1>3 DEF TypeOK, countVars, workerVars
<1>5. CountersMatch'
    BY <1>1, <1>2 DEF CountersMatch, countVars
<1>6. QED
    BY <1>2, <1>4, <1>5

(* The locked part of _clear_queued_jobs keeps the counts, its task_done   *)
(* being still due.                                                        *)
LEMMA CountClearPop ==
    ASSUME CountInv, ClearPop
    PROVE  CountInv'
<1> USE DEF CountInv
<1>1. queue # <<>>
    BY DEF ClearPop, CountersMatch, TypeOK
<1>2. /\ NextJob \in Jobs
      /\ RestOfQueue \in Seq(Jobs)
      /\ Len(RestOfQueue) = Len(queue) - 1
    BY <1>1 DEF NextJob, RestOfQueue, TypeOK
<1>3. /\ closer = "clear" /\ closer' = "clear_done"
      /\ queuedJobs > 0 /\ queuedJobs' = Dec(queuedJobs)
      /\ queue' = RestOfQueue
      /\ fate' = [fate EXCEPT ![NextJob] = "canceled"]
      /\ UNCHANGED <<inFlightJobs, unfinished, stopEvent, enqueuing, workerVars, drain,
                     report>>
    BY <1>1 DEF ClearPop
<1>4. Busy' = Busy /\ Handling' = Handling /\ HandsFull'
    BY <1>3, WorkersUnmoved
<1>5. TypeOK'
    BY <1>2, <1>3 DEF TypeOK, Fates, Dec, workerVars
<1>6. CountersMatch'
    <2>1. queuedJobs' = queuedJobs - 1
        BY <1>3 DEF Dec, TypeOK
    <2>2. Len(queue') = Len(queue) - 1 /\ Len(queue) \in Nat
        BY <1>2, <1>3 DEF TypeOK
    <2>3. QED
        BY <1>3, <1>4, <2>1, <2>2, WorkerSetsFinite DEF CountersMatch
<1>7. QED
    BY <1>4, <1>5, <1>6

(* The task_done of _clear_queued_jobs keeps the counts: it matches the    *)
(* job just removed.                                                       *)
LEMMA CountClearTaskDone ==
    ASSUME CountInv, ClearTaskDone
    PROVE  CountInv'
<1> USE DEF CountInv
<1>1. /\ closer = "clear_done" /\ closer' = "clear"
      /\ unfinished' = unfinished - 1
      /\ report' = [report EXCEPT !.canceled = @ + 1]
      /\ UNCHANGED <<queue, queuedJobs, inFlightJobs, stopEvent, enqueuing, workerVars,
                     drain, fate>>
    BY DEF ClearTaskDone
<1>2. Busy' = Busy /\ Handling' = Handling /\ HandsFull'
    BY <1>1, WorkersUnmoved
<1>3. unfinished > 0
    BY <1>1, WorkerSetsFinite DEF CountersMatch, TypeOK
<1>4. TypeOK'
    <2>1. report' \in [made : BOOLEAN, waited : BOOLEAN, idle : BOOLEAN, depth : Nat,
                       inFlight : Nat, canceled : Nat, alive : Nat]
        BY <1>1 DEF TypeOK
    <2>2. unfinished' \in Nat
        BY <1>1, <1>3 DEF TypeOK
    <2>3. QED
        BY <1>1, <2>1, <2>2 DEF TypeOK, workerVars
<1>5. CountersMatch'
    BY <1>1, <1>2, WorkerSetsFinite DEF CountersMatch, TypeOK
<1>6. QED
    BY <1>2, <1>4, <1>5

(* Every step of the queue keeps the counts. *)
LEMMA CountStep == CountInv /\ [Next]_vars => CountInv'
<1> SUFFICES ASSUME CountInv, [Next]_vars PROVE CountInv'
    OBVIOUS
<1>1. CASE \E j \in Jobs : Enqueue(j) \/ EnqueueReturn(j)
    BY <1>1, CountEnqueue
<1>2. CASE \E w \in Workers : Worker(w)
    BY <1>2, CountWorker
<1>3. CASE CloseBegin \/ ShutdownCalled \/ Closer
    BY <1>3, CountCloserLooks, CountClearPop, CountClearTaskDone DEF Closer
<1>4. CASE Terminated \/ UNCHANGED vars
    BY <1>4 DEF Terminated, vars, countVars, workerVars, closerVars, CountInv, TypeOK,
                CountersMatch, HandsFull, Busy, Handling
<1>5. QED
    BY <1>1, <1>2, <1>3, <1>4 DEF Next

(* The types of the queue's state and the agreement of its hand-kept       *)
(* counters with the queue and the workers, in every reachable state.      *)
THEOREM SpecCounts == Spec => [](TypeOK /\ CountersMatch)
<1>1. CountInv => TypeOK /\ CountersMatch
    BY DEF CountInv
<1>2. QED
    BY CountInit, CountStep, <1>1, PTL DEF Spec

-----------------------------------------------------------------------------
(* What becomes of each job: an idleness that shutdown reports is final,   *)
(* and the queue with its threads, counters and locks implements           *)
(* JobQueueContract.  Both rest on one invariant that says where each job  *)
(* is.                                                                     *)

(* A job waits in the queue in one place exactly while its fate says so.   *)
QueuedOnce ==
    /\ \A j \in Jobs : fate[j] = "queued" <=> \E i \in 1..Len(queue) : queue[i] = j
    /\ \A i, k \in 1..Len(queue) : queue[i] = queue[k] => i = k

(* A job that runs is in the hands of one worker.                          *)
InOneHand ==
    /\ \A j \in Jobs : fate[j] = "running" <=> \E w \in Workers : current[w] = j
    /\ \A v, w \in Workers : current[v] = current[w] /\ current[v] # NoJob => v = w

(* The request that holds the lock is about a job nobody has yet.          *)
EnqueuingNew == enqueuing # NoJob => fate[enqueuing] = "new"

(* From SetStop on the stop event is set; after a reported idleness no     *)
(* accepted job is left and no enqueue is under way.                       *)
Closing ==
    /\ closer \in {"drain", "clear", "clear_done", "join", "joined", "closed"} => stopEvent
    /\ report.waited \/ report.idle => stopEvent /\ LockFree /\ Outstanding = {}

JobInv == CountInv /\ QueuedOnce /\ InOneHand /\ EnqueuingNew /\ Closing

(* The constructor: no job is anywhere. *)
LEMMA JobInit == Init => JobInv
<1> SUFFICES ASSUME Init PROVE JobInv
    OBVIOUS
<1>1. CountInv
    BY CountInit
<1>2. QueuedOnce
    BY DEF Init, QueuedOnce
<1>3. InOneHand
    BY NoJobAssumption DEF Init, InOneHand
<1>4. EnqueuingNew /\ Closing
    BY DEF Init, EnqueuingNew, Closing
<1> QED
    BY <1>1, <1>2, <1>3, <1>4 DEF JobInv

(* An idle snapshot leaves no accepted job out: none waits, and none is in *)
(* a worker's hands.                                                       *)
LEMMA IdleMeansNothingLeft ==
    ASSUME JobInv, IsIdle
    PROVE  Outstanding = {}
<1>1. Busy = {}
    <2>1. Cardinality(Busy) = 0
        BY DEF JobInv, CountInv, CountersMatch, IsIdle
    <2> QED
        BY <2>1, WorkerSetsFinite, FS_EmptySet
<1>2. \A w \in Workers : current[w] = NoJob
    BY <1>1 DEF JobInv, CountInv, HandsFull, Busy
<1>3. \A j \in Jobs : fate[j] # "running"
    BY <1>2, NoJobAssumption DEF JobInv, InOneHand
<1>4. \A j \in Jobs : fate[j] # "queued"
    <2>1. Len(queue) = 0
        BY DEF IsIdle
    <2> QED
        BY <2>1 DEF JobInv, QueuedOnce
<1> QED
    BY <1>3, <1>4 DEF Outstanding

(* enqueue puts a new job at the end of the queue or refuses it; after a   *)
(* reported idleness it can only refuse.                                   *)
LEMMA JobEnqueue ==
    ASSUME JobInv, NEW j \in Jobs, Enqueue(j) \/ EnqueueReturn(j)
    PROVE  JobInv'
<1>1. CountInv'
    BY CountEnqueue DEF JobInv
<1>2. UNCHANGED <<current, closerVars, stopEvent>>
    BY DEF Enqueue, EnqueueReturn, EnqueueRefused, EnqueueEnter, EnqueuePut,
           EnqueueFull, workerVars
<1>3. CASE EnqueueRefused(j) \/ EnqueueFull(j)
    <2>1. /\ fate[j] = "new" /\ fate' = [fate EXCEPT ![j] = "rejected"]
          /\ UNCHANGED queue
          /\ enqueuing' = NoJob
        BY <1>3, NoJobAssumption DEF EnqueueRefused, EnqueueFull, JobInv, EnqueuingNew,
                                     LockFree
    <2>2. fate \in [Jobs -> Fates]
        BY DEF JobInv, CountInv, TypeOK
    <2>3. QueuedOnce'
        BY <2>1, <2>2 DEF JobInv, QueuedOnce
    <2>4. InOneHand'
        BY <1>2, <2>1, <2>2 DEF JobInv, InOneHand
    <2>5. EnqueuingNew'
        BY <2>1 DEF EnqueuingNew
    <2>6. Outstanding' = Outstanding
        BY <2>1, <2>2 DEF Outstanding
    <2>7. Closing'
        BY <1>2, <2>1, <2>6 DEF JobInv, Closing, closerVars, LockFree
    <2> QED
        BY <1>1, <2>3, <2>4, <2>5, <2>7 DEF JobInv
<1>4. CASE EnqueueEnter(j)
    <2>1. /\ fate[j] = "new" /\ UNCHANGED <<fate, queue>>
          /\ ~stopEvent /\ enqueuing' = j
        BY <1>4 DEF EnqueueEnter
    <2>2. QueuedOnce' /\ InOneHand' /\ EnqueuingNew'
        BY <1>2, <2>1 DEF JobInv, QueuedOnce, InOneHand, EnqueuingNew
    <2>3. Closing'
        BY <1>2, <2>1 DEF JobInv, Closing, closerVars
    <2> QED
        BY <1>1, <2>2, <2>3 DEF JobInv
<1>5. CASE EnqueuePut(j)
    <2>1. /\ fate[j] = "new" /\ fate' = [fate EXCEPT ![j] = "queued"]
          /\ queue' = Append(queue, j)
          /\ enqueuing = j /\ enqueuing' = NoJob
        BY <1>5, NoJobAssumption DEF EnqueuePut, JobInv, EnqueuingNew
    <2>2. /\ fate \in [Jobs -> Fates] /\ queue \in Seq(Jobs)
        BY DEF JobInv, CountInv, TypeOK
    <2>3. /\ Len(queue') = Len(queue) + 1 /\ Len(queue) \in Nat
          /\ \A i \in 1..Len(queue) : queue'[i] = queue[i]
          /\ queue'[Len(queue) + 1] = j
        BY <2>1, <2>2
    <2>4. \A i \in 1..Len(queue) : queue[i] # j /\ queue[i] \in Jobs
        BY <2>1, <2>2 DEF JobInv, QueuedOnce
    <2>5. QueuedOnce'
        <3>1. ASSUME NEW k \in Jobs
              PROVE  fate'[k] = "queued" <=> \E i \in 1..Len(queue') : queue'[i] = k
            <4>1. CASE k = j
                BY <2>1, <2>2, <2>3, <4>1
            <4>2. CASE k # j
                BY <2>1, <2>2, <2>3, <4>2 DEF JobInv, QueuedOnce
            <4> QED
                BY <4>1, <4>2
        <3>2. \A i, k \in 1..Len(queue') : queue'[i] = queue'[k] => i = k
            BY <2>3, <2>4 DEF JobInv, QueuedOnce
        <3> QED
            BY <3>1, <3>2 DEF QueuedOnce
    <2>6. InOneHand'
        BY <1>2, <2>1, <2>2 DEF JobInv, InOneHand
    <2>7. EnqueuingNew'
        BY <2>1 DEF EnqueuingNew
    <2>8. Closing'
        BY <1>2, <2>1, NoJobAssumption DEF JobInv, Closing, closerVars, LockFree
    <2> QED
        BY <1>1, <2>5, <2>6, <2>7, <2>8 DEF JobInv
<1> QED
    BY <1>3, <1>4, <1>5 DEF Enqueue, EnqueueReturn

(* A worker that only looks around, releases its slot or goes to sleep.    *)
LEMMA JobWorkerLooks ==
    ASSUME JobInv, NEW w \in Workers,
           WorkerSnapshot(w) \/ WorkerDecide(w) \/ ClaimNothing(w) \/ ReleaseInFlight(w)
    PROVE  JobInv'
<1>1. CountInv'
    BY CountWorkerIdles, CountReleaseInFlight DEF JobInv
<1>2. UNCHANGED <<queue, fate, current, enqueuing, stopEvent, closer, report>>
    BY DEF WorkerSnapshot, WorkerDecide, ClaimNothing, ReleaseInFlight, closerVars
<1>3. QueuedOnce' /\ InOneHand' /\ EnqueuingNew' /\ Closing'
    BY <1>2 DEF JobInv, QueuedOnce, InOneHand, EnqueuingNew, Closing, LockFree, Outstanding
<1> QED
    BY <1>1, <1>3 DEF JobInv

(* What the head of the queue is, and what a removal leaves.               *)
LEMMA HeadLeaves ==
    ASSUME JobInv, queue # <<>>
    PROVE  /\ NextJob \in Jobs /\ fate[NextJob] = "queued"
           /\ RestOfQueue \in Seq(Jobs)
           /\ \A j \in Jobs : (\E i \in 1..Len(RestOfQueue) : RestOfQueue[i] = j)
                <=> j # NextJob /\ fate[j] = "queued"
           /\ \A i, k \in 1..Len(RestOfQueue) : RestOfQueue[i] = RestOfQueue[k] => i = k
<1>1. queue \in Seq(Jobs)
    BY DEF JobInv, CountInv, TypeOK
<1>2. /\ Len(queue) \in Nat \ {0} /\ NextJob = queue[1] /\ queue[1] \in Jobs
      /\ RestOfQueue \in Seq(Jobs) /\ Len(RestOfQueue) = Len(queue) - 1
      /\ \A i \in 1..Len(queue) - 1 : RestOfQueue[i] = queue[i + 1]
    BY <1>1 DEF NextJob, RestOfQueue
<1>3. fate[NextJob] = "queued"
    BY <1>2 DEF JobInv, QueuedOnce
<1>4. ASSUME NEW j \in Jobs
      PROVE  (\E i \in 1..Len(RestOfQueue) : RestOfQueue[i] = j)
                <=> j # NextJob /\ fate[j] = "queued"
    <2>1. ASSUME NEW i \in 1..Len(RestOfQueue), RestOfQueue[i] = j
          PROVE  j # NextJob /\ fate[j] = "queued"
        <3>1. i + 1 \in 1..Len(queue) /\ queue[i + 1] = j /\ i + 1 # 1 /\ 1 \in 1..Len(queue)
            BY <1>2, <2>1
        <3> QED
            BY <1>2, <3>1 DEF JobInv, QueuedOnce
    <2>2. ASSUME j # NextJob, fate[j] = "queued"
          PROVE  \E i \in 1..Len(RestOfQueue) : RestOfQueue[i] = j
        <3>1. PICK k \in 1..Len(queue) : queue[k] = j
            BY <2>2 DEF JobInv, QueuedOnce
        <3>2. k - 1 \in 1..Len(RestOfQueue) /\ RestOfQueue[k - 1] = j
            BY <1>2, <2>2, <3>1
        <3> QED
            BY <3>2
    <2> QED
        BY <2>1, <2>2
<1>5. \A i, k \in 1..Len(RestOfQueue) : RestOfQueue[i] = RestOfQueue[k] => i = k
    BY <1>2 DEF JobInv, QueuedOnce
<1> QED
    BY <1>2, <1>3, <1>4, <1>5

(* A claim takes the head of the queue into one hand that was empty.       *)
LEMMA JobClaim ==
    ASSUME JobInv, NEW w \in Workers, ClaimJob(w)
    PROVE  /\ JobInv'
           /\ queue # <<>> /\ queue' = RestOfQueue
           /\ fate' = [fate EXCEPT ![NextJob] = "running"]
           /\ workerPc[w] = "claim"
<1>1. CountInv'
    BY CountClaimJob DEF JobInv
<1>2. queue # <<>>
    BY DEF ClaimJob, JobInv, CountInv, CountersMatch, TypeOK
<1>3. /\ workerPc[w] = "claim" /\ LockFree
      /\ queue' = RestOfQueue
      /\ current' = [current EXCEPT ![w] = NextJob]
      /\ fate' = [fate EXCEPT ![NextJob] = "running"]
      /\ UNCHANGED <<stopEvent, enqueuing, closer, report>>
    BY <1>2 DEF ClaimJob, closerVars
<1>4. /\ current \in [Workers -> Jobs \union {NoJob}] /\ fate \in [Jobs -> Fates]
      /\ current[w] = NoJob
    BY <1>3 DEF JobInv, CountInv, TypeOK, HandsFull
<1>5. QueuedOnce'
    BY <1>2, <1>3, <1>4, HeadLeaves DEF QueuedOnce
<1>6. \A v \in Workers : current[v] # NextJob
    BY <1>2, HeadLeaves DEF JobInv, InOneHand
<1>7. InOneHand'
    <2>1. ASSUME NEW j \in Jobs
          PROVE  fate'[j] = "running" <=> \E v \in Workers : current'[v] = j
        <3>1. CASE j = NextJob
            BY <1>3, <1>4, <3>1
        <3>2. CASE j # NextJob
            BY <1>3, <1>4, <3>2, NoJobAssumption DEF JobInv, InOneHand
        <3> QED
            BY <3>1, <3>2
    <2>2. \A u, v \in Workers : current'[u] = current'[v] /\ current'[u] # NoJob => u = v
        BY <1>3, <1>4, <1>6 DEF JobInv, InOneHand
    <2> QED
        BY <2>1, <2>2 DEF InOneHand
<1>8. EnqueuingNew'
    BY <1>3 DEF EnqueuingNew, LockFree
<1>9. Closing'
    <2>1. NextJob \in Outstanding
        BY <1>2, HeadLeaves DEF Outstanding
    <2> QED
        BY <1>3, <2>1 DEF JobInv, Closing
<1> QED
    BY <1>1, <1>2, <1>3, <1>5, <1>7, <1>8, <1>9 DEF JobInv

(* The end of a handler empties one hand.                                  *)
LEMMA JobHandlerEnds ==
    ASSUME JobInv, NEW w \in Workers, HandlerEnds(w)
    PROVE  /\ JobInv'
           /\ UNCHANGED queue
           /\ current[w] \in Jobs /\ fate[current[w]] = "running"
           /\ fate' = [fate EXCEPT ![current[w]] = "handled"]
                \/ fate' = [fate EXCEPT ![current[w]] = "failed"]
<1>1. CountInv'
    BY CountHandlerEnds DEF JobInv
<1>2. /\ workerPc[w] = "handle"
      /\ current' = [current EXCEPT ![w] = NoJob]
      /\ fate' = [fate EXCEPT ![current[w]] = "handled"]
           \/ fate' = [fate EXCEPT ![current[w]] = "failed"]
      /\ UNCHANGED <<queue, stopEvent, enqueuing, closer, report>>
    BY DEF HandlerEnds, closerVars
<1>3. current \in [Workers -> Jobs \union {NoJob}] /\ fate \in [Jobs -> Fates]
    BY DEF JobInv, CountInv, TypeOK
<1>4. current[w] \in Jobs /\ fate[current[w]] = "running"
    BY <1>2, <1>3 DEF JobInv, CountInv, HandsFull, InOneHand
<1>5. QueuedOnce'
    BY <1>2, <1>3, <1>4 DEF JobInv, QueuedOnce
<1>6. InOneHand'
    <2>1. ASSUME NEW j \in Jobs
          PROVE  fate'[j] = "running" <=> \E v \in Workers : current'[v] = j
        <3>1. CASE j = current[w]
            <4>1. \A v \in Workers : current'[v] # j
                BY <1>2, <1>3, <1>4, <3>1, NoJobAssumption DEF JobInv, InOneHand
            <4> QED
                BY <1>2, <1>3, <3>1, <4>1
        <3>2. CASE j # current[w]
            <4>1. fate'[j] = fate[j]
                BY <1>2, <1>3, <3>2
            <4>2. (\E v \in Workers : current'[v] = j) <=> \E v \in Workers : current[v] = j
                BY <1>2, <1>3, <3>2, NoJobAssumption
            <4> QED
                BY <4>1, <4>2 DEF JobInv, InOneHand
        <3> QED
            BY <3>1, <3>2
    <2>2. \A u, v \in Workers : current'[u] = current'[v] /\ current'[u] # NoJob => u = v
        BY <1>2, <1>3 DEF JobInv, InOneHand
    <2> QED
        BY <2>1, <2>2 DEF InOneHand
<1>7. EnqueuingNew'
    BY <1>2, <1>3, <1>4 DEF JobInv, CountInv, TypeOK, EnqueuingNew
<1>8. Closing'
    <2>1. current[w] \in Outstanding
        BY <1>4 DEF Outstanding
    <2> QED
        BY <1>2, <2>1 DEF JobInv, Closing
<1> QED
    BY <1>1, <1>2, <1>4, <1>5, <1>6, <1>7, <1>8 DEF JobInv

(* The closing thread's steps that take no job.  An idle snapshot it makes *)
(* after SetStop with the lock free is final.                              *)
LEMMA JobCloserLooks ==
    ASSUME JobInv,
           \/ CloseBegin \/ ShutdownCalled \/ CloseIdleWaited \/ SetStop
           \/ DrainWaited \/ ClearEnds \/ Joined \/ ReportMade \/ ClearTaskDone
    PROVE  JobInv'
<1>1. CountInv'
    BY CountCloserLooks, CountClearTaskDone DEF JobInv
<1>2. UNCHANGED <<queue, enqueuing, fate, current>> /\ (stopEvent => stopEvent')
    BY DEF CloseBegin, ShutdownCalled, CloseIdleWaited, SetStop, DrainWaited, ClearEnds,
           Joined, ReportMade, ClearTaskDone, workerVars
<1>3. QueuedOnce' /\ InOneHand' /\ EnqueuingNew'
    BY <1>2 DEF JobInv, QueuedOnce, InOneHand, EnqueuingNew
<1>4. Outstanding' = Outstanding /\ LockFree' = LockFree
    BY <1>2 DEF Outstanding, LockFree
<1>5. closer' \in {"drain", "clear", "clear_done", "join", "joined", "closed"} => stopEvent'
    BY DEF JobInv, CountInv, TypeOK, Closing, CloseBegin, ShutdownCalled, CloseIdleWaited, SetStop, DrainWaited,
           ClearEnds, Joined, ReportMade, ClearTaskDone
<1>6. ASSUME report'.waited \/ report'.idle
      PROVE  stopEvent' /\ LockFree' /\ Outstanding' = {}
    <2>1. CASE report.waited \/ report.idle
        BY <1>2, <1>4, <2>1 DEF JobInv, Closing
    <2>2. CASE ~(report.waited \/ report.idle)
        <3>1. /\ DrainWaited \/ ReportMade
              /\ IsIdle
            BY <1>6, <2>2 DEF JobInv, CountInv, TypeOK, CloseBegin, ShutdownCalled, CloseIdleWaited,
               SetStop, DrainWaited, ClearEnds, Joined, ReportMade, ClearTaskDone
        <3>2. stopEvent /\ LockFree
            BY <3>1 DEF JobInv, Closing, DrainWaited, ReportMade
        <3> QED
            BY <1>2, <1>4, <3>1, <3>2, IdleMeansNothingLeft
    <2> QED
        BY <2>1, <2>2
<1>7. Closing'
    BY <1>5, <1>6 DEF Closing
<1> QED
    BY <1>1, <1>3, <1>7 DEF JobInv

(* The clear takes the head of the queue and cancels it.                   *)
LEMMA JobClearPop ==
    ASSUME JobInv, ClearPop
    PROVE  /\ JobInv'
           /\ queue # <<>> /\ queue' = RestOfQueue
           /\ fate' = [fate EXCEPT ![NextJob] = "canceled"]
<1>1. CountInv'
    BY CountClearPop DEF JobInv
<1>2. queue # <<>>
    BY DEF ClearPop, JobInv, CountInv, CountersMatch, TypeOK
<1>3. /\ closer = "clear" /\ closer' = "clear_done" /\ LockFree
      /\ queue' = RestOfQueue
      /\ fate' = [fate EXCEPT ![NextJob] = "canceled"]
      /\ UNCHANGED <<stopEvent, enqueuing, current, report>>
    BY <1>2 DEF ClearPop, workerVars
<1>4. fate \in [Jobs -> Fates]
    BY DEF JobInv, CountInv, TypeOK
<1>5. QueuedOnce'
    BY <1>2, <1>3, <1>4, HeadLeaves DEF QueuedOnce
<1>6. InOneHand'
    BY <1>2, <1>3, <1>4, HeadLeaves DEF JobInv, InOneHand
<1>7. EnqueuingNew'
    BY <1>3 DEF EnqueuingNew, LockFree
<1>8. Closing'
    <2>1. NextJob \in Outstanding
        BY <1>2, HeadLeaves DEF Outstanding
    <2> QED
        BY <1>3, <2>1 DEF JobInv, Closing
<1> QED
    BY <1>1, <1>2, <1>3, <1>5, <1>6, <1>7, <1>8 DEF JobInv

(* Every step of the queue keeps the invariant.                            *)
LEMMA JobStep == JobInv /\ [Next]_vars => JobInv'
<1> SUFFICES ASSUME JobInv, [Next]_vars PROVE JobInv'
    OBVIOUS
<1>1. CASE \E j \in Jobs : Enqueue(j) \/ EnqueueReturn(j)
    BY <1>1, JobEnqueue
<1>2. CASE \E w \in Workers : Worker(w)
    BY <1>2, JobWorkerLooks, JobClaim, JobHandlerEnds DEF Worker
<1>3. CASE CloseBegin \/ ShutdownCalled \/ Closer
    BY <1>3, JobCloserLooks, JobClearPop DEF Closer
<1>4. CASE Terminated \/ UNCHANGED vars
    <2>1. UNCHANGED vars
        BY <1>4 DEF Terminated
    <2>2. CountInv'
        BY <2>1, CountStep DEF JobInv
    <2>3. UNCHANGED <<queue, fate, current, enqueuing, stopEvent, closer, report>>
        BY <2>1 DEF vars, workerVars, closerVars
    <2> QED
        BY <2>2, <2>3 DEF JobInv, QueuedOnce, InOneHand, EnqueuingNew, Closing, LockFree,
                          Outstanding
<1> QED
    BY <1>1, <1>2, <1>3, <1>4 DEF Next

(* Every reachable state satisfies the invariant.                          *)
LEMMA SpecJobInv == Spec => []JobInv
BY JobInit, JobStep, PTL DEF Spec

(* An idleness that shutdown reports is final: no accepted job is left,    *)
(* and none is accepted later.                                             *)
THEOREM SpecIdleIsFinal == Spec => []IdleIsFinal
<1>1. JobInv => IdleIsFinal
    BY DEF JobInv, Closing, IdleIsFinal
<1> QED
    BY SpecJobInv, <1>1, PTL
-----------------------------------------------------------------------------
(* The report of shutdown                                                  *)

Running == {j \in Jobs : fate[j] = "running"}

Canceled == {j \in Jobs : fate[j] = "canceled"}

(* As many jobs run as workers handle one, at most.                        *)
LEMMA RunningInHands ==
    ASSUME JobInv
    PROVE  IsFiniteSet(Running) /\ Cardinality(Running) <= Cardinality(Handling)
<1> DEFINE hand == [v \in Handling |-> current[v]]
<1>1. /\ \A v \in Workers : workerPc[v] = "handle" <=> current[v] # NoJob
      /\ current \in [Workers -> Jobs \union {NoJob}]
    BY DEF JobInv, CountInv, TypeOK, HandsFull
<1>2. hand \in Surjection(Handling, Running)
    <2>1. ASSUME NEW v \in Handling PROVE current[v] \in Running
        BY <1>1 DEF Handling, JobInv, InOneHand, Running
    <2>2. ASSUME NEW j \in Running PROVE \E v \in Handling : current[v] = j
        BY <1>1, <2>2, NoJobAssumption DEF Handling, JobInv, InOneHand, Running
    <2> QED
        BY <2>1, <2>2 DEF Surjection
<1> QED
    BY <1>2, WorkerSetsFinite, FS_Surjection

(* The accepted jobs are those in the queue and those in a worker's hands. *)
LEMMA OutstandingCounted ==
    ASSUME JobInv
    PROVE  /\ IsFiniteSet(Outstanding)
           /\ Cardinality(Outstanding) <= queuedJobs + inFlightJobs
<1> DEFINE waiting == {j \in Jobs : fate[j] = "queued"}
<1>1. queue \in Seq(Jobs) /\ Len(queue) \in Nat
    BY DEF JobInv, CountInv, TypeOK
<1>2. IsFiniteSet(1..Len(queue)) /\ Cardinality(1..Len(queue)) = Len(queue)
    BY <1>1, FS_Interval
<1>3. queue \in Surjection(1..Len(queue), waiting)
    <2>1. queue \in [1..Len(queue) -> waiting]
        BY <1>1 DEF JobInv, QueuedOnce
    <2> QED
        BY <2>1 DEF Surjection, JobInv, QueuedOnce
<1>4. IsFiniteSet(waiting) /\ Cardinality(waiting) <= Len(queue)
    BY <1>2, <1>3, FS_Surjection
<1>5. Outstanding = waiting \union Running
    BY DEF Outstanding, Running
<1>6. /\ IsFiniteSet(Outstanding)
      /\ Cardinality(Outstanding) <= Cardinality(waiting) + Cardinality(Running)
    <2> HIDE DEF waiting
    <2>1. IsFiniteSet(waiting \intersect Running)
        BY <1>4, FS_Subset
    <2>2. IsFiniteSet(waiting) /\ IsFiniteSet(Running)
        BY <1>4, RunningInHands
    <2>3. /\ IsFiniteSet(waiting \union Running)
          /\ Cardinality(waiting \union Running)
               = Cardinality(waiting) + Cardinality(Running)
                   - Cardinality(waiting \intersect Running)
        BY <2>2, FS_Union
    <2>4. /\ Cardinality(waiting) \in Nat /\ Cardinality(Running) \in Nat
          /\ Cardinality(waiting \intersect Running) \in Nat
        BY <2>1, <2>2, FS_CardinalityType
    <2> QED
        BY <1>5, <2>3, <2>4
<1>7. Cardinality(Handling) <= Cardinality(Busy)
    <2>1. Handling \in SUBSET Busy
        BY DEF Handling, Busy
    <2> QED
        BY <2>1, WorkerSetsFinite, FS_Subset
<1>8. queuedJobs = Len(queue) /\ inFlightJobs = Cardinality(Busy)
    BY DEF JobInv, CountInv, CountersMatch
<1> QED
    BY <1>1, <1>4, <1>6, <1>7, <1>8, RunningInHands, WorkerSetsFinite, FS_CardinalityType

(* The report counts the jobs that were canceled, the one whose task_done  *)
(* is due not yet; once it is made, what it says bounds what is left.      *)
Reported ==
    /\ IsFiniteSet(Canceled)
    /\ Cardinality(Canceled) = report.canceled + (IF closer = "clear_done" THEN 1 ELSE 0)
    /\ report.made =>
         /\ closer = "closed" /\ stopEvent /\ LockFree
         /\ IsFiniteSet(Outstanding)
         /\ Cardinality(Outstanding) <= report.depth + report.inFlight

(* Nothing is canceled or reported at the start. *)
LEMMA ReportedInit == Init => Reported
<1> SUFFICES ASSUME Init PROVE Reported
    OBVIOUS
<1>1. Canceled = {}
    BY DEF Init, Canceled
<1> QED
    BY <1>1, FS_EmptySet DEF Init, Reported

(* A step that cancels nothing and accepts nothing new after the report.   *)
LEMMA NothingReported ==
    ASSUME JobInv, Reported, Canceled' = Canceled, UNCHANGED closerVars,
           report.made => Outstanding' \subseteq Outstanding /\ LockFree' /\ stopEvent'
    PROVE  Reported'
<1>1. Cardinality(Canceled') = report'.canceled + (IF closer' = "clear_done" THEN 1 ELSE 0)
    BY DEF Reported, closerVars
<1>2. IsFiniteSet(Canceled')
    BY DEF Reported
<1>3. ASSUME report'.made
      PROVE  /\ closer' = "closed" /\ stopEvent' /\ LockFree'
             /\ IsFiniteSet(Outstanding')
             /\ Cardinality(Outstanding') <= report'.depth + report'.inFlight
    <2>1. /\ report' = report /\ report.made /\ closer' = closer
          /\ IsFiniteSet(Outstanding) /\ Outstanding' \in SUBSET Outstanding
          /\ closer = "closed"
        BY <1>3 DEF Reported, closerVars
    <2>2. /\ IsFiniteSet(Outstanding')
          /\ Cardinality(Outstanding') <= Cardinality(Outstanding)
        BY <2>1, FS_Subset
    <2>3. Cardinality(Outstanding') \in Nat /\ Cardinality(Outstanding) \in Nat
        BY <2>1, <2>2, FS_CardinalityType
    <2>4. report.depth \in Nat /\ report.inFlight \in Nat
        BY DEF JobInv, CountInv, TypeOK
    <2> QED
        BY <2>1, <2>2, <2>3, <2>4 DEF Reported
<1> QED
    BY <1>1, <1>2, <1>3 DEF Reported

(* Requests and workers cancel nothing, and after the report the lock is   *)
(* only taken to refuse.                                                   *)
LEMMA ReportedOthers ==
    ASSUME JobInv, Reported,
           \/ \E j \in Jobs : Enqueue(j) \/ EnqueueReturn(j)
           \/ \E w \in Workers : Worker(w)
    PROVE  Reported'
<1>1. fate \in [Jobs -> Fates]
    BY DEF JobInv, CountInv, TypeOK
<1>2. CASE \E j \in Jobs : Enqueue(j) \/ EnqueueReturn(j)
    <2>1. PICK j \in Jobs : Enqueue(j) \/ EnqueueReturn(j)
        BY <1>2
    <2>2. fate[j] = "new" /\ UNCHANGED <<closerVars, stopEvent>>
        BY <2>1, NoJobAssumption DEF Enqueue, EnqueueReturn, EnqueueRefused, EnqueueEnter,
           EnqueuePut, EnqueueFull, JobInv, EnqueuingNew
    <2>3. \/ UNCHANGED fate
          \/ fate' = [fate EXCEPT ![j] = "rejected"]
          \/ fate' = [fate EXCEPT ![j] = "queued"]
        BY <2>1 DEF Enqueue, EnqueueReturn, EnqueueRefused, EnqueueEnter, EnqueuePut,
                    EnqueueFull
    <2>4. Canceled' = Canceled
        BY <1>1, <2>2, <2>3 DEF Canceled
    <2>5. ASSUME report.made
          PROVE  Outstanding' \subseteq Outstanding /\ LockFree' /\ stopEvent'
        <3>1. stopEvent /\ enqueuing = NoJob
            BY <2>5 DEF Reported, LockFree
        <3>2. EnqueueRefused(j)
            BY <2>1, <3>1, NoJobAssumption DEF Enqueue, EnqueueReturn, EnqueueEnter,
               EnqueuePut, EnqueueFull
        <3> QED
            BY <1>1, <3>1, <3>2 DEF EnqueueRefused, Outstanding, LockFree
    <2> QED
        BY <2>2, <2>4, <2>5, NothingReported
<1>3. CASE \E w \in Workers : Worker(w)
    <2>1. PICK w \in Workers : Worker(w)
        BY <1>3
    <2>2. UNCHANGED <<closerVars, stopEvent, enqueuing>>
        BY <2>1 DEF Worker, WorkerSnapshot, WorkerDecide, ClaimNothing, ClaimJob,
                    HandlerEnds, ReleaseInFlight
    <2>3. Canceled' = Canceled /\ Outstanding' \subseteq Outstanding
        <3>1. CASE ClaimJob(w)
            BY <1>1, <3>1, JobClaim, HeadLeaves DEF Canceled, Outstanding
        <3>2. CASE HandlerEnds(w)
            BY <1>1, <3>2, JobHandlerEnds DEF Canceled, Outstanding
        <3>3. CASE \/ WorkerSnapshot(w) \/ WorkerDecide(w) \/ ClaimNothing(w)
                   \/ ReleaseInFlight(w)
            BY <3>3 DEF WorkerSnapshot, WorkerDecide, ClaimNothing, ReleaseInFlight, Canceled,
                        Outstanding
        <3> QED
            BY <2>1, <3>1, <3>2, <3>3 DEF Worker
    <2> QED
        BY <2>2, <2>3, NothingReported DEF Reported, LockFree
<1> QED
    BY <1>2, <1>3

(* The closing thread: one more canceled, one more counted, and a report   *)
(* of what the counters say with the lock free.                            *)
LEMMA ReportedCloser ==
    ASSUME JobInv, Reported, CloseBegin \/ ShutdownCalled \/ Closer
    PROVE  Reported'
<1>1. fate \in [Jobs -> Fates] /\ report.canceled \in Nat
    BY DEF JobInv, CountInv, TypeOK
<1>2. ~report.made /\ report \in [made : BOOLEAN, waited : BOOLEAN, idle : BOOLEAN, depth : Nat,
                                  inFlight : Nat, canceled : Nat, alive : Nat]
    BY DEF JobInv, CountInv, TypeOK, Reported, Closer, CloseBegin, ShutdownCalled,
           CloseIdleWaited, SetStop, DrainWaited, ClearPop, ClearTaskDone, ClearEnds, Joined,
           ReportMade
<1>3. CASE ClearPop
    <2>1. /\ NextJob \in Jobs /\ fate[NextJob] = "queued"
          /\ fate' = [fate EXCEPT ![NextJob] = "canceled"]
        BY <1>3, JobClearPop, HeadLeaves
    <2>2. NextJob \notin Canceled /\ Canceled' = Canceled \union {NextJob}
        BY <1>1, <2>1 DEF Canceled
    <2>3. /\ IsFiniteSet(Canceled')
          /\ Cardinality(Canceled') = Cardinality(Canceled) + 1
        BY <2>2, FS_AddElement DEF Reported
    <2>4. closer = "clear" /\ closer' = "clear_done" /\ UNCHANGED report
        BY <1>3, JobClearPop DEF ClearPop
    <2> QED
        BY <1>1, <1>2, <2>3, <2>4 DEF Reported
<1>4. CASE ClearTaskDone
    <2>1. /\ closer = "clear_done" /\ closer' = "clear" /\ UNCHANGED fate
          /\ report' = [report EXCEPT !.canceled = @ + 1]
        BY <1>4 DEF ClearTaskDone
    <2>2. Canceled' = Canceled
        BY <2>1 DEF Canceled
    <2>3. report'.canceled = report.canceled + 1 /\ ~report'.made
        BY <1>2, <2>1
    <2> QED
        BY <1>1, <2>1, <2>2, <2>3 DEF Reported
<1>5. CASE ReportMade
    <2>1. /\ closer = "joined" /\ closer' = "closed" /\ LockFree
          /\ UNCHANGED <<fate, stopEvent, enqueuing>>
          /\ report' = [report EXCEPT !.made = TRUE, !.idle = IsIdle,
                                      !.depth = queuedJobs, !.inFlight = inFlightJobs]
        BY <1>5 DEF ReportMade
    <2>2. /\ report'.canceled = report.canceled
          /\ report'.depth = queuedJobs /\ report'.inFlight = inFlightJobs
        BY <1>2, <2>1
    <2>3. Canceled' = Canceled /\ Outstanding' = Outstanding /\ LockFree' /\ stopEvent'
        BY <2>1 DEF Canceled, Outstanding, LockFree, JobInv, Closing
    <2> QED
        BY <2>1, <2>2, <2>3, OutstandingCounted DEF Reported
<1>6. CASE \/ CloseBegin \/ ShutdownCalled \/ CloseIdleWaited \/ SetStop \/ DrainWaited
           \/ ClearEnds \/ Joined
    <2>1. /\ UNCHANGED fate /\ closer # "clear_done" /\ closer' # "clear_done"
          /\ report'.canceled = report.canceled /\ ~report'.made
        BY <1>2, <1>6 DEF CloseBegin, ShutdownCalled, CloseIdleWaited, SetStop, DrainWaited,
                          ClearEnds, Joined
    <2>2. Canceled' = Canceled
        BY <2>1 DEF Canceled
    <2> QED
        BY <2>1, <2>2 DEF Reported
<1> QED
    BY <1>3, <1>4, <1>5, <1>6 DEF Closer

(* The report of shutdown hides no work: the jobs that are still to be run *)
(* are within remaining_depth and in_flight_jobs, then and ever after, and *)
(* canceled_jobs is the number of the jobs that were canceled.             *)
THEOREM SpecReportIsComplete == Spec => []ReportIsComplete
<1>1. JobInv /\ Reported /\ [Next]_vars => Reported'
    <2> SUFFICES ASSUME JobInv, Reported, [Next]_vars PROVE Reported'
        OBVIOUS
    <2>1. CASE Terminated \/ UNCHANGED vars
        BY <2>1 DEF Terminated, vars, closerVars, Reported, Canceled, Outstanding, LockFree
    <2> QED
        BY <2>1, ReportedOthers, ReportedCloser DEF Next
<1>2. JobInv /\ Reported => ReportIsComplete
    <2> SUFFICES ASSUME JobInv, Reported, report.made PROVE ReportIsComplete
        BY DEF ReportIsComplete
    <2>1. report.canceled \in Nat
        BY DEF JobInv, CountInv, TypeOK
    <2> QED
        BY <2>1 DEF Reported, ReportIsComplete, Canceled
<1> QED
    BY SpecJobInv, ReportedInit, <1>1, <1>2, PTL DEF Spec

-----------------------------------------------------------------------------
(* The refinement: each step of the queue is a step of the contract or     *)
(* leaves what the contract speaks of alone.                               *)

(* While some worker has no job, fewer jobs run than there are workers.    *)
LEMMA RunningFewer ==
    ASSUME JobInv, NEW w \in Workers, workerPc[w] # "handle"
    PROVE  Cardinality(Running) < Cardinality(Workers)
<1>1. Cardinality(Handling) < Cardinality(Workers)
    <2>1. Handling \in SUBSET Workers /\ Handling # Workers
        BY DEF Handling
    <2>2. Cardinality(Handling) <= Cardinality(Workers)
          /\ Cardinality(Handling) # Cardinality(Workers)
        BY <2>1, WorkersAssumption, FS_Subset
    <2> QED
        BY <2>2, WorkersAssumption, WorkerSetsFinite, FS_CardinalityType
<1> QED
    BY <1>1, RunningInHands, WorkersAssumption, WorkerSetsFinite, FS_CardinalityType

(* The contract counts the jobs that run as this module does.              *)
LEMMA SameCardinality == \A S : Contract!Cardinality(S) = Cardinality(S)
BY DEF Cardinality, Contract!Cardinality

(* The empty queue is the empty contract.                                  *)
LEMMA ContractInit == Init => Contract!Init
BY DEF Init, Contract!Init

(* The request threads: a job is accepted, the gate closes behind the last *)
(* one that got in, or nothing happens.                                    *)
LEMMA ContractEnqueue ==
    ASSUME JobInv, NEW j \in Jobs, Enqueue(j) \/ EnqueueReturn(j)
    PROVE  [Contract!Next]_(Contract!vars)
<1>1. fate \in [Jobs -> Fates] /\ UNCHANGED stopEvent
    BY DEF JobInv, CountInv, TypeOK, Enqueue, EnqueueReturn, EnqueueRefused, EnqueueEnter,
           EnqueuePut, EnqueueFull
<1>2. CASE EnqueueRefused(j)
    <2>1. /\ fate[j] = "new" /\ fate' = [fate EXCEPT ![j] = "rejected"]
          /\ UNCHANGED <<queue, stopEvent, enqueuing>>
        BY <1>2 DEF EnqueueRefused
    <2> QED
        BY <1>1, <2>1 DEF Contract!vars
<1>3. CASE EnqueueEnter(j)
    <2>1. /\ ~stopEvent /\ ~stopEvent'
          /\ UNCHANGED <<queue, fate>>
        BY <1>3 DEF EnqueueEnter
    <2> QED
        BY <2>1 DEF Contract!vars
<1>4. CASE EnqueueFull(j)
    <2>1. /\ enqueuing = j /\ enqueuing' = NoJob /\ j # NoJob
          /\ fate[j] = "new" /\ fate' = [fate EXCEPT ![j] = "rejected"]
          /\ UNCHANGED <<queue, stopEvent>>
        BY <1>4, NoJobAssumption DEF EnqueueFull, JobInv, EnqueuingNew
    <2>2. CASE stopEvent
        BY <1>1, <2>1, <2>2 DEF Contract!Next, Contract!Close
    <2>3. CASE ~stopEvent
        BY <1>1, <2>1, <2>3 DEF Contract!vars
    <2> QED
        BY <2>2, <2>3
<1>5. CASE EnqueuePut(j)
    <2>1. /\ enqueuing = j /\ enqueuing' = NoJob /\ j # NoJob
          /\ fate[j] = "new" /\ fate' = [fate EXCEPT ![j] = "queued"]
          /\ queue' = Append(queue, j) /\ Len(queue) < MaxSize
        BY <1>5, NoJobAssumption DEF EnqueuePut, JobInv, EnqueuingNew
    <2>2. \A i \in DOMAIN queue : queue[i] # j
        <3>1. DOMAIN queue = 1..Len(queue)
            BY DEF JobInv, CountInv, TypeOK
        <3> QED
            BY <2>1, <3>1 DEF JobInv, QueuedOnce
    <2>3. Contract!Accept(j)
        BY <1>1, <2>1, <2>2 DEF Contract!Accept, Contract!Known, Contract!Waiting
    <2> QED
        BY <2>3 DEF Contract!Next
<1> QED
    BY <1>2, <1>3, <1>4, <1>5 DEF Enqueue, EnqueueReturn

(* The worker threads: a job starts in the hand of a worker that has none, *)
(* or one that runs is settled.                                            *)
LEMMA ContractWorker ==
    ASSUME JobInv, NEW w \in Workers, Worker(w)
    PROVE  [Contract!Next]_(Contract!vars)
<1>1. fate \in [Jobs -> Fates]
    BY DEF JobInv, CountInv, TypeOK
<1>2. UNCHANGED <<stopEvent, enqueuing>>
    BY DEF Worker, WorkerSnapshot, WorkerDecide, ClaimNothing, ClaimJob, HandlerEnds,
           ReleaseInFlight
<1>3. CASE WorkerSnapshot(w) \/ WorkerDecide(w) \/ ClaimNothing(w) \/ ReleaseInFlight(w)
    <2>1. UNCHANGED <<queue, fate>>
        BY <1>3 DEF WorkerSnapshot, WorkerDecide, ClaimNothing, ReleaseInFlight
    <2> QED
        BY <1>2, <2>1 DEF Contract!vars
<1>4. CASE ClaimJob(w)
    <2>1. /\ queue # <<>> /\ queue' = RestOfQueue /\ workerPc[w] = "claim"
          /\ fate' = [fate EXCEPT ![NextJob] = "running"]
          /\ NextJob \in Jobs /\ fate[NextJob] = "queued"
        BY <1>4, JobClaim, HeadLeaves
    <2>2. Cardinality(Running) < Cardinality(Workers)
        BY <2>1, RunningFewer
    <2>3. /\ Running' = Running \union {NextJob}
          /\ UNCHANGED <<{j \in Jobs : fate[j] \in {"handled", "failed"}},
                         {j \in Jobs : fate[j] = "canceled"}>>
        BY <1>1, <2>1 DEF Running
    <2>4. UNCHANGED (~stopEvent \/ enqueuing # NoJob)
        BY <1>2
    <2>5. Contract!Start
        BY <2>1, <2>2, <2>3, <2>4, SameCardinality
           DEF Contract!Start, NextJob, RestOfQueue, Running
    <2> QED
        BY <2>5 DEF Contract!Next
<1>5. CASE HandlerEnds(w)
    <2>1. /\ UNCHANGED queue
          /\ current[w] \in Jobs /\ fate[current[w]] = "running"
          /\ fate' = [fate EXCEPT ![current[w]] = "handled"]
               \/ fate' = [fate EXCEPT ![current[w]] = "failed"]
        BY <1>5, JobHandlerEnds
    <2>2. PICK j \in Jobs : j = current[w]
        BY <2>1
    <2>3. /\ Running' = Running \ {j}
          /\ {k \in Jobs : fate[k] \in {"handled", "failed"}}'
               = {k \in Jobs : fate[k] \in {"handled", "failed"}} \union {j}
          /\ UNCHANGED {k \in Jobs : fate[k] = "canceled"}
        BY <1>1, <2>1, <2>2 DEF Running
    <2>4. UNCHANGED (~stopEvent \/ enqueuing # NoJob)
        BY <1>2
    <2>5. Contract!Finish(j)
        BY <2>1, <2>2, <2>3, <2>4 DEF Contract!Finish, Running
    <2> QED
        BY <2>5 DEF Contract!Next
<1> QED
    BY <1>3, <1>4, <1>5 DEF Worker

(* The closing thread: the gate closes, or a waiting job is canceled when  *)
(* it is closed.                                                           *)
LEMMA ContractCloser ==
    ASSUME JobInv, CloseBegin \/ ShutdownCalled \/ Closer
    PROVE  [Contract!Next]_(Contract!vars)
<1>1. fate \in [Jobs -> Fates] /\ UNCHANGED enqueuing
    BY DEF JobInv, CountInv, TypeOK, Closer, CloseBegin, ShutdownCalled, CloseIdleWaited,
           SetStop, DrainWaited, ClearPop, ClearTaskDone, ClearEnds, Joined, ReportMade
<1>2. CASE SetStop
    <2>1. stopEvent' /\ UNCHANGED <<queue, fate, enqueuing>>
        BY <1>2 DEF SetStop
    <2>2. CASE stopEvent \/ enqueuing # NoJob
        BY <2>1, <2>2 DEF JobInv, CountInv, TypeOK, Contract!vars
    <2>3. CASE ~stopEvent /\ enqueuing = NoJob
        BY <2>1, <2>3 DEF Contract!Next, Contract!Close
    <2> QED
        BY <2>2, <2>3
<1>3. CASE ClearPop
    <2>1. /\ queue # <<>> /\ queue' = RestOfQueue
          /\ fate' = [fate EXCEPT ![NextJob] = "canceled"]
          /\ NextJob \in Jobs /\ fate[NextJob] = "queued"
        BY <1>3, JobClearPop, HeadLeaves
    <2>2. stopEvent /\ enqueuing = NoJob /\ UNCHANGED <<stopEvent, enqueuing>>
        BY <1>3 DEF ClearPop, LockFree, JobInv, Closing
    <2>3. Contract!Cancel
        BY <1>1, <2>1, <2>2 DEF Contract!Cancel, NextJob, RestOfQueue
    <2> QED
        BY <2>3 DEF Contract!Next
<1>4. CASE \/ CloseBegin \/ ShutdownCalled \/ CloseIdleWaited \/ DrainWaited \/ ClearEnds
           \/ Joined \/ ReportMade \/ ClearTaskDone
    <2>1. UNCHANGED <<queue, fate, stopEvent, enqueuing>>
        BY <1>4 DEF CloseBegin, ShutdownCalled, CloseIdleWaited, DrainWaited, ClearEnds,
                    Joined, ReportMade, ClearTaskDone
    <2> QED
        BY <2>1 DEF Contract!vars
<1> QED
    BY <1>2, <1>3, <1>4 DEF Closer

(* Jobs start in the order they were accepted, within the bound of the     *)
(* queue, one per worker and once each, and are canceled only by a queue   *)
(* that takes no more, whatever the threads do.                            *)
THEOREM SpecImplementsContract == Spec => ImplementsContract
<1>1. JobInv /\ [Next]_vars => [Contract!Next]_(Contract!vars)
    <2> SUFFICES ASSUME JobInv, [Next]_vars PROVE [Contract!Next]_(Contract!vars)
        OBVIOUS
    <2>1. CASE Terminated \/ UNCHANGED vars
        BY <2>1 DEF Terminated, vars, Contract!vars
    <2> QED
        BY <2>1, ContractEnqueue, ContractWorker, ContractCloser DEF Next
<1> QED
    BY SpecJobInv, ContractInit, <1>1, PTL DEF Spec, ImplementsContract, Contract!Spec
=============================================================================
