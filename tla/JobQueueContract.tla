------------------------- MODULE JobQueueContract -------------------------
(***************************************************************************)
(* What the in-process job queue promises its callers, with no threads,    *)
(* counters or locks: accepted jobs wait in order of acceptance in a       *)
(* backlog of bounded length, at most one job per worker runs at a time,   *)
(* every job that leaves the backlog is either run once or canceled, and   *)
(* cancellation happens only once the queue has stopped taking jobs.       *)
(* AsyncSyncQueue implements this specification.                           *)
(***************************************************************************)
EXTENDS Naturals, Sequences, FiniteSets

CONSTANTS
    Jobs,      \* the jobs callers may offer, each at most once
    Slots,     \* how many jobs may run at the same time
    MaxSize    \* the longest the backlog may get

VARIABLES
    backlog,   \* accepted jobs that wait, oldest first
    running,   \* jobs a worker is processing
    settled,   \* jobs whose processing has ended
    canceled,  \* jobs dropped from the backlog by a shutdown
    open       \* whether new jobs are still taken

vars == <<backlog, running, settled, canceled, open>>

Waiting == {backlog[i] : i \in DOMAIN backlog}

Known == Waiting \union running \union settled \union canceled

Init ==
    /\ backlog = <<>>
    /\ running = {}
    /\ settled = {}
    /\ canceled = {}
    /\ open = TRUE

(* A job is taken only while the queue is open and has room.  The caller   *)
(* may be the last one that got in before the queue closed.                *)
Accept(j) ==
    /\ open
    /\ j \notin Known
    /\ Len(backlog) < MaxSize
    /\ backlog' = Append(backlog, j)
    /\ open' \in BOOLEAN
    /\ UNCHANGED <<running, settled, canceled>>

Close ==
    /\ open
    /\ open' = FALSE
    /\ UNCHANGED <<backlog, running, settled, canceled>>

Start ==
    /\ backlog # <<>>
    /\ Cardinality(running) < Slots
    /\ backlog' = Tail(backlog)
    /\ running' = running \union {Head(backlog)}
    /\ UNCHANGED <<settled, canceled, open>>

Finish(j) ==
    /\ j \in running
    /\ running' = running \ {j}
    /\ settled' = settled \union {j}
    /\ UNCHANGED <<backlog, canceled, open>>

Cancel ==
    /\ ~open
    /\ backlog # <<>>
    /\ backlog' = Tail(backlog)
    /\ canceled' = canceled \union {Head(backlog)}
    /\ UNCHANGED <<running, settled, open>>

Next ==
    \/ \E j \in Jobs : Accept(j) \/ Finish(j)
    \/ Close
    \/ Start
    \/ Cancel

Spec == Init /\ [][Next]_vars
=============================================================================
