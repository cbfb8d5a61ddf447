---------------------------- MODULE GatewayJobs ----------------------------
(***************************************************************************)
(* The job map of the API gateway (api-gateway/src/jobs.ts), the producers *)
(* that POST /api/parse, /api/assignments/scan and /bulk-rescan start, and *)
(* the event streams that read a job (streamGatewayJob in app.ts).         *)
(*                                                                         *)
(* Node runs one callback at a time, so an action is a stretch of code     *)
(* between two awaits; the events a producer pushes without an await in    *)
(* between are pushed by one action.  A promise that was resolved runs its *)
(* continuation later: what a waiter was given sits in the stream's inbox. *)
(* The gateway never learns that a client went away, so a stream nobody    *)
(* reads behaves like any other.                                           *)
(***************************************************************************)
EXTENDS Naturals, Sequences, FiniteSets

CONSTANTS
    Jobs,            \* job identifiers, each created at most once
    Streams,         \* GET .../stream requests, each for one job
    None,            \* no event, no job
    MaxLegacyEvents  \* bound on what one legacy backend stream sends

ASSUME NoneAssumption == None \notin Jobs
ASSUME LegacyAssumption == MaxLegacyEvents \in Nat

VARIABLES
    live,        \* keys of the jobs map
    timers,      \* keys of jobTimers
    queue,       \* JobState.queue of each job
    waiters,     \* JobState.waiters of each job: streams that wait, oldest first
    producer,    \* where the producer of each job is
    kind,        \* which request created the job
    produced,    \* history: the types of the events pushed so far
    streamPc,    \* where each streamGatewayJob is
    streamJob,   \* its jobId
    inbox,       \* what nextJobEvent returned and is not yet written
    written      \* what the stream has written to its response

jobVars == <<live, timers, queue, waiters>>
producerVars == <<producer, kind, produced>>
streamVars == <<streamPc, streamJob, inbox, written>>
vars == <<jobVars, producerVars, streamVars>>

Kinds == {"parse", "parse_llm", "service", "legacy"}

EventTypes == {"progress", "nlp_done", "llm_done", "llm_error", "result", "error", "done"}

(* An event and its number among the events pushed to its job. *)
Event == [type : EventTypes, n : Nat \ {0}]

(* What a stream writes when nextJobEvent returns null. *)
NotFound == [type |-> "not_found", n |-> 0]

Terminal == {"done", "error", "not_found"}

Init ==
    /\ live = {}
    /\ timers = {}
    /\ queue = [j \in Jobs |-> <<>>]
    /\ waiters = [j \in Jobs |-> <<>>]
    /\ producer = [j \in Jobs |-> "none"]
    /\ kind = [j \in Jobs |-> "parse"]
    /\ produced = [j \in Jobs |-> <<>>]
    /\ streamPc = [s \in Streams |-> "unused"]
    /\ streamJob = [s \in Streams |-> None]
    /\ inbox = [s \in Streams |-> NotFound]
    /\ written = [s \in Streams |-> <<>>]

-----------------------------------------------------------------------------
(* jobs.ts                                                                 *)

AtMost(a, b) == IF a < b THEN a ELSE b

Numbered(j, types) ==
    [i \in DOMAIN types |-> [type |-> types[i], n |-> Len(produced[j]) + i]]

(* The oldest waiters, each with the event it is handed. *)
Served(j, es) ==
    LET k == AtMost(Len(waiters[j]), Len(es))
    IN  [s \in {waiters[j][i] : i \in 1..k} |->
            es[CHOOSE i \in 1..k : waiters[j][i] = s]]

StillWaiting(j, m) == SubSeq(waiters[j], m + 1, Len(waiters[j]))

(* Mutation: an event handed to a waiter is also left in the queue. *)
UnservedAll(es, m) == es

Unserved(es, m) == SubSeq(es, m + 1, Len(es))

(* pushJobEvent for each of types in turn, with no await in between: each  *)
(* event goes to the oldest waiter if there is one and to the queue if not.*)
(* A job that is gone drops it.                                            *)
Push(j, types) ==
    LET es == Numbered(j, types)
        given == Served(j, es)
        m == AtMost(Len(waiters[j]), Len(es))
    IN  /\ produced' = [produced EXCEPT ![j] = @ \o types]
        /\ IF j \in live
           THEN /\ inbox' = [s \in Streams |-> IF s \in DOMAIN given THEN given[s]
                                               ELSE inbox[s]]
                /\ streamPc' = [s \in Streams |-> IF s \in DOMAIN given THEN "resumed"
                                                  ELSE streamPc[s]]
                /\ waiters' = [waiters EXCEPT ![j] = StillWaiting(j, m)]
                /\ queue' = [queue EXCEPT ![j] = @ \o Unserved(es, m)]
           ELSE UNCHANGED <<inbox, streamPc, waiters, queue>>
        /\ UNCHANGED <<live, timers, streamJob, written, kind>>

(* Mutation: a cleanup that forgets the waiters. *)
CleanupWithoutWaiters(j, pc) ==
    /\ live' = live \ {j}
    /\ timers' = timers \ {j}
    /\ queue' = [queue EXCEPT ![j] = <<>>]
    /\ streamPc' = pc
    /\ UNCHANGED <<waiters, inbox>>

(* cleanupJob: the timer is cleared, every waiter gets null, the job is    *)
(* deleted.  pc is where the streams are when it is called.                *)
Cleanup(j, pc) ==
    LET released == {waiters[j][i] : i \in DOMAIN waiters[j]}
    IN  /\ live' = live \ {j}
        /\ timers' = timers \ {j}
        /\ queue' = [queue EXCEPT ![j] = <<>>]
        /\ waiters' = [waiters EXCEPT ![j] = <<>>]
        /\ streamPc' = [s \in Streams |-> IF s \in released THEN "resumed" ELSE pc[s]]
        /\ inbox' = [s \in Streams |-> IF s \in released THEN NotFound ELSE inbox[s]]

(* The TTL timer of createJob. *)
Expire(j) ==
    /\ j \in timers
    /\ Cleanup(j, streamPc)
    /\ UNCHANGED <<producerVars, streamJob, written>>

-----------------------------------------------------------------------------
(* Producers                                                               *)

(* createJob, the queued microtask and the reply with the job id. *)
CreateJob(j, k) ==
    /\ producer[j] = "none"
    /\ live' = live \union {j}
    /\ timers' = timers \union {j}
    /\ kind' = [kind EXCEPT ![j] = k]
    /\ producer' = [producer EXCEPT ![j] = "queued"]
    /\ UNCHANGED <<queue, waiters, produced, streamVars>>

ProducerAt(j, from, to) ==
    /\ producer[j] = from
    /\ producer' = [producer EXCEPT ![j] = to]

(* The microtask runs up to its first await. *)
ProducerStarts(j) ==
    /\ ProducerAt(j, "queued", CASE kind[j] \in {"parse", "parse_llm"} -> "nlp"
                                 [] kind[j] = "service" -> "service"
                                 [] kind[j] = "legacy" -> "legacy")
    /\ Push(j, <<"progress">>)

NlpAnswers(j) ==
    \/ /\ kind[j] = "parse"
       /\ ProducerAt(j, "nlp", "finished")
       /\ Push(j, <<"nlp_done", "result", "done">>)
    \/ /\ kind[j] = "parse_llm"
       /\ ProducerAt(j, "nlp", "llm")
       /\ Push(j, <<"nlp_done">>)

(* Mutation: a failed third pass fails the parse. *)
LlmFailureIsFatal(j) ==
    /\ ProducerAt(j, "llm", "finished")
    /\ \/ Push(j, <<"llm_done", "result", "done">>)
       \/ Push(j, <<"llm_error", "error", "done">>)

(* The third pass succeeds, answers with a failed summary, or throws: each *)
(* is a stage event, and the result of the NLP pass follows all the same.  *)
LlmAnswers(j) ==
    /\ ProducerAt(j, "llm", "finished")
    /\ \E stage \in {"llm_done", "llm_error"} : Push(j, <<stage, "result", "done">>)

(* /internal/v1/assignments/scan or /bulk-rescan has answered. *)
ServiceAnswers(j) ==
    /\ ProducerAt(j, "service", "finished")
    /\ Push(j, <<"result", "done">>)

(* bridgeLegacyJob forwards whatever the legacy stream sends, its own      *)
(* "done" included.                                                        *)
LegacyForwards(j) ==
    /\ producer[j] = "legacy"
    /\ Len(produced[j]) <= MaxLegacyEvents
    /\ \E type \in {"progress", "result", "error", "done"} : Push(j, <<type>>)
    /\ UNCHANGED producer

LegacyEnds(j) ==
    /\ ProducerAt(j, "legacy", "finished")
    /\ Push(j, <<"done">>)

(* A request to the service or the legacy backend fails, or its answer     *)
(* breaks the contract.                                                    *)
RequestFails(j) ==
    /\ \E from \in {"nlp", "service", "legacy"} : ProducerAt(j, from, "finished")
    /\ Push(j, <<"error", "done">>)

Producer(j) ==
    \/ ProducerStarts(j)
    \/ NlpAnswers(j)
    \/ LlmAnswers(j)
    \/ ServiceAnswers(j)
    \/ LegacyEnds(j)
    \/ RequestFails(j)

-----------------------------------------------------------------------------
(* streamGatewayJob                                                        *)

StreamOpen(s, j) ==
    /\ streamPc[s] = "unused"
    /\ producer[j] # "none"
    /\ streamPc' = [streamPc EXCEPT ![s] = "next"]
    /\ streamJob' = [streamJob EXCEPT ![s] = j]
    /\ UNCHANGED <<jobVars, producerVars, inbox, written>>

(* Mutation: the newest event first, pop() for shift(). *)
NewestOf(q) == q[Len(q)]

OldestOf(q) == Head(q)

(* nextJobEvent: null for a job that is gone, the head of the queue, or a  *)
(* promise whose resolver joins the waiters.                               *)
StreamNext(s) ==
    LET j == streamJob[s]
    IN  /\ streamPc[s] = "next"
        /\ \/ /\ j \notin live
              /\ inbox' = [inbox EXCEPT ![s] = NotFound]
              /\ streamPc' = [streamPc EXCEPT ![s] = "resumed"]
              /\ UNCHANGED <<queue, waiters>>
           \/ /\ j \in live
              /\ queue[j] # <<>>
              /\ inbox' = [inbox EXCEPT ![s] = OldestOf(queue[j])]
              /\ queue' = [queue EXCEPT ![j] = Tail(@)]
              /\ streamPc' = [streamPc EXCEPT ![s] = "resumed"]
              /\ UNCHANGED waiters
           \/ /\ j \in live
              /\ queue[j] = <<>>
              /\ waiters' = [waiters EXCEPT ![j] = Append(@, s)]
              /\ streamPc' = [streamPc EXCEPT ![s] = "waiting"]
              /\ UNCHANGED <<queue, inbox>>
        /\ UNCHANGED <<live, timers, producerVars, streamJob, written>>

(* The event is written; "done", "error" and null end the stream, and the  *)
(* finally clause cleans the job up.                                       *)
StreamWrite(s) ==
    /\ streamPc[s] = "resumed"
    /\ written' = [written EXCEPT ![s] = Append(@, inbox[s])]
    /\ IF inbox[s].type \in Terminal
       THEN Cleanup(streamJob[s], [streamPc EXCEPT ![s] = "ended"])
       ELSE /\ streamPc' = [streamPc EXCEPT ![s] = "next"]
            /\ UNCHANGED <<jobVars, inbox>>
    /\ UNCHANGED <<producerVars, streamJob>>

Stream(s) == StreamNext(s) \/ StreamWrite(s)

-----------------------------------------------------------------------------
Next ==
    \/ \E j \in Jobs : \/ \E k \in Kinds : CreateJob(j, k)
                       \/ Producer(j)
                       \/ LegacyForwards(j)
                       \/ Expire(j)
    \/ \E s \in Streams : \/ \E j \in Jobs : StreamOpen(s, j)
                          \/ Stream(s)

(* Callbacks run, requests to the services end one way or the other (fetch *)
(* has its own timeouts), the TTL timer fires if it is not cleared.        *)
Fairness ==
    /\ \A j \in Jobs : WF_vars(Producer(j)) /\ WF_vars(Expire(j))
    /\ \A s \in Streams : WF_vars(Stream(s))

Spec == Init /\ [][Next]_vars

FairSpec == Spec /\ Fairness

-----------------------------------------------------------------------------
(* Properties                                                              *)

Events(seq) == {seq[i] : i \in DOMAIN seq}

(* Every variable keeps its type; in particular only the events of app.ts  *)
(* and the "Job not found" of streamGatewayJob ever reach a stream.        *)
TypeOK ==
    /\ live \subseteq Jobs
    /\ timers \subseteq Jobs
    /\ queue \in [Jobs -> Seq(Event)]
    /\ waiters \in [Jobs -> Seq(Streams)]
    /\ producer \in [Jobs -> {"none", "queued", "nlp", "llm", "service", "legacy",
                              "finished"}]
    /\ kind \in [Jobs -> Kinds]
    /\ produced \in [Jobs -> Seq(EventTypes)]
    /\ streamPc \in [Streams -> {"unused", "next", "waiting", "resumed", "ended"}]
    /\ streamJob \in [Streams -> Jobs \union {None}]
    /\ inbox \in [Streams -> Event \union {NotFound}]
    /\ written \in [Streams -> Seq(Event \union {NotFound})]

(* A stream whose promise is pending is a waiter of a job that is in the   *)
(* map, once: somebody can still resolve it.  Nobody else is a waiter, and *)
(* a job never holds both waiters and undelivered events, so nextJobEvent  *)
(* can serve from the queue without overtaking a waiter.                   *)
WaitersAreReachable ==
    /\ \A s \in Streams :
         streamPc[s] = "waiting" <=>
             \E j \in live : j = streamJob[s] /\ s \in Events(waiters[j])
    /\ \A j \in Jobs :
         /\ Cardinality(Events(waiters[j])) = Len(waiters[j])
         /\ j \notin live => waiters[j] = <<>>
         /\ queue[j] = <<>> \/ waiters[j] = <<>>

Taken(s) == Events(written[s]) \union (IF streamPc[s] = "resumed" THEN {inbox[s]} ELSE {})

(* Every event of a job that is still in the map is in exactly one place:  *)
(* in the queue or with one stream.  Streams that read the same job share  *)
(* its events out; none is duplicated, and none is lost while the job      *)
(* lives.                                                                  *)
EachEventOnce ==
    \A j \in Jobs :
        LET readers == {s \in Streams : streamJob[s] = j}
            holders(n) == {s \in readers : \E e \in Taken(s) : e.n = n}
            queued(n) == {i \in DOMAIN queue[j] : queue[j][i].n = n}
        IN  \A n \in 1..Len(produced[j]) :
                LET copies == Cardinality(holders(n)) + Cardinality(queued(n))
                IN  copies <= 1 /\ (j \in live => copies = 1)

(* No stream writes an event twice, or after one that was pushed later, or *)
(* anything after a terminal event.                                        *)
StreamsKeepOrder ==
    \A s \in Streams :
        \A i, k \in DOMAIN written[s] :
            i < k => /\ written[s][i].type \notin Terminal
                     /\ written[s][k].type = "not_found"
                          \/ written[s][i].n < written[s][k].n

(* The documented order of a parse stream (section 9.3 of the project map):*)
(* progress, NLP stage, LLM stage only when the third pass was asked for,  *)
(* result, done - whatever prefix or selection of it one stream sees.  The *)
(* failure of the third pass alone never costs the user the result.        *)
Rank == [type \in EventTypes |->
            CASE type = "progress" -> 1 [] type = "nlp_done" -> 2
              [] type \in {"llm_done", "llm_error"} -> 3 [] type = "result" -> 4
              [] type = "error" -> 4 [] type = "done" -> 5]

ParseOrder ==
    \A j \in Jobs :
        kind[j] \in {"parse", "parse_llm"} =>
            LET p == produced[j]
            IN  /\ \A i, k \in DOMAIN p : i < k => Rank[p[i]] < Rank[p[k]]
                /\ \A i \in DOMAIN p :
                     Rank[p[i]] = 3 => /\ kind[j] = "parse_llm"
                                       /\ p[Len(p) - 1] = "result" /\ p[Len(p)] = "done"

(* Every stream that is opened ends, whatever the backend does. *)
StreamsEnd ==
    \A s \in Streams : streamPc[s] = "next" ~> streamPc[s] = "ended"
=============================================================================
