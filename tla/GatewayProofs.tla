--------------------------- MODULE GatewayProofs ---------------------------
(***************************************************************************)
(* Proofs about GatewayJobs and SseJobClient, for any number of jobs, runs,*)
(* streams and broken connections and any legacy stream.                   *)
(*                                                                         *)
(* First the gateway alone: its state has its types, and no stream is ever *)
(* left with a promise that nobody can resolve.  WaitersAreReachable alone *)
(* is not inductive: what a push or a cleanup does to the waiters of one   *)
(* job must leave those of the others alone, so every waiter must be known *)
(* to wait for the job that holds it, and a new job to start with an empty *)
(* queue.  On top of it: every event is in one place and every stream      *)
(* keeps the order, because the queue holds the newest numbers and the     *)
(* streams share the older ones; and a parse pushes its events in the      *)
(* documented order.                                                       *)
(*                                                                         *)
(* Then the browser and the gateway together.  A step of the composition   *)
(* is a step of the gateway or leaves it alone, so all that is proved of   *)
(* GatewayJobs holds here; on it rest what the hook shows (an event carries*)
(* a type its job pushed) and why "Job not found" needs a loss (a job whose*)
(* connection was never broken has one stream, and only it or the timer    *)
(* ends the job).                                                          *)
(***************************************************************************)
EXTENDS SseJobClient, FiniteSetTheorems, SequenceTheorems, TLAPS

---------------------------------------------------------------------------
(* The gateway alone                                                       *)

StreamPoints == {"unused", "next", "waiting", "resumed", "ended"}

ProducerPoints == {"none", "queued", "nlp", "llm", "service", "legacy", "finished"}

(* A job holds each waiter once, and the waiter waits for that job.        *)
WaitersWait ==
    \A j \in Jobs :
        /\ \A i \in 1..Len(waiters[j]) :
             streamPc[waiters[j][i]] = "waiting" /\ streamJob[waiters[j][i]] = j
        /\ \A i, k \in 1..Len(waiters[j]) : waiters[j][i] = waiters[j][k] => i = k

(* A stream that waits is held by the job it waits for.                    *)
WaitingIsHeld ==
    \A s \in Streams :
        streamPc[s] = "waiting" => \E i \in 1..Len(waiters[streamJob[s]]) :
                                       waiters[streamJob[s]][i] = s

(* A job that is not in the map holds nothing, and no job holds both.      *)
NothingLeft ==
    \A j \in Jobs : /\ j \notin live => queue[j] = <<>> /\ waiters[j] = <<>>
                    /\ queue[j] = <<>> \/ waiters[j] = <<>>

(* A stream that was opened has a job, and no job is created twice.        *)
Opened ==
    /\ \A s \in Streams : streamPc[s] # "unused" => streamJob[s] \in Jobs
    /\ \A j \in Jobs : producer[j] = "none" => j \notin live

JobInv == TypeOK /\ WaitersWait /\ WaitingIsHeld /\ NothingLeft /\ Opened

(* The gateway starts with no job and no stream. *)
LEMMA JobInit == Init => JobInv
<1> SUFFICES ASSUME Init PROVE JobInv
    OBVIOUS
<1>1. TypeOK
    BY DEF Init, TypeOK, Kinds
<1>2. WaitersWait /\ WaitingIsHeld /\ NothingLeft /\ Opened
    BY DEF Init, WaitersWait, WaitingIsHeld, NothingLeft, Opened
<1> QED
    BY <1>1, <1>2 DEF JobInv

(* The invariant says what WaitersAreReachable promises.                   *)
LEMMA InvReachable == JobInv => WaitersAreReachable
<1> SUFFICES ASSUME JobInv PROVE WaitersAreReachable
    OBVIOUS
<1>1. \A j \in Jobs : waiters[j] \in Seq(Streams) /\ DOMAIN waiters[j] = 1..Len(waiters[j])
    BY DEF JobInv, TypeOK
<1>2. \A j \in Jobs : Events(waiters[j]) = {waiters[j][i] : i \in 1..Len(waiters[j])}
    BY <1>1 DEF Events
<1>3. ASSUME NEW s \in Streams
      PROVE  streamPc[s] = "waiting" <=>
                \E j \in live : j = streamJob[s] /\ s \in Events(waiters[j])
    <2>1. ASSUME streamPc[s] = "waiting"
          PROVE  streamJob[s] \in live /\ s \in Events(waiters[streamJob[s]])
        <3>1. streamJob[s] \in Jobs
            BY <2>1 DEF JobInv, Opened
        <3>2. PICK i \in 1..Len(waiters[streamJob[s]]) : waiters[streamJob[s]][i] = s
            BY <2>1 DEF JobInv, WaitingIsHeld
        <3>3. waiters[streamJob[s]] # <<>>
            BY <3>2
        <3> QED
            BY <1>2, <3>1, <3>2, <3>3 DEF JobInv, NothingLeft
    <2>2. ASSUME NEW j \in live, j = streamJob[s], s \in Events(waiters[j])
          PROVE  streamPc[s] = "waiting"
        <3>1. j \in Jobs
            BY DEF JobInv, TypeOK
        <3> QED
            BY <1>2, <2>2, <3>1 DEF JobInv, WaitersWait
    <2> QED
        BY <2>1, <2>2
<1>4. ASSUME NEW j \in Jobs PROVE Cardinality(Events(waiters[j])) = Len(waiters[j])
    <2>1. Len(waiters[j]) \in Nat
        BY <1>1
    <2>2. IsFiniteSet(1..Len(waiters[j])) /\ Cardinality(1..Len(waiters[j])) = Len(waiters[j])
        BY <2>1, FS_Interval
    <2> DEFINE held == [i \in 1..Len(waiters[j]) |-> waiters[j][i]]
    <2>3. Events(waiters[j]) = {held[i] : i \in 1..Len(waiters[j])}
        BY <1>2
    <2>4. \A i, k \in 1..Len(waiters[j]) : held[i] = held[k] => i = k
        BY DEF JobInv, WaitersWait
    <2>5. held \in Bijection(1..Len(waiters[j]), Events(waiters[j]))
        <3>1. held \in [1..Len(waiters[j]) -> Events(waiters[j])]
            BY <2>3
        <3>2. \A s \in Events(waiters[j]) : \E i \in 1..Len(waiters[j]) : held[i] = s
            BY <2>3
        <3> QED
            BY <2>4, <3>1, <3>2 DEF Bijection, Injection, Surjection, IsInjective
    <2>6. ExistsBijection(1..Len(waiters[j]), Events(waiters[j]))
        BY <2>5 DEF ExistsBijection
    <2> QED
        BY <2>2, <2>6, FS_Bijection
<1> QED
    BY <1>3, <1>4 DEF WaitersAreReachable, JobInv, NothingLeft

(* What the caller has not pushed yet, as numbered events.                 *)
LEMMA NumberedType ==
    ASSUME JobInv, NEW j \in Jobs, NEW types \in Seq(EventTypes)
    PROVE  Numbered(j, types) \in Seq(Event) /\ Len(Numbered(j, types)) = Len(types)
<1>1. produced[j] \in Seq(EventTypes) /\ Len(produced[j]) \in Nat
    BY DEF JobInv, TypeOK
<1>2. DOMAIN types = 1..Len(types) /\ Len(types) \in Nat
    OBVIOUS
<1>3. \A i \in 1..Len(types) : types[i] \in EventTypes /\ Len(produced[j]) + i \in Nat \ {0}
    BY <1>1
<1>4. Numbered(j, types) \in [1..Len(types) -> Event]
    BY <1>2, <1>3 DEF Numbered, Event
<1> QED
    BY <1>2, <1>4

(* Events pushed in one stretch go to the oldest waiters and, when nobody  *)
(* waits any more, to the queue.  What serves a waiter takes it out of the *)
(* waiters of the job, and of this job only.                               *)
LEMMA PushKeepsInv ==
    ASSUME JobInv, NEW j \in Jobs, NEW types \in Seq(EventTypes), Push(j, types),
           producer' \in [Jobs -> ProducerPoints],
           \A q \in Jobs : producer'[q] = "none" => producer[q] = "none"
    PROVE  JobInv'
<1> DEFINE es == Numbered(j, types)
           w == waiters[j]
           k == AtMost(Len(w), Len(es))
           served == {w[i] : i \in 1..k}
           given == Served(j, es)
<1>1. es \in Seq(Event) /\ w \in Seq(Streams) /\ Len(w) \in Nat /\ Len(es) \in Nat
    BY NumberedType DEF JobInv, TypeOK
<1>2. k \in Nat /\ k <= Len(w) /\ k <= Len(es) /\ (k = Len(w) \/ k = Len(es))
    BY <1>1 DEF AtMost
<1>3. produced' \in [Jobs -> Seq(EventTypes)]
    <2>1. produced' = [produced EXCEPT ![j] = produced[j] \o types]
        BY DEF Push
    <2>2. produced[j] \in Seq(EventTypes) /\ produced[j] \o types \in Seq(EventTypes)
        BY DEF JobInv, TypeOK
    <2> QED
        BY <2>1, <2>2 DEF JobInv, TypeOK
<1>4. UNCHANGED <<live, timers, streamJob, written, kind>>
    BY DEF Push
<1>5. CASE j \notin live
    <2>1. UNCHANGED <<inbox, streamPc, waiters, queue>>
        BY <1>5 DEF Push
    <2>2. TypeOK'
        BY <1>3, <1>4, <2>1 DEF JobInv, TypeOK, ProducerPoints
    <2>3. WaitersWait' /\ WaitingIsHeld' /\ NothingLeft' /\ Opened'
        BY <1>4, <2>1 DEF JobInv, WaitersWait, WaitingIsHeld, NothingLeft, Opened
    <2> QED
        BY <2>2, <2>3 DEF JobInv
<1>6. CASE j \in live
    <2>1. DOMAIN given = served /\ \A s \in served : given[s] \in Event
        <3>1. DOMAIN given = served
            BY DEF Served
        <3>2. ASSUME NEW s \in served PROVE given[s] \in Event
            <4>1. PICK i \in 1..k : w[i] = s
                OBVIOUS
            <4>2. (CHOOSE n \in 1..k : w[n] = s) \in 1..k
                BY <4>1
            <4>3. given[s] = es[CHOOSE n \in 1..k : w[n] = s]
                BY DEF Served
            <4> QED
                BY <1>1, <1>2, <4>2, <4>3
        <3> QED
            BY <3>1, <3>2
    <2>2. /\ inbox' = [s \in Streams |-> IF s \in served THEN given[s] ELSE inbox[s]]
          /\ streamPc' = [s \in Streams |-> IF s \in served THEN "resumed" ELSE streamPc[s]]
          /\ waiters' = [waiters EXCEPT ![j] = SubSeq(w, k + 1, Len(w))]
          /\ queue' = [queue EXCEPT ![j] = queue[j] \o SubSeq(es, k + 1, Len(es))]
        BY <1>6, <2>1 DEF Push, StillWaiting, Unserved
    <2> DEFINE rest == SubSeq(w, k + 1, Len(w))
               more == SubSeq(es, k + 1, Len(es))
    <2> HIDE DEF given, es, k
    <2>3. /\ rest \in Seq(Streams) /\ Len(rest) = Len(w) - k
          /\ \A i \in 1..Len(w) - k : rest[i] = w[k + i]
          /\ k = Len(w) => rest = <<>>
        BY <1>1, <1>2
    <2>4. more \in Seq(Event) /\ (k = Len(es) => more = <<>>)
        BY <1>1, <1>2
    <2> HIDE DEF rest, more
    <2>5. /\ waiters \in [Jobs -> Seq(Streams)] /\ queue \in [Jobs -> Seq(Event)]
          /\ queue[j] \in Seq(Event) /\ \A i \in 1..Len(w) : w[i] \in Streams
        BY <1>1 DEF JobInv, TypeOK
    <2>6. TypeOK'
        <3>1. inbox' \in [Streams -> Event \union {NotFound}]
            BY <2>1, <2>2 DEF JobInv, TypeOK
        <3>2. streamPc' \in [Streams -> StreamPoints]
            BY <2>2 DEF JobInv, TypeOK, StreamPoints
        <3>3. waiters' \in [Jobs -> Seq(Streams)]
            BY <2>2, <2>3, <2>5 DEF rest
        <3>4. queue' \in [Jobs -> Seq(Event)]
            <4>1. queue[j] \o more \in Seq(Event)
                BY <2>4, <2>5
            <4> QED
                BY <2>2, <2>5, <4>1 DEF more
        <3> QED
            BY <1>3, <1>4, <3>1, <3>2, <3>3, <3>4
               DEF JobInv, TypeOK, ProducerPoints, StreamPoints
    <2>7. /\ \A s \in served : streamPc[s] = "waiting" /\ streamJob[s] = j
          /\ \A i \in 1..Len(w) : streamPc[w[i]] = "waiting" /\ streamJob[w[i]] = j
          /\ \A i, n \in 1..Len(w) : w[i] = w[n] => i = n
        <3>1. /\ \A i \in 1..Len(w) : streamPc[w[i]] = "waiting" /\ streamJob[w[i]] = j
              /\ \A i, n \in 1..Len(w) : w[i] = w[n] => i = n
            BY <1>1 DEF JobInv, WaitersWait
        <3>2. ASSUME NEW s \in served
              PROVE  streamPc[s] = "waiting" /\ streamJob[s] = j
            <4>1. PICK i \in 1..Len(w) : s = w[i]
                BY <1>1, <1>2
            <4> QED
                BY <3>1, <4>1
        <3> QED
            BY <3>1, <3>2
    <2>8. \A i \in 1..Len(w) - k : w[k + i] \notin served /\ k + i \in 1..Len(w)
        BY <1>1, <1>2, <2>7
    <2>9. WaitersWait'
        <3>1. ASSUME NEW q \in Jobs
              PROVE  /\ \A i \in 1..Len(waiters'[q]) :
                          streamPc'[waiters'[q][i]] = "waiting"
                            /\ streamJob'[waiters'[q][i]] = q
                     /\ \A i, n \in 1..Len(waiters'[q]) : waiters'[q][i] = waiters'[q][n] => i = n
            <4>1. CASE q = j
                <5>1. waiters'[q] = rest
                    BY <2>2, <2>5, <4>1 DEF rest
                <5>2. ASSUME NEW i \in 1..Len(w) - k
                      PROVE  streamPc'[w[k + i]] = "waiting" /\ streamJob'[w[k + i]] = j
                    BY <1>4, <2>2, <2>5, <2>7, <2>8
                <5>3. \A i, n \in 1..Len(w) - k : w[k + i] = w[k + n] => i = n
                    <6>1. /\ k \in Nat /\ Len(w) \in Nat
                          /\ \A i \in 1..Len(w) - k : k + i \in 1..Len(w)
                        BY <1>1, <1>2, <2>8
                    <6>2. ASSUME NEW i \in 1..Len(w) - k, NEW n \in 1..Len(w) - k,
                                 w[k + i] = w[k + n]
                          PROVE  i = n
                        <7>1. k + i = k + n
                            BY <2>7, <6>1, <6>2
                        <7> QED
                            BY <6>1, <7>1
                    <6> QED
                        BY <6>2
                <5>4. ASSUME NEW i \in 1..Len(rest)
                      PROVE  streamPc'[rest[i]] = "waiting" /\ streamJob'[rest[i]] = q
                    <6>1. i \in 1..Len(w) - k /\ rest[i] = w[k + i]
                        BY <2>3
                    <6> QED
                        BY <4>1, <5>2, <6>1
                <5>5. \A i, n \in 1..Len(rest) : rest[i] = rest[n] => i = n
                    BY <2>3, <5>3
                <5> QED
                    BY <5>1, <5>4, <5>5
            <4>2. CASE q # j
                <5>1. waiters'[q] = waiters[q] /\ waiters[q] \in Seq(Streams)
                    BY <2>2, <2>5, <4>2
                <5>2. ASSUME NEW i \in 1..Len(waiters[q])
                      PROVE  /\ waiters[q][i] \in Streams /\ waiters[q][i] \notin served
                             /\ streamPc[waiters[q][i]] = "waiting"
                             /\ streamJob[waiters[q][i]] = q
                    <6>1. waiters[q][i] \in Streams
                        BY <5>1
                    <6>2. streamPc[waiters[q][i]] = "waiting" /\ streamJob[waiters[q][i]] = q
                        BY DEF JobInv, WaitersWait
                    <6> QED
                        BY <2>7, <4>2, <6>1, <6>2
                <5>3. \A i, n \in 1..Len(waiters[q]) : waiters[q][i] = waiters[q][n] => i = n
                    BY DEF JobInv, WaitersWait
                <5>4. ASSUME NEW i \in 1..Len(waiters[q])
                      PROVE  /\ streamPc'[waiters[q][i]] = "waiting"
                             /\ streamJob'[waiters[q][i]] = q
                    BY <1>4, <2>2, <5>2
                <5> QED
                    BY <5>1, <5>3, <5>4
            <4> QED
                BY <4>1, <4>2
        <3> QED
            BY <3>1 DEF WaitersWait
    <2>10. WaitingIsHeld'
        <3>1. ASSUME NEW s \in Streams, streamPc'[s] = "waiting"
              PROVE  \E i \in 1..Len(waiters'[streamJob[s]]) : waiters'[streamJob[s]][i] = s
            <4>1. s \notin served /\ streamPc[s] = "waiting"
                BY <2>2, <3>1
            <4>2. PICK i \in 1..Len(waiters[streamJob[s]]) : waiters[streamJob[s]][i] = s
                BY <4>1 DEF JobInv, WaitingIsHeld
            <4>3. CASE streamJob[s] = j
                <5>1. i \notin 1..k /\ i \in 1..Len(w)
                    BY <4>1, <4>2, <4>3
                <5>2. i - k \in 1..Len(w) - k /\ k + (i - k) = i
                    BY <1>1, <1>2, <5>1
                <5>3. waiters'[j] = rest
                    BY <2>2, <2>5 DEF rest
                <5> QED
                    BY <2>3, <4>2, <4>3, <5>2, <5>3
            <4>4. CASE streamJob[s] # j
                <5>1. streamJob[s] \in Jobs
                    BY <4>1 DEF JobInv, Opened
                <5>2. waiters'[streamJob[s]] = waiters[streamJob[s]]
                    BY <2>2, <2>5, <4>4, <5>1
                <5> QED
                    BY <4>2, <5>2
            <4> QED
                BY <4>3, <4>4
        <3> QED
            BY <1>4, <3>1 DEF WaitingIsHeld
    <2>11. NothingLeft'
        <3>1. ASSUME NEW q \in Jobs
              PROVE  /\ q \notin live => queue'[q] = <<>> /\ waiters'[q] = <<>>
                     /\ queue'[q] = <<>> \/ waiters'[q] = <<>>
            <4>1. CASE q # j
                <5>1. queue'[q] = queue[q] /\ waiters'[q] = waiters[q]
                    BY <2>2, <2>5, <4>1
                <5> QED
                    BY <5>1 DEF JobInv, NothingLeft
            <4>2. CASE q = j
                <5>1. /\ queue'[q] = queue[j] \o more
                      /\ waiters'[q] = rest
                    BY <2>2, <2>5, <4>2 DEF rest, more
                <5>2. CASE k = Len(w)
                    BY <1>6, <2>3, <4>2, <5>1, <5>2
                <5>3. CASE k = Len(es) /\ k < Len(w)
                    <6>1. queue[j] = <<>>
                        BY <1>1, <1>2, <5>3 DEF JobInv, NothingLeft
                    <6> QED
                        BY <1>6, <2>4, <4>2, <5>1, <5>3, <6>1
                <5> QED
                    BY <1>2, <1>1, <5>2, <5>3
            <4> QED
                BY <4>1, <4>2
        <3> QED
            BY <1>4, <3>1 DEF NothingLeft
    <2>12. Opened'
        <3>1. ASSUME NEW s \in Streams, streamPc'[s] # "unused" PROVE streamJob[s] \in Jobs
            <4>1. streamPc[s] # "unused"
                BY <2>2, <2>7, <3>1
            <4> QED
                BY <4>1 DEF JobInv, Opened
        <3> QED
            BY <1>4, <3>1 DEF JobInv, Opened
    <2> QED
        BY <2>6, <2>9, <2>10, <2>11, <2>12 DEF JobInv
<1> QED
    BY <1>5, <1>6

(* A cleanup forgets one job and everything it held, and resumes exactly   *)
(* the streams that waited for it; pc is where the streams are when it is  *)
(* called, and a stream that waited still waits.                           *)
LEMMA CleanupKeepsInv ==
    ASSUME JobInv, NEW j \in Jobs, NEW pc \in [Streams -> StreamPoints],
           \A s \in Streams : /\ pc[s] = "waiting" <=> streamPc[s] = "waiting"
                              /\ pc[s] # "unused" => streamPc[s] # "unused",
           Cleanup(j, pc), UNCHANGED <<producerVars, streamJob>>,
           written' \in [Streams -> Seq(Event \union {NotFound})]
    PROVE  JobInv'
<1> DEFINE w == waiters[j]
           released == {w[i] : i \in DOMAIN w}
<1>1. /\ live' = live \ {j} /\ timers' = timers \ {j}
      /\ queue' = [queue EXCEPT ![j] = <<>>] /\ waiters' = [waiters EXCEPT ![j] = <<>>]
      /\ streamPc' = [s \in Streams |-> IF s \in released THEN "resumed" ELSE pc[s]]
      /\ inbox' = [s \in Streams |-> IF s \in released THEN NotFound ELSE inbox[s]]
      /\ UNCHANGED <<streamJob, producer, kind, produced>>
    BY DEF Cleanup, producerVars
<1>2. /\ waiters \in [Jobs -> Seq(Streams)] /\ queue \in [Jobs -> Seq(Event)]
      /\ w \in Seq(Streams) /\ DOMAIN w = 1..Len(w)
    BY DEF JobInv, TypeOK
<1>3. TypeOK'
    <2>1. inbox' \in [Streams -> Event \union {NotFound}]
        BY <1>1 DEF JobInv, TypeOK
    <2>2. streamPc' \in [Streams -> StreamPoints]
        BY <1>1 DEF StreamPoints
    <2>3. waiters' \in [Jobs -> Seq(Streams)] /\ queue' \in [Jobs -> Seq(Event)]
        BY <1>1, <1>2
    <2> QED
        BY <1>1, <2>1, <2>2, <2>3 DEF JobInv, TypeOK, StreamPoints
<1>4. \A s \in released : streamPc[s] = "waiting" /\ streamJob[s] = j
    BY <1>2 DEF JobInv, WaitersWait
<1>5. ASSUME NEW q \in Jobs, q # j
      PROVE  waiters'[q] = waiters[q] /\ queue'[q] = queue[q]
    BY <1>1, <1>2, <1>5
<1>6. waiters'[j] = <<>> /\ queue'[j] = <<>>
    BY <1>1, <1>2
<1>7. WaitersWait'
    <2>1. ASSUME NEW q \in Jobs
          PROVE  /\ \A i \in 1..Len(waiters'[q]) : streamPc'[waiters'[q][i]] = "waiting"
                                                      /\ streamJob'[waiters'[q][i]] = q
                 /\ \A i, n \in 1..Len(waiters'[q]) : waiters'[q][i] = waiters'[q][n] => i = n
        <3>1. CASE q = j
            BY <1>6, <3>1
        <3>2. CASE q # j
            <4>1. ASSUME NEW i \in 1..Len(waiters[q])
                  PROVE  streamPc'[waiters[q][i]] = "waiting" /\ streamJob'[waiters[q][i]] = q
                <5>1. /\ waiters[q][i] \in Streams
                      /\ streamPc[waiters[q][i]] = "waiting" /\ streamJob[waiters[q][i]] = q
                    BY <1>2 DEF JobInv, WaitersWait
                <5>2. waiters[q][i] \notin released
                    BY <1>4, <3>2, <5>1
                <5> QED
                    BY <1>1, <5>1, <5>2
            <4>2. \A i, n \in 1..Len(waiters[q]) : waiters[q][i] = waiters[q][n] => i = n
                BY DEF JobInv, WaitersWait
            <4> QED
                BY <1>5, <3>2, <4>1, <4>2
        <3> QED
            BY <3>1, <3>2
    <2> QED
        BY <2>1 DEF WaitersWait
<1>8. WaitingIsHeld'
    <2>1. ASSUME NEW s \in Streams, streamPc'[s] = "waiting"
          PROVE  \E i \in 1..Len(waiters'[streamJob[s]]) : waiters'[streamJob[s]][i] = s
        <3>1. s \notin released /\ streamPc[s] = "waiting"
            BY <1>1, <2>1
        <3>2. streamJob[s] \in Jobs
            BY <3>1 DEF JobInv, Opened
        <3>3. PICK i \in 1..Len(waiters[streamJob[s]]) : waiters[streamJob[s]][i] = s
            BY <3>1 DEF JobInv, WaitingIsHeld
        <3>4. streamJob[s] # j
            BY <1>2, <3>1, <3>3
        <3> QED
            BY <1>5, <3>2, <3>3, <3>4
    <2> QED
        BY <1>1, <2>1 DEF WaitingIsHeld
<1>9. NothingLeft'
    <2>1. ASSUME NEW q \in Jobs
          PROVE  /\ q \notin live' => queue'[q] = <<>> /\ waiters'[q] = <<>>
                 /\ queue'[q] = <<>> \/ waiters'[q] = <<>>
        <3>1. CASE q = j
            BY <1>6, <3>1
        <3>2. CASE q # j
            BY <1>1, <1>5, <3>2 DEF JobInv, NothingLeft
        <3> QED
            BY <3>1, <3>2
    <2> QED
        BY <2>1 DEF NothingLeft
<1>10. Opened'
    BY <1>1, <1>4 DEF JobInv, Opened
<1> QED
    BY <1>3, <1>7, <1>8, <1>9, <1>10 DEF JobInv

(* What a producer does, it does with the events it pushes.                *)
LEMMA ProducerPushes ==
    ASSUME NEW j \in Jobs, Producer(j) \/ LegacyForwards(j)
    PROVE  \E types \in Seq(EventTypes) : Push(j, types)
<1>1. ASSUME NEW a \in EventTypes, NEW b \in EventTypes, NEW c \in EventTypes
      PROVE  <<a>> \in Seq(EventTypes) /\ <<a, b>> \in Seq(EventTypes)
               /\ <<a, b, c>> \in Seq(EventTypes)
    OBVIOUS
<1>2. CASE ProducerStarts(j)
    BY <1>1, <1>2 DEF ProducerStarts, EventTypes
<1>3. CASE NlpAnswers(j)
    BY <1>1, <1>3 DEF NlpAnswers, EventTypes
<1>4. CASE LlmAnswers(j)
    BY <1>1, <1>4 DEF LlmAnswers, EventTypes
<1>5. CASE ServiceAnswers(j) \/ LegacyEnds(j) \/ RequestFails(j)
    BY <1>1, <1>5 DEF ServiceAnswers, LegacyEnds, RequestFails, EventTypes
<1>6. CASE LegacyForwards(j)
    BY <1>1, <1>6 DEF LegacyForwards, EventTypes
<1> QED
    BY <1>2, <1>3, <1>4, <1>5, <1>6 DEF Producer

(* The producers: each pushes events and moves on.                         *)
LEMMA ProducerKeepsInv ==
    ASSUME JobInv, NEW j \in Jobs, Producer(j) \/ LegacyForwards(j)
    PROVE  JobInv'
<1>1. PICK types \in Seq(EventTypes) : Push(j, types)
    BY ProducerPushes
<1>2. PICK to \in ProducerPoints \ {"none"} :
          producer' = producer \/ producer' = [producer EXCEPT ![j] = to]
    <2>1. kind[j] \in Kinds
        BY DEF JobInv, TypeOK
    <2> QED
        BY <2>1 DEF Producer, ProducerStarts, NlpAnswers, LlmAnswers, ServiceAnswers,
           LegacyEnds, RequestFails, LegacyForwards, ProducerAt, ProducerPoints, Kinds
<1>3. producer' \in [Jobs -> ProducerPoints]
    BY <1>2 DEF JobInv, TypeOK, ProducerPoints
<1>4. \A q \in Jobs : producer'[q] = "none" => producer[q] = "none"
    BY <1>2 DEF JobInv, TypeOK
<1> QED
    BY <1>1, <1>3, <1>4, PushKeepsInv

(* A job is created with nothing in it. *)
LEMMA CreateKeepsInv ==
    ASSUME JobInv, NEW j \in Jobs, NEW k \in Kinds, CreateJob(j, k)
    PROVE  JobInv'
<1>1. /\ producer' = [producer EXCEPT ![j] = "queued"] /\ kind' = [kind EXCEPT ![j] = k]
      /\ live' = live \union {j} /\ timers' = timers \union {j}
      /\ UNCHANGED <<queue, waiters, produced, streamPc, streamJob, inbox, written>>
    BY DEF CreateJob, streamVars
<1>2. TypeOK'
    BY <1>1 DEF JobInv, TypeOK
<1>3. WaitersWait' /\ WaitingIsHeld' /\ NothingLeft'
    BY <1>1 DEF JobInv, WaitersWait, WaitingIsHeld, NothingLeft
<1>4. Opened'
    BY <1>1 DEF JobInv, TypeOK, Opened
<1> QED
    BY <1>2, <1>3, <1>4 DEF JobInv

(* A stream is opened, or takes the head of the queue, or learns that its  *)
(* job is gone: the waiters stay.                                          *)
LEMMA StreamTakesKeepsInv ==
    ASSUME JobInv, NEW s \in Streams,
           \/ \E j \in Jobs : StreamOpen(s, j)
           \/ StreamNext(s) /\ UNCHANGED waiters
    PROVE  JobInv'
<1>1. CASE \E j \in Jobs : StreamOpen(s, j)
    <2>1. PICK j \in Jobs : StreamOpen(s, j)
        BY <1>1
    <2>2. /\ streamPc[s] = "unused" /\ streamPc' = [streamPc EXCEPT ![s] = "next"]
          /\ streamJob' = [streamJob EXCEPT ![s] = j]
          /\ UNCHANGED <<live, timers, queue, waiters, producer, kind, produced, inbox, written>>
        BY <2>1 DEF StreamOpen, jobVars, producerVars
    <2>3. TypeOK'
        BY <2>2 DEF JobInv, TypeOK
    <2>4. \A q \in Jobs : \A i \in 1..Len(waiters[q]) :
              waiters[q][i] \in Streams /\ waiters[q][i] # s
        BY <2>2 DEF JobInv, TypeOK, WaitersWait
    <2>5. WaitersWait'
        BY <2>2, <2>4 DEF JobInv, TypeOK, WaitersWait
    <2>6. WaitingIsHeld'
        BY <2>2 DEF JobInv, TypeOK, WaitingIsHeld
    <2>7. NothingLeft'
        BY <2>2 DEF JobInv, NothingLeft
    <2>8. Opened'
        BY <2>2 DEF JobInv, TypeOK, Opened
    <2> QED
        BY <2>3, <2>5, <2>6, <2>7, <2>8 DEF JobInv
<1>2. CASE StreamNext(s) /\ UNCHANGED waiters
    <2>1. streamPc[s] = "next" /\ streamJob[s] \in Jobs
        BY <1>2 DEF StreamNext, JobInv, Opened
    <2>2. PICK j \in Jobs : j = streamJob[s]
        BY <2>1
    <2>3. waiters[j] \in Seq(Streams) /\ queue[j] \in Seq(Event)
        BY DEF JobInv, TypeOK
    <2>4. waiters' # [waiters EXCEPT ![j] = Append(@, s)]
        <3>1. Len(Append(waiters[j], s)) = Len(waiters[j]) + 1 /\ Len(waiters[j]) \in Nat
            BY <2>3
        <3>2. [waiters EXCEPT ![j] = Append(@, s)][j] = Append(waiters[j], s)
            BY <2>2 DEF JobInv, TypeOK
        <3>3. Append(waiters[j], s) # waiters[j]
            BY <3>1
        <3> QED
            BY <1>2, <3>2, <3>3
    <2>5. /\ UNCHANGED <<live, timers, waiters, producer, kind, produced, streamJob, written>>
          /\ streamPc' = [streamPc EXCEPT ![s] = "resumed"]
          /\ \/ inbox' = [inbox EXCEPT ![s] = NotFound] /\ UNCHANGED queue
             \/ /\ queue[j] # <<>>
                /\ inbox' = [inbox EXCEPT ![s] = Head(queue[j])]
                /\ queue' = [queue EXCEPT ![j] = Tail(@)]
        BY <1>2, <2>2, <2>4 DEF StreamNext, OldestOf, producerVars
    <2>6. queue[j] # <<>> => Head(queue[j]) \in Event /\ Tail(queue[j]) \in Seq(Event)
        BY <2>3
    <2>7. TypeOK'
        <3>1. inbox' \in [Streams -> Event \union {NotFound}]
            BY <2>5, <2>6 DEF JobInv, TypeOK
        <3>2. queue' \in [Jobs -> Seq(Event)]
            BY <2>5, <2>6 DEF JobInv, TypeOK
        <3>3. streamPc' \in [Streams -> StreamPoints]
            BY <2>5 DEF JobInv, TypeOK, StreamPoints
        <3> QED
            BY <2>5, <3>1, <3>2, <3>3 DEF JobInv, TypeOK
    <2>8. \A q \in Jobs : \A i \in 1..Len(waiters[q]) :
              waiters[q][i] \in Streams /\ waiters[q][i] # s
        BY <2>1 DEF JobInv, TypeOK, WaitersWait
    <2>9. WaitersWait'
        BY <2>5, <2>8 DEF JobInv, TypeOK, WaitersWait
    <2>10. WaitingIsHeld'
        BY <2>1, <2>5 DEF JobInv, TypeOK, WaitingIsHeld
    <2>11. NothingLeft'
        BY <2>5 DEF JobInv, TypeOK, NothingLeft
    <2>12. Opened'
        BY <2>1, <2>5 DEF JobInv, TypeOK, Opened
    <2> QED
        BY <2>7, <2>9, <2>10, <2>11, <2>12 DEF JobInv
<1> QED
    BY <1>1, <1>2

(* A stream that finds its job alive and the queue empty joins the waiters *)
(* of this job, at the end and for the first time.                         *)
LEMMA StreamWaitsKeepsInv ==
    ASSUME JobInv, NEW s \in Streams, StreamNext(s), waiters' # waiters
    PROVE  JobInv'
<1>1. streamPc[s] = "next" /\ streamJob[s] \in Jobs
    BY DEF StreamNext, JobInv, Opened
<1>2. PICK j \in Jobs : j = streamJob[s]
    BY <1>1
<1>3. /\ j \in live /\ queue[j] = <<>>
      /\ waiters' = [waiters EXCEPT ![j] = Append(waiters[j], s)]
      /\ streamPc' = [streamPc EXCEPT ![s] = "waiting"]
      /\ UNCHANGED <<live, timers, queue, producer, kind, produced, streamJob, inbox, written>>
    BY <1>2 DEF StreamNext, producerVars
<1> DEFINE longer == Append(waiters[j], s)
<1>4. /\ waiters[j] \in Seq(Streams) /\ Len(waiters[j]) \in Nat
      /\ longer \in Seq(Streams) /\ Len(longer) = Len(waiters[j]) + 1
      /\ \A i \in 1..Len(waiters[j]) : longer[i] = waiters[j][i]
      /\ longer[Len(longer)] = s
    BY DEF JobInv, TypeOK
<1> HIDE DEF longer
<1>5. /\ waiters'[j] = longer
      /\ \A q \in Jobs : q # j => waiters'[q] = waiters[q]
    BY <1>3 DEF JobInv, TypeOK, longer
<1>6. TypeOK'
    <2>1. waiters' \in [Jobs -> Seq(Streams)]
        BY <1>3, <1>4 DEF JobInv, TypeOK, longer
    <2> QED
        BY <1>3, <2>1 DEF JobInv, TypeOK
<1>7. \A q \in Jobs : \A i \in 1..Len(waiters[q]) :
          waiters[q][i] \in Streams /\ waiters[q][i] # s
    BY <1>1 DEF JobInv, TypeOK, WaitersWait
<1>8. WaitersWait'
    <2>1. ASSUME NEW q \in Jobs
          PROVE  /\ \A i \in 1..Len(waiters'[q]) : streamPc'[waiters'[q][i]] = "waiting"
                                                      /\ streamJob'[waiters'[q][i]] = q
                 /\ \A i, n \in 1..Len(waiters'[q]) : waiters'[q][i] = waiters'[q][n] => i = n
        <3>1. \A i \in 1..Len(waiters[q]) : streamPc'[waiters[q][i]] = "waiting"
                                              /\ streamJob'[waiters[q][i]] = q
            BY <1>3, <1>7 DEF JobInv, TypeOK, WaitersWait
        <3>2. \A i, n \in 1..Len(waiters[q]) : waiters[q][i] = waiters[q][n] => i = n
            BY DEF JobInv, WaitersWait
        <3>3. CASE q # j
            BY <1>5, <3>1, <3>2, <3>3
        <3>4. CASE q = j
            <4>1. streamPc'[s] = "waiting" /\ streamJob'[s] = j
                BY <1>2, <1>3 DEF JobInv, TypeOK
            <4>2. \A i \in 1..Len(longer) : i \in 1..Len(waiters[j]) \/ i = Len(longer)
                BY <1>4
            <4>3. \A i \in 1..Len(longer) : streamPc'[longer[i]] = "waiting"
                                              /\ streamJob'[longer[i]] = j
                BY <1>4, <3>1, <3>4, <4>1, <4>2
            <4>4. \A i, n \in 1..Len(longer) : longer[i] = longer[n] => i = n
                BY <1>4, <1>7, <3>2, <3>4, <4>2
            <4> QED
                BY <1>5, <3>4, <4>3, <4>4
        <3> QED
            BY <3>3, <3>4
    <2> QED
        BY <2>1 DEF WaitersWait
<1>9. WaitingIsHeld'
    <2>1. ASSUME NEW t \in Streams, streamPc'[t] = "waiting"
          PROVE  \E i \in 1..Len(waiters'[streamJob[t]]) : waiters'[streamJob[t]][i] = t
        <3>1. CASE t = s
            <4>1. Len(longer) \in 1..Len(longer)
                BY <1>4
            <4> QED
                BY <1>2, <1>4, <1>5, <3>1, <4>1
        <3>2. CASE t # s
            <4>1. streamPc[t] = "waiting"
                BY <1>3, <2>1, <3>2
            <4>2. PICK i \in 1..Len(waiters[streamJob[t]]) : waiters[streamJob[t]][i] = t
                BY <4>1 DEF JobInv, WaitingIsHeld
            <4>3. streamJob[t] \in Jobs
                BY <4>1 DEF JobInv, Opened
            <4>4. CASE streamJob[t] = j
                BY <1>4, <1>5, <4>2, <4>4
            <4>5. CASE streamJob[t] # j
                BY <1>5, <4>2, <4>3, <4>5
            <4> QED
                BY <4>4, <4>5
        <3> QED
            BY <3>1, <3>2
    <2> QED
        BY <1>3, <2>1 DEF WaitingIsHeld
<1>10. NothingLeft' /\ Opened'
    BY <1>1, <1>3, <1>5 DEF JobInv, TypeOK, NothingLeft, Opened
<1> QED
    BY <1>6, <1>8, <1>9, <1>10 DEF JobInv

(* A stream writes an event and comes back for the next one, or ends and   *)
(* cleans its job up.                                                      *)
LEMMA StreamWriteKeepsInv ==
    ASSUME JobInv, NEW s \in Streams, StreamWrite(s)
    PROVE  JobInv'
<1>1. streamPc[s] = "resumed" /\ streamJob[s] \in Jobs
    BY DEF StreamWrite, JobInv, Opened
<1>2. /\ written' = [written EXCEPT ![s] = Append(written[s], inbox[s])]
      /\ UNCHANGED <<producerVars, streamJob>>
    BY DEF StreamWrite
<1>3. written' \in [Streams -> Seq(Event \union {NotFound})]
    <2>1. Append(written[s], inbox[s]) \in Seq(Event \union {NotFound})
        BY DEF JobInv, TypeOK
    <2> QED
        BY <1>2, <2>1 DEF JobInv, TypeOK
<1>4. CASE inbox[s].type \in Terminal
    <2>1. PICK j \in Jobs : j = streamJob[s]
        BY <1>1
    <2>2. PICK pc \in [Streams -> StreamPoints] : pc = [streamPc EXCEPT ![s] = "ended"]
        BY DEF JobInv, TypeOK, StreamPoints
    <2>3. Cleanup(j, pc)
        BY <1>4, <2>1, <2>2 DEF StreamWrite, Cleanup
    <2>4. \A t \in Streams : /\ pc[t] = "waiting" <=> streamPc[t] = "waiting"
                             /\ pc[t] # "unused" => streamPc[t] # "unused"
        <3>1. \A t \in Streams : pc[t] = IF t = s THEN "ended" ELSE streamPc[t]
            BY <2>2 DEF JobInv, TypeOK
        <3> QED
            BY <1>1, <3>1
    <2> QED
        BY <1>2, <1>3, <2>3, <2>4, CleanupKeepsInv
<1>5. CASE inbox[s].type \notin Terminal
    <2>1. /\ streamPc' = [streamPc EXCEPT ![s] = "next"]
          /\ UNCHANGED <<live, timers, queue, waiters, producer, kind, produced, streamJob, inbox>>
        BY <1>2, <1>5 DEF StreamWrite, jobVars, producerVars
    <2>2. TypeOK'
        BY <1>3, <2>1 DEF JobInv, TypeOK
    <2>3. \A q \in Jobs : \A i \in 1..Len(waiters[q]) :
              waiters[q][i] \in Streams /\ waiters[q][i] # s
        BY <1>1 DEF JobInv, TypeOK, WaitersWait
    <2>4. \A t \in Streams : streamPc'[t] = IF t = s THEN "next" ELSE streamPc[t]
        BY <2>1 DEF JobInv, TypeOK
    <2>5. WaitersWait' /\ NothingLeft'
        BY <2>1, <2>3, <2>4 DEF JobInv, WaitersWait, NothingLeft
    <2>6. WaitingIsHeld' /\ Opened'
        BY <1>1, <2>1, <2>4 DEF JobInv, WaitingIsHeld, Opened
    <2> QED
        BY <2>2, <2>5, <2>6 DEF JobInv
<1> QED
    BY <1>4, <1>5

(* The TTL timer fires.                                                    *)
LEMMA ExpireKeepsInv ==
    ASSUME JobInv, NEW j \in Jobs, Expire(j)
    PROVE  JobInv'
<1>1. PICK pc \in [Streams -> StreamPoints] : pc = streamPc
    BY DEF JobInv, TypeOK, StreamPoints
<1>2. Cleanup(j, pc) /\ UNCHANGED <<producerVars, streamJob, written>>
    BY <1>1 DEF Expire, Cleanup
<1>3. written' \in [Streams -> Seq(Event \union {NotFound})]
    BY <1>2 DEF JobInv, TypeOK
<1> QED
    BY <1>1, <1>2, <1>3, CleanupKeepsInv

(* Every step of the gateway keeps the invariant.                          *)
LEMMA JobStep == JobInv /\ [Next]_vars => JobInv'
<1> SUFFICES ASSUME JobInv, [Next]_vars PROVE JobInv'
    OBVIOUS
<1>1. CASE UNCHANGED vars
    BY <1>1 DEF vars, jobVars, producerVars, streamVars, JobInv, TypeOK, WaitersWait,
                WaitingIsHeld, NothingLeft, Opened
<1>2. ASSUME NEW j \in Jobs,
             \/ \E k \in Kinds : CreateJob(j, k)
             \/ Producer(j) \/ LegacyForwards(j) \/ Expire(j)
      PROVE  JobInv'
    BY <1>2, CreateKeepsInv, ProducerKeepsInv, ExpireKeepsInv
<1>3. ASSUME NEW s \in Streams, (\E j \in Jobs : StreamOpen(s, j)) \/ Stream(s)
      PROVE  JobInv'
    BY <1>3, StreamTakesKeepsInv, StreamWaitsKeepsInv, StreamWriteKeepsInv DEF Stream
<1> QED
    BY <1>1, <1>2, <1>3 DEF Next

(* The types of the state: only the events of app.ts ever reach a stream.  *)
THEOREM SpecTypeOK == Spec => []TypeOK
<1>1. JobInv => TypeOK
    BY DEF JobInv
<1> QED
    BY JobInit, JobStep, <1>1, PTL DEF Spec

(* Whatever the producers, the timers and any number of streams do: a      *)
(* stream whose promise is pending is a waiter, once, of a job that is in  *)
(* the map, and no job holds waiters and undelivered events at a time.     *)
THEOREM SpecWaitersAreReachable == Spec => []WaitersAreReachable
BY JobInit, JobStep, InvReachable, PTL DEF Spec
-----------------------------------------------------------------------------
(* Where the events are.  EachEventOnce and StreamsKeepOrder are about the *)
(* numbers of the events; the invariant says which number is where: the    *)
(* queue holds the newest ones in a row, the streams of the job share out  *)
(* all the older ones, and what a stream takes next is newer than all it   *)
(* ever took.                                                              *)

(* How many events of a job have left its queue, or never were in it.      *)
Handed(j) == Len(produced[j]) - Len(queue[j])

(* The numbers of the events a stream has taken; a "Job not found" has no  *)
(* number.                                                                 *)
Numbers(s) == {e.n : e \in Taken(s)} \ {0}

(* The queue holds the newest events, in the order they were pushed.       *)
QueueIsNewest ==
    \A j \in Jobs : /\ Len(queue[j]) <= Len(produced[j])
                    /\ \A i \in 1..Len(queue[j]) : queue[j][i].n = Handed(j) + i

(* The streams of a job share out the events that left the queue: none has *)
(* one of a later number, no two have the same, and while the job lives    *)
(* somebody has each.                                                      *)
StreamsShare ==
    /\ \A s \in Streams : \A n \in Numbers(s) :
         streamPc[s] # "unused" /\ n <= Handed(streamJob[s])
    /\ \A s, t \in Streams :
         streamJob[s] = streamJob[t] /\ s # t => Numbers(s) \cap Numbers(t) = {}
    /\ \A j \in live : \A n \in 1..Handed(j) :
         \E s \in Streams : streamJob[s] = j /\ n \in Numbers(s)

(* A stream that has not ended wrote no terminal event, and what it is     *)
(* about to write is newer than all it wrote.                              *)
InboxIsNewer ==
    \A s \in Streams :
        /\ streamPc[s] = "unused" => written[s] = <<>>
        /\ streamPc[s] # "ended" => \A i \in 1..Len(written[s]) : written[s][i].type \notin Terminal
        /\ streamPc[s] = "resumed" => \/ inbox[s].type = "not_found"
                                      \/ \A i \in 1..Len(written[s]) : written[s][i].n < inbox[s].n

(* A job whose request has not come has no event.                          *)
NothingYet == \A j \in Jobs : producer[j] = "none" => produced[j] = <<>>

DeliveryInv ==
    /\ JobInv
    /\ QueueIsNewest
    /\ StreamsShare
    /\ InboxIsNewer
    /\ StreamsKeepOrder
    /\ NothingYet

(* What a stream has taken, written out.                                   *)
LEMMA NumbersAre ==
    ASSUME TypeOK, NEW s \in Streams, NEW n \in Nat \ {0}
    PROVE  n \in Numbers(s) <=> \/ \E i \in 1..Len(written[s]) : written[s][i].n = n
                                \/ streamPc[s] = "resumed" /\ inbox[s].n = n
<1>1. written[s] \in Seq(Event \union {NotFound}) /\ DOMAIN written[s] = 1..Len(written[s])
    BY DEF TypeOK
<1>2. Taken(s) = {written[s][i] : i \in 1..Len(written[s])}
                   \union (IF streamPc[s] = "resumed" THEN {inbox[s]} ELSE {})
    BY <1>1 DEF Taken, Events
<1> QED
    BY <1>2 DEF Numbers

(* The state of the job in numbers.                                        *)
LEMMA HandedIsNat ==
    ASSUME DeliveryInv, NEW j \in Jobs
    PROVE  /\ Handed(j) \in Nat /\ Len(queue[j]) \in Nat /\ Len(produced[j]) \in Nat
           /\ Len(produced[j]) = Handed(j) + Len(queue[j])
<1>1. queue[j] \in Seq(Event) /\ produced[j] \in Seq(EventTypes)
    BY DEF DeliveryInv, JobInv, TypeOK
<1>2. Len(queue[j]) \in Nat /\ Len(produced[j]) \in Nat
    BY <1>1
<1>3. Len(queue[j]) <= Len(produced[j])
    BY DEF DeliveryInv, QueueIsNewest
<1> HIDE DEF DeliveryInv
<1> QED
    BY <1>2, <1>3 DEF Handed

(* The invariant says what EachEventOnce promises.                         *)
LEMMA DeliveryIsOnce == DeliveryInv => EachEventOnce
<1> SUFFICES ASSUME DeliveryInv, NEW j \in Jobs, NEW n \in 1..Len(produced[j])
             PROVE  LET readers == {s \in Streams : streamJob[s] = j}
                        holders == {s \in readers : \E e \in Taken(s) : e.n = n}
                        queued == {i \in DOMAIN queue[j] : queue[j][i].n = n}
                        copies == Cardinality(holders) + Cardinality(queued)
                    IN  copies <= 1 /\ (j \in live => copies = 1)
    BY DEF EachEventOnce
<1> DEFINE holders == {s \in {t \in Streams : streamJob[t] = j} : \E e \in Taken(s) : e.n = n}
           queued == {i \in DOMAIN queue[j] : queue[j][i].n = n}
<1>1. /\ Handed(j) \in Nat /\ Len(queue[j]) \in Nat /\ Len(produced[j]) \in Nat
      /\ Len(produced[j]) = Handed(j) + Len(queue[j])
    BY HandedIsNat
<1>2. n \in Nat \ {0}
    BY <1>1
<1>3. holders = {s \in Streams : streamJob[s] = j /\ n \in Numbers(s)}
    BY <1>2 DEF Numbers
<1>4. DOMAIN queue[j] = 1..Len(queue[j])
    BY DEF DeliveryInv, JobInv, TypeOK
<1>5. queued = {i \in 1..Len(queue[j]) : Handed(j) + i = n}
    BY <1>4 DEF DeliveryInv, QueueIsNewest
<1>6. CASE n <= Handed(j)
    <2>1. queued = {}
        BY <1>1, <1>2, <1>5, <1>6
    <2>2. \A s, t \in holders : s = t
        BY <1>3 DEF DeliveryInv, StreamsShare
    <2>3. j \in live => holders # {}
        BY <1>1, <1>2, <1>3, <1>6 DEF DeliveryInv, StreamsShare
    <2>4. holders = {} \/ \E s \in holders : holders = {s}
        BY <2>2
    <2>5. /\ Cardinality(holders) = 0 \/ Cardinality(holders) = 1
          /\ holders # {} => Cardinality(holders) = 1
        BY <2>4, FS_EmptySet, FS_Singleton
    <2>6. Cardinality(queued) = 0
        BY <2>1, FS_EmptySet
    <2> HIDE DEF holders, queued
    <2>7. /\ Cardinality(holders) + Cardinality(queued) <= 1
          /\ j \in live => Cardinality(holders) + Cardinality(queued) = 1
        BY <2>3, <2>5, <2>6
    <2> QED
        BY <2>7 DEF holders, queued
<1>7. CASE n > Handed(j)
    <2>1. holders = {}
        BY <1>1, <1>2, <1>3, <1>7 DEF DeliveryInv, StreamsShare
    <2>2. n - Handed(j) \in 1..Len(queue[j])
        BY <1>1, <1>2, <1>7
    <2>3. queued = {n - Handed(j)}
        BY <1>1, <1>2, <1>5, <2>2
    <2>4. Cardinality(queued) = 1 /\ Cardinality(holders) = 0
        BY <2>1, <2>3, FS_EmptySet, FS_Singleton
    <2> HIDE DEF holders, queued
    <2>5. Cardinality(holders) + Cardinality(queued) = 1
        BY <2>4
    <2> QED
        BY <2>5 DEF holders, queued
<1> QED
    BY <1>1, <1>2, <1>6, <1>7

(* The same in the next state.                                             *)
LEMMA NumbersAreNext ==
    ASSUME TypeOK', NEW s \in Streams, NEW n \in Nat \ {0}
    PROVE  n \in Numbers(s)' <=> \/ \E i \in 1..Len(written'[s]) : written'[s][i].n = n
                                 \/ streamPc'[s] = "resumed" /\ inbox'[s].n = n
<1>1. written'[s] \in Seq(Event \union {NotFound}) /\ DOMAIN written'[s] = 1..Len(written'[s])
    BY DEF TypeOK
<1>2. Taken(s)' = {written'[s][i] : i \in 1..Len(written'[s])}
                    \union (IF streamPc'[s] = "resumed" THEN {inbox'[s]} ELSE {})
    BY <1>1 DEF Taken, Events
<1> QED
    BY <1>2 DEF Numbers

(* A number is a number.                                                   *)
LEMMA NumbersAreNat ==
    ASSUME NEW s \in Streams
    PROVE  /\ TypeOK => Numbers(s) \subseteq Nat \ {0}
           /\ TypeOK' => Numbers(s)' \subseteq Nat \ {0}
<1>1. ASSUME TypeOK PROVE Numbers(s) \subseteq Nat \ {0}
    <2>1. Taken(s) \subseteq Event \union {NotFound}
        BY <1>1 DEF TypeOK, Taken, Events
    <2>2. \A e \in Event \union {NotFound} : e.n \in Nat
        BY DEF Event, NotFound
    <2> QED
        BY <2>1, <2>2 DEF Numbers
<1>2. ASSUME TypeOK' PROVE Numbers(s)' \subseteq Nat \ {0}
    <2>1. Taken(s)' \subseteq Event \union {NotFound}
        BY <1>2 DEF TypeOK, Taken, Events
    <2>2. \A e \in Event \union {NotFound} : e.n \in Nat
        BY DEF Event, NotFound
    <2> QED
        BY <2>1, <2>2 DEF Numbers
<1> QED
    BY <1>1, <1>2

(* A step in which no stream takes an event leaves them shared out, if the *)
(* jobs that stay keep what left their queues.                             *)
LEMMA SharesStay ==
    ASSUME DeliveryInv,
           \A s \in Streams :
             /\ Numbers(s)' = Numbers(s)
             /\ Numbers(s) # {} => streamJob'[s] = streamJob[s] /\ streamPc'[s] # "unused",
           \A q \in Jobs : Handed(q)' \in Nat /\ Handed(q) <= Handed(q)',
           \A q \in live' : Handed(q)' = 0 \/ (q \in live /\ Handed(q)' = Handed(q))
    PROVE  StreamsShare'
<1>1. ASSUME NEW s \in Streams, NEW n \in Numbers(s)'
      PROVE  streamPc'[s] # "unused" /\ n <= Handed(streamJob[s])'
    <2>1. n \in Numbers(s) /\ n \in Nat /\ streamJob'[s] = streamJob[s] /\ streamPc'[s] # "unused"
        BY <1>1, NumbersAreNat DEF DeliveryInv, JobInv
    <2>2. streamPc[s] # "unused" /\ n <= Handed(streamJob[s])
        BY <2>1 DEF DeliveryInv, StreamsShare
    <2>3. streamJob[s] \in Jobs
        BY <2>2 DEF DeliveryInv, JobInv, Opened
    <2>4. Handed(streamJob[s]) \in Nat /\ Handed(streamJob[s]) <= Handed(streamJob[s])'
        BY <2>3, HandedIsNat
    <2>5. PICK q \in Jobs : q = streamJob[s]
        BY <2>3
    <2>6. n <= Handed(q) /\ Handed(q) \in Nat /\ Handed(q) <= Handed(q)' /\ Handed(q)' \in Nat
        BY <2>2, <2>5, HandedIsNat
    <2>7. n <= Handed(q)'
        BY <2>1, <2>6
    <2>8. Handed(streamJob[s])' = Handed(q)'
        BY <2>1, <2>5 DEF Handed
    <2> QED
        BY <2>1, <2>7, <2>8
<1>2. ASSUME NEW s \in Streams, NEW t \in Streams, streamJob'[s] = streamJob'[t], s # t
      PROVE  Numbers(s)' \cap Numbers(t)' = {}
    BY <1>2 DEF DeliveryInv, StreamsShare
<1>3. ASSUME NEW q \in live', NEW n \in 1..Handed(q)'
      PROVE  \E s \in Streams : streamJob'[s] = q /\ n \in Numbers(s)'
    <2>1. q \in live /\ Handed(q)' = Handed(q)
        BY <1>3
    <2>2. PICK s \in Streams : streamJob[s] = q /\ n \in Numbers(s)
        BY <1>3, <2>1 DEF DeliveryInv, StreamsShare
    <2> QED
        BY <2>2
<1> QED
    BY <1>1, <1>2, <1>3 DEF StreamsShare

(* A step in which k streams of a job take its next k events shares them   *)
(* out too.                                                                *)
LEMMA SharesGrow ==
    ASSUME DeliveryInv, TypeOK', NEW j \in Jobs, NEW k \in Nat, NEW w \in [1..k -> Streams],
           \A i \in 1..k : streamJob[w[i]] = j /\ streamPc[w[i]] # "unused",
           \A s \in Streams : streamPc[s] # "unused" => streamPc'[s] # "unused",
           \A s \in Streams : \A n \in Nat \ {0} :
             n \in Numbers(s)' <=> n \in Numbers(s) \/ \E i \in 1..k : w[i] = s /\ n = Handed(j) + i,
           UNCHANGED <<live, streamJob>>,
           Handed(j)' = Handed(j) + k,
           \A q \in Jobs : q # j => Handed(q)' = Handed(q)
    PROVE  StreamsShare'
<1>1. Handed(j) \in Nat
    BY HandedIsNat
<1>2. \A s \in Streams : Numbers(s)' \subseteq Nat \ {0} /\ Numbers(s) \subseteq Nat \ {0}
    BY NumbersAreNat DEF DeliveryInv, JobInv
<1>3. ASSUME NEW s \in Streams, NEW n \in Numbers(s)'
      PROVE  streamPc'[s] # "unused" /\ n <= Handed(streamJob[s])'
    <2>1. CASE n \in Numbers(s)
        <3>1. streamPc[s] # "unused" /\ n <= Handed(streamJob[s]) /\ n \in Nat
            BY <1>2, <2>1 DEF DeliveryInv, StreamsShare
        <3>2. PICK q \in Jobs : q = streamJob[s]
            BY <3>1 DEF DeliveryInv, JobInv, Opened
        <3>3. Handed(q) \in Nat /\ n <= Handed(q)
            BY <3>1, <3>2, HandedIsNat
        <3>4. n <= Handed(q)'
            BY <1>1, <3>1, <3>3
        <3>5. Handed(streamJob[s])' = Handed(q)'
            BY <3>2 DEF Handed
        <3> QED
            BY <3>1, <3>4, <3>5
    <2>2. CASE n \notin Numbers(s)
        <3>1. PICK i \in 1..k : w[i] = s /\ n = Handed(j) + i
            BY <1>2, <2>2
        <3>2. n <= Handed(j)'
            BY <1>1, <3>1
        <3>3. streamJob'[s] = j /\ streamPc'[s] # "unused"
            BY <3>1
        <3>4. Handed(streamJob[s])' = Handed(j)'
            BY <3>3 DEF Handed
        <3> QED
            BY <3>2, <3>3, <3>4
    <2> QED
        BY <2>1, <2>2
<1>4. ASSUME NEW s \in Streams, NEW t \in Streams, streamJob'[s] = streamJob'[t], s # t,
             NEW n \in Numbers(s)', n \in Numbers(t)'
      PROVE  FALSE
    <2>1. n \in Nat \ {0} /\ streamJob[s] = streamJob[t]
        BY <1>2, <1>4
    <2>2. ASSUME NEW r \in Streams, n \in Numbers(r), streamJob[r] = j PROVE n <= Handed(j)
        BY <2>2 DEF DeliveryInv, StreamsShare
    <2>3. CASE n \in Numbers(s) /\ n \in Numbers(t)
        BY <1>4, <2>1, <2>3 DEF DeliveryInv, StreamsShare
    <2>4. CASE n \notin Numbers(s) \/ n \notin Numbers(t)
        <3>1. PICK i \in 1..k : (w[i] = s \/ w[i] = t) /\ n = Handed(j) + i
            BY <1>4, <2>1, <2>4
        <3>2. streamJob[s] = j /\ streamJob[t] = j /\ ~ (n <= Handed(j))
            BY <1>1, <2>1, <3>1
        <3>3. n \notin Numbers(s) /\ n \notin Numbers(t)
            BY <2>2, <3>2
        <3>4. PICK a \in 1..k : w[a] = s /\ n = Handed(j) + a
            BY <1>4, <2>1, <3>3
        <3>5. PICK b \in 1..k : w[b] = t /\ n = Handed(j) + b
            BY <1>4, <2>1, <3>3
        <3>6. a = b
            BY <1>1, <3>4, <3>5
        <3> QED
            BY <1>4, <3>4, <3>5, <3>6
    <2> QED
        BY <2>3, <2>4
<1>5. ASSUME NEW q \in live', NEW n \in 1..Handed(q)'
      PROVE  \E s \in Streams : streamJob'[s] = q /\ n \in Numbers(s)'
    <2>1. q \in Jobs /\ q \in live
        BY DEF DeliveryInv, JobInv, TypeOK
    <2>2. Handed(q) \in Nat /\ Handed(q)' \in Nat
        BY <1>1, <2>1, HandedIsNat
    <2>3. n \in Nat \ {0}
        BY <2>2
    <2>4. CASE n <= Handed(q)
        <3>1. PICK s \in Streams : streamJob[s] = q /\ n \in Numbers(s)
            BY <2>1, <2>2, <2>3, <2>4 DEF DeliveryInv, StreamsShare
        <3> QED
            BY <2>3, <3>1
    <2>5. CASE ~ (n <= Handed(q))
        <3>1. q = j
            BY <1>5, <2>1, <2>2, <2>5
        <3>2. n - Handed(j) \in 1..k /\ n = Handed(j) + (n - Handed(j))
            BY <1>1, <1>5, <2>3, <2>5, <3>1
        <3>3. PICK i \in 1..k : n = Handed(j) + i
            BY <3>2
        <3>4. n \in Numbers(w[i])' /\ streamJob'[w[i]] = q
            BY <2>3, <3>1, <3>3
        <3> QED
            BY <3>4
    <2> QED
        BY <2>4, <2>5
<1> QED
    BY <1>3, <1>4, <1>5 DEF StreamsShare

(* A step in which no stream writes keeps the order, if what a stream      *)
(* takes is newer than all that left the queue.                            *)
LEMMA OrderStays ==
    ASSUME DeliveryInv, UNCHANGED written,
           \A s \in Streams :
             /\ streamPc'[s] = "unused" => streamPc[s] = "unused"
             /\ streamPc'[s] # "ended" => streamPc[s] # "ended"
             /\ streamPc'[s] = "resumed" =>
                  \/ inbox'[s].type = "not_found"
                  \/ streamPc[s] = "resumed" /\ inbox'[s] = inbox[s]
                  \/ /\ streamPc[s] # "unused" /\ inbox'[s].n \in Nat
                     /\ Handed(streamJob[s]) < inbox'[s].n
    PROVE  InboxIsNewer' /\ StreamsKeepOrder'
<1>1. StreamsKeepOrder'
    BY DEF DeliveryInv, StreamsKeepOrder
<1>2. ASSUME NEW s \in Streams, streamPc[s] # "unused", NEW m \in Nat,
             Handed(streamJob[s]) < m, NEW i \in 1..Len(written[s])
      PROVE  written[s][i].n < m
    <2>1. written[s][i] \in Event \union {NotFound}
        BY DEF DeliveryInv, JobInv, TypeOK
    <2>2. written[s][i].n \in Nat
        BY <2>1 DEF Event, NotFound
    <2>3. PICK q \in Jobs : q = streamJob[s]
        BY <1>2 DEF DeliveryInv, JobInv, Opened
    <2>4. Handed(q) \in Nat
        BY HandedIsNat
    <2>5. CASE written[s][i].n = 0
        BY <1>2, <2>3, <2>4, <2>5
    <2>6. CASE written[s][i].n # 0
        <3>1. written[s][i].n \in Numbers(s)
            BY <2>2, <2>6, NumbersAre DEF DeliveryInv, JobInv
        <3>2. written[s][i].n <= Handed(q)
            BY <2>3, <3>1 DEF DeliveryInv, StreamsShare
        <3> QED
            BY <1>2, <2>2, <2>3, <2>4, <3>2
    <2> QED
        BY <2>5, <2>6
<1>3. ASSUME NEW s \in Streams, streamPc'[s] = "resumed", inbox'[s].type # "not_found",
             NEW i \in 1..Len(written[s])
      PROVE  written[s][i].n < inbox'[s].n
    <2>1. CASE streamPc[s] = "resumed" /\ inbox'[s] = inbox[s]
        BY <1>3, <2>1 DEF DeliveryInv, InboxIsNewer
    <2>2. CASE /\ streamPc[s] # "unused" /\ inbox'[s].n \in Nat
               /\ Handed(streamJob[s]) < inbox'[s].n
        BY <1>2, <2>2
    <2> QED
        BY <1>3, <2>1, <2>2
<1>4. InboxIsNewer'
    BY <1>3 DEF DeliveryInv, InboxIsNewer
<1> QED
    BY <1>1, <1>4

(* What a push does to the queue, the inboxes and the waiters, by number:  *)
(* the k oldest waiters take the first k events, one each, and the others  *)
(* follow the queue.                                                       *)
LEMMA PushServes ==
    ASSUME JobInv, NEW j \in Jobs, NEW types \in Seq(EventTypes), Push(j, types), j \in live
    PROVE  \E k \in 0..Len(waiters[j]) :
             /\ k <= Len(types) /\ (k = Len(waiters[j]) \/ k = Len(types))
             /\ queue' = [queue EXCEPT ![j] = @ \o SubSeq(Numbered(j, types), k + 1, Len(types))]
             /\ \A i \in 1..k : /\ streamPc'[waiters[j][i]] = "resumed"
                                /\ inbox'[waiters[j][i]] = Numbered(j, types)[i]
                                /\ inbox'[waiters[j][i]].n = Len(produced[j]) + i
             /\ \A s \in Streams : (\A i \in 1..k : waiters[j][i] # s) =>
                                      inbox'[s] = inbox[s] /\ streamPc'[s] = streamPc[s]
<1> DEFINE es == Numbered(j, types)
           w == waiters[j]
           k == AtMost(Len(w), Len(es))
           served == {w[i] : i \in 1..k}
           given == Served(j, es)
<1>1. es \in Seq(Event) /\ Len(es) = Len(types) /\ Len(es) \in Nat /\ w \in Seq(Streams)
        /\ Len(w) \in Nat /\ Len(produced[j]) \in Nat
    BY NumberedType DEF JobInv, TypeOK
<1>2. k \in 0..Len(w) /\ k <= Len(es) /\ (k = Len(w) \/ k = Len(es))
    BY <1>1 DEF AtMost
<1>3. DOMAIN given = served
    BY DEF Served
<1>4. /\ inbox' = [s \in Streams |-> IF s \in served THEN given[s] ELSE inbox[s]]
      /\ streamPc' = [s \in Streams |-> IF s \in served THEN "resumed" ELSE streamPc[s]]
      /\ queue' = [queue EXCEPT ![j] = @ \o SubSeq(es, k + 1, Len(es))]
    BY <1>3 DEF Push, Unserved
<1>5. ASSUME NEW i \in 1..k
      PROVE  w[i] \in Streams /\ given[w[i]] = es[i] /\ given[w[i]].n = Len(produced[j]) + i
    <2>1. i \in 1..Len(w) /\ i \in 1..Len(es) /\ w[i] \in served
        BY <1>1, <1>2
    <2>2. (CHOOSE m \in 1..k : w[m] = w[i]) = i
        <3>1. \A m \in 1..k : w[m] = w[i] => m = i
            BY <1>1, <1>2, <2>1 DEF JobInv, WaitersWait
        <3>2. (CHOOSE m \in 1..k : w[m] = w[i]) \in 1..k /\ w[CHOOSE m \in 1..k : w[m] = w[i]] = w[i]
            OBVIOUS
        <3> QED
            BY <3>1, <3>2
    <2>3. given[w[i]] = es[CHOOSE m \in 1..k : w[m] = w[i]]
        BY <2>1 DEF Served
    <2>4. given[w[i]] = es[i]
        BY <2>2, <2>3
    <2>5. es[i].n = Len(produced[j]) + i
        BY <1>1, <2>1 DEF Numbered
    <2> QED
        BY <1>1, <2>1, <2>4, <2>5
<1>6. \A i \in 1..k : /\ streamPc'[w[i]] = "resumed" /\ inbox'[w[i]] = es[i]
                       /\ inbox'[w[i]].n = Len(produced[j]) + i
    BY <1>4, <1>5
<1>7. \A s \in Streams : (\A i \in 1..k : w[i] # s) => inbox'[s] = inbox[s] /\ streamPc'[s] = streamPc[s]
    BY <1>4
<1> HIDE DEF k, es, w
<1>8. /\ k \in 0..Len(w) /\ k <= Len(types) /\ (k = Len(w) \/ k = Len(types))
      /\ queue' = [queue EXCEPT ![j] = @ \o SubSeq(es, k + 1, Len(types))]
    BY <1>1, <1>2, <1>4
<1> QED
    BY <1>6, <1>7, <1>8 DEF es, w

(* Pushed events keep everything in its place.                             *)
LEMMA PushKeepsDelivery ==
    ASSUME DeliveryInv, JobInv', NEW j \in Jobs, NEW types \in Seq(EventTypes), Push(j, types),
           \A q \in Jobs : producer'[q] = "none" => producer[q] = "none" /\ q # j
    PROVE  DeliveryInv'
<1>1. /\ produced' = [produced EXCEPT ![j] = produced[j] \o types]
      /\ UNCHANGED <<live, streamJob, written>>
    BY DEF Push
<1>2. /\ Handed(j) \in Nat /\ Len(queue[j]) \in Nat /\ Len(produced[j]) \in Nat
      /\ Len(produced[j]) = Handed(j) + Len(queue[j])
      /\ Len(types) \in Nat /\ waiters[j] \in Seq(Streams) /\ Len(waiters[j]) \in Nat
      /\ queue[j] \in Seq(Event)
    BY HandedIsNat DEF DeliveryInv, JobInv, TypeOK
<1>3. /\ Len(produced'[j]) = Len(produced[j]) + Len(types)
      /\ \A q \in Jobs : q # j => produced'[q] = produced[q]
    <2>1. produced[j] \in Seq(EventTypes)
        BY DEF DeliveryInv, JobInv, TypeOK
    <2>2. Len(produced[j] \o types) = Len(produced[j]) + Len(types)
        BY <2>1
    <2> QED
        BY <1>1, <2>2 DEF DeliveryInv, JobInv, TypeOK
<1>4. NothingYet'
    BY <1>3 DEF DeliveryInv, NothingYet
<1>5. TypeOK /\ TypeOK'
    BY DEF DeliveryInv, JobInv
<1>6. CASE j \notin live
    <2>1. UNCHANGED <<inbox, streamPc, waiters, queue>>
        BY <1>6 DEF Push
    <2>2. Len(queue[j]) = 0 /\ queue[j] = <<>>
        BY <1>6 DEF DeliveryInv, JobInv, NothingLeft
    <2>3. /\ Handed(j)' = Len(produced'[j]) /\ Handed(j) <= Handed(j)' /\ Handed(j)' \in Nat
          /\ \A q \in Jobs : q # j => Handed(q)' = Handed(q)
        <3>1. Handed(j)' = Len(produced'[j]) - 0
            BY <2>1, <2>2 DEF Handed
        <3>2. \A q \in Jobs : q # j => Handed(q)' = Handed(q)
            BY <1>3, <2>1 DEF Handed
        <3> QED
            BY <1>2, <1>3, <3>1, <3>2
    <2>4. QueueIsNewest'
        <3>1. ASSUME NEW q \in Jobs
              PROVE  /\ Len(queue'[q]) <= Len(produced'[q])
                     /\ \A i \in 1..Len(queue'[q]) : queue'[q][i].n = Handed(q)' + i
            <4>1. CASE q = j
                BY <1>2, <1>3, <2>1, <2>2, <4>1
            <4>2. CASE q # j
                BY <1>3, <2>1, <2>3, <4>2 DEF DeliveryInv, QueueIsNewest
            <4> QED
                BY <4>1, <4>2
        <3> QED
            BY <3>1 DEF QueueIsNewest
    <2>5. StreamsShare'
        <3>1. \A s \in Streams : Numbers(s)' = Numbers(s)
            BY <1>1, <2>1 DEF Numbers, Taken
        <3>2. \A s \in Streams : Numbers(s) # {} => streamPc'[s] # "unused"
            BY <2>1 DEF DeliveryInv, StreamsShare
        <3>3. \A q \in Jobs : Handed(q)' \in Nat /\ Handed(q) <= Handed(q)'
            BY <2>3, HandedIsNat
        <3>4. \A q \in live' : q \in live /\ Handed(q)' = Handed(q)
            BY <1>1, <1>6, <2>3 DEF DeliveryInv, JobInv, TypeOK
        <3> QED
            BY <1>1, <3>1, <3>2, <3>3, <3>4, SharesStay
    <2>6. InboxIsNewer' /\ StreamsKeepOrder'
        BY <1>1, <2>1, OrderStays
    <2> QED
        BY <1>4, <2>4, <2>5, <2>6 DEF DeliveryInv
<1>7. CASE j \in live
    <2>1. PICK k \in 0..Len(waiters[j]) :
             /\ k <= Len(types) /\ (k = Len(waiters[j]) \/ k = Len(types))
             /\ queue' = [queue EXCEPT ![j] = @ \o SubSeq(Numbered(j, types), k + 1, Len(types))]
             /\ \A i \in 1..k : /\ streamPc'[waiters[j][i]] = "resumed"
                                /\ inbox'[waiters[j][i]] = Numbered(j, types)[i]
                                /\ inbox'[waiters[j][i]].n = Len(produced[j]) + i
             /\ \A s \in Streams : (\A i \in 1..k : waiters[j][i] # s) =>
                                      inbox'[s] = inbox[s] /\ streamPc'[s] = streamPc[s]
        <3>1. JobInv
            BY DEF DeliveryInv
        <3> QED
            BY <1>7, <3>1, PushServes
    <2>2. k \in Nat /\ k <= Len(waiters[j]) /\ k <= Len(types)
        BY <1>2, <2>1
    <2> DEFINE w == [i \in 1..k |-> waiters[j][i]]
               es == Numbered(j, types)
               more == SubSeq(es, k + 1, Len(types))
    <2>3. w \in [1..k -> Streams]
        BY <1>2, <2>2
    <2>4. \A i \in 1..k : streamJob[w[i]] = j /\ streamPc[w[i]] = "waiting"
        <3>1. \A i \in 1..Len(waiters[j]) : /\ streamJob[waiters[j][i]] = j
                                            /\ streamPc[waiters[j][i]] = "waiting"
            BY DEF DeliveryInv, JobInv, WaitersWait
        <3>2. \A i \in 1..k : i \in 1..Len(waiters[j])
            BY <1>2, <2>2
        <3> QED
            BY <3>1, <3>2
    <2>5. k > 0 => Len(queue[j]) = 0
        <3>1. k > 0 => waiters[j] # <<>>
            BY <1>2, <2>2
        <3> QED
            BY <3>1 DEF DeliveryInv, JobInv, NothingLeft
    <2>6. /\ more \in Seq(Event) /\ Len(more) = Len(types) - k
          /\ \A i \in 1..Len(types) - k : more[i].n = Len(produced[j]) + k + i
        <3>1. es \in Seq(Event) /\ Len(es) = Len(types)
            BY NumberedType DEF DeliveryInv
        <3> HIDE DEF es
        <3>2. /\ more \in Seq(Event) /\ Len(more) = Len(types) - k
              /\ \A i \in 1..Len(types) - k : more[i] = es[k + i]
            BY <1>2, <2>2, <3>1
        <3>3. \A i \in 1..Len(types) : es[i].n = Len(produced[j]) + i
            BY <1>2 DEF Numbered, es
        <3>4. \A i \in 1..Len(types) - k : k + i \in 1..Len(types)
            BY <1>2, <2>1, <2>2
        <3> HIDE DEF more
        <3>5. ASSUME NEW i \in 1..Len(types) - k PROVE more[i].n = Len(produced[j]) + k + i
            <4>1. more[i].n = Len(produced[j]) + (k + i)
                BY <3>2, <3>3, <3>4
            <4> QED
                BY <1>2, <2>2, <4>1
        <3> QED
            BY <3>2, <3>5
    <2>7. /\ queue'[j] = queue[j] \o more
          /\ \A q \in Jobs : q # j => queue'[q] = queue[q]
        <3>1. queue \in [Jobs -> Seq(Event)]
            BY <1>5 DEF TypeOK
        <3>2. queue' = [queue EXCEPT ![j] = queue[j] \o more]
            BY <2>1
        <3> HIDE DEF more
        <3> QED
            BY <3>1, <3>2
    <2> HIDE DEF more
    <2>8. /\ Len(queue'[j]) = Len(queue[j]) + (Len(types) - k)
          /\ \A i \in 1..Len(queue[j]) : queue'[j][i] = queue[j][i]
          /\ \A i \in 1..Len(types) - k : queue'[j][Len(queue[j]) + i] = more[i]
        <3>1. PICK q \in Seq(Event) : q = queue[j]
            BY <1>2
        <3>2. PICK m \in Seq(Event) : m = more
            BY <2>6
        <3>3. /\ Len(q \o m) = Len(q) + Len(m)
              /\ \A i \in 1..Len(q) : (q \o m)[i] = q[i]
              /\ \A i \in 1..Len(m) : (q \o m)[Len(q) + i] = m[i]
            OBVIOUS
        <3> QED
            BY <2>6, <2>7, <3>1, <3>2, <3>3
    <2>9. /\ Handed(j)' = Handed(j) + k
          /\ \A q \in Jobs : q # j => Handed(q)' = Handed(q)
        <3>1. Handed(j)' = Len(produced'[j]) - Len(queue'[j])
            BY DEF Handed
        <3>2. \A q \in Jobs : q # j => Handed(q)' = Handed(q)
            BY <1>3, <2>7 DEF Handed
        <3> QED
            BY <1>2, <1>3, <2>2, <2>8, <3>1, <3>2
    <2>10. QueueIsNewest'
        <3>1. ASSUME NEW q \in Jobs
              PROVE  /\ Len(queue'[q]) <= Len(produced'[q])
                     /\ \A i \in 1..Len(queue'[q]) : queue'[q][i].n = Handed(q)' + i
            <4>1. CASE q = j
                <5>1. Len(queue'[j]) <= Len(produced'[j])
                    <6>1. Len(queue[j]) <= Len(produced[j])
                        BY DEF DeliveryInv, QueueIsNewest
                    <6> QED
                        BY <1>2, <1>3, <2>2, <2>8, <6>1
                <5>2. ASSUME NEW i \in 1..Len(queue'[j])
                      PROVE  queue'[j][i].n = Handed(j)' + i
                    <6>0. i \in Nat \ {0} /\ i <= Len(queue[j]) + (Len(types) - k)
                        BY <1>2, <2>1, <2>2, <2>8
                    <6>1. CASE i <= Len(queue[j])
                        <7>1. i \in 1..Len(queue[j]) /\ k = 0
                            BY <1>2, <2>2, <2>5, <6>1
                        <7>2. queue'[j][i].n = Handed(j) + i
                            BY <2>8, <7>1 DEF DeliveryInv, QueueIsNewest
                        <7> QED
                            BY <1>2, <2>9, <7>1, <7>2
                    <6>2. CASE i > Len(queue[j])
                        <7>0. i - Len(queue[j]) \in Nat
                            BY <1>2, <6>0, <6>2
                        <7>1. PICK m \in Nat : m = i - Len(queue[j])
                            BY <7>0
                        <7>2. m \in 1..Len(types) - k /\ i = Len(queue[j]) + m
                            BY <1>2, <2>1, <2>2, <6>0, <6>2, <7>1
                        <7>3. queue'[j][i].n = Len(produced[j]) + k + m
                            BY <2>6, <2>8, <7>2
                        <7>4. PICK h \in Nat : h = Handed(j)
                            BY <1>2
                        <7>5. PICK l \in Nat : l = Len(queue[j])
                            BY <1>2
                        <7>6. Len(produced[j]) = h + l /\ i = l + m
                            BY <1>2, <7>2, <7>4, <7>5
                        <7>7. h + l + k + m = h + k + (l + m)
                            BY <2>2
                        <7> QED
                            BY <2>9, <7>3, <7>4, <7>6, <7>7
                    <6> QED
                        BY <1>2, <6>0, <6>1, <6>2
                <5> QED
                    BY <4>1, <5>1, <5>2
            <4>2. CASE q # j
                BY <1>3, <2>7, <2>9, <4>2 DEF DeliveryInv, QueueIsNewest
            <4> QED
                BY <4>1, <4>2
        <3> QED
            BY <3>1 DEF QueueIsNewest
    <2>11. \A i \in 1..k : inbox'[w[i]].n = Handed(j) + i /\ streamPc'[w[i]] = "resumed"
        <3>1. ASSUME NEW i \in 1..k
              PROVE  inbox'[w[i]].n = Handed(j) + i /\ streamPc'[w[i]] = "resumed"
            <4>1. Len(queue[j]) = 0
                BY <2>2, <2>5
            <4>2. Len(produced[j]) = Handed(j)
                BY <1>2, <4>1
            <4>3. w[i] = waiters[j][i]
                OBVIOUS
            <4> QED
                BY <2>1, <4>2, <4>3
        <3> QED
            BY <3>1
    <2>12. \A s \in Streams : (\A i \in 1..k : w[i] # s) =>
                                 inbox'[s] = inbox[s] /\ streamPc'[s] = streamPc[s]
        BY <2>1
    <2> HIDE DEF w
    <2>13. ASSUME NEW s \in Streams, NEW n \in Nat \ {0}
           PROVE  n \in Numbers(s)' <=>
                      n \in Numbers(s) \/ \E i \in 1..k : w[i] = s /\ n = Handed(j) + i
        <3>1. /\ n \in Numbers(s) <=> \/ \E i \in 1..Len(written[s]) : written[s][i].n = n
                                      \/ streamPc[s] = "resumed" /\ inbox[s].n = n
              /\ n \in Numbers(s)' <=> \/ \E i \in 1..Len(written[s]) : written[s][i].n = n
                                       \/ streamPc'[s] = "resumed" /\ inbox'[s].n = n
            BY <1>1, <1>5, NumbersAre, NumbersAreNext
        <3>2. CASE \A i \in 1..k : w[i] # s
            BY <2>12, <3>1, <3>2
        <3>3. ASSUME NEW i \in 1..k, w[i] = s
              PROVE  n \in Numbers(s)' <=>
                      n \in Numbers(s) \/ \E m \in 1..k : w[m] = s /\ n = Handed(j) + m
            <4>1. streamPc[s] = "waiting" /\ streamPc'[s] = "resumed" /\ inbox'[s].n = Handed(j) + i
                BY <2>4, <2>11, <3>3
            <4>2. \A m \in 1..k : w[m] = s => Handed(j) + m = Handed(j) + i
                BY <2>11, <3>3
            <4> QED
                BY <3>1, <3>3, <4>1, <4>2
        <3> QED
            BY <3>2, <3>3
    <2>14. \A s \in Streams : streamPc[s] # "unused" => streamPc'[s] # "unused"
        BY <2>11, <2>12
    <2>15. StreamsShare'
        BY <1>1, <1>5, <2>2, <2>3, <2>4, <2>9, <2>13, <2>14, SharesGrow
    <2>16. InboxIsNewer' /\ StreamsKeepOrder'
        <3>1. ASSUME NEW s \in Streams
              PROVE  /\ streamPc'[s] = "unused" => streamPc[s] = "unused"
                     /\ streamPc'[s] # "ended" => streamPc[s] # "ended"
                     /\ streamPc'[s] = "resumed" =>
                          \/ inbox'[s].type = "not_found"
                          \/ streamPc[s] = "resumed" /\ inbox'[s] = inbox[s]
                          \/ /\ streamPc[s] # "unused" /\ inbox'[s].n \in Nat
                             /\ Handed(streamJob[s]) < inbox'[s].n
            <4>1. CASE \A i \in 1..k : w[i] # s
                BY <2>12, <4>1
            <4>2. ASSUME NEW i \in 1..k, w[i] = s
                  PROVE  /\ streamPc[s] = "waiting" /\ streamPc'[s] = "resumed"
                         /\ inbox'[s].n \in Nat /\ Handed(streamJob[s]) < inbox'[s].n
                <5>1. streamPc[s] = "waiting" /\ streamPc'[s] = "resumed" /\ streamJob[s] = j
                    BY <2>4, <2>11, <4>2
                <5>2. inbox'[s].n = Handed(j) + i
                    BY <2>11, <4>2
                <5>3. Handed(j) < Handed(j) + i /\ Handed(j) + i \in Nat
                    BY <1>2, <2>2
                <5> QED
                    BY <5>1, <5>2, <5>3
            <4> QED
                BY <4>1, <4>2
        <3> QED
            BY <1>1, <3>1, OrderStays
    <2> QED
        BY <1>4, <2>10, <2>15, <2>16 DEF DeliveryInv
<1> QED
    BY <1>6, <1>7

(* What a cleanup tells the waiters has no number, and a job that is gone  *)
(* owes nobody an event.  The stream that ends, if there is one, has       *)
(* written what it took.                                                   *)
LEMMA CleanupShares ==
    ASSUME DeliveryInv, JobInv', NEW j \in Jobs, NEW pc, Cleanup(j, pc),
           UNCHANGED <<produced, producer, streamJob>>,
           \A s \in Streams :
             /\ pc[s] # "unused" <=> streamPc[s] # "unused"
             /\ streamPc[s] = "waiting" => pc[s] = "waiting" /\ written'[s] = written[s]
             /\ \A n \in Nat \ {0} :
                  n \in Numbers(s) <=> \/ \E i \in 1..Len(written'[s]) : written'[s][i].n = n
                                       \/ pc[s] = "resumed" /\ inbox[s].n = n
    PROVE  QueueIsNewest' /\ StreamsShare' /\ NothingYet'
<1> DEFINE released == {waiters[j][i] : i \in DOMAIN waiters[j]}
<1>1. /\ live' = live \ {j} /\ queue' = [queue EXCEPT ![j] = <<>>]
      /\ streamPc' = [s \in Streams |-> IF s \in released THEN "resumed" ELSE pc[s]]
      /\ inbox' = [s \in Streams |-> IF s \in released THEN NotFound ELSE inbox[s]]
    BY DEF Cleanup
<1>2. \A s \in released : s \in Streams /\ streamPc[s] = "waiting"
    BY DEF DeliveryInv, JobInv, TypeOK, WaitersWait
<1> HIDE DEF released
<1>3. TypeOK /\ TypeOK'
    BY DEF DeliveryInv, JobInv
<1>4. queue'[j] = <<>> /\ Len(queue'[j]) = 0 /\ \A q \in Jobs : q # j => queue'[q] = queue[q]
    BY <1>1, <1>3 DEF TypeOK
<1>5. \A q \in Jobs : /\ Handed(q) \in Nat /\ Len(queue[q]) \in Nat /\ Len(produced[q]) \in Nat
                      /\ Len(produced[q]) = Handed(q) + Len(queue[q])
    BY HandedIsNat
<1>6. /\ \A q \in Jobs : q # j => Handed(q)' = Handed(q)
      /\ Handed(j)' \in Nat /\ Handed(j) <= Handed(j)'
    <2>1. \A q \in Jobs : q # j => Handed(q)' = Handed(q)
        BY <1>4 DEF Handed
    <2>2. Handed(j)' = Len(produced[j]) - 0
        BY <1>4 DEF Handed
    <2> QED
        BY <1>5, <2>1, <2>2
<1>7. QueueIsNewest'
    <2>1. ASSUME NEW q \in Jobs
          PROVE  /\ Len(queue'[q]) <= Len(produced'[q])
                 /\ \A i \in 1..Len(queue'[q]) : queue'[q][i].n = Handed(q)' + i
        <3>1. CASE q = j
            BY <1>4, <1>5, <3>1
        <3>2. CASE q # j
            BY <1>4, <1>6, <3>2 DEF DeliveryInv, QueueIsNewest
        <3> QED
            BY <3>1, <3>2
    <2> QED
        BY <2>1 DEF QueueIsNewest
<1>8. \A s \in Streams : Numbers(s)' = Numbers(s)
    <2>1. ASSUME NEW s \in Streams, NEW n \in Nat \ {0}
          PROVE  n \in Numbers(s)' <=> n \in Numbers(s)
        <3>1. n \in Numbers(s)' <=> \/ \E i \in 1..Len(written'[s]) : written'[s][i].n = n
                                    \/ streamPc'[s] = "resumed" /\ inbox'[s].n = n
            BY <1>3, NumbersAreNext
        <3>2. CASE s \in released
            <4>1. inbox'[s].n = 0 /\ pc[s] = "waiting"
                BY <1>1, <1>2, <3>2 DEF NotFound
            <4> QED
                BY <3>1, <4>1
        <3>3. CASE s \notin released
            <4>1. streamPc'[s] = pc[s] /\ inbox'[s] = inbox[s]
                BY <1>1, <3>3
            <4> QED
                BY <3>1, <4>1
        <3> QED
            BY <3>2, <3>3
    <2>2. \A s \in Streams : Numbers(s)' \subseteq Nat \ {0} /\ Numbers(s) \subseteq Nat \ {0}
        BY <1>3, NumbersAreNat
    <2>3. ASSUME NEW s \in Streams PROVE Numbers(s)' = Numbers(s)
        <3>1. \A n \in Nat \ {0} : n \in Numbers(s)' <=> n \in Numbers(s)
            BY <2>1
        <3> QED
            BY <2>2, <3>1
    <2> QED
        BY <2>3
<1>9. \A s \in Streams : Numbers(s) # {} => streamPc'[s] # "unused"
    <2>1. ASSUME NEW s \in Streams, Numbers(s) # {} PROVE streamPc'[s] # "unused"
        <3>1. streamPc[s] # "unused"
            BY <2>1 DEF DeliveryInv, StreamsShare
        <3>2. pc[s] # "unused"
            BY <3>1
        <3> QED
            BY <1>1, <3>2
    <2> QED
        BY <2>1
<1>10. StreamsShare'
    <2>1. \A q \in Jobs : Handed(q)' \in Nat /\ Handed(q) <= Handed(q)'
        BY <1>5, <1>6
    <2>2. \A q \in live' : q \in live /\ Handed(q)' = Handed(q)
        BY <1>1, <1>3, <1>6 DEF TypeOK
    <2> QED
        BY <1>8, <1>9, <2>1, <2>2, SharesStay
<1>11. NothingYet'
    BY DEF DeliveryInv, NothingYet
<1> QED
    BY <1>7, <1>10, <1>11

(* The TTL timer fires.                                                    *)
LEMMA ExpireKeepsDelivery ==
    ASSUME DeliveryInv, JobInv', NEW j \in Jobs, Expire(j)
    PROVE  DeliveryInv'
<1>1. Cleanup(j, streamPc) /\ UNCHANGED <<producer, kind, produced, streamJob, written>>
    BY DEF Expire, producerVars
<1>2. \A s \in Streams : \A n \in Nat \ {0} :
          n \in Numbers(s) <=> \/ \E i \in 1..Len(written'[s]) : written'[s][i].n = n
                               \/ streamPc[s] = "resumed" /\ inbox[s].n = n
    BY <1>1, NumbersAre DEF DeliveryInv, JobInv
<1>3. PICK pc : pc = streamPc
    OBVIOUS
<1>4. QueueIsNewest' /\ StreamsShare' /\ NothingYet'
    <2>1. Cleanup(j, pc)
        BY <1>1, <1>3
    <2> QED
        BY <1>1, <1>2, <1>3, <2>1, CleanupShares
<1>5. InboxIsNewer' /\ StreamsKeepOrder'
    <2>1. PICK released : /\ released = {waiters[j][i] : i \in DOMAIN waiters[j]}
                          /\ streamPc' = [s \in Streams |-> IF s \in released THEN "resumed"
                                                            ELSE streamPc[s]]
                          /\ inbox' = [s \in Streams |-> IF s \in released THEN NotFound ELSE inbox[s]]
        BY <1>1 DEF Cleanup
    <2>2. \A s \in released : streamPc[s] = "waiting"
        BY <2>1 DEF DeliveryInv, JobInv, TypeOK, WaitersWait
    <2>3. ASSUME NEW s \in Streams
          PROVE  /\ streamPc'[s] = "unused" => streamPc[s] = "unused"
                 /\ streamPc'[s] # "ended" => streamPc[s] # "ended"
                 /\ streamPc'[s] = "resumed" =>
                      \/ inbox'[s].type = "not_found"
                      \/ streamPc[s] = "resumed" /\ inbox'[s] = inbox[s]
        BY <2>1, <2>2 DEF NotFound
    <2> QED
        BY <1>1, <2>3, OrderStays
<1> QED
    BY <1>4, <1>5 DEF DeliveryInv

(* A stream writes what it took: the numbers stay, and the event is newer  *)
(* than all it wrote before.                                               *)
LEMMA StreamWriteKeepsDelivery ==
    ASSUME DeliveryInv, JobInv', NEW s \in Streams, StreamWrite(s)
    PROVE  DeliveryInv'
<1>1. /\ streamPc[s] = "resumed" /\ streamJob[s] \in Jobs
      /\ written' = [written EXCEPT ![s] = Append(written[s], inbox[s])]
      /\ UNCHANGED <<producer, kind, produced, streamJob>>
    BY DEF StreamWrite, DeliveryInv, JobInv, Opened, producerVars
<1>2. TypeOK /\ TypeOK'
    BY DEF DeliveryInv, JobInv
<1>3. /\ Len(written'[s]) = Len(written[s]) + 1 /\ Len(written[s]) \in Nat
      /\ \A i \in 1..Len(written[s]) : written'[s][i] = written[s][i]
      /\ written'[s][Len(written[s]) + 1] = inbox[s]
      /\ \A t \in Streams : t # s => written'[t] = written[t]
    <2>1. written[s] \in Seq(Event \union {NotFound}) /\ inbox[s] \in Event \union {NotFound}
        BY <1>2 DEF TypeOK
    <2>2. written'[s] = Append(written[s], inbox[s]) /\ \A t \in Streams : t # s => written'[t] = written[t]
        BY <1>1, <1>2 DEF TypeOK
    <2> QED
        BY <2>1, <2>2
<1>4. \A i \in 1..Len(written'[s]) : i \in 1..Len(written[s]) \/ i = Len(written[s]) + 1
    BY <1>3
<1>5. ASSUME NEW n \in Nat \ {0}
      PROVE  n \in Numbers(s) <=> \E i \in 1..Len(written'[s]) : written'[s][i].n = n
    <2>1. n \in Numbers(s) <=> (\E i \in 1..Len(written[s]) : written[s][i].n = n) \/ inbox[s].n = n
        BY <1>1, <1>2, NumbersAre
    <2>2. 1..Len(written[s]) \subseteq 1..Len(written'[s]) /\ Len(written[s]) + 1 \in 1..Len(written'[s])
        BY <1>3
    <2> QED
        BY <1>3, <1>4, <2>1, <2>2
<1>6. /\ \A i \in 1..Len(written[s]) : written[s][i].type \notin Terminal
      /\ inbox[s].type = "not_found" \/ \A i \in 1..Len(written[s]) : written[s][i].n < inbox[s].n
    BY <1>1 DEF DeliveryInv, InboxIsNewer
<1>7. StreamsKeepOrder'
    <2>1. \A t \in Streams : /\ DOMAIN written[t] = 1..Len(written[t])
                             /\ DOMAIN written'[t] = 1..Len(written'[t])
        BY <1>2 DEF TypeOK
    <2>2. ASSUME NEW t \in Streams, NEW i \in 1..Len(written'[t]), NEW k \in 1..Len(written'[t]), i < k
          PROVE  /\ written'[t][i].type \notin Terminal
                 /\ \/ written'[t][k].type = "not_found"
                    \/ written'[t][i].n < written'[t][k].n
        <3>1. CASE t # s
            BY <1>3, <2>1, <2>2, <3>1 DEF DeliveryInv, StreamsKeepOrder
        <3>2. CASE t = s /\ k \in 1..Len(written[s])
            <4>1. i \in 1..Len(written[s])
                BY <1>3, <2>2, <3>2
            <4> QED
                BY <1>3, <2>1, <2>2, <3>2, <4>1 DEF DeliveryInv, StreamsKeepOrder
        <3>3. CASE t = s /\ k = Len(written[s]) + 1
            <4>1. i \in 1..Len(written[s])
                BY <1>3, <2>2, <3>3
            <4> QED
                BY <1>3, <1>6, <3>3, <4>1
        <3> QED
            BY <1>4, <2>2, <3>1, <3>2, <3>3
    <2> QED
        BY <2>1, <2>2 DEF StreamsKeepOrder
<1>8. CASE inbox[s].type \in Terminal
    <2>1. PICK j \in Jobs : j = streamJob[s]
        BY <1>1
    <2>2. PICK pc : pc = [streamPc EXCEPT ![s] = "ended"]
        OBVIOUS
    <2>3. Cleanup(j, pc)
        BY <1>8, <2>1, <2>2 DEF StreamWrite, Cleanup
    <2>4. pc[s] = "ended" /\ \A t \in Streams : t # s => pc[t] = streamPc[t]
        BY <1>2, <2>2 DEF TypeOK
    <2>5. ASSUME NEW t \in Streams
          PROVE  /\ pc[t] # "unused" <=> streamPc[t] # "unused"
                 /\ streamPc[t] = "waiting" => pc[t] = "waiting" /\ written'[t] = written[t]
                 /\ \A n \in Nat \ {0} :
                      n \in Numbers(t) <=> \/ \E i \in 1..Len(written'[t]) : written'[t][i].n = n
                                           \/ pc[t] = "resumed" /\ inbox[t].n = n
        <3>1. CASE t = s
            BY <1>1, <1>5, <2>4, <3>1
        <3>2. CASE t # s
            <4>1. pc[t] = streamPc[t] /\ written'[t] = written[t]
                BY <1>3, <2>4, <3>2
            <4>2. \A n \in Nat \ {0} :
                      n \in Numbers(t) <=> \/ \E i \in 1..Len(written[t]) : written[t][i].n = n
                                           \/ streamPc[t] = "resumed" /\ inbox[t].n = n
                BY <1>2, NumbersAre
            <4> QED
                BY <4>1, <4>2
        <3> QED
            BY <3>1, <3>2
    <2>6. QueueIsNewest' /\ StreamsShare' /\ NothingYet'
        BY <1>1, <2>3, <2>5, CleanupShares
    <2>7. InboxIsNewer'
        <3>1. PICK released : /\ released = {waiters[j][i] : i \in DOMAIN waiters[j]}
                              /\ streamPc' = [t \in Streams |-> IF t \in released THEN "resumed"
                                                                ELSE pc[t]]
                              /\ inbox' = [t \in Streams |-> IF t \in released THEN NotFound
                                                             ELSE inbox[t]]
            BY <2>3 DEF Cleanup
        <3>2. \A t \in released : streamPc[t] = "waiting" /\ t # s
            <4>1. \A i \in DOMAIN waiters[j] : i \in 1..Len(waiters[j])
                BY <1>2 DEF TypeOK
            <4>2. \A i \in 1..Len(waiters[j]) : streamPc[waiters[j][i]] = "waiting"
                BY DEF DeliveryInv, JobInv, WaitersWait
            <4> QED
                BY <1>1, <3>1, <4>1, <4>2
        <3>3. ASSUME NEW t \in Streams
              PROVE  /\ streamPc'[t] = "unused" => written'[t] = <<>>
                     /\ streamPc'[t] # "ended" =>
                          \A i \in 1..Len(written'[t]) : written'[t][i].type \notin Terminal
                     /\ streamPc'[t] = "resumed" =>
                          \/ inbox'[t].type = "not_found"
                          \/ \A i \in 1..Len(written'[t]) : written'[t][i].n < inbox'[t].n
            <4>1. CASE t = s
                BY <2>4, <3>1, <3>2, <4>1
            <4>2. CASE t \in released
                BY <1>3, <3>1, <3>2, <4>2 DEF DeliveryInv, InboxIsNewer, NotFound
            <4>3. CASE t # s /\ t \notin released
                BY <1>3, <2>4, <3>1, <4>3 DEF DeliveryInv, InboxIsNewer
            <4> QED
                BY <4>1, <4>2, <4>3
        <3> QED
            BY <3>3 DEF InboxIsNewer
    <2> QED
        BY <1>7, <2>6, <2>7 DEF DeliveryInv
<1>9. CASE inbox[s].type \notin Terminal
    <2>1. /\ streamPc' = [streamPc EXCEPT ![s] = "next"]
          /\ UNCHANGED <<live, queue, produced, streamJob, inbox>>
        BY <1>1, <1>9 DEF StreamWrite, jobVars
    <2>2. streamPc'[s] = "next" /\ \A t \in Streams : t # s => streamPc'[t] = streamPc[t]
        BY <1>2, <2>1 DEF TypeOK
    <2>3. \A q \in Jobs : Handed(q)' = Handed(q)
        BY <2>1 DEF Handed
    <2>4. QueueIsNewest'
        BY <2>1, <2>3 DEF DeliveryInv, QueueIsNewest
    <2>5. \A t \in Streams : Numbers(t)' = Numbers(t)
        <3>1. ASSUME NEW t \in Streams, NEW n \in Nat \ {0}
              PROVE  n \in Numbers(t)' <=> n \in Numbers(t)
            <4>1. CASE t = s
                BY <1>2, <1>5, <2>2, <4>1, NumbersAreNext
            <4>2. CASE t # s
                <5>1. /\ written'[t] = written[t] /\ inbox'[t] = inbox[t]
                      /\ streamPc'[t] = streamPc[t]
                    BY <1>3, <2>1, <2>2, <4>2
                <5>2. n \in Numbers(t) <=> \/ \E i \in 1..Len(written[t]) : written[t][i].n = n
                                           \/ streamPc[t] = "resumed" /\ inbox[t].n = n
                    BY <1>2, NumbersAre
                <5>3. n \in Numbers(t)' <=> \/ \E i \in 1..Len(written'[t]) : written'[t][i].n = n
                                            \/ streamPc'[t] = "resumed" /\ inbox'[t].n = n
                    BY <1>2, NumbersAreNext
                <5> QED
                    BY <5>1, <5>2, <5>3
            <4> QED
                BY <4>1, <4>2
        <3> QED
            BY <1>2, <3>1, NumbersAreNat
    <2>6. StreamsShare'
        <3>1. \A q \in Jobs : Handed(q)' \in Nat /\ Handed(q) <= Handed(q)'
            BY <2>3, HandedIsNat
        <3>2. \A q \in live' : q \in live /\ Handed(q)' = Handed(q)
            BY <1>2, <2>1, <2>3 DEF TypeOK
        <3>3. \A t \in Streams : Numbers(t) # {} => streamPc'[t] # "unused"
            BY <2>2 DEF DeliveryInv, StreamsShare
        <3> QED
            BY <1>1, <2>5, <3>1, <3>2, <3>3, SharesStay
    <2>7. InboxIsNewer'
        <3>1. ASSUME NEW t \in Streams
              PROVE  /\ streamPc'[t] = "unused" => written'[t] = <<>>
                     /\ streamPc'[t] # "ended" =>
                          \A i \in 1..Len(written'[t]) : written'[t][i].type \notin Terminal
                     /\ streamPc'[t] = "resumed" =>
                          \/ inbox'[t].type = "not_found"
                          \/ \A i \in 1..Len(written'[t]) : written'[t][i].n < inbox'[t].n
            <4>1. CASE t = s
                BY <1>3, <1>4, <1>6, <1>9, <2>2, <4>1
            <4>2. CASE t # s
                BY <1>3, <2>1, <2>2, <4>2 DEF DeliveryInv, InboxIsNewer
            <4> QED
                BY <4>1, <4>2
        <3> QED
            BY <3>1 DEF InboxIsNewer
    <2>8. NothingYet'
        BY <1>1 DEF DeliveryInv, NothingYet
    <2> QED
        BY <1>7, <2>4, <2>6, <2>7, <2>8 DEF DeliveryInv
<1> QED
    BY <1>8, <1>9

(* A stream takes the head of the queue, or learns that the job is gone,   *)
(* or waits.                                                               *)
LEMMA StreamNextKeepsDelivery ==
    ASSUME DeliveryInv, JobInv', NEW s \in Streams, StreamNext(s)
    PROVE  DeliveryInv'
<1>1. /\ streamPc[s] = "next" /\ streamJob[s] \in Jobs
      /\ UNCHANGED <<live, producer, kind, produced, streamJob, written>>
    BY DEF StreamNext, DeliveryInv, JobInv, Opened, producerVars
<1>2. PICK j \in Jobs : j = streamJob[s]
    BY <1>1
<1>3. TypeOK /\ TypeOK'
    BY DEF DeliveryInv, JobInv
<1>4. /\ Handed(j) \in Nat /\ Len(queue[j]) \in Nat /\ Len(produced[j]) \in Nat
      /\ Len(produced[j]) = Handed(j) + Len(queue[j]) /\ queue[j] \in Seq(Event)
    BY <1>3, HandedIsNat DEF TypeOK
<1>5. NothingYet'
    BY <1>1 DEF DeliveryInv, NothingYet
<1>6. CASE UNCHANGED queue
    <2>1. /\ \/ streamPc' = [streamPc EXCEPT ![s] = "resumed"] /\ inbox' = [inbox EXCEPT ![s] = NotFound]
             \/ streamPc' = [streamPc EXCEPT ![s] = "waiting"] /\ UNCHANGED inbox
        <3>1. j \in live /\ queue[j] # <<>> => queue' # [queue EXCEPT ![j] = Tail(@)]
            <4>1. PICK q \in Seq(Event) : q = queue[j]
                BY <1>4
            <4>2. q # <<>> => Tail(q) # q
                <5>1. q # <<>> => Len(Tail(q)) = Len(q) - 1 /\ Len(q) \in Nat
                    OBVIOUS
                <5> QED
                    BY <5>1
            <4> QED
                BY <1>3, <1>6, <4>1, <4>2 DEF TypeOK
        <3> QED
            BY <1>2, <3>1 DEF StreamNext
    <2>2. /\ \A t \in Streams : t # s => streamPc'[t] = streamPc[t] /\ inbox'[t] = inbox[t]
          /\ \/ streamPc'[s] = "resumed" /\ inbox'[s] = NotFound
             \/ streamPc'[s] = "waiting"
        BY <1>3, <2>1 DEF TypeOK
    <2>3. \A q \in Jobs : Handed(q)' = Handed(q)
        BY <1>1, <1>6 DEF Handed
    <2>4. QueueIsNewest'
        BY <1>1, <1>6, <2>3 DEF DeliveryInv, QueueIsNewest
    <2>5. ASSUME NEW t \in Streams PROVE Numbers(t)' = Numbers(t)
        <3>1. \A n \in Nat \ {0} : n \in Numbers(t)' <=> n \in Numbers(t)
            <4>1. CASE t = s
                BY <1>1, <1>3, <2>2, <4>1, NumbersAre, NumbersAreNext DEF NotFound
            <4>2. CASE t # s
                BY <1>1, <1>3, <2>2, <4>2, NumbersAre, NumbersAreNext
            <4> QED
                BY <4>1, <4>2
        <3>2. Numbers(t) \subseteq Nat \ {0} /\ Numbers(t)' \subseteq Nat \ {0}
            BY <1>3, NumbersAreNat
        <3> QED
            BY <3>1, <3>2
    <2>6. StreamsShare'
        <3>1. \A q \in Jobs : Handed(q)' \in Nat /\ Handed(q) <= Handed(q)'
            BY <2>3, HandedIsNat
        <3>2. \A q \in live' : q \in live /\ Handed(q)' = Handed(q)
            BY <1>1, <1>3, <2>3 DEF TypeOK
        <3>3. \A t \in Streams : Numbers(t) # {} => streamPc'[t] # "unused"
            BY <2>2 DEF DeliveryInv, StreamsShare
        <3> QED
            BY <1>1, <2>5, <3>1, <3>2, <3>3, SharesStay
    <2>7. InboxIsNewer' /\ StreamsKeepOrder'
        <3>1. ASSUME NEW t \in Streams
              PROVE  /\ streamPc'[t] = "unused" => streamPc[t] = "unused"
                     /\ streamPc'[t] # "ended" => streamPc[t] # "ended"
                     /\ streamPc'[t] = "resumed" =>
                          \/ inbox'[t].type = "not_found"
                          \/ streamPc[t] = "resumed" /\ inbox'[t] = inbox[t]
            BY <1>1, <2>2 DEF NotFound
        <3> QED
            BY <1>1, <3>1, OrderStays
    <2> QED
        BY <1>5, <2>4, <2>6, <2>7 DEF DeliveryInv
<1>7. CASE ~ UNCHANGED queue
    <2>1. /\ queue[j] # <<>>
          /\ inbox' = [inbox EXCEPT ![s] = Head(queue[j])]
          /\ queue' = [queue EXCEPT ![j] = Tail(queue[j])]
          /\ streamPc' = [streamPc EXCEPT ![s] = "resumed"]
        BY <1>2, <1>7 DEF StreamNext, OldestOf
    <2>2. /\ inbox'[s] = Head(queue[j]) /\ streamPc'[s] = "resumed" /\ queue'[j] = Tail(queue[j])
          /\ \A t \in Streams : t # s => streamPc'[t] = streamPc[t] /\ inbox'[t] = inbox[t]
          /\ \A q \in Jobs : q # j => queue'[q] = queue[q]
        BY <1>3, <2>1 DEF TypeOK
    <2>3. /\ Len(queue[j]) > 0 /\ Head(queue[j]) = queue[j][1]
          /\ Len(Tail(queue[j])) = Len(queue[j]) - 1
          /\ \A i \in 1..Len(queue[j]) - 1 : Tail(queue[j])[i] = queue[j][i + 1]
        BY <1>4, <2>1
    <2>4. inbox'[s].n = Handed(j) + 1
        <3>1. 1 \in 1..Len(queue[j])
            BY <1>4, <2>3
        <3> QED
            BY <2>2, <2>3, <3>1 DEF DeliveryInv, QueueIsNewest
    <2>5. Handed(j)' = Handed(j) + 1 /\ \A q \in Jobs : q # j => Handed(q)' = Handed(q)
        <3>1. Handed(j)' = Len(produced[j]) - (Len(queue[j]) - 1)
            BY <1>1, <2>2, <2>3 DEF Handed
        <3>2. \A q \in Jobs : q # j => Handed(q)' = Handed(q)
            BY <1>1, <2>2 DEF Handed
        <3> QED
            BY <1>4, <3>1, <3>2
    <2>6. QueueIsNewest'
        <3>1. ASSUME NEW q \in Jobs
              PROVE  /\ Len(queue'[q]) <= Len(produced'[q])
                     /\ \A i \in 1..Len(queue'[q]) : queue'[q][i].n = Handed(q)' + i
            <4>1. CASE q = j
                <5>1. ASSUME NEW i \in 1..Len(queue[j]) - 1
                      PROVE  Tail(queue[j])[i].n = Handed(j) + 1 + i
                    <6>1. i + 1 \in 1..Len(queue[j]) /\ i \in Nat
                        BY <1>4
                    <6>2. Tail(queue[j])[i].n = Handed(j) + (i + 1)
                        BY <2>3, <6>1 DEF DeliveryInv, QueueIsNewest
                    <6> QED
                        BY <1>4, <6>1, <6>2
                <5>2. Len(Tail(queue[j])) <= Len(produced[j])
                    BY <1>4, <2>3
                <5> QED
                    BY <1>1, <2>2, <2>3, <2>5, <4>1, <5>1, <5>2
            <4>2. CASE q # j
                BY <1>1, <2>2, <2>5, <4>2 DEF DeliveryInv, QueueIsNewest
            <4> QED
                BY <4>1, <4>2
        <3> QED
            BY <3>1 DEF QueueIsNewest
    <2>7. StreamsShare'
        <3>1. PICK k \in Nat : k = 1
            OBVIOUS
        <3> DEFINE w == [i \in 1..k |-> s]
        <3>2. /\ w \in [1..k -> Streams]
              /\ \A i \in 1..k : i = 1 /\ w[i] = s
              /\ 1 \in 1..k
            BY <3>1
        <3> HIDE DEF w
        <3>3. \A t \in Streams : streamPc[t] # "unused" => streamPc'[t] # "unused"
            BY <2>2
        <3>4. ASSUME NEW t \in Streams, NEW n \in Nat \ {0}
              PROVE  n \in Numbers(t)' <=>
                         n \in Numbers(t) \/ \E i \in 1..k : w[i] = t /\ n = Handed(j) + i
            <4>1. (\E i \in 1..k : w[i] = t /\ n = Handed(j) + i) <=> s = t /\ n = Handed(j) + 1
                BY <3>2
            <4>2. CASE t = s
                BY <1>1, <1>3, <2>2, <2>4, <4>1, <4>2, NumbersAre, NumbersAreNext
            <4>3. CASE t # s
                BY <1>1, <1>3, <2>2, <4>1, <4>3, NumbersAre, NumbersAreNext
            <4> QED
                BY <4>2, <4>3
        <3>5. \A i \in 1..k : streamJob[w[i]] = j /\ streamPc[w[i]] # "unused"
            BY <1>1, <1>2, <3>2
        <3>6. Handed(j)' = Handed(j) + k
            BY <2>5, <3>1
        <3> QED
            BY <1>1, <1>3, <2>5, <3>2, <3>3, <3>4, <3>5, <3>6, SharesGrow
    <2>8. InboxIsNewer' /\ StreamsKeepOrder'
        <3>1. ASSUME NEW t \in Streams
              PROVE  /\ streamPc'[t] = "unused" => streamPc[t] = "unused"
                     /\ streamPc'[t] # "ended" => streamPc[t] # "ended"
                     /\ streamPc'[t] = "resumed" =>
                          \/ inbox'[t].type = "not_found"
                          \/ streamPc[t] = "resumed" /\ inbox'[t] = inbox[t]
                          \/ /\ streamPc[t] # "unused" /\ inbox'[t].n \in Nat
                             /\ Handed(streamJob[t]) < inbox'[t].n
            <4>1. CASE t = s
                <5>1. Handed(j) + 1 \in Nat /\ Handed(j) < Handed(j) + 1
                    BY <1>4
                <5> QED
                    BY <1>1, <1>2, <2>2, <2>4, <4>1, <5>1
            <4>2. CASE t # s
                BY <2>2, <4>2
            <4> QED
                BY <4>1, <4>2
        <3> QED
            BY <1>1, <3>1, OrderStays
    <2> QED
        BY <1>5, <2>6, <2>7, <2>8 DEF DeliveryInv
<1> QED
    BY <1>6, <1>7

(* A stream that is opened has taken nothing.                              *)
LEMMA StreamOpenKeepsDelivery ==
    ASSUME DeliveryInv, JobInv', NEW s \in Streams, NEW j \in Jobs, StreamOpen(s, j)
    PROVE  DeliveryInv'
<1>1. /\ streamPc[s] = "unused" /\ streamPc' = [streamPc EXCEPT ![s] = "next"]
      /\ streamJob' = [streamJob EXCEPT ![s] = j]
      /\ UNCHANGED <<live, queue, producer, produced, inbox, written>>
    BY DEF StreamOpen, jobVars, producerVars
<1>2. TypeOK /\ TypeOK'
    BY DEF DeliveryInv, JobInv
<1>3. /\ streamPc'[s] = "next"
      /\ \A t \in Streams : t # s => streamPc'[t] = streamPc[t] /\ streamJob'[t] = streamJob[t]
    BY <1>1, <1>2 DEF TypeOK
<1>4. \A q \in Jobs : Handed(q)' = Handed(q)
    BY <1>1 DEF Handed
<1>5. QueueIsNewest' /\ NothingYet'
    BY <1>1, <1>4 DEF DeliveryInv, QueueIsNewest, NothingYet
<1>6. ASSUME NEW t \in Streams PROVE Numbers(t)' = Numbers(t)
    <2>1. \A n \in Nat \ {0} : n \in Numbers(t)' <=> n \in Numbers(t)
        <3>1. CASE t = s
            BY <1>1, <1>2, <1>3, <3>1, NumbersAre, NumbersAreNext
        <3>2. CASE t # s
            BY <1>1, <1>2, <1>3, <3>2, NumbersAre, NumbersAreNext
        <3> QED
            BY <3>1, <3>2
    <2>2. Numbers(t) \subseteq Nat \ {0} /\ Numbers(t)' \subseteq Nat \ {0}
        BY <1>2, NumbersAreNat
    <2> QED
        BY <2>1, <2>2
<1>7. StreamsShare'
    <2>1. Numbers(s) = {}
        BY <1>1 DEF DeliveryInv, StreamsShare
    <2>2. \A t \in Streams : Numbers(t) # {} => streamJob'[t] = streamJob[t] /\ streamPc'[t] # "unused"
        BY <1>3, <2>1 DEF DeliveryInv, StreamsShare
    <2>3. \A q \in Jobs : Handed(q)' \in Nat /\ Handed(q) <= Handed(q)'
        BY <1>4, HandedIsNat
    <2>4. \A q \in live' : q \in live /\ Handed(q)' = Handed(q)
        BY <1>1, <1>2, <1>4 DEF TypeOK
    <2> QED
        BY <1>6, <2>2, <2>3, <2>4, SharesStay
<1>8. InboxIsNewer' /\ StreamsKeepOrder'
    <2>1. written[s] = <<>>
        BY <1>1 DEF DeliveryInv, InboxIsNewer
    <2>2. ASSUME NEW t \in Streams
          PROVE  /\ streamPc'[t] = "unused" => streamPc[t] = "unused"
                 /\ streamPc'[t] # "ended" => streamPc[t] # "ended"
                 /\ streamPc'[t] = "resumed" => streamPc[t] = "resumed" /\ inbox'[t] = inbox[t]
        BY <1>1, <1>3
    <2> QED
        BY <1>1, <2>2, OrderStays
<1> QED
    BY <1>5, <1>7, <1>8 DEF DeliveryInv

(* A job is created with no event.                                         *)
LEMMA CreateKeepsDelivery ==
    ASSUME DeliveryInv, JobInv', NEW j \in Jobs, NEW k \in Kinds, CreateJob(j, k)
    PROVE  DeliveryInv'
<1>1. /\ producer[j] = "none" /\ live' = live \union {j}
      /\ producer' = [producer EXCEPT ![j] = "queued"]
      /\ UNCHANGED <<queue, produced, streamPc, streamJob, inbox, written>>
    BY DEF CreateJob, streamVars
<1>2. TypeOK /\ TypeOK'
    BY DEF DeliveryInv, JobInv
<1>3. \A q \in Jobs : Handed(q)' = Handed(q)
    BY <1>1 DEF Handed
<1>4. Handed(j) = 0
    <2>1. produced[j] = <<>> /\ queue[j] = <<>>
        BY <1>1 DEF DeliveryInv, JobInv, NothingYet, NothingLeft, Opened
    <2> QED
        BY <2>1 DEF Handed
<1>5. QueueIsNewest' /\ NothingYet'
    BY <1>1, <1>2, <1>3 DEF DeliveryInv, QueueIsNewest, NothingYet, TypeOK
<1>6. StreamsShare'
    <2>1. \A t \in Streams : Numbers(t)' = Numbers(t)
        BY <1>1 DEF Numbers, Taken
    <2>2. \A t \in Streams : Numbers(t) # {} => streamPc'[t] # "unused"
        BY <1>1 DEF DeliveryInv, StreamsShare
    <2>3. \A q \in Jobs : Handed(q)' \in Nat /\ Handed(q) <= Handed(q)'
        BY <1>3, HandedIsNat
    <2>4. \A q \in live' : Handed(q)' = 0 \/ (q \in live /\ Handed(q)' = Handed(q))
        BY <1>1, <1>2, <1>3, <1>4 DEF TypeOK
    <2> QED
        BY <1>1, <2>1, <2>2, <2>3, <2>4, SharesStay
<1>7. InboxIsNewer' /\ StreamsKeepOrder'
    BY <1>1 DEF DeliveryInv, InboxIsNewer, StreamsKeepOrder
<1> QED
    BY <1>5, <1>6, <1>7 DEF DeliveryInv

(* The gateway starts with nothing anywhere.                               *)
LEMMA DeliveryInit == Init => DeliveryInv
<1> SUFFICES ASSUME Init PROVE DeliveryInv
    OBVIOUS
<1>1. JobInv
    BY JobInit
<1>2. /\ \A j \in Jobs : queue[j] = <<>> /\ produced[j] = <<>> /\ Len(queue[j]) = 0 /\ Len(produced[j]) = 0
      /\ \A s \in Streams : streamPc[s] = "unused" /\ written[s] = <<>> /\ DOMAIN written[s] = {}
      /\ live = {}
    BY DEF Init
<1>3. QueueIsNewest /\ NothingYet
    BY <1>2 DEF QueueIsNewest, NothingYet
<1>4. \A s \in Streams : Numbers(s) = {}
    BY <1>2 DEF Numbers, Taken, Events
<1>5. StreamsShare
    BY <1>2, <1>4 DEF StreamsShare
<1>6. InboxIsNewer /\ StreamsKeepOrder
    BY <1>2 DEF InboxIsNewer, StreamsKeepOrder
<1> QED
    BY <1>1, <1>3, <1>5, <1>6 DEF DeliveryInv

(* Every step of the gateway keeps every event in its one place.           *)
LEMMA DeliveryStep == DeliveryInv /\ [Next]_vars => DeliveryInv'
<1> SUFFICES ASSUME DeliveryInv, [Next]_vars PROVE DeliveryInv'
    OBVIOUS
<1>1. JobInv /\ JobInv'
    BY JobStep DEF DeliveryInv
<1>2. CASE UNCHANGED vars
    <2>1. UNCHANGED <<live, queue, producer, produced, streamPc, streamJob, inbox, written>>
        BY <1>2 DEF vars, jobVars, producerVars, streamVars
    <2>2. /\ \A q \in Jobs : Handed(q)' = Handed(q)
          /\ \A s \in Streams : Numbers(s)' = Numbers(s)
        BY <2>1 DEF Handed, Numbers, Taken
    <2>3. QueueIsNewest' /\ NothingYet'
        BY <2>1, <2>2 DEF DeliveryInv, QueueIsNewest, NothingYet
    <2>4. InboxIsNewer' /\ StreamsKeepOrder'
        BY <2>1 DEF DeliveryInv, InboxIsNewer, StreamsKeepOrder
    <2>5. StreamsShare'
        <3>1. \A s \in Streams : Numbers(s) # {} => streamPc[s] # "unused"
            BY DEF DeliveryInv, StreamsShare
        <3>2. \A q \in Jobs : Handed(q)' \in Nat /\ Handed(q) <= Handed(q)'
            BY <2>2, HandedIsNat
        <3>3. \A q \in live' : q \in live /\ Handed(q)' = Handed(q)
            BY <1>1, <2>1, <2>2 DEF JobInv, TypeOK
        <3> QED
            BY <2>1, <2>2, <3>1, <3>2, <3>3, SharesStay
    <2> QED
        BY <1>1, <2>3, <2>4, <2>5 DEF DeliveryInv
<1>3. ASSUME NEW j \in Jobs, Producer(j) \/ LegacyForwards(j)
      PROVE  DeliveryInv'
    <2>1. PICK types \in Seq(EventTypes) : Push(j, types)
        BY <1>3, ProducerPushes
    <2>2. \A q \in Jobs : producer'[q] = "none" => producer[q] = "none" /\ q # j
        <3>1. kind[j] \in Kinds /\ producer \in [Jobs -> ProducerPoints]
            BY <1>1 DEF JobInv, TypeOK, ProducerPoints
        <3>2. CASE Producer(j)
            <4>1. PICK to \in ProducerPoints \ {"none"} : producer' = [producer EXCEPT ![j] = to]
                BY <3>1, <3>2 DEF Producer, ProducerStarts, NlpAnswers, LlmAnswers, ServiceAnswers,
                   LegacyEnds, RequestFails, ProducerAt, ProducerPoints, Kinds
            <4> QED
                BY <3>1, <4>1
        <3>3. CASE LegacyForwards(j)
            BY <3>3 DEF LegacyForwards
        <3> QED
            BY <1>3, <3>2, <3>3
    <2> QED
        BY <1>1, <2>1, <2>2, PushKeepsDelivery
<1>4. ASSUME NEW j \in Jobs, (\E k \in Kinds : CreateJob(j, k)) \/ Expire(j)
      PROVE  DeliveryInv'
    BY <1>1, <1>4, CreateKeepsDelivery, ExpireKeepsDelivery
<1>5. ASSUME NEW s \in Streams, (\E j \in Jobs : StreamOpen(s, j)) \/ Stream(s)
      PROVE  DeliveryInv'
    BY <1>1, <1>5, StreamOpenKeepsDelivery, StreamNextKeepsDelivery, StreamWriteKeepsDelivery DEF Stream
<1> QED
    BY <1>2, <1>3, <1>4, <1>5 DEF Next

(* However many streams read a job and whenever they come: an event is     *)
(* never given to two of them and never kept after it was given, and while *)
(* the job is in the map none is lost (jobs.ts, pushJobEvent and           *)
(* nextJobEvent).                                                          *)
THEOREM SpecEachEventOnce == Spec => []EachEventOnce
BY DeliveryInit, DeliveryStep, DeliveryIsOnce, PTL DEF Spec

(* What one stream writes (streamGatewayJob) it writes in the order it was *)
(* pushed, and a terminal event last.                                      *)
THEOREM SpecStreamsKeepOrder == Spec => []StreamsKeepOrder
<1>1. DeliveryInv => StreamsKeepOrder
    BY DEF DeliveryInv
<1> QED
    BY DeliveryInit, DeliveryStep, <1>1, PTL DEF Spec

-----------------------------------------------------------------------------
(* The documented order of a parse stream.  What a parse has pushed is     *)
(* settled by where its producer is, and every shape it can take on is in  *)
(* order.                                                                  *)

ParseShape ==
    \A j \in Jobs :
        /\ producer[j] = "none" => produced[j] = <<>>
        /\ kind[j] \in {"parse", "parse_llm"} =>
             \/ producer[j] \in {"none", "queued"} /\ produced[j] = <<>>
             \/ producer[j] = "nlp" /\ produced[j] = <<"progress">>
             \/ /\ producer[j] = "llm" /\ kind[j] = "parse_llm"
                /\ produced[j] = <<"progress", "nlp_done">>
             \/ /\ producer[j] = "finished"
                /\ \/ produced[j] = <<"progress", "error", "done">>
                   \/ produced[j] = <<"progress", "nlp_done", "result", "done">>
                   \/ /\ kind[j] = "parse_llm"
                      /\ \E stage \in {"llm_done", "llm_error"} :
                           produced[j] = <<"progress", "nlp_done", stage, "result", "done">>

(* Every such shape is in order, and a stage of the third pass is followed *)
(* by the result.                                                          *)
LEMMA ShapeIsOrder == ParseShape => ParseOrder
<1> SUFFICES ASSUME ParseShape, NEW j \in Jobs, kind[j] \in {"parse", "parse_llm"}
             PROVE  LET p == produced[j]
                    IN  /\ \A i, k \in DOMAIN p : i < k => Rank[p[i]] < Rank[p[k]]
                        /\ \A i \in DOMAIN p :
                             Rank[p[i]] = 3 => /\ kind[j] = "parse_llm"
                                               /\ p[Len(p) - 1] = "result" /\ p[Len(p)] = "done"
    BY DEF ParseOrder
<1>1. /\ Rank["progress"] = 1 /\ Rank["nlp_done"] = 2 /\ Rank["llm_done"] = 3
      /\ Rank["llm_error"] = 3 /\ Rank["result"] = 4 /\ Rank["error"] = 4 /\ Rank["done"] = 5
    BY DEF Rank, EventTypes
<1> DEFINE InOrder(p) ==
               /\ \A i, k \in DOMAIN p : i < k => Rank[p[i]] < Rank[p[k]]
               /\ \A i \in DOMAIN p :
                    Rank[p[i]] = 3 => /\ kind[j] = "parse_llm"
                                      /\ p[Len(p) - 1] = "result" /\ p[Len(p)] = "done"
<1>2. InOrder(<<>>) /\ InOrder(<<"progress">>) /\ InOrder(<<"progress", "nlp_done">>)
    BY <1>1
<1>3. InOrder(<<"progress", "error", "done">>)
    BY <1>1
<1>4. InOrder(<<"progress", "nlp_done", "result", "done">>)
    BY <1>1
<1>5. ASSUME NEW stage \in {"llm_done", "llm_error"}, kind[j] = "parse_llm"
      PROVE  InOrder(<<"progress", "nlp_done", stage, "result", "done">>)
    BY <1>1, <1>5
<1> HIDE DEF InOrder
<1>6. InOrder(produced[j])
    BY <1>2, <1>3, <1>4, <1>5 DEF ParseShape
<1> QED
    BY <1>6 DEF InOrder

(* A tuple put together from two.                                          *)
LEMMA Glued ==
    ASSUME NEW p \in Seq(EventTypes), NEW q \in Seq(EventTypes), NEW r \in Seq(EventTypes),
           Len(r) = Len(p) + Len(q),
           \A i \in 1..Len(p) : r[i] = p[i],
           \A i \in 1..Len(q) : r[Len(p) + i] = q[i]
    PROVE  p \o q = r
<1>1. /\ p \o q \in Seq(EventTypes) /\ Len(p \o q) = Len(p) + Len(q)
      /\ Len(p) \in Nat /\ Len(q) \in Nat
      /\ \A i \in 1..Len(p) : (p \o q)[i] = p[i]
      /\ \A i \in 1..Len(q) : (p \o q)[Len(p) + i] = q[i]
    OBVIOUS
<1>2. ASSUME NEW i \in 1..Len(p) + Len(q) PROVE (p \o q)[i] = r[i]
    <2>1. CASE i \in 1..Len(p)
        BY <1>1, <2>1
    <2>2. CASE i \notin 1..Len(p)
        <3>1. i - Len(p) \in 1..Len(q) /\ i = Len(p) + (i - Len(p))
            BY <1>1, <2>2
        <3> QED
            BY <1>1, <3>1
    <2> QED
        BY <2>1, <2>2
<1> HIDE DEF EventTypes
<1>3. \A i \in 1..Len(p \o q) : (p \o q)[i] = r[i]
    BY <1>1, <1>2
<1> QED
    BY <1>1, <1>3, SeqEqual

(* The tuples that the producers of a parse put together.                  *)
LEMMA GluedTuples ==
    /\ \A a \in EventTypes : <<>> \o <<a>> = <<a>>
    /\ \A a, b \in EventTypes : <<a>> \o <<b>> = <<a, b>>
    /\ \A a, b, c \in EventTypes : <<a>> \o <<b, c>> = <<a, b, c>>
    /\ \A a, b, c, d \in EventTypes : <<a>> \o <<b, c, d>> = <<a, b, c, d>>
    /\ \A a, b, c, d, e \in EventTypes : <<a, b>> \o <<c, d, e>> = <<a, b, c, d, e>>
<1>1. ASSUME NEW a \in EventTypes
      PROVE  <<>> \o <<a>> = <<a>>
    <2> DEFINE p == <<>>
               q == <<a>>
               r == <<a>>
    <2>1. /\ p \in Seq(EventTypes) /\ q \in Seq(EventTypes) /\ r \in Seq(EventTypes)
          /\ Len(p) = 0 /\ Len(q) = 1 /\ Len(r) = 1
        OBVIOUS
    <2>2. /\ \A i \in 1..0 : r[i] = p[i]
          /\ \A i \in 1..1 : r[0 + i] = q[i]
        OBVIOUS
    <2> HIDE DEF p, q, r
    <2>3. /\ Len(r) = Len(p) + Len(q)
          /\ \A i \in 1..Len(p) : r[i] = p[i]
          /\ \A i \in 1..Len(q) : r[Len(p) + i] = q[i]
        BY <2>1, <2>2
    <2>4. p \o q = r
        BY <2>1, <2>3, Glued
    <2> QED
        BY <2>4 DEF p, q, r
<1>2. ASSUME NEW a \in EventTypes, NEW b \in EventTypes
      PROVE  <<a>> \o <<b>> = <<a, b>>
    <2> DEFINE p == <<a>>
               q == <<b>>
               r == <<a, b>>
    <2>1. /\ p \in Seq(EventTypes) /\ q \in Seq(EventTypes) /\ r \in Seq(EventTypes)
          /\ Len(p) = 1 /\ Len(q) = 1 /\ Len(r) = 2
        OBVIOUS
    <2>2. /\ \A i \in 1..1 : r[i] = p[i]
          /\ \A i \in 1..1 : r[1 + i] = q[i]
        OBVIOUS
    <2> HIDE DEF p, q, r
    <2>3. /\ Len(r) = Len(p) + Len(q)
          /\ \A i \in 1..Len(p) : r[i] = p[i]
          /\ \A i \in 1..Len(q) : r[Len(p) + i] = q[i]
        BY <2>1, <2>2
    <2>4. p \o q = r
        BY <2>1, <2>3, Glued
    <2> QED
        BY <2>4 DEF p, q, r
<1>3. ASSUME NEW a \in EventTypes, NEW b \in EventTypes, NEW c \in EventTypes
      PROVE  <<a>> \o <<b, c>> = <<a, b, c>>
    <2> DEFINE p == <<a>>
               q == <<b, c>>
               r == <<a, b, c>>
    <2>1. /\ p \in Seq(EventTypes) /\ q \in Seq(EventTypes) /\ r \in Seq(EventTypes)
          /\ Len(p) = 1 /\ Len(q) = 2 /\ Len(r) = 3
        OBVIOUS
    <2>2. /\ \A i \in 1..1 : r[i] = p[i]
          /\ \A i \in 1..2 : r[1 + i] = q[i]
        OBVIOUS
    <2> HIDE DEF p, q, r
    <2>3. /\ Len(r) = Len(p) + Len(q)
          /\ \A i \in 1..Len(p) : r[i] = p[i]
          /\ \A i \in 1..Len(q) : r[Len(p) + i] = q[i]
        BY <2>1, <2>2
    <2>4. p \o q = r
        BY <2>1, <2>3, Glued
    <2> QED
        BY <2>4 DEF p, q, r
<1>4. ASSUME NEW a \in EventTypes, NEW b \in EventTypes, NEW c \in EventTypes, NEW d \in EventTypes
      PROVE  <<a>> \o <<b, c, d>> = <<a, b, c, d>>
    <2> DEFINE p == <<a>>
               q == <<b, c, d>>
               r == <<a, b, c, d>>
    <2>1. /\ p \in Seq(EventTypes) /\ q \in Seq(EventTypes) /\ r \in Seq(EventTypes)
          /\ Len(p) = 1 /\ Len(q) = 3 /\ Len(r) = 4
        OBVIOUS
    <2>2. /\ \A i \in 1..1 : r[i] = p[i]
          /\ \A i \in 1..3 : r[1 + i] = q[i]
        OBVIOUS
    <2> HIDE DEF p, q, r
    <2>3. /\ Len(r) = Len(p) + Len(q)
          /\ \A i \in 1..Len(p) : r[i] = p[i]
          /\ \A i \in 1..Len(q) : r[Len(p) + i] = q[i]
        BY <2>1, <2>2
    <2>4. p \o q = r
        BY <2>1, <2>3, Glued
    <2> QED
        BY <2>4 DEF p, q, r
<1>5. ASSUME NEW a \in EventTypes, NEW b \in EventTypes, NEW c \in EventTypes, NEW d \in EventTypes, NEW e \in EventTypes
      PROVE  <<a, b>> \o <<c, d, e>> = <<a, b, c, d, e>>
    <2> DEFINE p == <<a, b>>
               q == <<c, d, e>>
               r == <<a, b, c, d, e>>
    <2>1. /\ p \in Seq(EventTypes) /\ q \in Seq(EventTypes) /\ r \in Seq(EventTypes)
          /\ Len(p) = 2 /\ Len(q) = 3 /\ Len(r) = 5
        OBVIOUS
    <2>2. /\ \A i \in 1..2 : r[i] = p[i]
          /\ \A i \in 1..3 : r[2 + i] = q[i]
        OBVIOUS
    <2> HIDE DEF p, q, r
    <2>3. /\ Len(r) = Len(p) + Len(q)
          /\ \A i \in 1..Len(p) : r[i] = p[i]
          /\ \A i \in 1..Len(q) : r[Len(p) + i] = q[i]
        BY <2>1, <2>2
    <2>4. p \o q = r
        BY <2>1, <2>3, Glued
    <2> QED
        BY <2>4 DEF p, q, r
<1> QED
    BY <1>1, <1>2, <1>3, <1>4, <1>5

(* Every step of the gateway keeps the shape.                              *)
LEMMA ShapeStep == TypeOK /\ ParseShape /\ [Next]_vars => ParseShape'
<1> SUFFICES ASSUME TypeOK, ParseShape, [Next]_vars PROVE ParseShape'
    OBVIOUS
<1>1. CASE UNCHANGED <<producer, kind, produced>>
    BY <1>1 DEF ParseShape
<1>2. ASSUME NEW j \in Jobs, NEW k \in Kinds, CreateJob(j, k) PROVE ParseShape'
    BY <1>2 DEF CreateJob, ParseShape, TypeOK
<1>3. ASSUME NEW j \in Jobs, Producer(j) \/ LegacyForwards(j) PROVE ParseShape'
    <2>1. PICK types \in Seq(EventTypes) : Push(j, types)
        BY <1>3, ProducerPushes
    <2>2. kind' = kind /\ \A q \in Jobs : q # j => produced'[q] = produced[q]
        BY <2>1 DEF Push, TypeOK
    <2>3. \A q \in Jobs : q # j => producer'[q] = producer[q]
        BY <1>3 DEF Producer, ProducerStarts, NlpAnswers, LlmAnswers, ServiceAnswers, LegacyEnds,
           RequestFails, LegacyForwards, ProducerAt, TypeOK
    <2>4. ASSUME NEW to, producer' = [producer EXCEPT ![j] = to], NEW more \in Seq(EventTypes),
                 Push(j, more)
          PROVE  producer'[j] = to /\ produced'[j] = produced[j] \o more
        BY <2>4 DEF Push, TypeOK
    <2>5. /\ producer'[j] # "none"
          /\ kind[j] \in {"parse", "parse_llm"} =>
               \/ producer'[j] = "nlp" /\ produced'[j] = <<"progress">>
               \/ /\ producer'[j] = "llm" /\ kind[j] = "parse_llm"
                  /\ produced'[j] = <<"progress", "nlp_done">>
               \/ /\ producer'[j] = "finished"
                  /\ \/ produced'[j] = <<"progress", "error", "done">>
                     \/ produced'[j] = <<"progress", "nlp_done", "result", "done">>
                     \/ /\ kind[j] = "parse_llm"
                        /\ \E stage \in {"llm_done", "llm_error"} :
                             produced'[j] = <<"progress", "nlp_done", stage, "result", "done">>
        <3>0. /\ "progress" \in EventTypes /\ "nlp_done" \in EventTypes
              /\ "llm_done" \in EventTypes /\ "llm_error" \in EventTypes
              /\ "result" \in EventTypes /\ "error" \in EventTypes /\ "done" \in EventTypes
            BY DEF EventTypes
        <3>1. /\ <<>> \o <<"progress">> = <<"progress">>
              /\ <<"progress">> \o <<"nlp_done">> = <<"progress", "nlp_done">>
            BY <3>0, GluedTuples, Zenon
        <3>2. /\ <<"progress">> \o <<"error", "done">> = <<"progress", "error", "done">>
              /\ <<"progress">> \o <<"nlp_done", "result", "done">>
                    = <<"progress", "nlp_done", "result", "done">>
            <4>1. \A a, b, c \in EventTypes : <<a>> \o <<b, c>> = <<a, b, c>>
                BY GluedTuples
            <4>2. \A a, b, c, d \in EventTypes : <<a>> \o <<b, c, d>> = <<a, b, c, d>>
                BY GluedTuples
            <4>3. <<"progress">> \o <<"error", "done">> = <<"progress", "error", "done">>
                BY <3>0, <4>1, Zenon
            <4>4. <<"progress">> \o <<"nlp_done", "result", "done">>
                    = <<"progress", "nlp_done", "result", "done">>
                <5>1. \A c, d \in EventTypes :
                          <<"progress">> \o <<"nlp_done", c, d>> = <<"progress", "nlp_done", c, d>>
                    BY <3>0, <4>2, Zenon
                <5> QED
                    BY <3>0, <5>1, Zenon
            <4> QED
                BY <4>3, <4>4
        <3>3. \A stage \in {"llm_done", "llm_error"} :
                  <<"progress", "nlp_done">> \o <<stage, "result", "done">>
                    = <<"progress", "nlp_done", stage, "result", "done">>
            <4>1. \A a, b, c, d, e \in EventTypes : <<a, b>> \o <<c, d, e>> = <<a, b, c, d, e>>
                BY GluedTuples
            <4>2. \A stage \in {"llm_done", "llm_error"} : stage \in EventTypes
                BY <3>0
            <4>3. ASSUME NEW stage \in EventTypes
                  PROVE  <<"progress", "nlp_done">> \o <<stage, "result", "done">>
                            = <<"progress", "nlp_done", stage, "result", "done">>
                <5>1. \A c, d, e \in EventTypes :
                          <<"progress", "nlp_done">> \o <<c, d, e>> = <<"progress", "nlp_done", c, d, e>>
                    BY <3>0, <4>1, Zenon
                <5>2. \A d, e \in EventTypes :
                          <<"progress", "nlp_done">> \o <<stage, d, e>>
                            = <<"progress", "nlp_done", stage, d, e>>
                    BY <5>1, Zenon
                <5> QED
                    BY <3>0, <5>2, Zenon
            <4> QED
                BY <4>2, <4>3
        <3>4. /\ <<"progress">> \in Seq(EventTypes) /\ <<"nlp_done">> \in Seq(EventTypes)
              /\ <<"error", "done">> \in Seq(EventTypes) /\ <<"result", "done">> \in Seq(EventTypes)
              /\ <<"done">> \in Seq(EventTypes)
              /\ <<"nlp_done", "result", "done">> \in Seq(EventTypes)
              /\ \A stage \in {"llm_done", "llm_error"} : <<stage, "result", "done">> \in Seq(EventTypes)
            BY DEF EventTypes
        <3>5. kind[j] \in Kinds
            BY DEF TypeOK
        <3>6. CASE ProducerStarts(j)
            <4>1. PICK to \in {"nlp", "service", "legacy"} :
                      /\ producer[j] = "queued" /\ producer' = [producer EXCEPT ![j] = to]
                      /\ kind[j] \in {"parse", "parse_llm"} => to = "nlp"
                      /\ Push(j, <<"progress">>)
                BY <3>5, <3>6 DEF ProducerStarts, ProducerAt, Kinds
            <4>2. producer'[j] = to /\ produced'[j] = produced[j] \o <<"progress">>
                BY <2>4, <3>4, <4>1
            <4> QED
                BY <3>1, <4>1, <4>2 DEF ParseShape
        <3>7. CASE NlpAnswers(j)
            <4>1. CASE /\ kind[j] = "parse" /\ ProducerAt(j, "nlp", "finished")
                       /\ Push(j, <<"nlp_done", "result", "done">>)
                <5>1. /\ producer[j] = "nlp" /\ producer'[j] = "finished"
                      /\ produced'[j] = produced[j] \o <<"nlp_done", "result", "done">>
                    BY <2>4, <3>4, <4>1 DEF ProducerAt
                <5> QED
                    BY <3>2, <4>1, <5>1 DEF ParseShape
            <4>2. CASE /\ kind[j] = "parse_llm" /\ ProducerAt(j, "nlp", "llm")
                       /\ Push(j, <<"nlp_done">>)
                <5>1. /\ producer[j] = "nlp" /\ producer'[j] = "llm"
                      /\ produced'[j] = produced[j] \o <<"nlp_done">>
                    BY <2>4, <3>4, <4>2 DEF ProducerAt
                <5> QED
                    BY <3>1, <4>2, <5>1 DEF ParseShape
            <4> QED
                BY <3>7, <4>1, <4>2 DEF NlpAnswers
        <3>8. CASE LlmAnswers(j)
            <4>1. PICK stage \in {"llm_done", "llm_error"} :
                      /\ producer[j] = "llm" /\ producer' = [producer EXCEPT ![j] = "finished"]
                      /\ Push(j, <<stage, "result", "done">>)
                BY <3>8 DEF LlmAnswers, ProducerAt
            <4>2. /\ producer'[j] = "finished"
                  /\ produced'[j] = produced[j] \o <<stage, "result", "done">>
                BY <2>4, <3>4, <4>1
            <4> QED
                BY <3>3, <4>1, <4>2 DEF ParseShape
        <3>9. CASE ServiceAnswers(j) \/ LegacyEnds(j)
            <4>1. producer[j] \in {"service", "legacy"} /\ producer'[j] = "finished"
                BY <3>9 DEF ServiceAnswers, LegacyEnds, ProducerAt, TypeOK
            <4> QED
                BY <4>1 DEF ParseShape
        <3>10. CASE RequestFails(j)
            <4>1. PICK from \in {"nlp", "service", "legacy"} :
                      /\ producer[j] = from /\ producer' = [producer EXCEPT ![j] = "finished"]
                      /\ Push(j, <<"error", "done">>)
                BY <3>10 DEF RequestFails, ProducerAt
            <4>2. producer'[j] = "finished" /\ produced'[j] = produced[j] \o <<"error", "done">>
                BY <2>4, <3>4, <4>1
            <4> QED
                BY <3>2, <4>1, <4>2 DEF ParseShape
        <3>11. CASE LegacyForwards(j)
            <4>1. producer[j] = "legacy" /\ producer' = producer
                BY <3>11 DEF LegacyForwards
            <4> QED
                BY <4>1 DEF ParseShape
        <3> QED
            BY <1>3, <3>6, <3>7, <3>8, <3>9, <3>10, <3>11 DEF Producer
    <2> QED
        BY <2>2, <2>3, <2>5 DEF ParseShape
<1>4. ASSUME NEW j \in Jobs, Expire(j) PROVE UNCHANGED <<producer, kind, produced>>
    BY <1>4 DEF Expire, producerVars
<1>5. ASSUME NEW s \in Streams, (\E j \in Jobs : StreamOpen(s, j)) \/ Stream(s)
      PROVE  UNCHANGED <<producer, kind, produced>>
    BY <1>5 DEF StreamOpen, Stream, StreamNext, StreamWrite, producerVars
<1>6. CASE UNCHANGED vars
    BY <1>1, <1>6 DEF vars, producerVars
<1> QED
    BY <1>1, <1>2, <1>3, <1>4, <1>5, <1>6 DEF Next

(* The order of section 9.3 of the project map holds for every parse job   *)
(* of executeParseJob in app.ts, and the failure of the third pass alone   *)
(* never costs the user the result.                                        *)
THEOREM SpecParseOrder == Spec => []ParseOrder
<1>1. Init => TypeOK /\ ParseShape
    BY JobInit DEF JobInv, Init, ParseShape
<1>2. JobInv /\ ParseShape /\ [Next]_vars => ParseShape'
    BY ShapeStep DEF JobInv
<1> QED
    BY JobInit, JobStep, ShapeIsOrder, <1>1, <1>2, PTL DEF Spec

---------------------------------------------------------------------------
(* The browser and the gateway together                                    *)

(* An event has a type that its job pushed.                                *)
TypesAreOfTheJob ==
    /\ \A j \in Jobs : \A i \in 1..Len(queue[j]) : queue[j][i].type \in Events(produced[j])
    /\ \A s \in Streams :
         /\ \A i \in 1..Len(written[s]) :
              written[s][i].type \in Events(produced[streamJob[s]]) \union {"not_found"}
         /\ streamPc[s] = "resumed" =>
              inbox[s].type \in Events(produced[streamJob[s]]) \union {"not_found"}

(* A stream has ended because of the last event it wrote.                  *)
EndsWithTerminal ==
    \A s \in Streams :
        streamPc[s] = "ended" => /\ Len(written[s]) > 0
                                 /\ written[s][Len(written[s])].type \in Terminal

(* Only a job that was created is streamed.                                *)
StreamsHaveJobs ==
    \A s \in Streams : streamPc[s] # "unused" => producer[streamJob[s]] # "none"

GatewayInv == DeliveryInv /\ TypesAreOfTheJob /\ EndsWithTerminal /\ StreamsHaveJobs

SourceStates == {"none", "connecting", "open", "closed"}

ClientTypeOK ==
    /\ hook \in [status : {"idle", "pending", "streaming", "done", "error"},
                 shows : {"nothing", "result", "error", "not_found"},
                 run : Jobs \union {None}]
    /\ posting \in Jobs \union {None}
    /\ source \in [Jobs -> [state : SourceStates, stream : Streams \union {None}, read : Nat]]
    /\ cleanupRef \in Jobs \union {None}
    /\ broken \in [Jobs -> Nat]
    /\ expired \subseteq Jobs

(* The hook is at one thing at a time: a POST, one EventSource or none, and*)
(* it shows nothing while it works.                                        *)
OneAtATime ==
    /\ hook.status = "pending" <=> posting # None
    /\ posting # None => /\ posting = hook.run /\ cleanupRef = None
                         /\ source[posting].state = "none"
    /\ Working => hook.run \in Jobs /\ hook.shows = "nothing"
    /\ hook.shows # "nothing" => hook.run \in Jobs

(* An open EventSource reads a response of its own job, and has read no    *)
(* event that would have closed it.  One that was never made has read      *)
(* nothing.                                                                *)
ReadsItsJob ==
    \A j \in Jobs :
        /\ source[j].state = "none" => source[j].read = 0
        /\ source[j].state = "open" =>
             LET s == source[j].stream
             IN  /\ s \in Streams /\ streamPc[s] # "unused" /\ streamJob[s] = j
                 /\ source[j].read <= Len(written[s])
                 /\ \A i \in 1..source[j].read : ~ Closes(written[s][i].type)

(* A job whose connection was never broken has at most the one stream its  *)
(* EventSource reads, and none before that is made.                        *)
OneStream ==
    \A j \in Jobs :
        broken[j] = 0 =>
            \A s \in Streams :
                streamJob[s] = j => /\ source[j].state \in {"open", "closed"}
                                    /\ source[j].stream = s

(* Unless the timer removed it, such a job stays until its stream has      *)
(* ended, and the stream is never told that it is gone.                    *)
KeptForItsStream ==
    \A j \in Jobs :
        broken[j] = 0 /\ j \notin expired =>
            /\ producer[j] # "none" =>
                 j \in live \/ \E s \in Streams : streamJob[s] = j /\ streamPc[s] = "ended"
            /\ \A s \in Streams :
                 streamJob[s] = j =>
                     /\ streamPc[s] = "resumed" => inbox[s].type # "not_found"
                     /\ \A i \in 1..Len(written[s]) : written[s][i].type # "not_found"

ClientInv ==
    /\ GatewayInv
    /\ ClientTypeOK
    /\ SettledIsClosed
    /\ OneAtATime
    /\ ReadsItsJob
    /\ ShowsOwnOutcome
    /\ OneStream
    /\ KeptForItsStream
    /\ NotFoundOnlyAfterLoss

-----------------------------------------------------------------------------
(* The gateway's part.                                                     *)

(* What is glued to a sequence keeps what was in it.                       *)
LEMMA EventsOfGlued ==
    ASSUME NEW p \in Seq(EventTypes), NEW q \in Seq(EventTypes)
    PROVE  /\ Events(p) \subseteq Events(p \o q)
           /\ \A i \in 1..Len(q) : q[i] \in Events(p \o q)
<1>1. /\ p \o q \in Seq(EventTypes) /\ Len(p \o q) = Len(p) + Len(q)
      /\ Len(p) \in Nat /\ Len(q) \in Nat
      /\ \A i \in 1..Len(p) : (p \o q)[i] = p[i]
      /\ \A i \in 1..Len(q) : (p \o q)[Len(p) + i] = q[i]
    OBVIOUS
<1> DEFINE r == p \o q
<1>2. /\ Events(p) = {p[i] : i \in 1..Len(p)}
      /\ Events(p \o q) = {(p \o q)[i] : i \in 1..Len(p) + Len(q)}
    <2>1. DOMAIN p = 1..Len(p) /\ DOMAIN r = 1..Len(r)
        BY <1>1
    <2>2. Events(r) = {r[i] : i \in 1..Len(p) + Len(q)}
        BY <1>1, <2>1 DEF Events
    <2> QED
        BY <2>1, <2>2 DEF Events
<1>3. ASSUME NEW i \in 1..Len(q) PROVE q[i] \in Events(p \o q)
    <2>1. Len(p) + i \in 1..Len(p) + Len(q)
        BY <1>1
    <2> QED
        BY <1>1, <1>2, <2>1
<1>4. ASSUME NEW i \in 1..Len(p) PROVE p[i] \in Events(p \o q)
    <2>1. i \in 1..Len(p) + Len(q)
        BY <1>1
    <2> QED
        BY <1>1, <1>2, <2>1
<1> QED
    BY <1>2, <1>3, <1>4

(* A push hands on and queues events of the types it adds to the job.      *)
LEMMA PushKeepsTypes ==
    ASSUME DeliveryInv, TypesAreOfTheJob, NEW j \in Jobs, NEW types \in Seq(EventTypes),
           Push(j, types)
    PROVE  TypesAreOfTheJob'
<1>1. /\ produced' = [produced EXCEPT ![j] = produced[j] \o types]
      /\ UNCHANGED <<live, streamJob, written>>
    BY DEF Push
<1>2. TypeOK /\ JobInv
    BY DEF DeliveryInv, JobInv
<1>3. produced[j] \in Seq(EventTypes) /\ produced'[j] = produced[j] \o types
        /\ \A q \in Jobs : q # j => produced'[q] = produced[q]
    BY <1>1, <1>2 DEF TypeOK
<1>4. /\ \A q \in Jobs : Events(produced[q]) \subseteq Events(produced'[q])
      /\ \A i \in 1..Len(types) : types[i] \in Events(produced'[j])
    <2>1. /\ Events(produced[j]) \subseteq Events(produced'[j])
          /\ \A i \in 1..Len(types) : types[i] \in Events(produced'[j])
        BY <1>3, EventsOfGlued
    <2> QED
        BY <1>3, <2>1
<1>5. \A s \in Streams : streamPc[s] # "unused" => streamJob[s] \in Jobs
    BY <1>2 DEF JobInv, Opened
<1>6. ASSUME NEW s \in Streams, NEW i \in 1..Len(written'[s])
      PROVE  written'[s][i].type \in Events(produced'[streamJob'[s]]) \union {"not_found"}
    <2>1. streamPc[s] # "unused"
        BY <1>1, <1>6 DEF DeliveryInv, InboxIsNewer
    <2> QED
        BY <1>1, <1>4, <1>5, <2>1 DEF TypesAreOfTheJob
<1>7. CASE j \notin live
    <2>1. UNCHANGED <<inbox, streamPc, queue>>
        BY <1>7 DEF Push
    <2>2. ASSUME NEW s \in Streams, streamPc'[s] = "resumed"
          PROVE  inbox'[s].type \in Events(produced'[streamJob'[s]]) \union {"not_found"}
        BY <1>1, <1>4, <1>5, <2>1, <2>2 DEF TypesAreOfTheJob
    <2>3. ASSUME NEW q \in Jobs, NEW i \in 1..Len(queue'[q])
          PROVE  queue'[q][i].type \in Events(produced'[q])
        BY <1>4, <2>1 DEF TypesAreOfTheJob
    <2> QED
        BY <1>6, <2>2, <2>3 DEF TypesAreOfTheJob
<1>8. CASE j \in live
    <2>1. PICK k \in 0..Len(waiters[j]) :
             /\ k <= Len(types) /\ (k = Len(waiters[j]) \/ k = Len(types))
             /\ queue' = [queue EXCEPT ![j] = @ \o SubSeq(Numbered(j, types), k + 1, Len(types))]
             /\ \A i \in 1..k : /\ streamPc'[waiters[j][i]] = "resumed"
                                /\ inbox'[waiters[j][i]] = Numbered(j, types)[i]
                                /\ inbox'[waiters[j][i]].n = Len(produced[j]) + i
             /\ \A s \in Streams : (\A i \in 1..k : waiters[j][i] # s) =>
                                      inbox'[s] = inbox[s] /\ streamPc'[s] = streamPc[s]
        BY <1>2, <1>8, PushServes
    <2>2. /\ k \in Nat /\ waiters[j] \in Seq(Streams) /\ Len(waiters[j]) \in Nat
          /\ Len(types) \in Nat /\ k <= Len(waiters[j]) /\ k <= Len(types)
          /\ queue \in [Jobs -> Seq(Event)]
        BY <1>2, <2>1 DEF TypeOK
    <2> DEFINE es == Numbered(j, types)
    <2>3. es \in Seq(Event) /\ Len(es) = Len(types) /\ \A i \in 1..Len(types) : es[i].type = types[i]
        BY <1>2, NumberedType DEF Numbered
    <2>0. /\ queue' = [queue EXCEPT ![j] = queue[j] \o SubSeq(es, k + 1, Len(types))]
          /\ \A i \in 1..k : inbox'[waiters[j][i]] = es[i]
        BY <2>1
    <2> HIDE DEF es
    <2>4. ASSUME NEW s \in Streams, streamPc'[s] = "resumed"
          PROVE  inbox'[s].type \in Events(produced'[streamJob'[s]]) \union {"not_found"}
        <3>1. CASE \A i \in 1..k : waiters[j][i] # s
            BY <1>1, <1>4, <1>5, <2>1, <2>4, <3>1 DEF TypesAreOfTheJob
        <3>2. ASSUME NEW i \in 1..k, waiters[j][i] = s
              PROVE  inbox'[s].type \in Events(produced'[streamJob'[s]])
            <4>1. i \in 1..Len(waiters[j]) /\ i \in 1..Len(types)
                BY <2>2
            <4>2. streamJob[s] = j
                BY <1>2, <3>2, <4>1 DEF JobInv, WaitersWait
            <4>3. inbox'[s].type = types[i]
                BY <2>0, <2>3, <3>2, <4>1
            <4> QED
                BY <1>1, <1>4, <4>1, <4>2, <4>3
        <3> QED
            BY <3>1, <3>2
    <2>5. ASSUME NEW q \in Jobs, NEW i \in 1..Len(queue'[q])
          PROVE  queue'[q][i].type \in Events(produced'[q])
        <3>1. CASE q # j
            <4>1. queue'[q] = queue[q]
                BY <2>1, <2>2, <3>1
            <4> QED
                BY <1>4, <2>5, <4>1 DEF TypesAreOfTheJob
        <3>2. CASE q = j
            <4> DEFINE more == SubSeq(es, k + 1, Len(types))
            <4>1. /\ more \in Seq(Event) /\ Len(more) = Len(types) - k
                  /\ \A m \in 1..Len(types) - k : more[m] = es[k + m]
                BY <2>2, <2>3
            <4>0. queue' = [queue EXCEPT ![j] = queue[j] \o more]
                BY <2>0
            <4> HIDE DEF more
            <4>2. queue'[j] = queue[j] \o more
                BY <2>2, <4>0
            <4>3. PICK old \in Seq(Event) : old = queue[j]
                BY <2>2
            <4>4. /\ Len(old) \in Nat /\ Len(old \o more) = Len(old) + Len(more)
                  /\ \A m \in 1..Len(old) : (old \o more)[m] = old[m]
                  /\ \A m \in 1..Len(more) : (old \o more)[Len(old) + m] = more[m]
                <5>1. PICK new \in Seq(Event) : new = more
                    BY <4>1
                <5>2. /\ Len(old) \in Nat /\ Len(old \o new) = Len(old) + Len(new)
                      /\ \A m \in 1..Len(old) : (old \o new)[m] = old[m]
                      /\ \A m \in 1..Len(new) : (old \o new)[Len(old) + m] = new[m]
                    OBVIOUS
                <5> QED
                    BY <5>1, <5>2
            <4>5. i \in 1..Len(old) + (Len(types) - k)
                BY <2>5, <3>2, <4>1, <4>2, <4>3, <4>4
            <4>6. CASE i <= Len(old)
                <5>1. i \in 1..Len(old) /\ queue'[j][i] = queue[j][i]
                    BY <2>2, <4>2, <4>3, <4>4, <4>5, <4>6
                <5> QED
                    BY <1>4, <3>2, <4>3, <5>1 DEF TypesAreOfTheJob
            <4>7. CASE ~ (i <= Len(old))
                <5>1. i - Len(old) \in 1..Len(types) - k /\ i = Len(old) + (i - Len(old))
                    BY <2>2, <4>4, <4>5, <4>7
                <5>2. PICK m \in 1..Len(types) - k : i = Len(old) + m
                    BY <5>1
                <5>3. k + m \in 1..Len(types)
                    BY <2>2
                <5>4. queue'[j][i].type = types[k + m]
                    <6>1. queue'[j][i] = more[m] /\ Len(more) = Len(types) - k
                        BY <4>1, <4>2, <4>3, <4>4, <5>2
                    <6> QED
                        BY <2>3, <4>1, <5>2, <5>3, <6>1
                <5> QED
                    BY <1>4, <3>2, <5>3, <5>4
            <4> QED
                BY <4>6, <4>7
        <3> QED
            BY <3>1, <3>2
    <2> QED
        BY <1>6, <2>4, <2>5 DEF TypesAreOfTheJob
<1> QED
    BY <1>7, <1>8

(* A stream takes the head of the queue, or nothing of the job's, and      *)
(* writes what it took; a cleanup adds no event.                           *)
LEMMA StreamKeepsTypes ==
    ASSUME DeliveryInv, TypesAreOfTheJob, NEW s \in Streams, Stream(s)
    PROVE  TypesAreOfTheJob'
<1>1. TypeOK /\ JobInv /\ streamJob[s] \in Jobs /\ UNCHANGED <<produced, streamJob>>
    BY DEF DeliveryInv, JobInv, Opened, Stream, StreamNext, StreamWrite, producerVars
<1>2. PICK j \in Jobs : j = streamJob[s]
    BY <1>1
<1>3. queue \in [Jobs -> Seq(Event)] /\ queue[j] \in Seq(Event)
    BY <1>1 DEF TypeOK
<1>4. CASE StreamNext(s)
    <2>1. written' = written /\ \A t \in Streams : t # s => inbox'[t] = inbox[t] /\ streamPc'[t] = streamPc[t]
        BY <1>1, <1>4 DEF StreamNext, TypeOK
    <2>2. CASE UNCHANGED queue /\ (streamPc'[s] = "resumed" => inbox'[s] = NotFound)
        BY <1>1, <2>1, <2>2 DEF TypesAreOfTheJob, NotFound
    <2>3. CASE /\ queue[j] # <<>> /\ inbox'[s] = Head(queue[j])
               /\ queue' = [queue EXCEPT ![j] = Tail(queue[j])]
        <3>1. PICK q \in Seq(Event) : q = queue[j]
            BY <1>3
        <3>2. /\ Len(q) \in Nat /\ Len(q) > 0 /\ Head(q) = q[1] /\ Len(Tail(q)) = Len(q) - 1
              /\ \A i \in 1..Len(q) - 1 : Tail(q)[i] = q[i + 1]
            BY <2>3, <3>1
        <3>3. \A i \in 1..Len(q) : q[i].type \in Events(produced[j])
            BY <3>1 DEF TypesAreOfTheJob
        <3>4. inbox'[s].type \in Events(produced[j])
            <4>1. 1 \in 1..Len(q)
                BY <3>2
            <4> QED
                BY <2>3, <3>1, <3>2, <3>3, <4>1
        <3>5. \A i \in 1..Len(Tail(q)) : Tail(q)[i].type \in Events(produced[j])
            <4>1. \A i \in 1..Len(q) - 1 : i + 1 \in 1..Len(q)
                BY <3>2
            <4> QED
                BY <3>2, <3>3, <4>1
        <3>6. queue'[j] = Tail(q) /\ \A r \in Jobs : r # j => queue'[r] = queue[r]
            BY <1>3, <2>3, <3>1
        <3>7. \A r \in Jobs : \A i \in 1..Len(queue'[r]) : queue'[r][i].type \in Events(produced'[r])
            BY <1>1, <3>5, <3>6 DEF TypesAreOfTheJob
        <3> QED
            BY <1>1, <1>2, <2>1, <3>4, <3>7 DEF TypesAreOfTheJob
    <2> QED
        BY <1>1, <1>2, <1>4, <2>2, <2>3 DEF StreamNext, OldestOf, TypeOK
<1>5. CASE StreamWrite(s)
    <2>1. /\ streamPc[s] = "resumed" /\ written' = [written EXCEPT ![s] = Append(written[s], inbox[s])]
          /\ \/ /\ inbox[s].type \in Terminal
                /\ Cleanup(j, [streamPc EXCEPT ![s] = "ended"])
             \/ /\ streamPc' = [streamPc EXCEPT ![s] = "next"]
                /\ UNCHANGED <<queue, inbox>>
        BY <1>2, <1>5 DEF StreamWrite, jobVars
    <2>2. ASSUME NEW t \in Streams, NEW i \in 1..Len(written'[t])
          PROVE  written'[t][i].type \in Events(produced'[streamJob'[t]]) \union {"not_found"}
        <3>1. CASE t # s
            <4>1. written'[t] = written[t]
                BY <1>1, <2>1, <3>1 DEF TypeOK
            <4> QED
                BY <1>1, <2>2, <4>1 DEF TypesAreOfTheJob
        <3>2. CASE t = s
            <4>1. PICK w \in Seq(Event \union {NotFound}) : w = written[s]
                BY <1>1 DEF TypeOK
            <4>2. written'[s] = Append(w, inbox[s])
                BY <1>1, <2>1, <4>1 DEF TypeOK
            <4>3. /\ Len(w) \in Nat /\ Len(Append(w, inbox[s])) = Len(w) + 1
                  /\ \A m \in 1..Len(w) : Append(w, inbox[s])[m] = w[m]
                  /\ Append(w, inbox[s])[Len(w) + 1] = inbox[s]
                OBVIOUS
            <4>4. i \in 1..Len(w) \/ i = Len(w) + 1
                BY <2>2, <3>2, <4>2, <4>3
            <4> QED
                BY <1>1, <2>1, <3>2, <4>1, <4>2, <4>3, <4>4 DEF TypesAreOfTheJob
        <3> QED
            BY <3>1, <3>2
    <2>3. \A t \in Streams : streamPc'[t] = "resumed" =>
              \/ inbox'[t].type = "not_found"
              \/ streamPc[t] = "resumed" /\ inbox'[t] = inbox[t]
        BY <1>1, <2>1 DEF Cleanup, NotFound, TypeOK
    <2>4. \A r \in Jobs : queue'[r] = queue[r] \/ queue'[r] = <<>>
        BY <1>3, <2>1 DEF Cleanup
    <2>5. ASSUME NEW r \in Jobs, NEW i \in 1..Len(queue'[r])
          PROVE  queue'[r][i].type \in Events(produced'[r])
        BY <1>1, <2>4, <2>5 DEF TypesAreOfTheJob
    <2> QED
        BY <1>1, <2>2, <2>3, <2>5 DEF TypesAreOfTheJob
<1> QED
    BY <1>4, <1>5 DEF Stream

(* Only a terminal event ends a stream.                                    *)
LEMMA EndsStep == DeliveryInv /\ EndsWithTerminal /\ [Next]_vars => EndsWithTerminal'
<1> SUFFICES ASSUME DeliveryInv, EndsWithTerminal, [Next]_vars PROVE EndsWithTerminal'
    OBVIOUS
<1>1. TypeOK
    BY DEF DeliveryInv, JobInv
<1>2. CASE /\ UNCHANGED written
           /\ \A t \in Streams : streamPc'[t] = "ended" => streamPc[t] = "ended"
    BY <1>2 DEF EndsWithTerminal
<1>3. CASE UNCHANGED vars
    BY <1>2, <1>3 DEF vars, streamVars
<1>4. ASSUME NEW j \in Jobs, (\E k \in Kinds : CreateJob(j, k)) \/ Expire(j)
      PROVE  EndsWithTerminal'
    <2>1. /\ UNCHANGED written
          /\ \A t \in Streams : streamPc'[t] = "ended" => streamPc[t] = "ended"
        BY <1>4 DEF CreateJob, streamVars, Expire, Cleanup
    <2> QED
        BY <1>2, <2>1
<1>5. ASSUME NEW j \in Jobs, Producer(j) \/ LegacyForwards(j)
      PROVE  EndsWithTerminal'
    <2>1. PICK types \in Seq(EventTypes) : Push(j, types)
        BY <1>5, ProducerPushes
    <2>2. UNCHANGED written /\ \A t \in Streams : streamPc'[t] = "ended" => streamPc[t] = "ended"
        BY <2>1 DEF Push
    <2> QED
        BY <1>2, <2>2
<1>6. ASSUME NEW s \in Streams, (\E j \in Jobs : StreamOpen(s, j)) \/ StreamNext(s)
      PROVE  EndsWithTerminal'
    <2>1. UNCHANGED written /\ \A t \in Streams : streamPc'[t] = "ended" => streamPc[t] = "ended"
        BY <1>1, <1>6 DEF StreamOpen, StreamNext, TypeOK
    <2> QED
        BY <1>2, <2>1
<1>7. ASSUME NEW s \in Streams, StreamWrite(s) PROVE EndsWithTerminal'
    <2>0. streamPc[s] = "resumed" /\ written' = [written EXCEPT ![s] = Append(written[s], inbox[s])]
        BY <1>7 DEF StreamWrite
    <2>1. \A t \in Streams : streamPc'[t] = "ended" =>
              streamPc[t] = "ended" \/ (t = s /\ inbox[s].type \in Terminal)
        <3>1. CASE inbox[s].type \in Terminal
            <4>1. PICK pc : pc = [streamPc EXCEPT ![s] = "ended"]
                OBVIOUS
            <4>2. \A t \in Streams : streamPc'[t] = "resumed" \/ streamPc'[t] = pc[t]
                BY <1>7, <3>1, <4>1 DEF StreamWrite, Cleanup
            <4>3. \A t \in Streams : t # s => pc[t] = streamPc[t]
                BY <1>1, <4>1 DEF TypeOK
            <4> QED
                BY <3>1, <4>2, <4>3
        <3>2. CASE inbox[s].type \notin Terminal
            <4>1. streamPc' = [streamPc EXCEPT ![s] = "next"]
                BY <1>7, <3>2 DEF StreamWrite
            <4>2. streamPc'[s] = "next" /\ \A t \in Streams : t # s => streamPc'[t] = streamPc[t]
                BY <1>1, <4>1 DEF TypeOK
            <4> QED
                BY <4>2
        <3> QED
            BY <3>1, <3>2
    <2>2. PICK w \in Seq(Event \union {NotFound}) : w = written[s]
        BY <1>1 DEF TypeOK
    <2>3. /\ written'[s] = Append(w, inbox[s])
          /\ \A t \in Streams : t # s => written'[t] = written[t]
        BY <1>1, <2>0, <2>2 DEF TypeOK
    <2>4. Len(w) \in Nat /\ Len(Append(w, inbox[s])) = Len(w) + 1 /\ Append(w, inbox[s])[Len(w) + 1] = inbox[s]
        OBVIOUS
    <2>5. /\ Len(written'[s]) > 0
          /\ inbox[s].type \in Terminal => written'[s][Len(written'[s])].type \in Terminal
        BY <2>3, <2>4
    <2>6. ASSUME NEW t \in Streams, streamPc'[t] = "ended"
          PROVE  Len(written'[t]) > 0 /\ written'[t][Len(written'[t])].type \in Terminal
        BY <2>0, <2>1, <2>3, <2>5, <2>6 DEF EndsWithTerminal
    <2> QED
        BY <2>6 DEF EndsWithTerminal
<1> QED
    BY <1>3, <1>4, <1>5, <1>6, <1>7 DEF Next, Stream

(* The waiters of a job are streams that wait for it.                      *)
LEMMA WaitersAre ==
    ASSUME JobInv, NEW j \in Jobs
    PROVE  /\ waiters[j] \in Seq(Streams) /\ Len(waiters[j]) \in Nat
           /\ DOMAIN waiters[j] = 1..Len(waiters[j])
           /\ \A i \in DOMAIN waiters[j] : /\ waiters[j][i] \in Streams
                                           /\ streamPc[waiters[j][i]] = "waiting"
                                           /\ streamJob[waiters[j][i]] = j
<1>1. waiters[j] \in Seq(Streams)
    BY DEF JobInv, TypeOK
<1>2. Len(waiters[j]) \in Nat /\ DOMAIN waiters[j] = 1..Len(waiters[j])
        /\ \A i \in DOMAIN waiters[j] : waiters[j][i] \in Streams
    BY <1>1
<1>3. \A i \in 1..Len(waiters[j]) : /\ streamPc[waiters[j][i]] = "waiting"
                                    /\ streamJob[waiters[j][i]] = j
    BY DEF JobInv, WaitersWait
<1> QED
    BY <1>1, <1>2, <1>3

(* What a step of the gateway never takes back: the job of a stream, what  *)
(* it has written, what its job has pushed.                                *)
OldKept ==
    /\ UNCHANGED streamJob
    /\ \A s \in Streams :
         /\ streamPc'[s] = "unused" <=> streamPc[s] = "unused"
         /\ Len(written[s]) <= Len(written'[s])
         /\ \A i \in 1..Len(written[s]) : written'[s][i] = written[s][i]
    /\ \A j \in Jobs :
         /\ Events(produced[j]) \subseteq Events(produced'[j])
         /\ producer'[j] = "none" => producer[j] = "none"

(* The steps of the gateway that open no stream. *)
ClosedStep ==
    \/ \E j \in Jobs : \/ \E k \in Kinds : CreateJob(j, k)
                       \/ Producer(j)
                       \/ LegacyForwards(j)
                       \/ Expire(j)
    \/ \E s \in Streams : Stream(s)

LEMMA GatewayMoves == JobInv /\ ClosedStep => OldKept
<1> SUFFICES ASSUME JobInv, ClosedStep PROVE OldKept
    OBVIOUS
<1>1. TypeOK
    BY DEF JobInv
<1>2. \A s \in Streams : Len(written[s]) \in Nat
    BY <1>1 DEF TypeOK
<1>3. CASE UNCHANGED <<streamJob, streamPc, written, produced>>
              /\ \A j \in Jobs : producer'[j] = "none" => producer[j] = "none"
    BY <1>2, <1>3 DEF OldKept
<1>4. ASSUME NEW j \in Jobs, NEW k \in Kinds, CreateJob(j, k)
      PROVE  /\ UNCHANGED <<streamJob, streamPc, written, produced>>
             /\ \A q \in Jobs : producer'[q] = "none" => producer[q] = "none"
    BY <1>1, <1>4 DEF CreateJob, streamVars, TypeOK
<1>5. ASSUME NEW j \in Jobs, Producer(j) \/ LegacyForwards(j)
      PROVE  /\ UNCHANGED <<streamJob, written>>
             /\ \A s \in Streams : streamPc'[s] = "unused" <=> streamPc[s] = "unused"
             /\ \A q \in Jobs : /\ Events(produced[q]) \subseteq Events(produced'[q])
                                /\ producer'[q] = "none" => producer[q] = "none"
    <2>1. PICK types \in Seq(EventTypes) : Push(j, types)
        BY <1>5, ProducerPushes
    <2>2. /\ produced' = [produced EXCEPT ![j] = produced[j] \o types]
          /\ UNCHANGED <<streamJob, written>>
        BY <2>1 DEF Push
    <2>3. \A q \in Jobs : Events(produced[q]) \subseteq Events(produced'[q])
        <3>1. produced[j] \in Seq(EventTypes) /\ produced'[j] = produced[j] \o types
                /\ \A q \in Jobs : q # j => produced'[q] = produced[q]
            BY <1>1, <2>2 DEF TypeOK
        <3>2. Events(produced[j]) \subseteq Events(produced'[j])
            BY <3>1, EventsOfGlued
        <3> QED
            BY <3>1, <3>2
    <2>4. \A s \in Streams : streamPc'[s] = "unused" <=> streamPc[s] = "unused"
        <3>1. \A i \in DOMAIN waiters[j] : streamPc[waiters[j][i]] = "waiting"
            BY WaitersAre
        <3>2. \A s \in Streams :
                 streamPc'[s] = streamPc[s]
                   \/ (streamPc'[s] = "resumed" /\ \E i \in DOMAIN waiters[j] : waiters[j][i] = s)
            <4>1. CASE j \notin live
                BY <2>1, <4>1 DEF Push
            <4>2. CASE j \in live
                <5>1. PICK k \in 0..Len(waiters[j]) :
                         /\ k <= Len(types) /\ (k = Len(waiters[j]) \/ k = Len(types))
                         /\ queue' = [queue EXCEPT ![j] = @ \o SubSeq(Numbered(j, types), k + 1, Len(types))]
                         /\ \A i \in 1..k : /\ streamPc'[waiters[j][i]] = "resumed"
                                            /\ inbox'[waiters[j][i]] = Numbered(j, types)[i]
                                            /\ inbox'[waiters[j][i]].n = Len(produced[j]) + i
                         /\ \A s \in Streams : (\A i \in 1..k : waiters[j][i] # s) =>
                                                  inbox'[s] = inbox[s] /\ streamPc'[s] = streamPc[s]
                    BY <2>1, <4>2, PushServes
                <5>2. \A i \in 1..k : i \in DOMAIN waiters[j]
                    BY <5>1, WaitersAre
                <5> QED
                    BY <5>1, <5>2
            <4> QED
                BY <4>1, <4>2
        <3> QED
            BY <3>1, <3>2
    <2>5. \A q \in Jobs : producer'[q] = "none" => producer[q] = "none"
        <3>1. kind[j] \in Kinds
            BY <1>1 DEF TypeOK
        <3> QED
            BY <1>1, <1>5, <3>1 DEF Producer, ProducerStarts, NlpAnswers, LlmAnswers, ServiceAnswers,
               LegacyEnds, RequestFails, LegacyForwards, ProducerAt, Kinds, TypeOK
    <2> QED
        BY <2>2, <2>3, <2>4, <2>5
<1>6. ASSUME NEW j \in Jobs, Expire(j)
      PROVE  /\ UNCHANGED <<streamJob, written, produced, producer>>
             /\ \A s \in Streams : streamPc'[s] = "unused" <=> streamPc[s] = "unused"
    <2>1. \A i \in DOMAIN waiters[j] : streamPc[waiters[j][i]] = "waiting"
        BY WaitersAre
    <2> QED
        BY <1>6, <2>1 DEF Expire, Cleanup, producerVars
<1>7. ASSUME NEW s \in Streams, StreamNext(s)
      PROVE  /\ UNCHANGED <<streamJob, written, produced, producer>>
             /\ \A t \in Streams : streamPc'[t] = "unused" <=> streamPc[t] = "unused"
    BY <1>1, <1>7 DEF StreamNext, producerVars, TypeOK
<1>8. ASSUME NEW s \in Streams, StreamWrite(s)
      PROVE  /\ UNCHANGED <<streamJob, produced, producer>>
             /\ \A t \in Streams :
                  /\ streamPc'[t] = "unused" <=> streamPc[t] = "unused"
                  /\ Len(written[t]) <= Len(written'[t])
                  /\ \A i \in 1..Len(written[t]) : written'[t][i] = written[t][i]
    <2>1. /\ streamPc[s] = "resumed" /\ written' = [written EXCEPT ![s] = Append(written[s], inbox[s])]
          /\ UNCHANGED <<streamJob, produced, producer>>
        BY <1>8 DEF StreamWrite, producerVars
    <2>2. PICK j \in Jobs : j = streamJob[s]
        BY <2>1 DEF JobInv, Opened
    <2>3. \A i \in DOMAIN waiters[j] : streamPc[waiters[j][i]] = "waiting"
        BY WaitersAre
    <2>4. \A t \in Streams : streamPc'[t] = "unused" <=> streamPc[t] = "unused"
        <3>1. CASE inbox[s].type \in Terminal
            <4>1. PICK pc : pc = [streamPc EXCEPT ![s] = "ended"]
                OBVIOUS
            <4>2. Cleanup(j, pc)
                BY <1>8, <2>2, <3>1, <4>1 DEF StreamWrite, Cleanup
            <4>3. pc[s] = "ended" /\ \A t \in Streams : t # s => pc[t] = streamPc[t]
                BY <1>1, <4>1 DEF TypeOK
            <4> QED
                BY <2>1, <2>3, <4>2, <4>3 DEF Cleanup
        <3>2. CASE inbox[s].type \notin Terminal
            <4>1. streamPc' = [streamPc EXCEPT ![s] = "next"]
                BY <1>8, <3>2 DEF StreamWrite
            <4>2. streamPc'[s] = "next" /\ \A t \in Streams : t # s => streamPc'[t] = streamPc[t]
                BY <1>1, <4>1 DEF TypeOK
            <4> QED
                BY <2>1, <4>2
        <3> QED
            BY <3>1, <3>2
    <2>5. PICK w \in Seq(Event \union {NotFound}) : w = written[s]
        BY <1>1 DEF TypeOK
    <2>6. /\ written'[s] = Append(w, inbox[s])
          /\ \A t \in Streams : t # s => written'[t] = written[t]
        BY <1>1, <2>1, <2>5 DEF TypeOK
    <2>7. /\ Len(w) \in Nat /\ Len(Append(w, inbox[s])) = Len(w) + 1
          /\ \A i \in 1..Len(w) : Append(w, inbox[s])[i] = w[i]
        OBVIOUS
    <2>8. ASSUME NEW t \in Streams
          PROVE  /\ Len(written[t]) <= Len(written'[t])
                 /\ \A i \in 1..Len(written[t]) : written'[t][i] = written[t][i]
        <3>1. CASE t = s
            BY <2>5, <2>6, <2>7, <3>1
        <3>2. CASE t # s
            BY <1>2, <2>6, <3>2
        <3> QED
            BY <3>1, <3>2
    <2> QED
        BY <2>1, <2>4, <2>8
<1>9. CASE \E j \in Jobs : \E k \in Kinds : CreateJob(j, k)
    BY <1>3, <1>4, <1>9 DEF OldKept
<1>10. CASE \E j \in Jobs : Producer(j) \/ LegacyForwards(j)
    BY <1>2, <1>5, <1>10 DEF OldKept
<1>11. CASE \E j \in Jobs : Expire(j)
    BY <1>2, <1>6, <1>11 DEF OldKept
<1>12. CASE \E s \in Streams : StreamNext(s)
    BY <1>2, <1>7, <1>12 DEF OldKept
<1>13. CASE \E s \in Streams : StreamWrite(s)
    BY <1>8, <1>13 DEF OldKept
<1> QED
    BY <1>9, <1>10, <1>11, <1>12, <1>13 DEF ClosedStep, Stream

(* Every step of the gateway keeps its part.                               *)
LEMMA GatewayKeeps == GatewayInv /\ [Next]_vars => GatewayInv'
<1>0. ASSUME GatewayInv, [Next]_vars PROVE StreamsHaveJobs'
    <2>1. DeliveryInv /\ JobInv /\ JobInv' /\ TypeOK
        BY <1>0, JobStep DEF GatewayInv, DeliveryInv, JobInv
    <2>2. CASE UNCHANGED vars
        BY <1>0, <2>2 DEF GatewayInv, StreamsHaveJobs, vars, producerVars, streamVars
    <2>3. ASSUME NEW s \in Streams, NEW j \in Jobs, StreamOpen(s, j) PROVE StreamsHaveJobs'
        <3>1. /\ streamPc' = [streamPc EXCEPT ![s] = "next"] /\ producer[j] # "none"
              /\ streamJob' = [streamJob EXCEPT ![s] = j] /\ producer' = producer
            BY <2>3 DEF StreamOpen, producerVars
        <3>2. streamJob'[s] = j /\ \A t \in Streams : t # s => streamPc'[t] = streamPc[t] /\ streamJob'[t] = streamJob[t]
            BY <2>1, <3>1 DEF TypeOK
        <3> QED
            BY <1>0, <3>1, <3>2 DEF GatewayInv, StreamsHaveJobs
    <2>4. CASE ClosedStep
        <3>1. /\ UNCHANGED streamJob
              /\ \A s \in Streams : streamPc'[s] = "unused" <=> streamPc[s] = "unused"
              /\ \A j \in Jobs : producer'[j] = "none" => producer[j] = "none"
            BY <2>1, <2>4, GatewayMoves DEF OldKept
        <3>2. \A s \in Streams : streamPc[s] # "unused" => streamJob[s] \in Jobs
            BY <2>1 DEF JobInv, Opened
        <3> QED
            BY <1>0, <3>1, <3>2 DEF GatewayInv, StreamsHaveJobs
    <2> QED
        BY <1>0, <2>2, <2>3, <2>4 DEF Next, ClosedStep
<1> SUFFICES ASSUME GatewayInv, [Next]_vars PROVE TypesAreOfTheJob'
    BY <1>0, DeliveryStep, EndsStep DEF GatewayInv
<1>1. DeliveryInv /\ TypesAreOfTheJob /\ TypeOK
    BY DEF GatewayInv, DeliveryInv, JobInv
<1>2. CASE UNCHANGED <<queue, produced, streamPc, streamJob, inbox, written>>
    BY <1>1, <1>2 DEF TypesAreOfTheJob
<1>3. CASE UNCHANGED vars
    BY <1>2, <1>3 DEF vars, jobVars, producerVars, streamVars
<1>4. ASSUME NEW j \in Jobs, NEW k \in Kinds, CreateJob(j, k) PROVE TypesAreOfTheJob'
    BY <1>2, <1>4 DEF CreateJob, streamVars
<1>5. ASSUME NEW j \in Jobs, Producer(j) \/ LegacyForwards(j) PROVE TypesAreOfTheJob'
    BY <1>1, <1>5, ProducerPushes, PushKeepsTypes
<1>6. ASSUME NEW j \in Jobs, Expire(j) PROVE TypesAreOfTheJob'
    <2>1. /\ UNCHANGED <<produced, streamJob, written>>
          /\ queue' = [queue EXCEPT ![j] = <<>>]
          /\ \A t \in Streams : streamPc'[t] = "resumed" =>
                \/ inbox'[t].type = "not_found"
                \/ streamPc[t] = "resumed" /\ inbox'[t] = inbox[t]
        BY <1>6 DEF Expire, Cleanup, producerVars, NotFound
    <2>2. \A r \in Jobs : queue'[r] = queue[r] \/ queue'[r] = <<>>
        BY <1>1, <2>1 DEF TypeOK
    <2>3. ASSUME NEW r \in Jobs, NEW i \in 1..Len(queue'[r])
          PROVE  queue'[r][i].type \in Events(produced'[r])
        BY <1>1, <2>1, <2>2, <2>3 DEF TypesAreOfTheJob
    <2> QED
        BY <1>1, <2>1, <2>3 DEF TypesAreOfTheJob
<1>7. ASSUME NEW s \in Streams, NEW j \in Jobs, StreamOpen(s, j) PROVE TypesAreOfTheJob'
    <2>1. /\ streamPc[s] = "unused" /\ streamPc'[s] = "next"
          /\ \A t \in Streams : t # s => streamPc'[t] = streamPc[t] /\ streamJob'[t] = streamJob[t]
          /\ UNCHANGED <<queue, produced, inbox, written>>
        BY <1>1, <1>7 DEF StreamOpen, jobVars, producerVars, TypeOK
    <2>2. written[s] = <<>>
        BY <1>1, <2>1 DEF DeliveryInv, InboxIsNewer
    <2> QED
        BY <1>1, <2>1, <2>2 DEF TypesAreOfTheJob
<1>8. ASSUME NEW s \in Streams, Stream(s) PROVE TypesAreOfTheJob'
    BY <1>1, <1>8, StreamKeepsTypes
<1> QED
    BY <1>3, <1>4, <1>5, <1>6, <1>7, <1>8 DEF Next

-----------------------------------------------------------------------------
(* The composition is the gateway and a client of it.                      *)

LEMMA GatewayOrClient ==
    ClientNext => [Next]_vars
<1> SUFFICES ASSUME ClientNext PROVE Next \/ UNCHANGED vars
    OBVIOUS
<1>1. ASSUME NEW j \in Jobs,
             StartParse(j) \/ PostReturns(j) \/ PostFails(j) \/ Receive(j) \/ LoseConnection(j)
      PROVE  UNCHANGED vars
    BY <1>1 DEF StartParse, PostReturns, PostFails, Receive, LoseConnection, gatewayVars, vars
<1>2. ASSUME NEW j \in Jobs, PostArrives(j) PROVE Next
    BY <1>2 DEF PostArrives, Next
<1>3. ASSUME NEW j \in Jobs, Connect(j) PROVE Next
    BY <1>3 DEF Connect, Next
<1>4. ASSUME NEW j \in Jobs, TtlPasses(j) PROVE Next
    BY <1>4 DEF TtlPasses, Next
<1>5. CASE GatewayStep
    BY <1>5 DEF GatewayStep, Next
<1> QED
    BY <1>1, <1>2, <1>3, <1>4, <1>5 DEF ClientNext

(* Whatever the browser does, the gateway behaves as its own specification *)
(* says; what is proved of GatewayJobs holds of the composition.           *)
THEOREM ClientSpecImplementsGateway == ClientSpec => Spec
<1>1. ClientInit => Init
    BY DEF ClientInit
<1>2. [ClientNext]_allVars => [Next]_vars
    <2>1. UNCHANGED allVars => UNCHANGED vars
        BY DEF allVars, gatewayVars, vars
    <2> QED
        BY <2>1, GatewayOrClient
<1> QED
    BY <1>1, <1>2, PTL DEF ClientSpec, Spec

LEMMA ClientStarts == ClientInit => ClientInv
<1> SUFFICES ASSUME ClientInit PROVE ClientInv
    OBVIOUS
<1>1. Init /\ DeliveryInv
    BY DeliveryInit DEF ClientInit
<1>2. TypesAreOfTheJob /\ EndsWithTerminal /\ StreamsHaveJobs
    BY <1>1 DEF Init, TypesAreOfTheJob, EndsWithTerminal, StreamsHaveJobs
<1>3. ClientTypeOK /\ OneAtATime /\ NotFoundOnlyAfterLoss /\ ShowsOwnOutcome
    BY NoneAssumption DEF ClientInit, ClientTypeOK, OneAtATime, NotFoundOnlyAfterLoss, ShowsOwnOutcome,
       SourceStates, Working
<1>4. SettledIsClosed
    BY DEF ClientInit, SettledIsClosed, Active, Working
<1>5. ReadsItsJob /\ OneStream
    BY <1>1, NoneAssumption DEF ClientInit, Init, ReadsItsJob, OneStream
<1>6. KeptForItsStream
    BY <1>1, NoneAssumption DEF Init, KeptForItsStream
<1> QED
    BY <1>1, <1>2, <1>3, <1>4, <1>5, <1>6 DEF ClientInv, GatewayInv

(* While a run has an EventSource that is not closed, the hook is at that. *)
LEMMA AtItsSource ==
    ASSUME ClientInv, NEW j \in Jobs, source[j].state \in {"connecting", "open"}
    PROVE  /\ cleanupRef = j /\ Active = {j} /\ posting = None
           /\ hook.status = "streaming" /\ hook.run = j /\ hook.shows = "nothing"
<1>1. ClientTypeOK /\ SettledIsClosed /\ OneAtATime /\ j # None
    BY NoneAssumption DEF ClientInv
<1>2. j \in Active
    BY DEF Active
<1>3. cleanupRef = j /\ Active = {j} /\ Working
    BY <1>1, <1>2 DEF SettledIsClosed
<1>4. posting = None
    BY <1>1, <1>3 DEF OneAtATime
<1>5. hook.status = "streaming"
    BY <1>1, <1>3, <1>4 DEF OneAtATime, Working
<1> QED
    BY <1>1, <1>3, <1>4, <1>5 DEF OneAtATime, SettledIsClosed

(* While a POST is under way its job has no EventSource and no stream that *)
(* could be its own.                                                       *)
LEMMA AtItsPost ==
    ASSUME ClientInv, NEW j \in Jobs, posting = j
    PROVE  /\ cleanupRef = None /\ Active = {} /\ source[j].state = "none" /\ source[j].read = 0
           /\ hook.status = "pending" /\ hook.run = j /\ hook.shows = "nothing"
           /\ broken[j] = 0 => \A s \in Streams : streamJob[s] # j
<1>1. ClientTypeOK /\ SettledIsClosed /\ OneAtATime /\ ReadsItsJob /\ OneStream /\ j # None
    BY NoneAssumption DEF ClientInv
<1>2. /\ cleanupRef = None /\ source[j].state = "none" /\ hook.run = j
      /\ hook.status = "pending" /\ hook.shows = "nothing"
    BY <1>1 DEF OneAtATime, Working
<1>3. Active = {} /\ source[j].read = 0
    BY <1>1, <1>2 DEF SettledIsClosed, ReadsItsJob
<1>4. broken[j] = 0 => \A s \in Streams : streamJob[s] # j
    BY <1>1, <1>2 DEF OneStream
<1> QED
    BY <1>2, <1>3, <1>4

(* A step of the browser alone leaves the gateway's part as it is.         *)
LEMMA BrowserKeepsGateway ==
    ClientInv /\ UNCHANGED gatewayVars => GatewayInv'
<1>1. UNCHANGED gatewayVars => UNCHANGED vars
    BY DEF gatewayVars, vars
<1> QED
    BY <1>1, GatewayKeeps DEF ClientInv

LEMMA StartKeeps ==
    ASSUME ClientInv, NEW j \in Jobs, StartParse(j) PROVE ClientInv'
<1>1. ClientTypeOK /\ SettledIsClosed /\ ReadsItsJob /\ OneStream /\ KeptForItsStream
    BY DEF ClientInv
<1>2. /\ ~ Working /\ cleanupRef' = None /\ posting' = j /\ source' = CurrentClosed
      /\ hook' = [status |-> "pending", shows |-> "nothing", run |-> j]
      /\ UNCHANGED <<gatewayVars, broken, expired>>
    BY DEF StartParse, ButtonEnabled
<1>3. j \in Unused
    <2>1. Unused # {} /\ j = CHOOSE k \in Unused : TRUE
        BY DEF StartParse
    <2> QED
        BY <2>1
<1>4. cleanupRef = None /\ Active = {}
    BY <1>1, <1>2 DEF SettledIsClosed
<1>5. source' = source /\ source[j].state = "none" /\ j # None
    <2>1. \A k \in Jobs : k # cleanupRef
        BY <1>4, NoneAssumption
    <2>2. CurrentClosed = [k \in Jobs |-> source[k]]
        BY <2>1 DEF CurrentClosed
    <2> QED
        BY <1>1, <1>2, <1>3, <2>2, NoneAssumption DEF ClientTypeOK, Unused
<1>6. ClientTypeOK'
    BY <1>1, <1>2, <1>5 DEF ClientTypeOK
<1>7. SettledIsClosed'
    BY <1>2, <1>4, <1>5 DEF SettledIsClosed, Active, Working
<1>8. OneAtATime'
    BY <1>2, <1>5 DEF OneAtATime, Working
<1>9. ReadsItsJob' /\ OneStream' /\ KeptForItsStream'
    BY <1>1, <1>2, <1>5 DEF ReadsItsJob, OneStream, KeptForItsStream, gatewayVars, jobVars, producerVars, streamVars
<1>10. ShowsOwnOutcome' /\ NotFoundOnlyAfterLoss'
    BY <1>2 DEF ShowsOwnOutcome, NotFoundOnlyAfterLoss
<1> QED
    BY <1>2, <1>6, <1>7, <1>8, <1>9, <1>10, BrowserKeepsGateway DEF ClientInv

LEMMA PostReturnsKeeps ==
    ASSUME ClientInv, NEW j \in Jobs, PostReturns(j) PROVE ClientInv'
<1>1. ClientTypeOK /\ SettledIsClosed /\ ReadsItsJob /\ OneStream /\ KeptForItsStream /\ j # None
    BY NoneAssumption DEF ClientInv
<1>2. /\ posting = j /\ posting' = None /\ cleanupRef' = j
      /\ hook' = [hook EXCEPT !.status = "streaming"]
      /\ source' = [source EXCEPT ![j].state = "connecting"]
      /\ UNCHANGED <<gatewayVars, broken, expired>>
    BY DEF PostReturns
<1>3. /\ cleanupRef = None /\ Active = {} /\ source[j].state = "none" /\ source[j].read = 0
      /\ hook.status = "pending" /\ hook.run = j /\ hook.shows = "nothing"
      /\ broken[j] = 0 => \A s \in Streams : streamJob[s] # j
    BY <1>2, AtItsPost
<1>4. hook'.status = "streaming" /\ hook'.run = j /\ hook'.shows = "nothing"
    BY <1>1, <1>2, <1>3 DEF ClientTypeOK
<1>5. /\ source'[j].state = "connecting" /\ \A k \in Jobs : k # j => source'[k] = source[k]
    BY <1>1, <1>2 DEF ClientTypeOK
<1>6. ClientTypeOK'
    BY <1>1, <1>2 DEF ClientTypeOK, SourceStates
<1>7. SettledIsClosed'
    <2>1. Active' = {j}
        BY <1>3, <1>5 DEF Active
    <2> QED
        BY <1>1, <1>2, <1>4, <2>1 DEF SettledIsClosed, Working
<1>8. OneAtATime'
    BY <1>1, <1>2, <1>4 DEF OneAtATime, Working
<1>9. ReadsItsJob' /\ OneStream' /\ KeptForItsStream'
    BY <1>1, <1>2, <1>3, <1>5 DEF ReadsItsJob, OneStream, KeptForItsStream, gatewayVars, jobVars, producerVars, streamVars
<1>10. ShowsOwnOutcome' /\ NotFoundOnlyAfterLoss'
    BY <1>4 DEF ShowsOwnOutcome, NotFoundOnlyAfterLoss
<1> QED
    BY <1>2, <1>6, <1>7, <1>8, <1>9, <1>10, BrowserKeepsGateway DEF ClientInv

LEMMA PostFailsKeeps ==
    ASSUME ClientInv, NEW j \in Jobs, PostFails(j) PROVE ClientInv'
<1>1. ClientTypeOK /\ SettledIsClosed /\ ReadsItsJob /\ OneStream /\ KeptForItsStream /\ j # None
    BY NoneAssumption DEF ClientInv
<1>2. /\ posting = j /\ posting' = None /\ cleanupRef' = cleanupRef
      /\ hook' = [hook EXCEPT !.status = "error", !.shows = "error"]
      /\ source' = [source EXCEPT ![j].state = "closed"]
      /\ UNCHANGED <<gatewayVars, broken, expired>>
    BY DEF PostFails
<1>3. /\ cleanupRef = None /\ Active = {} /\ source[j].state = "none" /\ source[j].read = 0
      /\ hook.status = "pending" /\ hook.run = j /\ hook.shows = "nothing"
      /\ broken[j] = 0 => \A s \in Streams : streamJob[s] # j
    BY <1>2, AtItsPost
<1>4. hook'.status = "error" /\ hook'.run = j /\ hook'.shows = "error"
    BY <1>1, <1>2, <1>3 DEF ClientTypeOK
<1>5. /\ source'[j].state = "closed" /\ source'[j].read = 0
      /\ \A k \in Jobs : k # j => source'[k] = source[k]
    BY <1>1, <1>2, <1>3 DEF ClientTypeOK
<1>6. ClientTypeOK'
    BY <1>1, <1>2 DEF ClientTypeOK, SourceStates
<1>7. SettledIsClosed'
    <2>1. Active' = {}
        BY <1>3, <1>5 DEF Active
    <2> QED
        BY <1>1, <1>2, <1>3, <1>4, <2>1 DEF SettledIsClosed, Working
<1>8. OneAtATime'
    BY <1>1, <1>2, <1>4 DEF OneAtATime, Working
<1>9. ReadsItsJob' /\ OneStream' /\ KeptForItsStream'
    BY <1>1, <1>2, <1>3, <1>5 DEF ReadsItsJob, OneStream, KeptForItsStream, gatewayVars, jobVars, producerVars, streamVars
<1>10. ShowsOwnOutcome' /\ NotFoundOnlyAfterLoss'
    BY <1>4, <1>5 DEF ShowsOwnOutcome, NotFoundOnlyAfterLoss
<1> QED
    BY <1>2, <1>6, <1>7, <1>8, <1>9, <1>10, BrowserKeepsGateway DEF ClientInv

(* A terminal event closes the EventSource: none is left open behind it.   *)
LEMMA TerminalCloses == \A type \in Terminal : Closes(type)
    BY DEF Terminal, Closes

LEMMA LoseKeeps ==
    ASSUME ClientInv, NEW j \in Jobs, LoseConnection(j) PROVE ClientInv'
<1>1. /\ ClientTypeOK /\ SettledIsClosed /\ ReadsItsJob /\ OneStream /\ KeptForItsStream
      /\ OneAtATime /\ EndsWithTerminal /\ TypeOK /\ j # None
    BY NoneAssumption DEF ClientInv, GatewayInv, DeliveryInv, JobInv
<1> DEFINE s == source[j].stream
<1>2. /\ source[j].state = "open"
      /\ source' = [source EXCEPT ![j].state = "connecting"]
      /\ UNCHANGED <<gatewayVars, hook, posting, cleanupRef, expired>>
    BY DEF LoseConnection
<1>3. /\ cleanupRef = j /\ Active = {j} /\ posting = None
      /\ hook.status = "streaming" /\ hook.run = j /\ hook.shows = "nothing"
    BY <1>2, AtItsSource
<1>4. broken' = [broken EXCEPT ![j] = broken[j] + 1]
    <2>1. ASSUME streamPc[s] = "ended", ~ Unread(j) PROVE FALSE
        <3>1. /\ s \in Streams /\ source[j].read <= Len(written[s])
              /\ \A i \in 1..source[j].read : ~ Closes(written[s][i].type)
            BY <1>1, <1>2 DEF ReadsItsJob
        <3>2. Len(written[s]) > 0 /\ written[s][Len(written[s])].type \in Terminal
            BY <1>1, <2>1, <3>1 DEF EndsWithTerminal
        <3>3. Len(written[s]) \in Nat /\ source[j].read \in Nat
            BY <1>1, <3>1 DEF TypeOK, ClientTypeOK
        <3>4. source[j].read = Len(written[s])
            BY <2>1, <3>1, <3>3 DEF Unread
        <3>5. Len(written[s]) \in 1..source[j].read
            BY <3>2, <3>3, <3>4
        <3> QED
            BY <3>1, <3>2, <3>5, TerminalCloses
    <2> QED
        BY <2>1 DEF LoseConnection
<1>5. /\ broken'[j] # 0 /\ broken' \in [Jobs -> Nat]
      /\ \A k \in Jobs : k # j => broken'[k] = broken[k]
    BY <1>1, <1>4 DEF ClientTypeOK
<1>6. /\ source'[j].state = "connecting" /\ \A k \in Jobs : k # j => source'[k] = source[k]
    BY <1>1, <1>2 DEF ClientTypeOK
<1>7. ClientTypeOK'
    <2>1. source' \in [Jobs -> [state : SourceStates, stream : Streams \union {None}, read : Nat]]
        BY <1>1, <1>2 DEF ClientTypeOK, SourceStates
    <2> QED
        BY <1>1, <1>2, <1>5, <2>1 DEF ClientTypeOK
<1>8. SettledIsClosed'
    <2>1. Active' = {j}
        BY <1>3, <1>6 DEF Active
    <2> QED
        BY <1>1, <1>2, <1>3, <2>1 DEF SettledIsClosed, Working
<1>9. OneAtATime'
    BY <1>1, <1>2, <1>3 DEF OneAtATime, Working
<1>10. ReadsItsJob' /\ OneStream' /\ KeptForItsStream'
    BY <1>1, <1>2, <1>5, <1>6 DEF ReadsItsJob, OneStream, KeptForItsStream, gatewayVars, jobVars, producerVars, streamVars
<1>11. ShowsOwnOutcome' /\ NotFoundOnlyAfterLoss'
    BY <1>2, <1>3 DEF ShowsOwnOutcome, NotFoundOnlyAfterLoss
<1> QED
    BY <1>2, <1>7, <1>8, <1>9, <1>10, <1>11, BrowserKeepsGateway DEF ClientInv

LEMMA ReceiveKeeps ==
    ASSUME ClientInv, NEW j \in Jobs, Receive(j) PROVE ClientInv'
<1>1. /\ ClientTypeOK /\ SettledIsClosed /\ ReadsItsJob /\ OneStream /\ KeptForItsStream
      /\ OneAtATime /\ TypesAreOfTheJob /\ TypeOK /\ j # None
    BY NoneAssumption DEF ClientInv, GatewayInv, DeliveryInv, JobInv
<1>2. /\ source[j].state = "open" /\ Unread(j)
      /\ UNCHANGED <<gatewayVars, posting, broken, expired>>
    BY DEF Receive
<1>3. /\ cleanupRef = j /\ Active = {j} /\ posting = None
      /\ hook.status = "streaming" /\ hook.run = j /\ hook.shows = "nothing"
    BY <1>2, AtItsSource
<1>4. PICK s \in Streams : s = source[j].stream
    BY <1>1, <1>2 DEF ReadsItsJob
<1>5. PICK i \in Nat : i = source[j].read + 1
    BY <1>1 DEF ClientTypeOK
<1>6. PICK type : type = written[s][i].type
    OBVIOUS
<1>7. /\ streamPc[s] # "unused" /\ streamJob[s] = j /\ Len(written[s]) \in Nat
      /\ i \in 1..Len(written[s]) /\ source[j].read \in Nat
      /\ \A m \in 1..source[j].read : ~ Closes(written[s][m].type)
    <2>0. LET t == source[j].stream
          IN  /\ t \in Streams /\ streamPc[t] # "unused" /\ streamJob[t] = j
              /\ source[j].read <= Len(written[t])
              /\ \A m \in 1..source[j].read : ~ Closes(written[t][m].type)
        BY <1>1, <1>2 DEF ReadsItsJob
    <2>1. /\ streamPc[s] # "unused" /\ streamJob[s] = j /\ source[j].read <= Len(written[s])
          /\ \A m \in 1..source[j].read : ~ Closes(written[s][m].type)
        <3>1. /\ streamPc[s] # "unused" /\ streamJob[s] = j /\ source[j].read <= Len(written[s])
            BY <1>4, <2>0
        <3>2. ASSUME NEW m \in 1..source[j].read PROVE ~ Closes(written[s][m].type)
            BY <1>4, <2>0
        <3> QED
            BY <3>1, <3>2
    <2>2. source[j].read \in Nat /\ Len(written[s]) \in Nat
        <3>1. written[s] \in Seq(Event \union {NotFound})
            BY <1>1 DEF TypeOK
        <3>2. source[j].read \in Nat
            BY <1>1 DEF ClientTypeOK
        <3> QED
            BY <3>1, <3>2
    <2>3. source[j].read < Len(written[s])
        BY <1>2, <1>4 DEF Unread
    <2> QED
        BY <1>5, <2>1, <2>2, <2>3
<1>8. type \in Events(produced[j]) \union {"not_found"}
    BY <1>1, <1>6, <1>7 DEF TypesAreOfTheJob
<1>9. /\ hook' = HookAfter(type)
      /\ IF Closes(type)
         THEN source' = [CurrentClosed EXCEPT ![j].read = @ + 1] /\ cleanupRef' = None
         ELSE source' = [source EXCEPT ![j].read = @ + 1] /\ UNCHANGED cleanupRef
    BY <1>4, <1>5, <1>6 DEF Receive
<1>10. ReadsItsJob' /\ OneStream' /\ KeptForItsStream' /\ ClientTypeOK' /\ SettledIsClosed'
         /\ OneAtATime' /\ ShowsOwnOutcome' /\ NotFoundOnlyAfterLoss'
    <2>1. CASE Closes(type)
        <3>1. /\ source'[j].state = "closed" /\ source'[j].stream = source[j].stream /\ source'[j].read = i
              /\ source'[j] \in [state : SourceStates, stream : Streams \union {None}, read : Nat]
              /\ \A k \in Jobs : k # j => source'[k] = source[k]
              /\ DOMAIN source' = Jobs /\ source' = [k \in Jobs |-> source'[k]]
            <4>1. PICK c : c = CurrentClosed
                OBVIOUS
            <4>2. /\ DOMAIN c = Jobs /\ c = [k \in Jobs |-> c[k]]
                  /\ c[j] = [source[j] EXCEPT !.state = "closed"]
                  /\ \A k \in Jobs : k # j => c[k] = source[k]
                BY <1>3, <4>1 DEF CurrentClosed
            <4>3. source' = [c EXCEPT ![j].read = c[j].read + 1]
                BY <1>9, <2>1, <4>1
            <4>4. source'[j] = [c[j] EXCEPT !.read = c[j].read + 1] /\ DOMAIN source' = Jobs
                    /\ source' = [k \in Jobs |-> source'[k]]
                    /\ \A k \in Jobs : k # j => source'[k] = c[k]
                BY <4>2, <4>3
            <4>5. source[j] \in [state : SourceStates, stream : Streams \union {None}, read : Nat]
                BY <1>1 DEF ClientTypeOK
            <4>6. c[j].read + 1 = i
                BY <1>5, <4>2, <4>5
            <4>7. /\ c[j] \in [state : SourceStates, stream : Streams \union {None}, read : Nat]
                  /\ c[j].state = "closed" /\ c[j].stream = source[j].stream
                BY <4>2, <4>5 DEF SourceStates
            <4>8. /\ source'[j].state = "closed" /\ source'[j].stream = source[j].stream /\ source'[j].read = i
                  /\ source'[j] \in [state : SourceStates, stream : Streams \union {None}, read : Nat]
                BY <4>4, <4>6, <4>7
            <4> QED
                BY <4>2, <4>4, <4>8
        <3>2. /\ source'[j].state = "closed" /\ source'[j].stream = s /\ source'[j].read = i
              /\ source'[j] \in [state : SourceStates, stream : Streams \union {None}, read : Nat]
            BY <1>1, <1>4, <1>5, <3>1 DEF ClientTypeOK, SourceStates
        <3>3. source' \in [Jobs -> [state : SourceStates, stream : Streams \union {None}, read : Nat]]
            BY <1>1, <3>1, <3>2 DEF ClientTypeOK
        <3>4. /\ hook'.status \in {"done", "error"} /\ hook'.run = j
              /\ hook' \in [status : {"done", "error"}, shows : {"nothing", "result", "error", "not_found"},
                            run : Jobs]
              /\ hook'.shows = "result" => type = "result"
              /\ hook'.shows = "error" => type = "error"
              /\ hook'.shows = "not_found" => type = "not_found"
            BY <1>1, <1>3, <1>9, <2>1 DEF Closes, HookAfter, ClientTypeOK
        <3>5. ClientTypeOK'
            BY <1>1, <1>2, <1>9, <2>1, <3>3, <3>4 DEF ClientTypeOK
        <3>6. SettledIsClosed'
            <4>1. Active' = {}
                BY <1>3, <3>1, <3>2 DEF Active
            <4>2. cleanupRef' = None /\ hook'.status # "streaming"
                BY <1>9, <2>1, <3>4
            <4> QED
                BY <4>1, <4>2 DEF SettledIsClosed
        <3>7. OneAtATime'
            BY <1>2, <1>3, <3>4 DEF OneAtATime, Working
        <3>8. ReadsItsJob' /\ OneStream' /\ KeptForItsStream'
            BY <1>1, <1>2, <1>4, <3>1, <3>2 DEF ReadsItsJob, OneStream, KeptForItsStream, gatewayVars, jobVars,
               producerVars, streamVars
        <3>9. ShowsOwnOutcome'
            <4>1. hook'.shows \in {"result", "error"} => type \in Events(produced[j])
                BY <1>8, <3>4
            <4>2. produced' = produced
                BY <1>2 DEF gatewayVars, producerVars
            <4> QED
                BY <3>4, <4>1, <4>2 DEF ShowsOwnOutcome
        <3>10. NotFoundOnlyAfterLoss'
            <4>1. type = "not_found" => broken[j] # 0 \/ j \in expired
                BY <1>1, <1>6, <1>7 DEF KeptForItsStream
            <4>2. broken[j] # 0 => broken[j] > 0
                BY <1>1 DEF ClientTypeOK
            <4> QED
                BY <1>2, <3>4, <4>1, <4>2 DEF NotFoundOnlyAfterLoss
        <3> QED
            BY <3>5, <3>6, <3>7, <3>8, <3>9, <3>10
    <2>2. CASE ~ Closes(type)
        <3>1. /\ cleanupRef' = cleanupRef /\ source' = [source EXCEPT ![j].read = i]
              /\ hook' = hook
            BY <1>5, <1>9, <2>2 DEF HookAfter, Closes
        <3>2. /\ source'[j].state = "open" /\ source'[j].stream = s /\ source'[j].read = i
              /\ \A k \in Jobs : k # j => source'[k] = source[k]
            BY <1>1, <1>2, <1>4, <3>1 DEF ClientTypeOK
        <3>3. ClientTypeOK'
            BY <1>1, <1>2, <3>1 DEF ClientTypeOK
        <3>4. SettledIsClosed'
            <4>1. Active' = {j}
                BY <1>3, <3>2 DEF Active
            <4> QED
                BY <1>1, <1>3, <3>1, <4>1 DEF SettledIsClosed, Working
        <3>5. OneAtATime'
            BY <1>1, <1>2, <1>3, <3>1 DEF OneAtATime, Working
        <3>6. ReadsItsJob'
            <4>1. \A m \in 1..i : ~ Closes(written[s][m].type)
                <5>1. \A m \in 1..i : m = i \/ m \in 1..source[j].read
                    BY <1>5, <1>7
                <5> QED
                    BY <1>6, <1>7, <2>2, <5>1
            <4>2. i <= Len(written[s])
                BY <1>7
            <4>3. ASSUME NEW k \in Jobs, k # j
                  PROVE  /\ source'[k].state = "none" => source'[k].read = 0
                         /\ source'[k].state = "open" =>
                              LET t == source'[k].stream
                              IN  /\ t \in Streams /\ streamPc'[t] # "unused"
                                  /\ streamJob'[t] = k
                                  /\ source'[k].read <= Len(written'[t])
                                  /\ \A m \in 1..source'[k].read :
                                       ~ Closes(written'[t][m].type)
                BY <1>1, <1>2, <3>2, <4>3 DEF ReadsItsJob, gatewayVars, streamVars
            <4>4. s \in Streams /\ streamPc[s] # "unused" /\ streamJob[s] = j
                BY <1>1, <1>2, <1>7 DEF ReadsItsJob
            <4> QED
                BY <1>2, <3>2, <4>1, <4>2, <4>3, <4>4 DEF ReadsItsJob, gatewayVars, streamVars
        <3>7. OneStream' /\ KeptForItsStream'
            BY <1>1, <1>2, <1>4, <3>1, <3>2 DEF OneStream, KeptForItsStream, gatewayVars, jobVars,
               producerVars, streamVars
        <3>8. ShowsOwnOutcome' /\ NotFoundOnlyAfterLoss'
            BY <1>3, <3>1 DEF ShowsOwnOutcome, NotFoundOnlyAfterLoss
        <3> QED
            BY <3>3, <3>4, <3>5, <3>6, <3>7, <3>8
    <2> QED
        BY <2>1, <2>2
<1> QED
    BY <1>2, <1>10, BrowserKeepsGateway DEF ClientInv

(* A new response for an EventSource that connects.                        *)
LEMMA ConnectKeeps ==
    ASSUME ClientInv, NEW j \in Jobs, Connect(j) PROVE ClientInv'
<1>1. /\ ClientTypeOK /\ SettledIsClosed /\ ReadsItsJob /\ OneStream /\ KeptForItsStream
      /\ OneAtATime /\ TypeOK /\ InboxIsNewer /\ j # None
    BY NoneAssumption DEF ClientInv, GatewayInv, DeliveryInv, JobInv
<1>2. PICK s \in Streams :
         /\ streamPc[s] = "unused" /\ StreamOpen(s, j)
         /\ source' = [source EXCEPT ![j] = [state |-> "open", stream |-> s, read |-> 0]]
    <2> DEFINE s == CHOOSE t \in Streams : streamPc[t] = "unused"
    <2>1. s \in Streams /\ streamPc[s] = "unused"
        BY DEF Connect
    <2> QED
        BY <2>1 DEF Connect
<1>3. /\ source[j].state = "connecting" /\ UNCHANGED <<hook, posting, cleanupRef, broken, expired>>
    BY DEF Connect
<1>4. /\ cleanupRef = j /\ Active = {j} /\ posting = None
      /\ hook.status = "streaming" /\ hook.run = j /\ hook.shows = "nothing"
    BY <1>3, AtItsSource
<1>5. GatewayInv'
    <2>1. Next
        BY <1>2 DEF Next
    <2> QED
        BY <2>1, GatewayKeeps DEF ClientInv
<1>6. /\ UNCHANGED <<live, producer, inbox, written>>
      /\ streamPc' = [streamPc EXCEPT ![s] = "next"]
      /\ streamJob' = [streamJob EXCEPT ![s] = j]
    BY <1>2 DEF StreamOpen, jobVars, producerVars
<1>7. /\ streamPc'[s] = "next" /\ streamJob'[s] = j
      /\ \A t \in Streams : t # s => streamPc'[t] = streamPc[t] /\ streamJob'[t] = streamJob[t]
    BY <1>1, <1>6 DEF TypeOK
<1>8. /\ source'[j] = [state |-> "open", stream |-> s, read |-> 0]
      /\ \A k \in Jobs : k # j => source'[k] = source[k]
    BY <1>1, <1>2 DEF ClientTypeOK
<1>9. written'[s] = <<>> /\ Len(written'[s]) = 0
    BY <1>1, <1>2, <1>6 DEF InboxIsNewer
<1>10. ClientTypeOK'
    <2>1. [state |-> "open", stream |-> s, read |-> 0]
             \in [state : SourceStates, stream : Streams \union {None}, read : Nat]
        BY DEF SourceStates
    <2>2. source' \in [Jobs -> [state : SourceStates, stream : Streams \union {None}, read : Nat]]
        BY <1>1, <1>2, <2>1 DEF ClientTypeOK
    <2> QED
        BY <1>1, <1>3, <2>2 DEF ClientTypeOK
<1>11. SettledIsClosed'
    <2>1. Active' = {j}
        BY <1>4, <1>8 DEF Active
    <2> QED
        BY <1>1, <1>3, <1>4, <2>1 DEF SettledIsClosed, Working
<1>12. OneAtATime'
    BY <1>1, <1>3, <1>4 DEF OneAtATime, Working
<1>13. ReadsItsJob'
    <2>1. ASSUME NEW k \in Jobs, k # j
          PROVE  /\ source'[k].state = "none" => source'[k].read = 0
                 /\ source'[k].state = "open" =>
                      LET t == source'[k].stream
                      IN  /\ t \in Streams /\ streamPc'[t] # "unused" /\ streamJob'[t] = k
                          /\ source'[k].read <= Len(written'[t])
                          /\ \A i \in 1..source'[k].read : ~ Closes(written'[t][i].type)
        BY <1>1, <1>2, <1>6, <1>7, <1>8, <2>1 DEF ReadsItsJob
    <2>2. /\ source'[j].state = "open" /\ source'[j].stream = s /\ source'[j].read = 0
        BY <1>8
    <2> QED
        BY <1>7, <1>9, <2>1, <2>2 DEF ReadsItsJob
<1>14. OneStream'
    <2>1. ASSUME NEW k \in Jobs, broken'[k] = 0, NEW t \in Streams, streamJob'[t] = k
          PROVE  source'[k].state \in {"open", "closed"} /\ source'[k].stream = t
        <3>1. CASE t = s
            BY <1>7, <1>8, <2>1, <3>1
        <3>2. CASE t # s
            <4>1. streamJob[t] = k /\ broken[k] = 0
                BY <1>3, <1>7, <2>1, <3>2
            <4>2. k # j
                BY <1>1, <1>3, <4>1 DEF OneStream
            <4> QED
                BY <1>1, <1>8, <4>1, <4>2 DEF OneStream
        <3> QED
            BY <3>1, <3>2
    <2> QED
        BY <2>1 DEF OneStream
<1>15. KeptForItsStream'
    <2>1. ASSUME NEW k \in Jobs, broken'[k] = 0, k \notin expired', producer'[k] # "none"
          PROVE  k \in live' \/ \E t \in Streams : streamJob'[t] = k /\ streamPc'[t] = "ended"
        <3>1. k \in live \/ \E t \in Streams : streamJob[t] = k /\ streamPc[t] = "ended"
            BY <1>1, <1>3, <1>6, <2>1 DEF KeptForItsStream
        <3> QED
            BY <1>2, <1>6, <1>7, <3>1
    <2>2. ASSUME NEW k \in Jobs, broken'[k] = 0, k \notin expired', NEW t \in Streams, streamJob'[t] = k
          PROVE  /\ streamPc'[t] = "resumed" => inbox'[t].type # "not_found"
                 /\ \A i \in 1..Len(written'[t]) : written'[t][i].type # "not_found"
        <3>1. CASE t = s
            BY <1>7, <1>9, <3>1
        <3>2. CASE t # s
            BY <1>1, <1>3, <1>6, <1>7, <2>2, <3>2 DEF KeptForItsStream
        <3> QED
            BY <3>1, <3>2
    <2> QED
        BY <2>1, <2>2 DEF KeptForItsStream
<1>16. ShowsOwnOutcome' /\ NotFoundOnlyAfterLoss'
    BY <1>3, <1>4 DEF ShowsOwnOutcome, NotFoundOnlyAfterLoss
<1> QED
    BY <1>5, <1>10, <1>11, <1>12, <1>13, <1>14, <1>15, <1>16 DEF ClientInv

-----------------------------------------------------------------------------
(* The steps of the gateway, the browser standing still.                   *)

(* What such a step must show is only that it does not lose the job of an  *)
(* unbroken EventSource; the rest stands on what the gateway never takes   *)
(* back.                                                                   *)
LEMMA StillClientKeeps ==
    ASSUME ClientInv, ClosedStep, UNCHANGED <<hook, posting, source, cleanupRef, broken>>,
           expired \subseteq expired', expired' \subseteq Jobs, KeptForItsStream'
    PROVE  ClientInv'
<1>1. /\ ClientTypeOK /\ SettledIsClosed /\ ReadsItsJob /\ OneStream /\ OneAtATime
      /\ ShowsOwnOutcome /\ NotFoundOnlyAfterLoss /\ JobInv /\ TypeOK
    BY DEF ClientInv, GatewayInv, DeliveryInv, JobInv
<1>2. Next
    BY DEF ClosedStep, Next
<1>3. GatewayInv'
    BY <1>2, GatewayKeeps DEF ClientInv
<1>4. TypeOK'
    BY <1>3 DEF GatewayInv, DeliveryInv, JobInv
<1>5. OldKept
    BY <1>1, GatewayMoves
<1>6. ClientTypeOK' /\ SettledIsClosed' /\ OneAtATime'
    BY <1>1 DEF ClientTypeOK, SettledIsClosed, OneAtATime, Active, Working
<1>7. OneStream'
    BY <1>1, <1>5 DEF OneStream, OldKept
<1>8. ReadsItsJob'
    <2>1. ASSUME NEW j \in Jobs, source[j].state = "open", NEW s \in Streams, s = source[j].stream
          PROVE  /\ streamPc'[s] # "unused" /\ streamJob'[s] = j
                 /\ source[j].read <= Len(written'[s])
                 /\ \A i \in 1..source[j].read : ~ Closes(written'[s][i].type)
        <3>1. LET t == source[j].stream
              IN  /\ t \in Streams /\ streamPc[t] # "unused" /\ streamJob[t] = j
                  /\ source[j].read <= Len(written[t])
                  /\ \A i \in 1..source[j].read : ~ Closes(written[t][i].type)
            BY <1>1, <2>1 DEF ReadsItsJob
        <3>2. /\ source[j].read \in Nat /\ written[s] \in Seq(Event \union {NotFound})
              /\ written'[s] \in Seq(Event \union {NotFound})
            BY <1>1, <1>4 DEF ClientTypeOK, TypeOK
        <3>3. Len(written[s]) \in Nat /\ Len(written'[s]) \in Nat
            BY <3>2
        <3>4. /\ streamPc'[s] # "unused" /\ streamJob'[s] = j
            BY <1>5, <2>1, <3>1 DEF OldKept
        <3>5. source[j].read <= Len(written[s]) /\ Len(written[s]) <= Len(written'[s])
            BY <1>5, <2>1, <3>1 DEF OldKept
        <3>6. ASSUME NEW i \in 1..source[j].read PROVE ~ Closes(written'[s][i].type)
            <4>1. i \in 1..Len(written[s])
                BY <3>2, <3>3, <3>5
            <4>2. written'[s][i] = written[s][i]
                BY <1>5, <4>1 DEF OldKept
            <4> QED
                BY <2>1, <3>1, <4>2
        <3> QED
            BY <3>2, <3>3, <3>4, <3>5, <3>6
    <2>2. ASSUME NEW j \in Jobs, source[j].state = "open" PROVE source[j].stream \in Streams
        BY <1>1, <2>2 DEF ReadsItsJob
    <2>3. \A j \in Jobs : source[j].state = "none" => source[j].read = 0
        BY <1>1 DEF ReadsItsJob
    <2> QED
        BY <2>1, <2>2, <2>3 DEF ReadsItsJob
<1>9. ShowsOwnOutcome'
    <2>1. hook.shows # "nothing" => Events(produced[hook.run]) \subseteq Events(produced'[hook.run])
        BY <1>1, <1>5 DEF OneAtATime, OldKept
    <2> QED
        BY <1>1, <2>1 DEF ShowsOwnOutcome
<1>10. NotFoundOnlyAfterLoss'
    BY <1>1 DEF NotFoundOnlyAfterLoss
<1> QED
    BY <1>3, <1>6, <1>7, <1>8, <1>9, <1>10 DEF ClientInv

LEMMA ArrivalKeeps ==
    ASSUME ClientInv, NEW j \in Jobs, PostArrives(j) PROVE ClientInv'
<1>1. PICK k \in Kinds : CreateJob(j, k)
    BY DEF PostArrives
<1>2. posting = j /\ UNCHANGED <<hook, posting, source, cleanupRef, broken, expired>>
    BY DEF PostArrives, clientVars
<1>3. KeptForItsStream /\ TypeOK /\ ClientTypeOK
    BY DEF ClientInv, GatewayInv, DeliveryInv, JobInv
<1>4. live' = live \union {j} /\ UNCHANGED <<streamPc, streamJob, inbox, written>>
        /\ \A q \in Jobs : q # j => producer'[q] = producer[q]
    BY <1>1, <1>3 DEF CreateJob, streamVars, TypeOK
<1>5. KeptForItsStream'
    <2>1. ASSUME NEW q \in Jobs, broken'[q] = 0, q \notin expired', producer'[q] # "none"
          PROVE  q \in live' \/ \E s \in Streams : streamJob'[s] = q /\ streamPc'[s] = "ended"
        BY <1>2, <1>3, <1>4, <2>1 DEF KeptForItsStream
    <2>2. ASSUME NEW q \in Jobs, broken'[q] = 0, q \notin expired', NEW s \in Streams, streamJob'[s] = q
          PROVE  /\ streamPc'[s] = "resumed" => inbox'[s].type # "not_found"
                 /\ \A i \in 1..Len(written'[s]) : written'[s][i].type # "not_found"
        BY <1>2, <1>3, <1>4, <2>2 DEF KeptForItsStream
    <2> QED
        BY <2>1, <2>2 DEF KeptForItsStream
<1> QED
    BY <1>1, <1>2, <1>3, <1>5, StillClientKeeps DEF ClosedStep, ClientTypeOK

(* The timer takes the job and says so.                                    *)
LEMMA TtlKeeps ==
    ASSUME ClientInv, NEW j \in Jobs, TtlPasses(j) PROVE ClientInv'
<1>1. /\ Expire(j) /\ expired' = expired \union {j}
      /\ UNCHANGED <<hook, posting, source, cleanupRef, broken>>
    BY DEF TtlPasses
<1>2. KeptForItsStream /\ JobInv /\ TypeOK /\ ClientTypeOK
    BY DEF ClientInv, GatewayInv, DeliveryInv, JobInv
<1>3. /\ live' = live \ {j} /\ UNCHANGED <<producer, streamJob, written>>
      /\ \A s \in Streams : streamJob[s] # j => streamPc'[s] = streamPc[s] /\ inbox'[s] = inbox[s]
    <2>1. \A i \in DOMAIN waiters[j] : streamJob[waiters[j][i]] = j
        BY <1>2, WaitersAre
    <2> QED
        BY <1>1, <2>1 DEF Expire, Cleanup, producerVars
<1>4. KeptForItsStream'
    <2>1. ASSUME NEW q \in Jobs, broken'[q] = 0, q \notin expired', producer'[q] # "none"
          PROVE  q \in live' \/ \E s \in Streams : streamJob'[s] = q /\ streamPc'[s] = "ended"
        <3>1. q # j /\ q \notin expired /\ broken[q] = 0 /\ producer[q] # "none"
            BY <1>1, <1>3, <2>1
        <3>2. q \in live \/ \E s \in Streams : streamJob[s] = q /\ streamPc[s] = "ended"
            BY <1>2, <3>1 DEF KeptForItsStream
        <3> QED
            BY <1>3, <3>1, <3>2
    <2>2. ASSUME NEW q \in Jobs, broken'[q] = 0, q \notin expired', NEW s \in Streams, streamJob'[s] = q
          PROVE  /\ streamPc'[s] = "resumed" => inbox'[s].type # "not_found"
                 /\ \A i \in 1..Len(written'[s]) : written'[s][i].type # "not_found"
        BY <1>1, <1>2, <1>3, <2>2 DEF KeptForItsStream
    <2> QED
        BY <2>1, <2>2 DEF KeptForItsStream
<1> QED
    BY <1>1, <1>2, <1>4, StillClientKeeps DEF ClosedStep, ClientTypeOK

(* A push takes no job away and hands on no "Job not found".               *)
LEMMA ProducerKeepsClient ==
    ASSUME ClientInv, NEW j \in Jobs, Producer(j) \/ LegacyForwards(j), UNCHANGED clientVars
    PROVE  ClientInv'
<1>1. KeptForItsStream /\ JobInv /\ TypeOK /\ ClientTypeOK
    BY DEF ClientInv, GatewayInv, DeliveryInv, JobInv
<1>2. PICK types \in Seq(EventTypes) : Push(j, types)
    BY <1>1, ProducerPushes
<1>3. UNCHANGED <<hook, posting, source, cleanupRef, broken, expired>>
    BY DEF clientVars
<1>4. UNCHANGED <<live, streamJob, written>>
    BY <1>2 DEF Push
<1>5. \A q \in Jobs : producer'[q] # "none" => producer[q] # "none"
    <2>1. kind[j] \in Kinds
        BY <1>1 DEF TypeOK
    <2>2. producer[j] # "none" /\ \A q \in Jobs : q # j => producer'[q] = producer[q]
        BY <1>1, <2>1 DEF Producer, ProducerStarts, NlpAnswers, LlmAnswers, ServiceAnswers,
           LegacyEnds, RequestFails, LegacyForwards, ProducerAt, Kinds, TypeOK
    <2> QED
        BY <2>2
<1>6. \A s \in Streams :
         \/ streamPc'[s] = streamPc[s] /\ inbox'[s] = inbox[s]
         \/ streamPc[s] = "waiting" /\ streamPc'[s] = "resumed" /\ inbox'[s].type # "not_found"
    <2>1. CASE j \notin live
        BY <1>2, <2>1 DEF Push
    <2>2. CASE j \in live
        <3>1. PICK k \in 0..Len(waiters[j]) :
                 /\ k <= Len(types) /\ (k = Len(waiters[j]) \/ k = Len(types))
                 /\ queue' = [queue EXCEPT ![j] = @ \o SubSeq(Numbered(j, types), k + 1, Len(types))]
                 /\ \A i \in 1..k : /\ streamPc'[waiters[j][i]] = "resumed"
                                    /\ inbox'[waiters[j][i]] = Numbered(j, types)[i]
                                    /\ inbox'[waiters[j][i]].n = Len(produced[j]) + i
                 /\ \A s \in Streams : (\A i \in 1..k : waiters[j][i] # s) =>
                                          inbox'[s] = inbox[s] /\ streamPc'[s] = streamPc[s]
            BY <1>1, <1>2, <2>2, PushServes
        <3>2. /\ Len(waiters[j]) \in Nat /\ DOMAIN waiters[j] = 1..Len(waiters[j])
              /\ \A i \in DOMAIN waiters[j] : streamPc[waiters[j][i]] = "waiting"
            BY <1>1, WaitersAre
        <3>3. Numbered(j, types) \in Seq(Event) /\ Len(Numbered(j, types)) = Len(types)
                /\ Len(types) \in Nat
            BY <1>1, NumberedType
        <3>4. ASSUME NEW i \in 1..k
              PROVE  /\ streamPc[waiters[j][i]] = "waiting" /\ streamPc'[waiters[j][i]] = "resumed"
                     /\ inbox'[waiters[j][i]].type # "not_found"
            <4>1. i \in 1..Len(waiters[j]) /\ i \in 1..Len(types)
                BY <3>1, <3>2, <3>3
            <4>2. PICK es \in Seq(Event) : es = Numbered(j, types)
                BY <3>3
            <4>3. es[i] \in Event
                BY <3>3, <4>1, <4>2
            <4>4. es[i].type # "not_found"
                BY <4>3 DEF Event, EventTypes
            <4> QED
                BY <3>1, <3>2, <4>1, <4>2, <4>4
        <3> QED
            BY <3>1, <3>4
    <2> QED
        BY <2>1, <2>2
<1>7. KeptForItsStream'
    <2>1. ASSUME NEW q \in Jobs, broken'[q] = 0, q \notin expired', producer'[q] # "none"
          PROVE  q \in live' \/ \E s \in Streams : streamJob'[s] = q /\ streamPc'[s] = "ended"
        <3>1. q \in live \/ \E s \in Streams : streamJob[s] = q /\ streamPc[s] = "ended"
            BY <1>1, <1>3, <1>5, <2>1 DEF KeptForItsStream
        <3> QED
            BY <1>4, <1>6, <3>1
    <2>2. ASSUME NEW q \in Jobs, broken'[q] = 0, q \notin expired', NEW s \in Streams, streamJob'[s] = q
          PROVE  /\ streamPc'[s] = "resumed" => inbox'[s].type # "not_found"
                 /\ \A i \in 1..Len(written'[s]) : written'[s][i].type # "not_found"
        BY <1>1, <1>3, <1>4, <1>6, <2>2 DEF KeptForItsStream
    <2> QED
        BY <2>1, <2>2 DEF KeptForItsStream
<1> QED
    BY <1>1, <1>3, <1>7, StillClientKeeps DEF ClosedStep, ClientTypeOK

(* A stream of an unbroken EventSource is the only one of its job: nobody  *)
(* else ends the job before it.                                            *)
LEMMA StreamNextKeepsClient ==
    ASSUME ClientInv, NEW s \in Streams, StreamNext(s), UNCHANGED clientVars
    PROVE  ClientInv'
<1>1. /\ KeptForItsStream /\ OneStream /\ StreamsHaveJobs /\ JobInv /\ TypeOK /\ ClientTypeOK
    BY DEF ClientInv, GatewayInv, DeliveryInv, JobInv
<1>2. UNCHANGED <<hook, posting, source, cleanupRef, broken, expired>>
    BY DEF clientVars
<1>3. /\ streamPc[s] = "next" /\ UNCHANGED <<live, producer, streamJob, written>>
      /\ \A t \in Streams : t # s => streamPc'[t] = streamPc[t] /\ inbox'[t] = inbox[t]
      /\ streamPc'[s] # "ended"
    BY <1>1 DEF StreamNext, producerVars, TypeOK
<1>4. PICK j \in Jobs : j = streamJob[s]
    BY <1>1, <1>3 DEF JobInv, Opened
<1>5. broken[j] = 0 /\ j \notin expired /\ streamPc'[s] = "resumed" => inbox'[s].type # "not_found"
    <2>1. CASE j \notin live
        <3>1. producer[j] # "none"
            BY <1>1, <1>3, <1>4 DEF StreamsHaveJobs
        <3>2. ASSUME broken[j] = 0, j \notin expired PROVE FALSE
            <4>1. PICK t \in Streams : streamJob[t] = j /\ streamPc[t] = "ended"
                BY <1>1, <2>1, <3>1, <3>2 DEF KeptForItsStream
            <4>2. t = s
                BY <1>1, <1>4, <3>2, <4>1 DEF OneStream
            <4> QED
                BY <1>3, <4>1, <4>2
        <3> QED
            BY <3>2
    <2>2. CASE j \in live /\ queue[j] # <<>> /\ inbox'[s] = Head(queue[j])
        <3>1. PICK q \in Seq(Event) : q = queue[j]
            BY <1>1 DEF TypeOK
        <3>2. Head(q) \in Event
            BY <2>2, <3>1
        <3> QED
            BY <2>2, <3>1, <3>2 DEF Event, EventTypes
    <2>3. CASE streamPc'[s] = "waiting"
        BY <2>3
    <2> QED
        BY <1>1, <1>4, <2>1, <2>2, <2>3 DEF StreamNext, OldestOf, TypeOK
<1>6. KeptForItsStream'
    <2>1. ASSUME NEW q \in Jobs, broken'[q] = 0, q \notin expired', producer'[q] # "none"
          PROVE  q \in live' \/ \E t \in Streams : streamJob'[t] = q /\ streamPc'[t] = "ended"
        <3>1. q \in live \/ \E t \in Streams : streamJob[t] = q /\ streamPc[t] = "ended"
            BY <1>1, <1>2, <1>3, <2>1 DEF KeptForItsStream
        <3> QED
            BY <1>3, <3>1
    <2>2. ASSUME NEW q \in Jobs, broken'[q] = 0, q \notin expired', NEW t \in Streams, streamJob'[t] = q
          PROVE  /\ streamPc'[t] = "resumed" => inbox'[t].type # "not_found"
                 /\ \A i \in 1..Len(written'[t]) : written'[t][i].type # "not_found"
        <3>1. CASE t = s
            BY <1>1, <1>2, <1>3, <1>4, <1>5, <2>2, <3>1 DEF KeptForItsStream
        <3>2. CASE t # s
            BY <1>1, <1>2, <1>3, <2>2, <3>2 DEF KeptForItsStream
        <3> QED
            BY <3>1, <3>2
    <2> QED
        BY <2>1, <2>2 DEF KeptForItsStream
<1> QED
    BY <1>1, <1>2, <1>6, StillClientKeeps DEF ClosedStep, ClientTypeOK, Stream

LEMMA StreamWriteKeepsClient ==
    ASSUME ClientInv, NEW s \in Streams, StreamWrite(s), UNCHANGED clientVars
    PROVE  ClientInv'
<1>1. /\ KeptForItsStream /\ OneStream /\ StreamsHaveJobs /\ JobInv /\ TypeOK /\ ClientTypeOK
    BY DEF ClientInv, GatewayInv, DeliveryInv, JobInv
<1>2. UNCHANGED <<hook, posting, source, cleanupRef, broken, expired>>
    BY DEF clientVars
<1>3. /\ streamPc[s] = "resumed" /\ UNCHANGED <<producer, streamJob>>
      /\ written' = [written EXCEPT ![s] = Append(written[s], inbox[s])]
    BY DEF StreamWrite, producerVars
<1>4. PICK j \in Jobs : j = streamJob[s]
    BY <1>1, <1>3 DEF JobInv, Opened
<1>5. \A t \in Streams : t # s => written'[t] = written[t]
    BY <1>1, <1>3 DEF TypeOK
<1>6. \A i \in 1..Len(written'[s]) : (\E k \in 1..Len(written[s]) : written'[s][i] = written[s][k])
                                       \/ written'[s][i] = inbox[s]
    <2>1. PICK w \in Seq(Event \union {NotFound}) : w = written[s]
        BY <1>1 DEF TypeOK
    <2>2. written'[s] = Append(w, inbox[s])
        BY <1>1, <1>3, <2>1 DEF TypeOK
    <2>3. /\ Len(w) \in Nat /\ Len(Append(w, inbox[s])) = Len(w) + 1
          /\ \A i \in 1..Len(w) : Append(w, inbox[s])[i] = w[i]
          /\ Append(w, inbox[s])[Len(w) + 1] = inbox[s]
        OBVIOUS
    <2>4. \A i \in 1..Len(w) + 1 : i \in 1..Len(w) \/ i = Len(w) + 1
        BY <2>3
    <2> QED
        BY <2>1, <2>2, <2>3, <2>4
<1>7. /\ streamPc'[s] # "resumed"
      /\ \A t \in Streams : streamJob[t] # j =>
            /\ inbox'[t] = inbox[t]
            /\ streamPc'[t] = streamPc[t]
      /\ \/ live' = live /\ \A t \in Streams : t # s => streamPc'[t] = streamPc[t] /\ inbox'[t] = inbox[t]
         \/ live' = live \ {j} /\ streamPc'[s] = "ended"
    <2>1. \A i \in DOMAIN waiters[j] : /\ streamJob[waiters[j][i]] = j
                                       /\ streamPc[waiters[j][i]] = "waiting"
        BY <1>1, WaitersAre
    <2>2. CASE inbox[s].type \in Terminal
        <3>1. PICK pc : pc = [streamPc EXCEPT ![s] = "ended"]
            OBVIOUS
        <3>2. Cleanup(j, pc)
            BY <1>4, <2>2, <3>1 DEF StreamWrite, Cleanup
        <3>3. pc[s] = "ended" /\ \A t \in Streams : t # s => pc[t] = streamPc[t]
            BY <1>1, <3>1 DEF TypeOK
        <3>4. \A i \in DOMAIN waiters[j] : waiters[j][i] # s
            BY <1>3, <2>1
        <3>5. live' = live \ {j} /\ streamPc'[s] = "ended"
            BY <3>2, <3>3, <3>4 DEF Cleanup
        <3>6. ASSUME NEW t \in Streams, streamJob[t] # j
              PROVE  inbox'[t] = inbox[t] /\ streamPc'[t] = streamPc[t]
            BY <1>4, <2>1, <3>2, <3>3, <3>6 DEF Cleanup
        <3> QED
            BY <3>5, <3>6
    <2>3. CASE inbox[s].type \notin Terminal
        <3>1. /\ streamPc' = [streamPc EXCEPT ![s] = "next"] /\ UNCHANGED <<live, inbox>>
            BY <2>3 DEF StreamWrite, jobVars
        <3>2. streamPc'[s] = "next" /\ \A t \in Streams : t # s => streamPc'[t] = streamPc[t]
            BY <1>1, <3>1 DEF TypeOK
        <3> QED
            BY <1>4, <3>1, <3>2
    <2> QED
        BY <2>2, <2>3
<1>8. KeptForItsStream'
    <2>1. ASSUME NEW q \in Jobs, broken'[q] = 0, q \notin expired', producer'[q] # "none"
          PROVE  q \in live' \/ \E t \in Streams : streamJob'[t] = q /\ streamPc'[t] = "ended"
        <3>1. q \in live \/ \E t \in Streams : streamJob[t] = q /\ streamPc[t] = "ended"
            BY <1>1, <1>2, <1>3, <2>1 DEF KeptForItsStream
        <3>2. CASE live' = live \ {j} /\ streamPc'[s] = "ended"
            <4>1. CASE q = j
                BY <1>3, <1>4, <3>2, <4>1
            <4>2. CASE q # j
                BY <1>3, <1>7, <3>1, <3>2, <4>2
            <4> QED
                BY <4>1, <4>2
        <3>3. CASE live' = live /\ \A t \in Streams : t # s => streamPc'[t] = streamPc[t] /\ inbox'[t] = inbox[t]
            BY <1>3, <3>1, <3>3
        <3> QED
            BY <1>7, <3>2, <3>3
    <2>2. ASSUME NEW q \in Jobs, broken'[q] = 0, q \notin expired', NEW t \in Streams, streamJob'[t] = q
          PROVE  /\ streamPc'[t] = "resumed" => inbox'[t].type # "not_found"
                 /\ \A i \in 1..Len(written'[t]) : written'[t][i].type # "not_found"
        <3>0. /\ streamPc[t] = "resumed" => inbox[t].type # "not_found"
              /\ \A i \in 1..Len(written[t]) : written[t][i].type # "not_found"
            BY <1>1, <1>2, <1>3, <2>2 DEF KeptForItsStream
        <3>1. CASE t = s
            BY <1>3, <1>6, <1>7, <3>0, <3>1
        <3>2. CASE t # s
            <4>1. q # j
                BY <1>1, <1>2, <1>3, <1>4, <2>2, <3>2 DEF OneStream
            <4> QED
                BY <1>3, <1>5, <1>7, <2>2, <3>0, <3>2, <4>1
        <3> QED
            BY <3>1, <3>2
    <2> QED
        BY <2>1, <2>2 DEF KeptForItsStream
<1> QED
    BY <1>1, <1>2, <1>8, StillClientKeeps DEF ClosedStep, ClientTypeOK, Stream

LEMMA ClientStep == ClientInv /\ [ClientNext]_allVars => ClientInv'
<1> SUFFICES ASSUME ClientInv, [ClientNext]_allVars PROVE ClientInv'
    OBVIOUS
<1>1. CASE UNCHANGED allVars
    <2>1. GatewayInv'
        BY <1>1, BrowserKeepsGateway DEF allVars
    <2>2. UNCHANGED <<live, producer, produced, streamPc, streamJob, inbox, written,
                      hook, posting, source, cleanupRef, broken, expired>>
        BY <1>1 DEF allVars, gatewayVars, clientVars, jobVars, producerVars, streamVars
    <2> QED
        BY <2>1, <2>2 DEF ClientInv, ClientTypeOK, SettledIsClosed, OneAtATime, ReadsItsJob, ShowsOwnOutcome,
           OneStream, KeptForItsStream, NotFoundOnlyAfterLoss, Active, Working
<1>2. ASSUME NEW j \in Jobs, StartParse(j) \/ PostReturns(j) \/ PostFails(j) PROVE ClientInv'
    BY <1>2, StartKeeps, PostReturnsKeeps, PostFailsKeeps
<1>3. ASSUME NEW j \in Jobs, PostArrives(j) \/ TtlPasses(j) PROVE ClientInv'
    BY <1>3, ArrivalKeeps, TtlKeeps
<1>4. ASSUME NEW j \in Jobs, Receive(j) \/ LoseConnection(j) \/ Connect(j) PROVE ClientInv'
    BY <1>4, ReceiveKeeps, LoseKeeps, ConnectKeeps
<1>5. CASE GatewayStep /\ UNCHANGED clientVars
    BY <1>5, ProducerKeepsClient, StreamNextKeepsClient, StreamWriteKeepsClient DEF GatewayStep, Stream
<1> QED
    BY <1>1, <1>2, <1>3, <1>4, <1>5 DEF ClientNext

-----------------------------------------------------------------------------
LEMMA ClientSpecInv == ClientSpec => []ClientInv
    BY ClientStarts, ClientStep, PTL DEF ClientSpec

(* Whatever is clicked, answered, broken or expired: cleanupRef names the  *)
(* one EventSource that is not closed, and a settled hook has none left to *)
(* reconnect.                                                              *)
THEOREM SpecSettledIsClosed == ClientSpec => []SettledIsClosed
<1>1. ClientInv => SettledIsClosed
    BY DEF ClientInv
<1> QED
    BY <1>1, ClientSpecInv, PTL

(* The result or the error on the screen is that of the run the user       *)
(* started last, however many streams the run has had.                     *)
THEOREM SpecShowsOwnOutcome == ClientSpec => []ShowsOwnOutcome
<1>1. ClientInv => ShowsOwnOutcome
    BY DEF ClientInv
<1> QED
    BY <1>1, ClientSpecInv, PTL

(* A user who sees "Job not found" had a connection broken or a job that   *)
(* outlived its TTL.                                                       *)
THEOREM SpecNotFoundOnlyAfterLoss == ClientSpec => []NotFoundOnlyAfterLoss
<1>1. ClientInv => NotFoundOnlyAfterLoss
    BY DEF ClientInv
<1> QED
    BY <1>1, ClientSpecInv, PTL
=============================================================================
