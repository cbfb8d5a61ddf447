--------------------------- MODULE SseJobClient ---------------------------
(***************************************************************************)
(* The browser side of a gateway job, composed with GatewayJobs: the hook  *)
(* useSSEJob (frontend/src/shared/hooks/useSSEJob.ts), the EventSource that*)
(* openSSEStream opens, and the Parse tab, whose button starts a job only  *)
(* while none is running.  An EventSource that loses its connection, or    *)
(* whose server ends the response, reconnects by itself until it is        *)
(* closed; what was written and not yet read is lost with the connection.  *)
(***************************************************************************)
EXTENDS GatewayJobs, Functions

CONSTANT MaxDrops    \* bound on the connections the network breaks

ASSUME DropsAssumption == MaxDrops \in Nat

VARIABLES
    hook,         \* the hook's state: its status, what it shows, the run it is in
    posting,      \* the job whose POST is under way
    source,       \* the EventSource of each job
    cleanupRef,   \* the job whose EventSource cleanupRef.current closes
    broken,       \* history: how many connections of each job were broken
    expired       \* history: jobs the TTL timer removed

gatewayVars == <<jobVars, producerVars, streamVars>>
clientVars == <<hook, posting, source, cleanupRef, broken, expired>>
allVars == <<gatewayVars, clientVars>>

ClientInit ==
    /\ Init
    /\ hook = [status |-> "idle", shows |-> "nothing", run |-> None]
    /\ posting = None
    /\ source = [j \in Jobs |-> [state |-> "none", stream |-> None, read |-> 0]]
    /\ cleanupRef = None
    /\ broken = [j \in Jobs |-> 0]
    /\ expired = {}

Working == hook.status \in {"pending", "streaming"}

(* Mutation: the ref is dropped and the EventSource left open. *)
NothingClosed == source

(* cleanupRef.current?.() *)
CurrentClosed ==
    [j \in Jobs |-> IF j = cleanupRef THEN [source[j] EXCEPT !.state = "closed"]
                    ELSE source[j]]

-----------------------------------------------------------------------------
(* start                                                                   *)

(* isWorking of ParseTab disables the button. *)
ButtonEnabled == ~Working

Unused == {j \in Jobs : producer[j] = "none" /\ source[j].state = "none"}

(* Job ids have no order: the next run takes one that was never used.      *)
StartParse(j) ==
    /\ ButtonEnabled
    /\ Unused # {} /\ j = CHOOSE k \in Unused : TRUE
    /\ source' = CurrentClosed
    /\ cleanupRef' = None
    /\ hook' = [status |-> "pending", shows |-> "nothing", run |-> j]
    /\ posting' = j
    /\ UNCHANGED <<gatewayVars, broken, expired>>

(* The gateway takes the POST. *)
PostArrives(j) ==
    /\ posting = j
    /\ \E k \in Kinds : CreateJob(j, k)
    /\ UNCHANGED clientVars

(* The reply names the job, the EventSource is made and remembered. *)
PostReturns(j) ==
    /\ posting = j
    /\ producer[j] # "none"
    /\ posting' = None
    /\ hook' = [hook EXCEPT !.status = "streaming"]
    /\ source' = [source EXCEPT ![j].state = "connecting"]
    /\ cleanupRef' = j
    /\ UNCHANGED <<gatewayVars, broken, expired>>

(* The POST fails before or after it reached the gateway; in the second    *)
(* case the job it made is nobody's.  No EventSource is ever made for it.  *)
PostFails(j) ==
    /\ posting = j
    /\ posting' = None
    /\ hook' = [hook EXCEPT !.status = "error", !.shows = "error"]
    /\ source' = [source EXCEPT ![j].state = "closed"]
    /\ UNCHANGED <<gatewayVars, cleanupRef, broken, expired>>

-----------------------------------------------------------------------------
(* The EventSource                                                         *)

(* The request for a response that is not yet in use; responses have no    *)
(* identity of their own, so it is enough to take one of them.             *)
Connect(j) ==
    LET s == CHOOSE t \in Streams : streamPc[t] = "unused" IN
    /\ source[j].state = "connecting"
    /\ \E t \in Streams : streamPc[t] = "unused"
    /\ StreamOpen(s, j)
    /\ source' = [source EXCEPT ![j] = [state |-> "open", stream |-> s, read |-> 0]]
    /\ UNCHANGED <<hook, posting, cleanupRef, broken, expired>>

Unread(j) == source[j].read < Len(written[source[j].stream])

(* Mutation: the handler closes on "done" only. *)
ClosesOnDone(type) == type = "done"

(* The events after which the handler calls cleanupRef.current. *)
Closes(type) == type \in {"done", "error", "not_found", "result"}

(* Mutation: every failure is shown as the failure of the job. *)
HookAfterAnyError(type) ==
    CASE type = "result" -> [hook EXCEPT !.status = "done", !.shows = "result"]
      [] type \in {"error", "not_found"} ->
           [hook EXCEPT !.status = "error", !.shows = "error"]
      [] type = "done" -> [hook EXCEPT !.status = "done"]
      [] OTHER -> hook

(* Mutation: an event without a job behind it is ignored. *)
HookAfterKnownEvents(type) ==
    CASE type = "result" -> [hook EXCEPT !.status = "done", !.shows = "result"]
      [] type = "error" -> [hook EXCEPT !.status = "error", !.shows = "error"]
      [] type = "done" -> [hook EXCEPT !.status = "done"]
      [] OTHER -> hook

(* setState of the event handler. *)
HookAfter(type) ==
    CASE type = "result" -> [hook EXCEPT !.status = "done", !.shows = "result"]
      [] type = "error" -> [hook EXCEPT !.status = "error", !.shows = "error"]
      [] type = "not_found" -> [hook EXCEPT !.status = "error", !.shows = "not_found"]
      [] type = "done" /\ hook.status = "streaming" -> [hook EXCEPT !.status = "done"]
      [] OTHER -> hook

(* onmessage, with the next event of the response; stage events reach the  *)
(* tab's stage list only.                                                  *)
Receive(j) ==
    /\ source[j].state = "open"
    /\ Unread(j)
    /\ LET type == written[source[j].stream][source[j].read + 1].type
       IN  /\ hook' = HookAfter(type)
           /\ IF Closes(type)
              THEN /\ source' = [CurrentClosed EXCEPT ![j].read = @ + 1]
                   /\ cleanupRef' = None
              ELSE /\ source' = [source EXCEPT ![j].read = @ + 1]
                   /\ UNCHANGED cleanupRef
    /\ UNCHANGED <<gatewayVars, posting, broken, expired>>

Drops == FoldFunction(+, 0, broken)

(* The network breaks the connection, or the gateway has ended a response  *)
(* that is read to its end: the browser reconnects.                        *)
LoseConnection(j) ==
    /\ source[j].state = "open"
    /\ \/ /\ Drops < MaxDrops
          /\ broken' = [broken EXCEPT ![j] = @ + 1]
       \/ /\ Drops >= MaxDrops
          /\ streamPc[source[j].stream] = "ended"
          /\ ~Unread(j)
          /\ UNCHANGED broken
    /\ source' = [source EXCEPT ![j].state = "connecting"]
    /\ UNCHANGED <<gatewayVars, hook, posting, cleanupRef, expired>>

-----------------------------------------------------------------------------
GatewayStep ==
    \/ \E j \in Jobs : Producer(j) \/ LegacyForwards(j)
    \/ \E s \in Streams : Stream(s)

TtlPasses(j) ==
    /\ Expire(j)
    /\ expired' = expired \union {j}
    /\ UNCHANGED <<hook, posting, source, cleanupRef, broken>>

ClientNext ==
    \/ \E j \in Jobs : \/ StartParse(j)
                       \/ PostArrives(j) \/ PostReturns(j) \/ PostFails(j)
                       \/ Receive(j) \/ LoseConnection(j)
                       \/ Connect(j)
                       \/ TtlPasses(j)
    \/ GatewayStep /\ UNCHANGED clientVars

(* The gateway as in GatewayJobs; a POST is answered or fails, messages    *)
(* that arrived are handled, an open EventSource keeps connecting.         *)
ClientFairness ==
    /\ \A j \in Jobs :
         /\ WF_allVars(Producer(j) /\ UNCHANGED clientVars)
         /\ WF_allVars(PostArrives(j) \/ PostReturns(j))
         /\ WF_allVars(Connect(j))
         /\ WF_allVars(Receive(j))
    /\ \A s \in Streams : WF_allVars(Stream(s) /\ UNCHANGED clientVars)

ClientSpec == ClientInit /\ [][ClientNext]_allVars

FairClientSpec == ClientSpec /\ ClientFairness

-----------------------------------------------------------------------------
(* Properties                                                              *)

Active == {j \in Jobs : source[j].state \in {"connecting", "open"}}

(* cleanupRef always names the one EventSource that is not closed, and a   *)
(* hook that has settled has none: nothing reconnects after the terminal   *)
(* event of a run, which the comment in useSSEJob is about.                *)
SettledIsClosed ==
    /\ Active = (IF cleanupRef = None THEN {} ELSE {cleanupRef})
    /\ ~Working => Active = {}
    /\ hook.status = "streaming" => Active = {hook.run}

(* Whatever the hook shows is the outcome of the run it is in.             *)
ShowsOwnOutcome ==
    /\ hook.shows = "result" => "result" \in Events(produced[hook.run])
    /\ (hook.shows = "error" /\ source[hook.run].read > 0)
         => "error" \in Events(produced[hook.run])

(* "Job not found" is only ever shown to a user whose connection was       *)
(* broken or whose job outlived its TTL; a job that merely ended never     *)
(* looks lost.                                                             *)
NotFoundOnlyAfterLoss ==
    hook.shows = "not_found" => (broken[hook.run] > 0 \/ hook.run \in expired)

(* A reconnection for which the instance has no response left; there are   *)
(* Cardinality(Streams) of them.                                           *)
OutOfStreams ==
    /\ \E j \in Jobs : source[j].state = "connecting"
    /\ \A s \in Streams : streamPc[s] # "unused"

(* Whatever the network and the backends do, the button comes back.        *)
ClientSettles == Working ~> (~Working \/ OutOfStreams)
=============================================================================
