------------------------------ MODULE LlamaRuntime ------------------------------
(***************************************************************************)
(* The life of the NLP service process around its two long-lived helpers:  *)
(* the warm-up thread (InitializationCoordinator) and the llama-server     *)
(* child process (LlamaCppServerManager).                                  *)
(*                                                                         *)
(* ensure_started runs once while the service starts and then in the       *)
(* thread of every third-pass request; it takes no lock, so calls may      *)
(* overlap.  Each step below is the code between two points where another  *)
(* thread can be scheduled: an HTTP probe, a wait for a process, a Popen.  *)
(* The log handle of the child, the command line and the environment are   *)
(* left out.                                                               *)
(***************************************************************************)
EXTENDS Integers, FiniteSets

CONSTANTS
    Callers,    \* the threads that call ensure_started
    Boot,       \* the one that also starts and stops the service
    Procs,      \* identities of llama-server processes
    NoProc,     \* self._process is None
    MaxCalls    \* bound on the calls of ensure_started

ASSUME RuntimeAssumption ==
    /\ Boot \in Callers
    /\ NoProc \notin Procs
    /\ IsFiniteSet(Procs) /\ MaxCalls \in Nat /\ MaxCalls <= Cardinality(Procs)

VARIABLES
    setting,    \* "off": not enabled; "unlaunchable": no executable or no model; "on"
    phase,      \* of the service: "starting", "serving", "stopping", "stopped", "broken"
    warm,       \* of the warm-up: "off", "running", "ready", "failed"
    managed,    \* self._process
    proc,       \* what each llama-server process does
    pc,         \* where each caller is in ensure_started or close
    own,        \* the process in a local variable of the caller
    ret,        \* where close returns to
    calls,      \* calls of ensure_started so far
    overlap     \* two calls have run at the same time (history)

runtimeVars == <<setting, phase, warm, managed, proc, pc, own, ret, calls, overlap>>

ProcStates == {"unborn", "unbound", "loading", "serving", "stalled", "exited", "killed"}
Returns == {"probe", "spawn", "idle", "stopped"}
Points == {"idle", "check", "take", "kill", "probe", "decide", "spawn", "record", "wait", "stopped"}

Alive(p) == proc[p] \in {"unbound", "loading", "serving", "stalled"}
HoldsPort(p) == proc[p] \in {"loading", "serving", "stalled"}

\* _is_endpoint_ready: /health or /v1/models answers without an error status.
\* llama-server answers 503 while it loads, and nothing in time while it hangs
\* or is busy.
EndpointReady == \E p \in Procs : proc[p] = "serving"

IsServerAlive == managed # NoProc /\ Alive(managed)
ManagedExited == managed # NoProc /\ ~Alive(managed)

---------------------------------------------------------------------------
(* The child processes and the warm-up thread.                             *)

\* A new process binds the port, or exits because another one holds it.
Bind(p) ==
    /\ proc[p] = "unbound"
    /\ proc' = [proc EXCEPT ![p] = IF \E q \in Procs : HoldsPort(q) THEN "exited" ELSE "loading"]
    /\ UNCHANGED <<setting, phase, warm, managed, pc, own, ret, calls, overlap>>

\* The model is loaded, a server hangs or is slow, perhaps for a moment only, or
\* a process dies by itself.
Loaded(p) ==
    /\ proc[p] = "loading"
    /\ proc' = [proc EXCEPT ![p] = "serving"]
    /\ UNCHANGED <<setting, phase, warm, managed, pc, own, ret, calls, overlap>>

Stall(p) ==
    /\ proc[p] = "serving"
    /\ proc' = [proc EXCEPT ![p] = "stalled"]
    /\ UNCHANGED <<setting, phase, warm, managed, pc, own, ret, calls, overlap>>

Recover(p) ==
    /\ proc[p] = "stalled"
    /\ proc' = [proc EXCEPT ![p] = "serving"]
    /\ UNCHANGED <<setting, phase, warm, managed, pc, own, ret, calls, overlap>>

Crash(p) ==
    /\ Alive(p)
    /\ proc' = [proc EXCEPT ![p] = "exited"]
    /\ UNCHANGED <<setting, phase, warm, managed, pc, own, ret, calls, overlap>>

\* The worker sets ready or failed and clears running under the lock.  A missing
\* package or model is caught inside _warmup_semantic_engine and counts as ready.
WarmUpEnds ==
    /\ warm = "running"
    /\ warm' \in {"ready", "failed"}
    /\ UNCHANGED <<setting, phase, managed, proc, pc, own, ret, calls, overlap>>

---------------------------------------------------------------------------
(* ensure_started                                                          *)

Goto(c, where) == pc' = [pc EXCEPT ![c] = where]

\* close() is called, to return to where.
CloseTo(c, where) ==
    /\ Goto(c, "take")
    /\ ret' = [ret EXCEPT ![c] = where]

\* A call begins: the one of the start-up, or one of a third-pass request.
EnsureStarted(c) ==
    /\ pc[c] = "idle" /\ calls < MaxCalls
    /\ \/ phase = "starting" /\ warm # "off" /\ calls = 0 /\ c = Boot
       \/ phase = "serving"
    /\ calls' = calls + 1
    /\ overlap' = (overlap \/ \E d \in Callers : pc[d] # "idle")
    /\ IF setting = "off" THEN pc' = pc ELSE Goto(c, "check")
    /\ UNCHANGED <<setting, phase, warm, managed, proc, own, ret>>

\* A managed process that has exited is closed first.
CheckExited(c) ==
    /\ pc[c] = "check"
    /\ IF ManagedExited THEN CloseTo(c, "probe") ELSE Goto(c, "probe") /\ UNCHANGED ret
    /\ UNCHANGED <<setting, phase, warm, managed, proc, own, calls, overlap>>

\* The probe gives each URL one second, so it may miss a server that answers.
Probe(c) ==
    /\ pc[c] = "probe"
    /\ \/ EndpointReady /\ Goto(c, "idle")
       \/ Goto(c, "decide")
    /\ UNCHANGED <<setting, phase, warm, managed, proc, own, ret, calls, overlap>>

\* Alive, and the probe had no answer: restart.
Decide(c) ==
    /\ pc[c] = "decide"
    /\ IF IsServerAlive THEN CloseTo(c, "spawn") ELSE Goto(c, "spawn") /\ UNCHANGED ret
    /\ UNCHANGED <<setting, phase, warm, managed, proc, own, calls, overlap>>

\* _build_launch_config finds no executable or no model.
NoConfig(c) ==
    /\ pc[c] = "spawn" /\ setting = "unlaunchable"
    /\ Goto(c, "idle")
    /\ UNCHANGED <<setting, phase, warm, managed, proc, own, ret, calls, overlap>>

\* Popen raises: the request fails, or the service does not come up.
PopenFails(c) ==
    /\ pc[c] = "spawn" /\ setting = "on"
    /\ Goto(c, "idle")
    /\ phase' = IF phase = "starting" THEN "broken" ELSE phase
    /\ UNCHANGED <<setting, warm, managed, proc, own, ret, calls, overlap>>

Popen(c) ==
    /\ pc[c] = "spawn" /\ setting = "on"
    /\ \E p \in Procs :
        /\ proc[p] = "unborn"
        /\ proc' = [proc EXCEPT ![p] = "unbound"]
        /\ own' = [own EXCEPT ![c] = p]
    /\ Goto(c, "record")
    /\ UNCHANGED <<setting, phase, warm, managed, ret, calls, overlap>>

\* self._process = process: whatever it named before is forgotten.
Record(c) ==
    /\ pc[c] = "record"
    /\ managed' = own[c]
    /\ Goto(c, "wait")
    /\ UNCHANGED <<setting, phase, warm, proc, own, ret, calls, overlap>>

\* _wait_for_endpoint: the caller's process is dead, or some server answers.
WaitEnds(c) ==
    /\ pc[c] = "wait"
    /\ \/ ~Alive(own[c]) /\ CloseTo(c, "idle")
       \/ Alive(own[c]) /\ EndpointReady /\ Goto(c, "idle") /\ UNCHANGED ret
    /\ UNCHANGED <<setting, phase, warm, managed, proc, own, calls, overlap>>

\* Mutant: no deadline.
NoDeadline(c) == FALSE /\ UNCHANGED runtimeVars

\* Mutant: the call gives up, and leaves the process to itself.
GivesUp(c) ==
    /\ pc[c] = "wait" /\ Goto(c, "idle")
    /\ UNCHANGED <<setting, phase, warm, managed, proc, own, ret, calls, overlap>>

\* The deadline passes, even if the server has become ready since the last probe.
WaitTimesOut(c) ==
    /\ pc[c] = "wait"
    /\ CloseTo(c, "idle")
    /\ UNCHANGED <<setting, phase, warm, managed, proc, own, calls, overlap>>

---------------------------------------------------------------------------
(* close                                                                   *)

\* Mutant: close only forgets the process.
TakeOnly(c) ==
    /\ pc[c] = "take" /\ managed' = NoProc /\ Goto(c, ret[c])
    /\ UNCHANGED <<setting, phase, warm, proc, own, ret, calls, overlap>>

\* close() stops what self._process names now, which need not be what the
\* caller looked at.
Take(c) ==
    /\ pc[c] = "take"
    /\ managed' = NoProc
    /\ own' = [own EXCEPT ![c] = managed]
    /\ Goto(c, IF IsServerAlive THEN "kill" ELSE ret[c])
    /\ UNCHANGED <<setting, phase, warm, proc, ret, calls, overlap>>

\* terminate, wait five seconds, kill; a killed process is gone at once.
Kill(c) ==
    /\ pc[c] = "kill"
    /\ proc' = [proc EXCEPT ![own[c]] = IF Alive(own[c]) THEN "killed" ELSE @]
    /\ Goto(c, ret[c])
    /\ UNCHANGED <<setting, phase, warm, managed, own, ret, calls, overlap>>

---------------------------------------------------------------------------
(* The service: build_nlp_components and lifespan.                         *)

\* initialization_coordinator.start()
StartWarmUp ==
    /\ phase = "starting" /\ warm = "off"
    /\ warm' = "running"
    /\ UNCHANGED <<setting, phase, managed, proc, pc, own, ret, calls, overlap>>

\* The start-up call has returned: requests are served from now on.
Serve ==
    /\ phase = "starting" /\ calls = 1 /\ pc[Boot] = "idle"
    /\ phase' = "serving"
    /\ UNCHANGED <<setting, warm, managed, proc, pc, own, ret, calls, overlap>>

\* The server stops when the last request has ended, and closes the manager.
Shutdown ==
    /\ phase = "serving" /\ \A c \in Callers : pc[c] = "idle"
    /\ phase' = "stopping"
    /\ CloseTo(Boot, "stopped")
    /\ UNCHANGED <<setting, warm, managed, proc, own, calls, overlap>>

Stopped ==
    /\ phase = "stopping" /\ pc[Boot] = "stopped"
    /\ phase' = "stopped"
    /\ UNCHANGED <<setting, warm, managed, proc, pc, own, ret, calls, overlap>>

---------------------------------------------------------------------------
RuntimeInit ==
    /\ setting \in {"off", "unlaunchable", "on"}
    /\ phase = "starting" /\ warm = "off"
    /\ managed = NoProc
    /\ proc = [p \in Procs |-> "unborn"]
    /\ pc = [c \in Callers |-> "idle"]
    /\ own = [c \in Callers |-> NoProc]
    /\ ret = [c \in Callers |-> "idle"]
    /\ calls = 0 /\ overlap = FALSE

\* A caller goes on by itself; WaitEnds and WaitTimesOut end its wait.
Step(c) ==
    \/ CheckExited(c) \/ Probe(c) \/ Decide(c)
    \/ NoConfig(c) \/ PopenFails(c) \/ Popen(c) \/ Record(c)
    \/ WaitEnds(c) \/ WaitTimesOut(c)
    \/ Take(c) \/ Kill(c)

RuntimeNext ==
    \/ \E p \in Procs : Bind(p) \/ Loaded(p) \/ Stall(p) \/ Recover(p) \/ Crash(p)
    \/ \E c \in Callers : EnsureStarted(c) \/ Step(c)
    \/ WarmUpEnds \/ StartWarmUp \/ Serve \/ Shutdown \/ Stopped

\* Threads run, a deadline passes, the warm-up ends.  Child processes need not
\* do anything; one that is killed is gone.
Fairness ==
    /\ \A c \in Callers : WF_runtimeVars(Step(c))
    /\ WF_runtimeVars(WarmUpEnds) /\ WF_runtimeVars(StartWarmUp) /\ WF_runtimeVars(Serve) /\ WF_runtimeVars(Stopped)
    /\ WF_runtimeVars(EnsureStarted(Boot) /\ phase = "starting")

RuntimeSpec == RuntimeInit /\ [][RuntimeNext]_runtimeVars /\ Fairness

---------------------------------------------------------------------------
(* Properties                                                              *)

\* Every variable has a value of its kind.
RuntimeTypeOK ==
    /\ setting \in {"off", "unlaunchable", "on"}
    /\ phase \in {"starting", "serving", "stopping", "stopped", "broken"}
    /\ warm \in {"off", "running", "ready", "failed"}
    /\ managed \in Procs \cup {NoProc}
    /\ proc \in [Procs -> ProcStates]
    /\ pc \in [Callers -> Points]
    /\ own \in [Callers -> Procs \cup {NoProc}]
    /\ ret \in [Callers -> Returns]
    /\ calls \in Nat
    /\ overlap \in BOOLEAN

\* Somebody still answers for p: the manager, or a caller about to record or kill it.
Accounted(p) ==
    \/ managed = p
    \/ \E c \in Callers : own[c] = p /\ pc[c] \in {"record", "kill"}

\* A llama-server runs on with nobody to stop it only after two calls of
\* ensure_started have overlapped: one at a time they never lose a process, not
\* even when Popen fails, a wait times out or the service stops in between.
OrphanNeedsOverlap == \A p \in Procs : Alive(p) => Accounted(p) \/ overlap

\* Calls that do not overlap run one llama-server at a time: the one before is
\* gone before the next is started, although a probe may miss a server that is
\* slow.  Between such calls the manager keeps no process that never got ready:
\* whoever gives up waiting for it stops it.
OneServerAtATime ==
    ~overlap =>
        /\ \A p, q \in Procs : Alive(p) /\ Alive(q) => p = q
        /\ (\A c \in Callers : pc[c] = "idle") /\ IsServerAlive =>
              proc[managed] \in {"serving", "stalled"}

\* Every call of ensure_started ends, whatever the server and the other calls
\* do, and the start-up ends in a service that serves or has failed.
CallsEnd ==
    /\ \A c \in Callers : pc[c] \notin {"idle", "stopped"} ~> pc[c] \in {"idle", "stopped"}
    /\ <>(phase # "starting") /\ <>(warm \in {"ready", "failed"})
=============================================================================
