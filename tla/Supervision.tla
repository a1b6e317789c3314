----------------------------- MODULE Supervision -----------------------------
(***************************************************************************)
(* The production process: the operational daemon and the supervisor in    *)
(* the main thread, the capability thread that runs runtime cycles, and    *)
(* the diagnostic thread of the runtime (sentinel/worker/*, runtime.py).   *)
(*                                                                         *)
(* The supervisor knows two workers: "runtime" wraps SentinelRuntime.start *)
(* and stop, and "capability" owns the thread that calls run_once.  It     *)
(* starts them in this order and stops them in the reverse.  A stop waits  *)
(* for a thread with a timeout and then fails; neither thread can be       *)
(* cancelled, so a thread may outlive its stop, and the guards of start    *)
(* and stop are what keeps threads, cycles and shutdowns from overlapping. *)
(***************************************************************************)
EXTENDS Naturals, Sequences, FiniteSets

CONSTANTS CycleThreads,       \* threads a capability worker may create
          DiagnosticThreads,  \* threads the diagnostic coordinator may create
          None,
          MaxRetries,         \* RestartPolicy.max_retries
          MaxRuns,            \* bound: calls of run_forever
          MaxDeaths           \* bound: unexpected ends of a diagnostic thread

Workers == {"runtime", "capability"}

ASSUME ConstantsAreTyped ==
    /\ None \notin CycleThreads \cup DiagnosticThreads \cup Workers
    /\ {MaxRetries, MaxRuns, MaxDeaths} \subseteq Nat

VARIABLES
    \* OperationalDaemon and RuntimeSupervisor
    daemon, supervisor, stopRequested, main, attempts, heart,
    \* the two workers
    worker,
    \* SentinelCapabilityWorker: its threads, its _thread, its _stop_event
    cycler, cycleThread, cycleStop,
    \* SentinelRuntime: running, and the thread whose cycle is in progress
    running, cycle,
    \* RuntimeDiagnosticCoordinator: live threads, its _thread and _stop_event,
    \* and the runtime's _pending_diagnostic_thread
    diagnostic,
    \* history and bounds
    runs, deaths

daemonVars == <<daemon, supervisor, stopRequested, attempts, heart>>
cyclerVars == <<cycler, cycleThread, cycleStop>>
boundVars  == <<runs, deaths>>
vars == <<daemonVars, main, worker, cyclerVars, running, cycle, diagnostic,
          boundVars>>

----------------------------------------------------------------------------
StartOrder == <<"runtime", "capability">>
StopOrder  == <<"capability", "runtime">>

WorkerState  == {"REGISTERED", "STARTING", "RUNNING", "FAILED", "STOPPING", "STOPPED"}
ServiceState == {"STOPPED", "STARTING", "RUNNING", "STOPPING", "FAILED"}

\* Where the main thread is: starting the workers in todo, observing or
\* assessing them, stopping or restarting cur, or shutting down.
MainPcs == {"idle", "start", "loop", "observe", "assess", "stop", "join",
            "restart", "shutdown"}
Todos == {<<>>, <<"runtime">>, <<"capability">>, StartOrder, StopOrder}
MainThread == [pc : MainPcs, cur : Workers \cup {None}, todo : Todos,
               closing : BOOLEAN, failed : BOOLEAN]
MainIdle == [pc |-> "idle", todo |-> <<>>, cur |-> None, closing |-> FALSE,
             failed |-> FALSE]

Alive(t) == cycler[t] # "dead"
LiveCyclers == {t \in CycleThreads : Alive(t)}

\* SentinelRuntime.stop holds the lifecycle lock while it joins the diagnostics.
LifecycleLocked == main.pc = "join" /\ main.cur = "runtime"

\* Type invariant; a cycle is always some capability thread's.
TypeOK ==
    /\ daemon \in ServiceState /\ supervisor \in ServiceState
    /\ stopRequested \in BOOLEAN
    /\ attempts \in [Workers -> Nat]
    /\ heart \in [Workers -> {"none", "healthy", "unhealthy"}]
    /\ main \in MainThread
    /\ worker \in [Workers -> WorkerState]
    /\ cycler \in [CycleThreads -> {"dead", "wait", "begin", "cycle"}]
    /\ cycleThread \in CycleThreads \cup {None} /\ cycleStop \in BOOLEAN
    /\ running \in BOOLEAN
    /\ cycle \in CycleThreads \cup {None}
    /\ \A t \in CycleThreads : cycle = t <=> cycler[t] = "cycle"
    /\ diagnostic \in [alive : SUBSET DiagnosticThreads, stop : BOOLEAN,
                       thread : DiagnosticThreads \cup {None},
                       pending : DiagnosticThreads \cup {None}]
    /\ runs \in 0..MaxRuns /\ deaths \in 0..MaxDeaths

Init ==
    /\ daemon = "STOPPED" /\ supervisor = "STOPPED" /\ stopRequested = FALSE
    /\ main = MainIdle
    /\ attempts = [w \in Workers |-> 0]
    /\ heart = [w \in Workers |-> "none"]
    /\ worker = [w \in Workers |-> "REGISTERED"]
    /\ cycler = [t \in CycleThreads |-> "dead"]
    /\ cycleThread = None /\ cycleStop = FALSE
    /\ running = FALSE /\ cycle = None
    /\ diagnostic = [alive |-> {}, stop |-> FALSE, thread |-> None, pending |-> None]
    /\ runs = 0 /\ deaths = 0

----------------------------------------------------------------------------
(* Starting a worker.                                                      *)

MarkWorker(w, s) == worker' = [worker EXCEPT ![w] = s]
PendingAlive == diagnostic.pending \in diagnostic.alive

\* Fault: the runtime forgets a diagnostic thread that outlived its stop.
RuntimeStartsAnyway ==
    /\ running' = TRUE
    /\ \E t \in DiagnosticThreads \ diagnostic.alive :
           diagnostic' = [alive |-> diagnostic.alive \cup {t}, stop |-> FALSE,
                          thread |-> t, pending |-> None]
    /\ MarkWorker("runtime", "RUNNING")
    /\ UNCHANGED cyclerVars

\* SentinelRuntime.start: refused while a diagnostic thread outlives its stop;
\* otherwise the coordinator keeps its live thread or starts a new one.
RuntimeStarts ==
    /\ ~PendingAlive
    /\ running' = TRUE
    /\ IF diagnostic.thread \in diagnostic.alive
       THEN diagnostic' = [diagnostic EXCEPT !.pending = None]
       ELSE \E t \in DiagnosticThreads \ diagnostic.alive :
                diagnostic' = [alive |-> diagnostic.alive \cup {t}, stop |-> FALSE,
                               thread |-> t, pending |-> None]
    /\ MarkWorker("runtime", "RUNNING")
    /\ UNCHANGED cyclerVars

\* ... it raises, also when the coordinator cannot read its investigations.
RuntimeStartRaises ==
    /\ PendingAlive \/ diagnostic.thread \notin diagnostic.alive
    /\ running' = FALSE
    /\ diagnostic' = IF PendingAlive THEN diagnostic
                     ELSE [diagnostic EXCEPT !.pending = None, !.stop = FALSE]
    /\ MarkWorker("runtime", "FAILED")
    /\ UNCHANGED cyclerVars

\* Fault: the worker's state is taken for the state of its thread.
ThreadActiveByState == worker["capability"] = "RUNNING"

\* SentinelCapabilityWorker.start: no second thread beside a live one, and only
\* on a running runtime.  The thread waits until the worker is RUNNING.
ThreadActive == cycleThread # None /\ Alive(cycleThread)
CapabilityStarts ==
    /\ ~ThreadActive /\ running
    /\ \E t \in CycleThreads \ LiveCyclers :
           /\ cycler' = [cycler EXCEPT ![t] = "wait"]
           /\ cycleThread' = t
    /\ cycleStop' = FALSE
    /\ MarkWorker("capability", "RUNNING")
    /\ UNCHANGED <<running, diagnostic>>

CapabilityStartRaises ==
    /\ ThreadActive \/ ~running
    /\ IF ThreadActive THEN UNCHANGED <<worker, cycleStop>>
       ELSE cycleStop' = FALSE /\ MarkWorker("capability", "FAILED")
    /\ UNCHANGED <<cycler, cycleThread, running, diagnostic>>

Starts(w) == IF w = "runtime" THEN RuntimeStarts ELSE CapabilityStarts
StartRaises(w) == IF w = "runtime" THEN RuntimeStartRaises ELSE CapabilityStartRaises

----------------------------------------------------------------------------
(* The daemon in the main thread.                                          *)

MainAt(pc) == main.pc = pc
NextWorker == Head(main.todo)
Advance == [main EXCEPT !.todo = Tail(@), !.cur = None]

\* Fault: a new run starts with a new retry budget.
RunWithNewBudget ==
    /\ MainAt("idle") /\ runs < MaxRuns
    /\ daemon \in {"STOPPED", "FAILED"} /\ supervisor \in {"STOPPED", "FAILED"}
    /\ daemon' = "STARTING" /\ supervisor' = "STARTING"
    /\ stopRequested' = FALSE
    /\ main' = [MainIdle EXCEPT !.pc = "start", !.todo = StartOrder]
    /\ runs' = runs + 1
    /\ attempts' = [w \in Workers |-> 0]
    /\ UNCHANGED <<heart, worker, cyclerVars, running, cycle, diagnostic, deaths>>

\* run_forever forgets an earlier stop request.
RunForever ==
    /\ MainAt("idle") /\ runs < MaxRuns
    /\ daemon \in {"STOPPED", "FAILED"} /\ supervisor \in {"STOPPED", "FAILED"}
    /\ daemon' = "STARTING" /\ supervisor' = "STARTING"
    /\ stopRequested' = FALSE
    /\ main' = [MainIdle EXCEPT !.pc = "start", !.todo = StartOrder]
    /\ runs' = runs + 1
    /\ UNCHANGED <<attempts, heart, worker, cyclerVars, running, cycle, diagnostic,
                   deaths>>

\* RuntimeSupervisor.start: workers that already run are left alone.
StartWorker ==
    /\ MainAt("start") /\ main.todo # <<>>
    /\ \/ /\ worker[NextWorker] = "RUNNING"
          /\ UNCHANGED <<worker, cyclerVars, running, diagnostic>>
       \/ worker[NextWorker] # "RUNNING" /\ Starts(NextWorker)
    /\ main' = Advance
    /\ UNCHANGED <<daemonVars, cycle, boundVars>>

\* A worker that does not start ends run_forever; the others are left as they are.
StartFails ==
    /\ MainAt("start") /\ main.todo # <<>>
    /\ worker[NextWorker] # "RUNNING" /\ StartRaises(NextWorker)
    /\ supervisor' = "FAILED" /\ daemon' = "FAILED"
    /\ main' = MainIdle
    /\ UNCHANGED <<stopRequested, attempts, heart, cycle, boundVars>>

StartCompletes ==
    /\ MainAt("start") /\ main.todo = <<>>
    /\ supervisor' = "RUNNING" /\ daemon' = "RUNNING"
    /\ main' = [main EXCEPT !.pc = "loop"]
    /\ UNCHANGED <<stopRequested, attempts, heart, worker, cyclerVars, running, cycle,
                   diagnostic, boundVars>>

\* The loop of run_forever: stop, or one supervision cycle.
BeginCycle ==
    /\ MainAt("loop")
    /\ IF stopRequested
       THEN /\ daemon' = "STOPPING" /\ supervisor' = "STOPPING"
            /\ main' = [MainIdle EXCEPT !.pc = "shutdown", !.todo = StopOrder,
                                        !.closing = TRUE]
       ELSE /\ main' = [main EXCEPT !.pc = "observe", !.todo = StartOrder]
            /\ UNCHANGED <<daemon, supervisor>>
    /\ UNCHANGED <<stopRequested, attempts, heart, worker, cyclerVars, running, cycle,
                   diagnostic, boundVars>>

\* The health flag of a heartbeat; the runtime's also reads the runtime.
Heartbeat(w) == IF worker[w] = "RUNNING" /\ (w = "runtime" => running)
                THEN "healthy" ELSE "unhealthy"

\* supervise_once records a heartbeat of every worker.
Observe ==
    /\ MainAt("observe")
    /\ IF main.todo = <<>>
       THEN main' = [main EXCEPT !.pc = "assess", !.todo = StartOrder] /\ UNCHANGED heart
       ELSE /\ heart' = [heart EXCEPT ![NextWorker] = Heartbeat(NextWorker)]
            /\ main' = Advance
    /\ UNCHANGED <<daemon, supervisor, stopRequested, attempts, worker, cyclerVars,
                   running, cycle, diagnostic, boundVars>>

\* Fault: only a stale heartbeat asks for recovery.
NeedsRecoveryIfStale(w, stale) == stale

NeedsRecovery(w, stale) == \/ worker[w] = "FAILED"
                           \/ heart[w] = "unhealthy" \/ stale
HasRetry(w) == attempts[w] < MaxRetries

\* run_once asks recover for each worker that failed, is unhealthy or whose
\* heartbeat is stale; recover counts the attempt before it acts.
Assess ==
    /\ MainAt("assess")
    /\ IF main.todo = <<>>
       THEN main' = [main EXCEPT !.pc = "loop"] /\ UNCHANGED attempts
       ELSE \E stale \in BOOLEAN :
            IF NeedsRecovery(NextWorker, stale) /\ HasRetry(NextWorker)
               /\ worker[NextWorker] \in {"RUNNING", "FAILED", "STOPPED"}
            THEN /\ attempts' = [attempts EXCEPT ![NextWorker] = @ + 1]
                 /\ main' = [Advance EXCEPT !.cur = NextWorker,
                             !.pc = IF worker[NextWorker] = "RUNNING" THEN "stop"
                                    ELSE "restart"]
            ELSE main' = Advance /\ UNCHANGED attempts
    /\ UNCHANGED <<daemon, supervisor, stopRequested, heart, worker, cyclerVars, running,
                   cycle, diagnostic, boundVars>>

\* recover catches what start raises.
Restart ==
    /\ MainAt("restart")
    /\ main' = [main EXCEPT !.pc = "assess", !.cur = None]
    /\ \/ Starts(main.cur) /\ heart' = [heart EXCEPT ![main.cur] = "healthy"]
       \/ StartRaises(main.cur) /\ UNCHANGED heart
    /\ UNCHANGED <<daemon, supervisor, stopRequested, attempts, cycle, boundVars>>

\* RuntimeSupervisor.stop: stop the workers that run, and note the failures.
Shutdown ==
    /\ MainAt("shutdown") /\ main.todo # <<>>
    /\ main' = CASE worker[NextWorker] = "RUNNING" ->
                      [Advance EXCEPT !.pc = "stop", !.cur = NextWorker]
                 [] worker[NextWorker] \in {"REGISTERED", "STOPPED"} -> Advance
                 [] OTHER -> [Advance EXCEPT !.failed = TRUE]
    /\ UNCHANGED <<daemonVars, worker, cyclerVars, running, cycle, diagnostic, boundVars>>

ShutdownCompletes ==
    /\ MainAt("shutdown") /\ main.todo = <<>>
    /\ supervisor' = IF main.failed THEN "FAILED" ELSE "STOPPED"
    /\ daemon' = supervisor'
    /\ main' = MainIdle
    /\ UNCHANGED <<stopRequested, attempts, heart, worker, cyclerVars, running, cycle,
                   diagnostic, boundVars>>

----------------------------------------------------------------------------
(* Stopping the worker main.cur, for a shutdown or for a restart.          *)

Stopped == [main EXCEPT !.pc = IF main.closing THEN "shutdown" ELSE "restart",
                        !.cur = IF main.closing THEN None ELSE @]
StopFailed == [main EXCEPT !.pc = IF main.closing THEN "shutdown" ELSE "assess",
                           !.cur = None, !.failed = main.closing]

\* The worker left RUNNING since the supervisor looked at it.
StopRefused ==
    /\ MainAt("stop") /\ worker[main.cur] # "RUNNING"
    /\ main' = StopFailed
    /\ UNCHANGED <<daemonVars, worker, cyclerVars, running, cycle, diagnostic, boundVars>>

StopCapability ==
    /\ MainAt("stop") /\ main.cur = "capability" /\ worker["capability"] = "RUNNING"
    /\ MarkWorker("capability", "STOPPING")
    /\ cycleStop' = TRUE
    /\ main' = [main EXCEPT !.pc = "join"]
    /\ UNCHANGED <<daemonVars, cycler, cycleThread, running, cycle, diagnostic, boundVars>>

\* Fault: the thread is awaited without the shutdown timeout.
JoinForever ==
    /\ MainAt("join") /\ main.cur = "capability"
    /\ ~Alive(cycleThread)
    /\ IF worker["capability"] = "STOPPING"
       THEN MarkWorker("capability", "STOPPED") /\ main' = Stopped
       ELSE MarkWorker("capability", "FAILED") /\ main' = StopFailed
    /\ UNCHANGED <<daemonVars, cyclerVars, running, cycle, diagnostic, boundVars>>

\* Fault: a thread that is still alive after the timeout is taken as stopped.
JoinIgnored ==
    /\ MainAt("join") /\ main.cur = "capability"
    /\ IF worker["capability"] = "STOPPING"
       THEN MarkWorker("capability", "STOPPED") /\ main' = Stopped
       ELSE MarkWorker("capability", "FAILED") /\ main' = StopFailed
    /\ UNCHANGED <<daemonVars, cyclerVars, running, cycle, diagnostic, boundVars>>

\* The join ends with the thread, or after the timeout with the thread alive.
JoinCapability ==
    /\ MainAt("join") /\ main.cur = "capability"
    /\ IF ~Alive(cycleThread) /\ worker["capability"] = "STOPPING"
       THEN MarkWorker("capability", "STOPPED") /\ main' = Stopped
       ELSE MarkWorker("capability", "FAILED") /\ main' = StopFailed
    /\ UNCHANGED <<daemonVars, cyclerVars, running, cycle, diagnostic, boundVars>>

\* Fault: a capability worker that is not RUNNING is taken to have no cycle.
QuiescentByWorker == cycle = None \/ worker["capability"] # "RUNNING"

\* SentinelRuntime.stop refuses during a cycle, and while an earlier diagnostic
\* thread is alive.
Quiescent == cycle = None
StopRuntimeRefused ==
    /\ MainAt("stop") /\ main.cur = "runtime" /\ worker["runtime"] = "RUNNING"
    /\ ~Quiescent \/ PendingAlive
    /\ running' = (running /\ ~Quiescent)
    /\ MarkWorker("runtime", "FAILED")
    /\ main' = StopFailed
    /\ UNCHANGED <<daemonVars, cyclerVars, cycle, diagnostic, boundVars>>

\* ... otherwise it asks the diagnostic thread to stop and waits for it.
StopRuntime ==
    /\ MainAt("stop") /\ main.cur = "runtime" /\ worker["runtime"] = "RUNNING"
    /\ Quiescent /\ ~PendingAlive
    /\ MarkWorker("runtime", "STOPPING")
    /\ running' = FALSE
    /\ diagnostic' = [diagnostic EXCEPT !.stop = TRUE, !.thread = None,
                                        !.pending = diagnostic.thread]
    /\ main' = [main EXCEPT !.pc = "join"]
    /\ UNCHANGED <<daemonVars, cyclerVars, cycle, boundVars>>

\* A diagnostic thread that outlives the join stays pending.
JoinRuntime ==
    /\ MainAt("join") /\ main.cur = "runtime"
    /\ IF PendingAlive
       THEN MarkWorker("runtime", "FAILED") /\ main' = StopFailed /\ UNCHANGED diagnostic
       ELSE /\ MarkWorker("runtime", "STOPPED") /\ main' = Stopped
            /\ diagnostic' = [diagnostic EXCEPT !.pending = None]
    /\ UNCHANGED <<daemonVars, cyclerVars, running, cycle, boundVars>>

----------------------------------------------------------------------------
(* The capability thread.                                                  *)

CyclerGoes(t, pc) == cycler' = [cycler EXCEPT ![t] = pc]

\* _run records a failure unless the worker was stopped or failed before.
ThreadFails(t) ==
    /\ CyclerGoes(t, "dead")
    /\ worker' = IF worker["capability"] \in {"RUNNING", "STOPPING"}
                 THEN [worker EXCEPT !["capability"] = "FAILED"] ELSE worker

\* The interval ends: with the stop event set the thread ends, and a runtime
\* that is not running is a failure.
Tick(t) ==
    /\ cycler[t] = "wait"
    /\ \/ cycleStop /\ CyclerGoes(t, "dead") /\ UNCHANGED worker
       \/ ~cycleStop /\ running /\ CyclerGoes(t, "begin") /\ UNCHANGED worker
       \/ ~cycleStop /\ ~running /\ ThreadFails(t)
    /\ UNCHANGED <<daemonVars, main, cycleThread, cycleStop, running, cycle, diagnostic,
                   boundVars>>

\* SentinelRuntime.run_once under the lifecycle lock: nothing to do on a runtime
\* stopped meanwhile, and an overlapping cycle raises.
BeginRuntimeCycle(t) ==
    /\ cycler[t] = "begin" /\ ~LifecycleLocked
    /\ IF ~running THEN CyclerGoes(t, "wait") /\ UNCHANGED <<worker, cycle>>
       ELSE IF cycle = None
       THEN cycle' = t /\ CyclerGoes(t, "cycle") /\ UNCHANGED worker
       ELSE ThreadFails(t) /\ UNCHANGED cycle
    /\ UNCHANGED <<daemonVars, main, cycleThread, cycleStop, running, diagnostic,
                   boundVars>>

\* Fault: an unbounded failure leaves the cycle marked as in progress.
EndCycleLeaky(t) ==
    /\ cycler[t] = "cycle"
    /\ \/ CyclerGoes(t, "wait") /\ cycle' = None /\ UNCHANGED worker
       \/ ThreadFails(t) /\ UNCHANGED cycle
    /\ UNCHANGED <<daemonVars, main, cycleThread, cycleStop, running, diagnostic,
                   boundVars>>

\* The cycle completes, or an unbounded failure ends it and the thread.
EndRuntimeCycle(t) ==
    /\ cycler[t] = "cycle"
    /\ cycle' = None
    /\ \/ CyclerGoes(t, "wait") /\ UNCHANGED worker
       \/ ThreadFails(t)
    /\ UNCHANGED <<daemonVars, main, cycleThread, cycleStop, running, diagnostic,
                   boundVars>>

----------------------------------------------------------------------------
(* The diagnostic thread, and the signal handler.                          *)

\* The thread sees the stop event between two of its cycles.
DiagnosticEnds(t) ==
    /\ t \in diagnostic.alive /\ diagnostic.stop
    /\ diagnostic' = [diagnostic EXCEPT !.alive = @ \ {t}]
    /\ UNCHANGED <<daemonVars, main, worker, cyclerVars, running, cycle, boundVars>>

\* run_cycle reads an investigation outside its try block: the thread dies.
DiagnosticDies(t) ==
    /\ t \in diagnostic.alive /\ deaths < MaxDeaths
    /\ diagnostic' = [diagnostic EXCEPT !.alive = @ \ {t}]
    /\ deaths' = deaths + 1
    /\ UNCHANGED <<daemonVars, main, worker, cyclerVars, running, cycle, runs>>

\* SIGTERM or SIGINT while the process runs, or another thread's request.
RequestStop ==
    /\ ~stopRequested
    /\ stopRequested' = TRUE
    /\ UNCHANGED <<daemon, supervisor, attempts, heart, main, worker, cyclerVars, running,
                   cycle, diagnostic, boundVars>>

----------------------------------------------------------------------------
MainStep ==
    \/ RunForever \/ StartWorker \/ StartFails \/ StartCompletes
    \/ BeginCycle \/ Observe \/ Assess \/ Restart \/ Shutdown \/ ShutdownCompletes
    \/ StopRefused \/ StopCapability \/ JoinCapability
    \/ StopRuntimeRefused \/ StopRuntime \/ JoinRuntime
CyclerStep(t) == Tick(t) \/ BeginRuntimeCycle(t) \/ EndRuntimeCycle(t)

Next == \/ MainStep \/ RequestStop
        \/ \E t \in CycleThreads : CyclerStep(t)
        \/ \E t \in DiagnosticThreads : DiagnosticEnds(t) \/ DiagnosticDies(t)

Spec == Init /\ [][Next]_vars

\* Only the main thread is required to run: a runtime cycle or a diagnostic
\* command may hang, and run_forever is not required to be called.
FairSpec == Spec /\ WF_vars(MainStep /\ main.pc # "idle")

----------------------------------------------------------------------------
(* Properties.                                                             *)

\* A diagnostic thread that outlives its stop never works beside its successor,
\* whose start would clear the stop event both share (SentinelRuntime.start).
OneDiagnosticThread == Cardinality(diagnostic.alive) <= 1

\* A capability thread that outlives its stop is never joined by a second one,
\* also when the supervisor restarts the worker (SentinelCapabilityWorker.start).
OneCapabilityThread == Cardinality(LiveCyclers) <= 1

\* No worker of the process ever has two live threads, of either kind.
OneThreadEach == OneDiagnosticThread /\ OneCapabilityThread

\* When a run of the daemon ends cleanly nothing of it is left: no cycle, no
\* capability or diagnostic thread, and a runtime that is not running.
CleanStopIsQuiescent ==
    daemon = "STOPPED" => /\ ~running /\ cycle = None
                          /\ LiveCyclers = {} /\ diagnostic.alive = {}

\* The diagnostics of a runtime are never asked to stop during one of its
\* cycles, also when the capability worker did not stop in time
\* (SentinelRuntime.stop).
NoTeardownInCycle ==
    [][cycle # None /\ cycle' # None => (diagnostic'.stop => diagnostic.stop)]_vars

\* Retries are budgeted for the life of the supervisor, across failed runs.
RetriesAreForLife ==
    /\ [](\A w \in Workers : attempts[w] <= MaxRetries)
    /\ [][\A w \in Workers : attempts'[w] >= attempts[w]]_vars

\* A stop requested of a running daemon ends the run, although a cycle, a
\* diagnostic command or both may never end: every join has a timeout.
StopReturns == stopRequested /\ daemon = "RUNNING" ~> daemon \in {"STOPPED", "FAILED"}

\* A failed worker is restarted while its budget lasts, or the daemon stops.
FailureIsAnswered ==
    \A w \in Workers :
        daemon = "RUNNING" /\ worker[w] = "FAILED" /\ HasRetry(w)
            ~> worker[w] # "FAILED" \/ ~HasRetry(w) \/ daemon # "RUNNING"

=============================================================================
