-------------------------- MODULE Supervision_proofs --------------------------
(***************************************************************************)
(* One thread of each kind, no teardown during a cycle, a bounded number   *)
(* of restarts and a quiescent clean stop, for any threads and any bounds. *)
(***************************************************************************)
EXTENDS Supervision, FiniteSetTheorems, TLAPS

----------------------------------------------------------------------------
(***************************************************************************)
(* The inductive invariant.                                                *)
(***************************************************************************)

\* A worker that was never started or was stopped.
Settled(w) == worker[w] \in {"REGISTERED", "STOPPED"}

\* Every live capability thread is the one the worker knows.
CyclerIsKnown == LiveCyclers \subseteq {cycleThread}

\* Every live diagnostic thread is the coordinator's, or was given up by the
\* coordinator and is remembered by the runtime.
DiagnosticIsKnown ==
    \/ diagnostic.alive \subseteq {diagnostic.thread}
    \/ diagnostic.thread = None /\ diagnostic.alive \subseteq {diagnostic.pending}

\* The runtime that is being joined has no coordinator thread any more.
JoinedIsStopping ==
    main.pc = "join" /\ main.cur = "runtime" =>
        worker["runtime"] = "STOPPING" /\ ~running /\ diagnostic.thread = None

\* A worker that was never started, or was stopped, has left nothing behind.
SettledIsQuiet ==
    /\ Settled("capability") => LiveCyclers = {}
    /\ Settled("runtime") => ~running /\ diagnostic.alive = {}

\* A shutdown without a failure has settled the workers it has gone through.
ShutdownSettles ==
    /\ main.pc = "shutdown" => main.closing /\ main.cur = None
    /\ main.closing => /\ main.pc \in {"shutdown", "stop", "join"}
                       /\ main.todo \in {StopOrder, <<"runtime">>, <<>>}
    /\ main.closing /\ ~main.failed =>
           /\ main.todo # StopOrder /\ main.cur # "capability" => Settled("capability")
           /\ main.todo = <<>> /\ main.cur # "runtime" => Settled("runtime")

\* A daemon that reports STOPPED is idle, with both workers settled.
StoppedIsSettled ==
    daemon = "STOPPED" => main.pc = "idle" /\ \A w \in Workers : Settled(w)

\* No worker was restarted more often than the policy allows.
Budgeted == \A w \in Workers : attempts[w] <= MaxRetries

SupervisionInv ==
    /\ TypeOK /\ CyclerIsKnown /\ DiagnosticIsKnown /\ JoinedIsStopping
    /\ SettledIsQuiet /\ ShutdownSettles /\ StoppedIsSettled /\ Budgeted

----------------------------------------------------------------------------
(***************************************************************************)
(* The lists of workers.                                                   *)
(***************************************************************************)

\* What is left of a list of workers, and its first one.
LEMMA ListsOfWorkers ==
    /\ Head(StopOrder) = "capability" /\ Tail(StopOrder) = <<"runtime">>
    /\ Head(StartOrder) = "runtime" /\ Tail(StartOrder) = <<"capability">>
    /\ Head(<<"runtime">>) = "runtime" /\ Tail(<<"runtime">>) = <<>>
    /\ Head(<<"capability">>) = "capability" /\ Tail(<<"capability">>) = <<>>
    /\ StopOrder # <<>> /\ StopOrder # <<"runtime">> /\ <<"runtime">> # <<>>
    /\ StopOrder # StartOrder /\ StopOrder # <<"capability">>
    /\ <<"runtime">> # <<"capability">>
  BY DEF StopOrder, StartOrder

\* The next worker of a list, and what remains, are workers.
LEMMA NextIsWorker ==
    ASSUME TypeOK, main.todo # <<>>
    PROVE  NextWorker \in Workers /\ Tail(main.todo) \in Todos
  BY ListsOfWorkers DEF TypeOK, MainThread, NextWorker, Todos, Workers

----------------------------------------------------------------------------
(***************************************************************************)
(* Type correctness.                                                       *)
(***************************************************************************)

\* The bounds are numbers.
LEMMA Bounds == MaxRetries \in Nat /\ MaxRuns \in Nat /\ MaxDeaths \in Nat
  BY ConstantsAreTyped

\* The main thread at rest, and after a worker was started or stopped.
LEMMA MainStays ==
    ASSUME TypeOK
    PROVE  /\ MainIdle \in MainThread
           /\ main.todo # <<>> => Advance \in MainThread
           /\ Stopped \in MainThread /\ StopFailed \in MainThread
  <1>1. MainIdle \in MainThread
    BY DEF MainThread, MainIdle, MainPcs, Todos
  <1>2. main.todo # <<>> => Advance \in MainThread
    BY NextIsWorker DEF TypeOK, MainThread, Advance
  <1>3. Stopped \in MainThread /\ StopFailed \in MainThread
    BY DEF TypeOK, MainThread, Stopped, StopFailed, MainPcs
  <1> QED
    BY <1>1, <1>2, <1>3

\* A start changes the worker and what belongs to it.
LEMMA StartsType ==
    ASSUME TypeOK, NEW w, Starts(w) \/ StartRaises(w)
    PROVE  /\ worker' \in [Workers -> WorkerState]
           /\ cycler' \in [CycleThreads -> {"dead", "wait", "begin", "cycle"}]
           /\ cycleThread' \in CycleThreads \cup {None} /\ cycleStop' \in BOOLEAN
           /\ \A t \in CycleThreads : cycler'[t] = "cycle" <=> cycler[t] = "cycle"
           /\ running' \in BOOLEAN
           /\ diagnostic' \in [alive : SUBSET DiagnosticThreads, stop : BOOLEAN,
                               thread : DiagnosticThreads \cup {None},
                               pending : DiagnosticThreads \cup {None}]
  <1> USE DEF TypeOK, MarkWorker, cyclerVars, Workers, WorkerState
  <1>1. CASE RuntimeStarts
    <2>1. CASE diagnostic.thread \in diagnostic.alive
      BY <1>1, <2>1 DEF RuntimeStarts
    <2>2. CASE diagnostic.thread \notin diagnostic.alive
      <3>1. PICK t \in DiagnosticThreads \ diagnostic.alive :
                diagnostic' = [alive |-> diagnostic.alive \cup {t}, stop |-> FALSE,
                               thread |-> t, pending |-> None]
        BY <1>1, <2>2 DEF RuntimeStarts
      <3> QED
        BY <1>1, <3>1 DEF RuntimeStarts
    <2> QED
      BY <2>1, <2>2
  <1>2. CASE RuntimeStartRaises
    <2>1. [diagnostic EXCEPT !.pending = None, !.stop = FALSE] \in
              [alive : SUBSET DiagnosticThreads, stop : BOOLEAN,
               thread : DiagnosticThreads \cup {None},
               pending : DiagnosticThreads \cup {None}]
      OBVIOUS
    <2> QED
      BY <1>2, <2>1 DEF RuntimeStartRaises
  <1>3. CASE CapabilityStarts
    BY <1>3 DEF CapabilityStarts, LiveCyclers, Alive
  <1>4. CASE CapabilityStartRaises
    BY <1>4 DEF CapabilityStartRaises
  <1> QED
    BY <1>1, <1>2, <1>3, <1>4 DEF Starts, StartRaises

\* A step preserves the type invariant.
LEMMA TypeStep ==
    ASSUME TypeOK, [Next]_vars
    PROVE  TypeOK'
  <1> USE DEF daemonVars, cyclerVars, boundVars, MainAt
  <1>1. ASSUME RunForever PROVE TypeOK'
    <2>1. main' \in MainThread
      BY <1>1, MainStays DEF RunForever, MainThread, MainIdle, MainPcs, Todos
    <2>2. runs' \in 0..MaxRuns
      BY <1>1, Bounds DEF RunForever, TypeOK
    <2> QED
      BY <1>1, <2>1, <2>2 DEF TypeOK, RunForever, ServiceState
  <1>2. ASSUME StartWorker PROVE TypeOK'
    <2>1. main' \in MainThread
      BY <1>2, MainStays DEF StartWorker
    <2> QED
      BY <1>2, <2>1, StartsType DEF TypeOK, StartWorker
  <1>3. ASSUME StartFails PROVE TypeOK'
    <2>1. main' \in MainThread
      BY <1>3, MainStays DEF StartFails
    <2> QED
      BY <1>3, <2>1, StartsType DEF TypeOK, StartFails, ServiceState
  <1>4. ASSUME StartCompletes PROVE TypeOK'
    <2>1. main' \in MainThread
      BY <1>4 DEF StartCompletes, TypeOK, MainThread, MainPcs
    <2> QED
      BY <1>4, <2>1 DEF TypeOK, StartCompletes, ServiceState
  <1>5. ASSUME BeginCycle PROVE TypeOK'
    <2>1. main' \in MainThread
      <3>1. [MainIdle EXCEPT !.pc = "shutdown", !.todo = StopOrder, !.closing = TRUE]
                \in MainThread
        BY DEF MainThread, MainIdle, MainPcs, Todos
      <3>2. [main EXCEPT !.pc = "observe", !.todo = StartOrder] \in MainThread
        BY DEF TypeOK, MainThread, MainPcs, Todos
      <3> QED
        BY <1>5, <3>1, <3>2 DEF BeginCycle
    <2> QED
      BY <1>5, <2>1 DEF TypeOK, BeginCycle, ServiceState
  <1>6. ASSUME Observe PROVE TypeOK'
    <2>1. main' \in MainThread
      <3>1. [main EXCEPT !.pc = "assess", !.todo = StartOrder] \in MainThread
        BY DEF TypeOK, MainThread, MainPcs, Todos
      <3> QED
        BY <1>6, <3>1, MainStays DEF Observe
    <2> QED
      BY <1>6, <2>1, NextIsWorker DEF TypeOK, Observe, Heartbeat
  <1>7. ASSUME Assess PROVE TypeOK'
    <2>1. main' \in MainThread
      <3>1. [main EXCEPT !.pc = "loop"] \in MainThread
        BY DEF TypeOK, MainThread, MainPcs
      <3>2. ASSUME main.todo # <<>>, NEW pc \in {"stop", "restart"}
            PROVE  [Advance EXCEPT !.cur = NextWorker, !.pc = pc] \in MainThread
        BY <3>2, MainStays, NextIsWorker DEF MainThread, MainPcs
      <3>3. CASE main.todo = <<>>
        BY <1>7, <3>1, <3>3 DEF Assess
      <3>4. CASE main.todo # <<>>
        <4>1. \/ main' = Advance
              \/ main' = [Advance EXCEPT !.cur = NextWorker, !.pc = "stop"]
              \/ main' = [Advance EXCEPT !.cur = NextWorker, !.pc = "restart"]
          BY <1>7, <3>4 DEF Assess
        <4> QED
          BY <3>2, <3>4, <4>1, MainStays
      <3> QED
        BY <3>3, <3>4
    <2>2. attempts' \in [Workers -> Nat]
      BY <1>7, NextIsWorker DEF Assess, TypeOK
    <2> QED
      BY <1>7, <2>1, <2>2 DEF TypeOK, Assess
  <1>8. ASSUME Restart PROVE TypeOK'
    <2>1. main' \in MainThread
      BY <1>8 DEF Restart, TypeOK, MainThread, MainPcs
    <2> QED
      BY <1>8, <2>1, StartsType DEF TypeOK, Restart
  <1>9. ASSUME Shutdown PROVE TypeOK'
    <2>1. main' \in MainThread
      BY <1>9, MainStays, NextIsWorker DEF Shutdown, TypeOK, MainThread, MainPcs
    <2> QED
      BY <1>9, <2>1 DEF TypeOK, Shutdown
  <1>10. ASSUME ShutdownCompletes PROVE TypeOK'
    <2>1. main' \in MainThread
      BY <1>10, MainStays DEF ShutdownCompletes
    <2> QED
      BY <1>10, <2>1 DEF TypeOK, ShutdownCompletes, ServiceState
  <1>11. ASSUME StopRefused PROVE TypeOK'
    <2>1. main' \in MainThread
      BY <1>11, MainStays DEF StopRefused
    <2> QED
      BY <1>11, <2>1 DEF TypeOK, StopRefused
  <1>12. ASSUME StopCapability PROVE TypeOK'
    <2>1. main' \in MainThread
      BY <1>12 DEF StopCapability, TypeOK, MainThread, MainPcs
    <2> QED
      BY <1>12, <2>1 DEF TypeOK, StopCapability, MarkWorker, WorkerState
  <1>13. ASSUME JoinCapability PROVE TypeOK'
    <2>1. main' \in MainThread
      BY <1>13, MainStays DEF JoinCapability
    <2> QED
      BY <1>13, <2>1 DEF TypeOK, JoinCapability, MarkWorker, WorkerState
  <1>14. ASSUME StopRuntimeRefused PROVE TypeOK'
    <2>1. main' \in MainThread
      BY <1>14, MainStays DEF StopRuntimeRefused
    <2> QED
      BY <1>14, <2>1 DEF TypeOK, StopRuntimeRefused, MarkWorker, WorkerState
  <1>15. ASSUME StopRuntime PROVE TypeOK'
    <2>1. main' \in MainThread
      BY <1>15 DEF StopRuntime, TypeOK, MainThread, MainPcs
    <2> QED
      BY <1>15, <2>1 DEF TypeOK, StopRuntime, MarkWorker, WorkerState
  <1>16. ASSUME JoinRuntime PROVE TypeOK'
    <2>1. main' \in MainThread
      BY <1>16, MainStays DEF JoinRuntime
    <2> QED
      BY <1>16, <2>1 DEF TypeOK, JoinRuntime, MarkWorker, WorkerState
  <1>17. ASSUME RequestStop PROVE TypeOK'
    BY <1>17 DEF TypeOK, RequestStop
  <1>18. ASSUME NEW t \in CycleThreads, Tick(t) PROVE TypeOK'
    BY <1>18, ConstantsAreTyped DEF TypeOK, Tick, ThreadFails, CyclerGoes, WorkerState
  <1>19. ASSUME NEW t \in CycleThreads, BeginRuntimeCycle(t) PROVE TypeOK'
    BY <1>19, ConstantsAreTyped DEF TypeOK, BeginRuntimeCycle, ThreadFails, CyclerGoes, WorkerState
  <1>20. ASSUME NEW t \in CycleThreads, EndRuntimeCycle(t) PROVE TypeOK'
    BY <1>20, ConstantsAreTyped DEF TypeOK, EndRuntimeCycle, ThreadFails, CyclerGoes, WorkerState
  <1>21. ASSUME NEW t \in DiagnosticThreads, DiagnosticEnds(t) PROVE TypeOK'
    BY <1>21 DEF TypeOK, DiagnosticEnds
  <1>22. ASSUME NEW t \in DiagnosticThreads, DiagnosticDies(t) PROVE TypeOK'
    BY <1>22, Bounds DEF TypeOK, DiagnosticDies
  <1>23. ASSUME UNCHANGED vars PROVE TypeOK'
    BY <1>23 DEF TypeOK, vars
  <1> QED
    BY <1>1, <1>2, <1>3, <1>4, <1>5, <1>6, <1>7, <1>8,
       <1>9, <1>10, <1>11, <1>12, <1>13, <1>14, <1>15, <1>16,
       <1>17, <1>18, <1>19, <1>20, <1>21, <1>22, <1>23
    DEF Next, MainStep, CyclerStep

----------------------------------------------------------------------------
(***************************************************************************)
(* The threads and the workers they belong to.                             *)
(***************************************************************************)

\* What is known of the threads, and of the workers they belong to.
ThreadInv == CyclerIsKnown /\ DiagnosticIsKnown /\ JoinedIsStopping /\ SettledIsQuiet

\* A step of the main thread that leaves the workers and threads alone.
LEMMA QuietMainStep ==
    ASSUME ThreadInv, UNCHANGED <<worker, cyclerVars, running, diagnostic>>,
           main'.pc # "join" \/ UNCHANGED main
    PROVE  ThreadInv'
  BY DEF ThreadInv, CyclerIsKnown, DiagnosticIsKnown, JoinedIsStopping, SettledIsQuiet,
         Settled, LiveCyclers, Alive, cyclerVars

\* A start: no second capability thread beside a live one, and no diagnostic
\* thread beside one that outlived its stop.
LEMMA StartsKeepThreads ==
    ASSUME TypeOK, ThreadInv, NEW w, Starts(w) \/ StartRaises(w), main'.pc # "join"
    PROVE  ThreadInv'
  <1> USE DEF ThreadInv, MarkWorker, cyclerVars, Workers, LiveCyclers, Alive
  <1>1. CASE RuntimeStarts
    <2>1. CyclerIsKnown' /\ JoinedIsStopping'
      BY <1>1 DEF RuntimeStarts, CyclerIsKnown, JoinedIsStopping
    <2>2. DiagnosticIsKnown'
      <3>1. CASE diagnostic.thread \in diagnostic.alive
        BY <1>1, <3>1, ConstantsAreTyped
        DEF RuntimeStarts, DiagnosticIsKnown, TypeOK
      <3>2. CASE diagnostic.thread \notin diagnostic.alive
        <4>1. diagnostic.alive = {}
          BY <1>1, <3>2 DEF RuntimeStarts, DiagnosticIsKnown, PendingAlive, TypeOK
        <4>2. PICK t \in DiagnosticThreads :
                  diagnostic' = [alive |-> diagnostic.alive \cup {t}, stop |-> FALSE,
                                 thread |-> t, pending |-> None]
          BY <1>1, <3>2 DEF RuntimeStarts
        <4> QED
          BY <4>1, <4>2 DEF DiagnosticIsKnown
      <3> QED
        BY <3>1, <3>2
    <2>3. SettledIsQuiet'
      BY <1>1 DEF RuntimeStarts, SettledIsQuiet, Settled, TypeOK
    <2> QED
      BY <2>1, <2>2, <2>3
  <1>2. CASE RuntimeStartRaises
    <2>1. CyclerIsKnown' /\ JoinedIsStopping'
      BY <1>2 DEF RuntimeStartRaises, CyclerIsKnown, JoinedIsStopping
    <2>2. DiagnosticIsKnown'
      <3>1. CASE PendingAlive
        BY <1>2, <3>1 DEF RuntimeStartRaises, DiagnosticIsKnown
      <3>2. CASE ~PendingAlive
        <4>1. diagnostic.alive = {}
          BY <1>2, <3>2 DEF RuntimeStartRaises, DiagnosticIsKnown, PendingAlive, TypeOK
        <4> QED
          BY <1>2, <3>2, <4>1 DEF RuntimeStartRaises, DiagnosticIsKnown, TypeOK
      <3> QED
        BY <3>1, <3>2
    <2>3. SettledIsQuiet'
      BY <1>2 DEF RuntimeStartRaises, SettledIsQuiet, Settled, TypeOK
    <2> QED
      BY <2>1, <2>2, <2>3
  <1>3. CASE CapabilityStarts
    <2>1. LiveCyclers = {}
      BY <1>3, ConstantsAreTyped DEF CapabilityStarts, ThreadActive, CyclerIsKnown
    <2>2. CyclerIsKnown'
      BY <1>3, <2>1 DEF CapabilityStarts, CyclerIsKnown, TypeOK
    <2>3. DiagnosticIsKnown' /\ JoinedIsStopping'
      BY <1>3 DEF CapabilityStarts, DiagnosticIsKnown, JoinedIsStopping
    <2>4. SettledIsQuiet'
      BY <1>3 DEF CapabilityStarts, SettledIsQuiet, Settled, TypeOK
    <2> QED
      BY <2>2, <2>3, <2>4
  <1>4. CASE CapabilityStartRaises
    <2>1. CyclerIsKnown' /\ DiagnosticIsKnown' /\ JoinedIsStopping'
      BY <1>4 DEF CapabilityStartRaises, CyclerIsKnown, DiagnosticIsKnown, JoinedIsStopping
    <2>2. SettledIsQuiet'
      BY <1>4 DEF CapabilityStartRaises, SettledIsQuiet, Settled, TypeOK
    <2> QED
      BY <2>1, <2>2
  <1> QED
    BY <1>1, <1>2, <1>3, <1>4 DEF Starts, StartRaises

\* A step of a capability thread starts no other one, and marks no settled
\* worker.
LEMMA CyclerKeepsThreads ==
    ASSUME TypeOK, ThreadInv, NEW t \in CycleThreads, CyclerStep(t)
    PROVE  ThreadInv'
  <1> USE DEF cyclerVars, boundVars, daemonVars, CyclerGoes, ThreadFails
  <1>1. /\ UNCHANGED <<main, cycleThread, running, diagnostic>>
        /\ \E l \in {"dead", "wait", "begin", "cycle"} : cycler' = [cycler EXCEPT ![t] = l]
        /\ t \in LiveCyclers
    BY DEF CyclerStep, Tick, BeginRuntimeCycle, EndRuntimeCycle, LiveCyclers, Alive
  <1>2. /\ worker'["runtime"] = worker["runtime"]
        /\ worker'["capability"] # worker["capability"] =>
               worker'["capability"] = "FAILED"
    BY DEF CyclerStep, Tick, BeginRuntimeCycle, EndRuntimeCycle, TypeOK, Workers
  <1>3. LiveCyclers' \subseteq LiveCyclers
    BY <1>1 DEF LiveCyclers, Alive, TypeOK
  <1> QED
    BY <1>1, <1>2, <1>3
    DEF ThreadInv, CyclerIsKnown, DiagnosticIsKnown, JoinedIsStopping, SettledIsQuiet, Settled

\* A step preserves what is known of the threads.
LEMMA ThreadStep ==
    ASSUME TypeOK, ThreadInv, [Next]_vars
    PROVE  ThreadInv'
  <1> USE DEF daemonVars, cyclerVars, boundVars, MainAt
  <1>1. ASSUME RunForever PROVE ThreadInv'
    <2>1. main'.pc # "join" /\ UNCHANGED <<worker, cyclerVars, running, diagnostic>>
      BY <1>1 DEF RunForever, MainIdle
    <2> QED
      BY <2>1, QuietMainStep
  <1>2. ASSUME StartCompletes PROVE ThreadInv'
    <2>1. main'.pc # "join" /\ UNCHANGED <<worker, cyclerVars, running, diagnostic>>
      BY <1>2 DEF StartCompletes, TypeOK, MainThread
    <2> QED
      BY <2>1, QuietMainStep
  <1>3. ASSUME BeginCycle PROVE ThreadInv'
    <2>1. main'.pc # "join" /\ UNCHANGED <<worker, cyclerVars, running, diagnostic>>
      BY <1>3 DEF BeginCycle, TypeOK, MainThread, MainIdle
    <2> QED
      BY <2>1, QuietMainStep
  <1>4. ASSUME Observe PROVE ThreadInv'
    <2>1. main'.pc # "join" /\ UNCHANGED <<worker, cyclerVars, running, diagnostic>>
      BY <1>4 DEF Observe, TypeOK, MainThread, Advance
    <2> QED
      BY <2>1, QuietMainStep
  <1>5. ASSUME Assess PROVE ThreadInv'
    <2>1. main'.pc # "join" /\ UNCHANGED <<worker, cyclerVars, running, diagnostic>>
      BY <1>5 DEF Assess, TypeOK, MainThread, Advance
    <2> QED
      BY <2>1, QuietMainStep
  <1>6. ASSUME Shutdown PROVE ThreadInv'
    <2>1. main'.pc # "join" /\ UNCHANGED <<worker, cyclerVars, running, diagnostic>>
      BY <1>6 DEF Shutdown, TypeOK, MainThread, Advance
    <2> QED
      BY <2>1, QuietMainStep
  <1>7. ASSUME ShutdownCompletes PROVE ThreadInv'
    <2>1. main'.pc # "join" /\ UNCHANGED <<worker, cyclerVars, running, diagnostic>>
      BY <1>7 DEF ShutdownCompletes, MainIdle
    <2> QED
      BY <2>1, QuietMainStep
  <1>8. ASSUME StopRefused PROVE ThreadInv'
    <2>1. main'.pc # "join" /\ UNCHANGED <<worker, cyclerVars, running, diagnostic>>
      BY <1>8 DEF StopRefused, TypeOK, MainThread, StopFailed
    <2> QED
      BY <2>1, QuietMainStep
  <1>9. ASSUME StartWorker PROVE ThreadInv'
    <2>1. main'.pc # "join"
      BY <1>9 DEF StartWorker, Advance, TypeOK, MainThread
    <2> QED
      BY <1>9, <2>1, QuietMainStep, StartsKeepThreads DEF StartWorker
  <1>10. ASSUME StartFails PROVE ThreadInv'
    BY <1>10, StartsKeepThreads DEF StartFails, MainIdle
  <1>11. ASSUME Restart PROVE ThreadInv'
    <2>1. main'.pc # "join"
      BY <1>11 DEF Restart, TypeOK, MainThread
    <2> QED
      BY <1>11, <2>1, StartsKeepThreads DEF Restart
  <1>12. ASSUME StopCapability PROVE ThreadInv'
    <2>1. /\ main'.cur = "capability" /\ worker'["capability"] = "STOPPING"
          /\ worker'["runtime"] = worker["runtime"]
      BY <1>12 DEF StopCapability, MarkWorker, TypeOK, MainThread, Workers
    <2> QED
      BY <1>12, <2>1
      DEF StopCapability, ThreadInv, LiveCyclers, Alive, CyclerIsKnown, DiagnosticIsKnown,
          JoinedIsStopping, SettledIsQuiet, Settled
  <1>13. ASSUME JoinCapability PROVE ThreadInv'
    <2>1. main'.pc # "join"
      BY <1>13 DEF JoinCapability, Stopped, StopFailed, TypeOK, MainThread
    <2>2. /\ worker'["runtime"] = worker["runtime"]
          /\ worker'["capability"] = "FAILED" \/ ~Alive(cycleThread)
      BY <1>13 DEF JoinCapability, MarkWorker, TypeOK, Workers
    <2>3. UNCHANGED <<cycler, cycleThread, running, diagnostic>>
      BY <1>13 DEF JoinCapability
    <2>4. CyclerIsKnown' /\ DiagnosticIsKnown' /\ JoinedIsStopping'
      BY <2>1, <2>3
      DEF ThreadInv, LiveCyclers, Alive, CyclerIsKnown, DiagnosticIsKnown, JoinedIsStopping
    <2>5. ~Alive(cycleThread) => LiveCyclers = {}
      BY DEF ThreadInv, LiveCyclers, CyclerIsKnown
    <2>6. SettledIsQuiet'
      BY <2>2, <2>3, <2>5 DEF ThreadInv, LiveCyclers, Alive, SettledIsQuiet, Settled
    <2> QED
      BY <2>4, <2>6 DEF ThreadInv
  <1>14. ASSUME StopRuntimeRefused PROVE ThreadInv'
    <2>1. main'.pc # "join"
      BY <1>14 DEF StopRuntimeRefused, StopFailed, TypeOK, MainThread
    <2>2. worker'["capability"] = worker["capability"] /\ worker'["runtime"] = "FAILED"
      BY <1>14 DEF StopRuntimeRefused, MarkWorker, TypeOK, Workers
    <2> QED
      BY <1>14, <2>1, <2>2
      DEF StopRuntimeRefused, ThreadInv, LiveCyclers, Alive, CyclerIsKnown,
          DiagnosticIsKnown, JoinedIsStopping, SettledIsQuiet, Settled
  <1>15. ASSUME StopRuntime PROVE ThreadInv'
    <2>1. worker'["capability"] = worker["capability"] /\ worker'["runtime"] = "STOPPING"
      BY <1>15 DEF StopRuntime, MarkWorker, TypeOK, Workers
    <2>2. /\ diagnostic'.alive = diagnostic.alive /\ diagnostic'.thread = None
          /\ diagnostic'.pending = diagnostic.thread
      BY <1>15 DEF StopRuntime, TypeOK
    <2>3. DiagnosticIsKnown'
      BY <1>15, <2>2 DEF StopRuntime, ThreadInv, DiagnosticIsKnown, PendingAlive
    <2>4. JoinedIsStopping'
      BY <1>15, <2>1, <2>2 DEF StopRuntime, JoinedIsStopping
    <2> QED
      BY <1>15, <2>1, <2>3, <2>4
      DEF StopRuntime, ThreadInv, CyclerIsKnown, SettledIsQuiet, Settled, LiveCyclers, Alive
  <1>16. ASSUME JoinRuntime PROVE ThreadInv'
    <2>1. main'.pc # "join"
      BY <1>16 DEF JoinRuntime, Stopped, StopFailed, TypeOK, MainThread
    <2>2. /\ worker'["capability"] = worker["capability"]
          /\ worker'["runtime"] = "FAILED" \/ ~PendingAlive
      BY <1>16 DEF JoinRuntime, MarkWorker, TypeOK, Workers
    <2>3. ~running /\ diagnostic.thread = None /\ running' = running
      BY <1>16 DEF JoinRuntime, ThreadInv, JoinedIsStopping
    <2>4. ~PendingAlive => diagnostic.alive = {}
      BY <2>3, ConstantsAreTyped DEF ThreadInv, DiagnosticIsKnown, PendingAlive, TypeOK
    <2>5. diagnostic'.alive = diagnostic.alive /\ diagnostic'.thread = diagnostic.thread
      BY <1>16 DEF JoinRuntime, TypeOK
    <2>6. DiagnosticIsKnown'
      BY <1>16, <2>4, <2>5 DEF JoinRuntime, ThreadInv, DiagnosticIsKnown
    <2>7. CyclerIsKnown' /\ JoinedIsStopping'
      BY <1>16, <2>1
      DEF JoinRuntime, ThreadInv, CyclerIsKnown, JoinedIsStopping, LiveCyclers, Alive
    <2>8. Settled("capability")' => LiveCyclers' = {}
      BY <1>16, <2>2
      DEF JoinRuntime, ThreadInv, SettledIsQuiet, Settled, LiveCyclers, Alive
    <2>9. Settled("runtime")' => ~running' /\ diagnostic'.alive = {}
      BY <2>2, <2>3, <2>4, <2>5 DEF Settled
    <2> QED
      BY <2>6, <2>7, <2>8, <2>9 DEF ThreadInv, SettledIsQuiet
  <1>17. ASSUME RequestStop PROVE ThreadInv'
    BY <1>17, QuietMainStep DEF RequestStop
  <1>18. ASSUME NEW t \in CycleThreads, CyclerStep(t) PROVE ThreadInv'
    BY <1>18, CyclerKeepsThreads
  <1>19. ASSUME NEW t \in DiagnosticThreads, DiagnosticEnds(t) \/ DiagnosticDies(t) PROVE ThreadInv'
    <2>1. /\ diagnostic' = [diagnostic EXCEPT !.alive = @ \ {t}]
          /\ UNCHANGED <<main, worker, cycler, cycleThread, running>>
      BY <1>19 DEF DiagnosticEnds, DiagnosticDies
    <2>2. /\ diagnostic'.alive \subseteq diagnostic.alive
          /\ diagnostic'.thread = diagnostic.thread /\ diagnostic'.pending = diagnostic.pending
      BY <2>1 DEF TypeOK
    <2> QED
      BY <2>1, <2>2
      DEF ThreadInv, LiveCyclers, Alive, CyclerIsKnown, DiagnosticIsKnown,
          JoinedIsStopping, SettledIsQuiet, Settled
  <1>20. ASSUME UNCHANGED vars PROVE ThreadInv'
    BY <1>20, QuietMainStep DEF vars
  <1> QED
    BY <1>1, <1>2, <1>3, <1>4, <1>5, <1>6, <1>7, <1>8,
       <1>9, <1>10, <1>11, <1>12, <1>13, <1>14, <1>15, <1>16,
       <1>17, <1>18, <1>19, <1>20
    DEF Next, MainStep

----------------------------------------------------------------------------
(***************************************************************************)
(* The daemon, its shutdowns and its retries.                              *)
(***************************************************************************)

\* What is known of the daemon and its shutdowns.
DaemonInv == ShutdownSettles /\ StoppedIsSettled /\ Budgeted

\* Only run_forever leaves the idle main thread, and only a shutdown closes.
LEMMA OpenMainThread ==
    ASSUME DaemonInv
    PROVE  /\ main.pc # "idle" => daemon # "STOPPED"
           /\ main.pc \notin {"shutdown", "stop", "join"} => ~main.closing
  BY DEF DaemonInv, StoppedIsSettled, ShutdownSettles

\* A step before a shutdown preserves the invariant when it stays before it.
LEMMA BeforeShutdown ==
    ASSUME DaemonInv, main'.pc # "shutdown", ~main'.closing, daemon' # "STOPPED",
           \A w \in Workers : attempts'[w] <= MaxRetries
    PROVE  DaemonInv'
  BY DEF DaemonInv, ShutdownSettles, StoppedIsSettled, Budgeted

\* A step that leaves the main thread alone and unsettles no worker.
LEMMA BesideMainThread ==
    ASSUME DaemonInv, UNCHANGED <<main, daemon, attempts>>,
           \A w \in Workers : Settled(w) => Settled(w)'
    PROVE  DaemonInv'
  BY DEF DaemonInv, ShutdownSettles, StoppedIsSettled, Budgeted, Workers

\* A worker whose stop failed is noted, and what follows is no clean shutdown.
LEMMA FailedStop ==
    ASSUME TypeOK, DaemonInv, main.pc \in {"stop", "join"}, main' = StopFailed,
           UNCHANGED <<daemon, attempts>>
    PROVE  DaemonInv'
  <1>1. /\ main'.pc = (IF main.closing THEN "shutdown" ELSE "assess")
        /\ main'.closing = main.closing /\ main'.failed = main.closing
        /\ main'.todo = main.todo /\ main'.cur = None
    BY DEF StopFailed, TypeOK, MainThread
  <1>2. daemon # "STOPPED"
    BY OpenMainThread
  <1> QED
    BY <1>1, <1>2
    DEF DaemonInv, ShutdownSettles, StoppedIsSettled, Budgeted, TypeOK, MainThread

\* A worker that stopped is settled when the shutdown goes on.
LEMMA CleanStop ==
    ASSUME TypeOK, DaemonInv, main.pc = "join", main.cur \in Workers, main' = Stopped,
           worker' = [worker EXCEPT ![main.cur] = "STOPPED"],
           UNCHANGED <<daemon, attempts>>
    PROVE  DaemonInv'
  <1>1. /\ main'.pc = (IF main.closing THEN "shutdown" ELSE "restart")
        /\ main'.closing = main.closing /\ main'.failed = main.failed
        /\ main'.todo = main.todo
        /\ main'.cur = (IF main.closing THEN None ELSE main.cur)
    BY DEF Stopped, TypeOK, MainThread
  <1>2. daemon # "STOPPED"
    BY OpenMainThread
  <1>3. worker'[main.cur] = "STOPPED"
        /\ \A w \in Workers : worker'[w] = worker[w] \/ worker'[w] = "STOPPED"
    BY DEF TypeOK
  <1>4. StoppedIsSettled' /\ Budgeted'
    BY <1>2 DEF DaemonInv, StoppedIsSettled, Budgeted
  <1>5. CASE ~main.closing
    BY <1>1, <1>4, <1>5 DEF DaemonInv, ShutdownSettles
  <1>6. CASE main.closing
    BY <1>1, <1>3, <1>4, <1>6 DEF DaemonInv, ShutdownSettles, Settled, Workers
  <1> QED
    BY <1>5, <1>6

\* The stop of one worker leaves the other one as it is.
LEMMA StopBegins ==
    ASSUME TypeOK, DaemonInv, main.pc = "stop", main.cur \in Workers,
           main' = [main EXCEPT !.pc = "join"],
           worker' = [worker EXCEPT ![main.cur] = "STOPPING"],
           UNCHANGED <<daemon, attempts>>
    PROVE  DaemonInv'
  <1>1. /\ main'.pc = "join" /\ main'.closing = main.closing
        /\ main'.failed = main.failed /\ main'.todo = main.todo
        /\ main'.cur = main.cur
    BY DEF TypeOK, MainThread
  <1>2. daemon # "STOPPED"
    BY OpenMainThread
  <1>3. \A w \in Workers : w # main.cur => worker'[w] = worker[w]
    BY DEF TypeOK
  <1> QED
    BY <1>1, <1>2, <1>3
    DEF DaemonInv, ShutdownSettles, StoppedIsSettled, Budgeted, Settled, Workers

\* The shutdown passes over a settled worker, and stops one that runs.
LEMMA ShutdownKeeps ==
    ASSUME TypeOK, DaemonInv, Shutdown
    PROVE  DaemonInv'
  <1>1. /\ main.closing /\ main.cur = None /\ daemon # "STOPPED"
        /\ main.todo = StopOrder \/ main.todo = <<"runtime">>
    BY OpenMainThread DEF Shutdown, MainAt, DaemonInv, ShutdownSettles
  <1>2. /\ main.todo = StopOrder => NextWorker = "capability"
                                   /\ Tail(main.todo) = <<"runtime">>
        /\ main.todo = <<"runtime">> => NextWorker = "runtime" /\ Tail(main.todo) = <<>>
    BY ListsOfWorkers DEF NextWorker
  <1>3. /\ main'.closing /\ main'.todo = Tail(main.todo)
        /\ \/ main'.pc = "stop" /\ main'.cur = NextWorker /\ main'.failed = main.failed
           \/ /\ main'.pc = "shutdown" /\ main'.cur = None
              /\ main'.failed = main.failed /\ Settled(NextWorker)
           \/ main'.pc = "shutdown" /\ main'.cur = None /\ main'.failed
    BY <1>1 DEF Shutdown, MainAt, Advance, Settled, TypeOK, MainThread
  <1>4. StoppedIsSettled' /\ Budgeted'
    BY <1>1 DEF Shutdown, daemonVars, DaemonInv, StoppedIsSettled, Budgeted
  <1>5. ~main.failed /\ main.todo # StopOrder => Settled("capability")
    BY <1>1, ConstantsAreTyped DEF DaemonInv, ShutdownSettles, Workers
  <1>6. UNCHANGED worker
    BY DEF Shutdown
  <1>7. ShutdownSettles'
    <2>1. CASE main.todo = StopOrder
      BY <1>2, <1>3, <1>6, <2>1, ListsOfWorkers DEF ShutdownSettles, Settled
    <2>2. CASE main.todo = <<"runtime">>
      BY <1>2, <1>3, <1>5, <1>6, <2>2, ListsOfWorkers DEF ShutdownSettles, Settled
    <2> QED
      BY <1>1, <2>1, <2>2
  <1> QED
    BY <1>4, <1>7 DEF DaemonInv

\* A step preserves what is known of the daemon.
LEMMA DaemonStep ==
    ASSUME TypeOK, DaemonInv, [Next]_vars
    PROVE  DaemonInv'
  <1> USE DEF daemonVars, cyclerVars, boundVars, MainAt
  <1>1. ASSUME RunForever PROVE DaemonInv'
    <2>1. ~main'.closing /\ main'.pc # "shutdown"
      BY <1>1, OpenMainThread DEF RunForever, MainIdle, TypeOK, MainThread
    <2>2. daemon' # "STOPPED" /\ attempts' = attempts
      BY <1>1, OpenMainThread DEF RunForever
    <2> QED
      BY <2>1, <2>2, BeforeShutdown DEF DaemonInv, Budgeted
  <1>2. ASSUME StartWorker PROVE DaemonInv'
    <2>1. ~main'.closing /\ main'.pc # "shutdown"
      BY <1>2, OpenMainThread DEF StartWorker, Advance, TypeOK, MainThread
    <2>2. daemon' # "STOPPED" /\ attempts' = attempts
      BY <1>2, OpenMainThread DEF StartWorker
    <2> QED
      BY <2>1, <2>2, BeforeShutdown DEF DaemonInv, Budgeted
  <1>3. ASSUME StartFails PROVE DaemonInv'
    <2>1. ~main'.closing /\ main'.pc # "shutdown"
      BY <1>3, OpenMainThread DEF StartFails, MainIdle, TypeOK, MainThread
    <2>2. daemon' # "STOPPED" /\ attempts' = attempts
      BY <1>3, OpenMainThread DEF StartFails
    <2> QED
      BY <2>1, <2>2, BeforeShutdown DEF DaemonInv, Budgeted
  <1>4. ASSUME StartCompletes PROVE DaemonInv'
    <2>1. ~main'.closing /\ main'.pc # "shutdown"
      BY <1>4, OpenMainThread DEF StartCompletes, TypeOK, MainThread
    <2>2. daemon' # "STOPPED" /\ attempts' = attempts
      BY <1>4, OpenMainThread DEF StartCompletes
    <2> QED
      BY <2>1, <2>2, BeforeShutdown DEF DaemonInv, Budgeted
  <1>5. ASSUME Observe PROVE DaemonInv'
    <2>1. ~main'.closing /\ main'.pc # "shutdown"
      BY <1>5, OpenMainThread DEF Observe, Advance, TypeOK, MainThread
    <2>2. daemon' # "STOPPED" /\ attempts' = attempts
      BY <1>5, OpenMainThread DEF Observe
    <2> QED
      BY <2>1, <2>2, BeforeShutdown DEF DaemonInv, Budgeted
  <1>6. ASSUME Restart PROVE DaemonInv'
    <2>1. ~main'.closing /\ main'.pc # "shutdown"
      BY <1>6, OpenMainThread DEF Restart, TypeOK, MainThread
    <2>2. daemon' # "STOPPED" /\ attempts' = attempts
      BY <1>6, OpenMainThread DEF Restart
    <2> QED
      BY <2>1, <2>2, BeforeShutdown DEF DaemonInv, Budgeted
  <1>7. ASSUME BeginCycle PROVE DaemonInv'
    <2>1. ~main.closing /\ attempts' = attempts /\ daemon' # "STOPPED"
      BY <1>7, OpenMainThread DEF BeginCycle
    <2>2. CASE stopRequested
      <3>1. main' = [MainIdle EXCEPT !.pc = "shutdown", !.todo = StopOrder, !.closing = TRUE]
        BY <1>7, <2>2 DEF BeginCycle
      <3>2. /\ main'.pc = "shutdown" /\ main'.todo = StopOrder /\ main'.closing
            /\ main'.cur = None
        BY <3>1 DEF MainIdle
      <3> QED
        BY <2>1, <3>2, ListsOfWorkers
        DEF DaemonInv, ShutdownSettles, StoppedIsSettled, Budgeted
    <2>3. CASE ~stopRequested
      <3>1. main'.pc = "observe" /\ ~main'.closing
        BY <1>7, <2>1, <2>3 DEF BeginCycle, TypeOK, MainThread
      <3> QED
        BY <2>1, <3>1, BeforeShutdown DEF DaemonInv, Budgeted
    <2> QED
      BY <2>2, <2>3
  <1>8. ASSUME Assess PROVE DaemonInv'
    <2>1. ~main.closing /\ daemon' # "STOPPED"
      BY <1>8, OpenMainThread DEF Assess
    <2>2. ~main'.closing /\ main'.pc # "shutdown"
      BY <1>8, <2>1 DEF Assess, Advance, TypeOK, MainThread
    <2>3. \A w \in Workers : attempts'[w] <= MaxRetries
      <3>1. CASE attempts' = attempts
        BY <3>1 DEF DaemonInv, Budgeted
      <3>2. CASE attempts' # attempts
        <4>1. /\ attempts' = [attempts EXCEPT ![NextWorker] = @ + 1]
              /\ attempts[NextWorker] < MaxRetries /\ NextWorker \in Workers
          BY <1>8, <3>2, NextIsWorker DEF Assess, HasRetry
        <4> QED
          BY <4>1, Bounds DEF DaemonInv, Budgeted, TypeOK
      <3> QED
        BY <3>1, <3>2
    <2> QED
      BY <2>1, <2>2, <2>3, BeforeShutdown
  <1>9. ASSUME Shutdown PROVE DaemonInv'
    BY <1>9, ShutdownKeeps
  <1>10. ASSUME ShutdownCompletes PROVE DaemonInv'
    <2>1. /\ main.closing /\ main.cur = None /\ main.todo = <<>>
          /\ main'.pc = "idle" /\ ~main'.closing
      BY <1>10 DEF ShutdownCompletes, DaemonInv, ShutdownSettles, MainIdle
    <2>2. ~main.failed => \A w \in Workers : Settled(w)
      BY <2>1, ListsOfWorkers, ConstantsAreTyped DEF DaemonInv, ShutdownSettles, Workers
    <2>3. daemon' = "STOPPED" => ~main.failed
      BY <1>10 DEF ShutdownCompletes
    <2> QED
      BY <1>10, <2>1, <2>2, <2>3
      DEF ShutdownCompletes, DaemonInv, ShutdownSettles, StoppedIsSettled, Budgeted, Settled
  <1>11. ASSUME StopRefused PROVE DaemonInv'
    BY <1>11, FailedStop DEF StopRefused
  <1>12. ASSUME StopCapability PROVE DaemonInv'
    BY <1>12, StopBegins DEF StopCapability, MarkWorker, Workers
  <1>13. ASSUME JoinCapability PROVE DaemonInv'
    BY <1>13, CleanStop, FailedStop DEF JoinCapability, MarkWorker, Workers
  <1>14. ASSUME StopRuntimeRefused PROVE DaemonInv'
    BY <1>14, FailedStop DEF StopRuntimeRefused
  <1>15. ASSUME StopRuntime PROVE DaemonInv'
    BY <1>15, StopBegins DEF StopRuntime, MarkWorker, Workers
  <1>16. ASSUME JoinRuntime PROVE DaemonInv'
    BY <1>16, CleanStop, FailedStop DEF JoinRuntime, MarkWorker, Workers
  <1>17. ASSUME RequestStop PROVE DaemonInv'
    BY <1>17, BesideMainThread DEF RequestStop, Settled
  <1>18. ASSUME NEW t \in CycleThreads, CyclerStep(t) PROVE DaemonInv'
    <2>1. UNCHANGED <<main, daemon, attempts>>
      BY <1>18 DEF CyclerStep, Tick, BeginRuntimeCycle, EndRuntimeCycle
    <2>2. \A w \in Workers : Settled(w) => Settled(w)'
      BY <1>18
      DEF CyclerStep, Tick, BeginRuntimeCycle, EndRuntimeCycle, ThreadFails, CyclerGoes,
          Settled, TypeOK, Workers
    <2> QED
      BY <2>1, <2>2, BesideMainThread
  <1>19. ASSUME NEW t \in DiagnosticThreads, DiagnosticEnds(t) \/ DiagnosticDies(t) PROVE DaemonInv'
    BY <1>19, BesideMainThread DEF DiagnosticEnds, DiagnosticDies, Settled
  <1>20. ASSUME UNCHANGED vars PROVE DaemonInv'
    BY <1>20, BesideMainThread DEF vars, Settled
  <1> QED
    BY <1>1, <1>2, <1>3, <1>4, <1>5, <1>6, <1>7, <1>8,
       <1>9, <1>10, <1>11, <1>12, <1>13, <1>14, <1>15, <1>16,
       <1>17, <1>18, <1>19, <1>20
    DEF Next, MainStep

----------------------------------------------------------------------------
(***************************************************************************)
(* The theorems.                                                           *)
(***************************************************************************)

\* A new process satisfies the invariant.
LEMMA InitInv == Init => SupervisionInv
  <1> SUFFICES ASSUME Init PROVE SupervisionInv
    OBVIOUS
  <1>1. TypeOK
    <2>1. MainIdle \in MainThread
      BY DEF MainThread, MainIdle, MainPcs, Todos
    <2>2. runs \in 0..MaxRuns /\ deaths \in 0..MaxDeaths
      BY Bounds DEF Init
    <2>3. /\ attempts \in [Workers -> Nat] /\ worker \in [Workers -> WorkerState]
          /\ heart \in [Workers -> {"none", "healthy", "unhealthy"}]
      BY DEF Init, WorkerState
    <2>4. \A t \in CycleThreads : cycle = t <=> cycler[t] = "cycle"
      BY ConstantsAreTyped DEF Init
    <2> QED
      BY <2>1, <2>2, <2>3, <2>4 DEF Init, TypeOK, ServiceState
  <1>2. ThreadInv
    BY DEF Init, ThreadInv, CyclerIsKnown, DiagnosticIsKnown, JoinedIsStopping,
           SettledIsQuiet, LiveCyclers, Alive, MainIdle
  <1>3. DaemonInv
    BY Bounds DEF Init, DaemonInv, ShutdownSettles, StoppedIsSettled, Budgeted, Settled,
           MainIdle, Workers
  <1> QED
    BY <1>1, <1>2, <1>3 DEF SupervisionInv, ThreadInv, DaemonInv

\* The invariant holds in every state of the process.
THEOREM Invariance == Spec => []SupervisionInv
  <1>1. SupervisionInv /\ [Next]_vars => SupervisionInv'
    BY TypeStep, ThreadStep, DaemonStep DEF SupervisionInv, ThreadInv, DaemonInv
  <1> QED
    BY InitInv, <1>1, PTL DEF Spec

\* Type correctness, and a cycle is always that of the thread that runs it.
THEOREM TypeCorrect == Spec => []TypeOK
  <1>1. SupervisionInv => TypeOK
    BY DEF SupervisionInv
  <1> QED
    BY <1>1, Invariance, PTL

\* At most one capability thread lives, whatever stops time out and whatever
\* the supervisor restarts.
COROLLARY SingleCapabilityThread == Spec => []OneCapabilityThread
  <1>1. SupervisionInv => OneCapabilityThread
    <2> SUFFICES ASSUME SupervisionInv PROVE Cardinality(LiveCyclers) <= 1
      BY DEF OneCapabilityThread
    <2>1. IsFiniteSet({cycleThread}) /\ Cardinality({cycleThread}) = 1
      BY FS_Singleton
    <2> QED
      BY <2>1, FS_Subset, FS_CardinalityType DEF SupervisionInv, CyclerIsKnown
  <1> QED
    BY <1>1, Invariance, PTL

\* At most one diagnostic thread lives, also while one outlives its stop.
COROLLARY SingleDiagnosticThread == Spec => []OneDiagnosticThread
  <1>1. SupervisionInv => OneDiagnosticThread
    <2> SUFFICES ASSUME SupervisionInv PROVE Cardinality(diagnostic.alive) <= 1
      BY DEF OneDiagnosticThread
    <2>1. PICK t : diagnostic.alive \subseteq {t}
      BY DEF SupervisionInv, DiagnosticIsKnown
    <2>2. IsFiniteSet({t}) /\ Cardinality({t}) = 1
      BY FS_Singleton
    <2> QED
      BY <2>1, <2>2, FS_Subset, FS_CardinalityType
  <1> QED
    BY <1>1, Invariance, PTL

\* No worker of the process ever has two live threads.
THEOREM SingleThreads == Spec => []OneThreadEach
  <1>1. OneDiagnosticThread /\ OneCapabilityThread => OneThreadEach
    BY DEF OneThreadEach
  <1> QED
    BY <1>1, SingleCapabilityThread, SingleDiagnosticThread, PTL

\* A daemon that reports STOPPED has left no thread and no cycle behind.
THEOREM CleanStops == Spec => []CleanStopIsQuiescent
  <1>1. SupervisionInv => CleanStopIsQuiescent
    <2> SUFFICES ASSUME SupervisionInv, daemon = "STOPPED"
                 PROVE  /\ ~running /\ cycle = None
                        /\ LiveCyclers = {} /\ diagnostic.alive = {}
      BY DEF CleanStopIsQuiescent
    <2>1. LiveCyclers = {} /\ ~running /\ diagnostic.alive = {}
      BY DEF SupervisionInv, StoppedIsSettled, SettledIsQuiet, Workers
    <2>2. cycle = None
      BY <2>1 DEF SupervisionInv, TypeOK, LiveCyclers, Alive
    <2> QED
      BY <2>1, <2>2
  <1> QED
    BY <1>1, Invariance, PTL

\* The diagnostics of a runtime are not torn down during one of its cycles.
THEOREM TeardownOutsideCycle == Spec => NoTeardownInCycle
  <1>1. TypeOK /\ [Next]_vars =>
            [cycle # None /\ cycle' # None => (diagnostic'.stop => diagnostic.stop)]_vars
    <2> SUFFICES ASSUME TypeOK, [Next]_vars, cycle # None, diagnostic'.stop
                 PROVE  diagnostic.stop
      OBVIOUS
    <2>1. ASSUME NEW w, Starts(w) \/ StartRaises(w) PROVE diagnostic.stop
      <3>1. CASE RuntimeStarts /\ diagnostic.thread \in diagnostic.alive
        BY <3>1 DEF RuntimeStarts, TypeOK
      <3>2. CASE RuntimeStarts /\ diagnostic.thread \notin diagnostic.alive
        <4>1. PICK t : diagnostic' = [alive |-> diagnostic.alive \cup {t}, stop |-> FALSE,
                                      thread |-> t, pending |-> None]
          BY <3>2 DEF RuntimeStarts
        <4> QED
          BY <4>1
      <3>3. CASE RuntimeStartRaises
        BY <3>3 DEF RuntimeStartRaises, TypeOK
      <3>4. CASE CapabilityStarts \/ CapabilityStartRaises
        BY <3>4 DEF CapabilityStarts, CapabilityStartRaises
      <3> QED
        BY <2>1, <3>1, <3>2, <3>3, <3>4 DEF Starts, StartRaises
    <2>2. CASE StartWorker \/ StartFails \/ Restart
      BY <2>1, <2>2 DEF StartWorker, StartFails, Restart
    <2>3. CASE StopRuntime
      BY <2>3 DEF StopRuntime, Quiescent
    <2>4. CASE JoinRuntime \/ \E t \in DiagnosticThreads : DiagnosticEnds(t) \/ DiagnosticDies(t)
      BY <2>4 DEF JoinRuntime, DiagnosticEnds, DiagnosticDies, TypeOK
    <2>5. CASE UNCHANGED diagnostic
      BY <2>5
    <2> QED
      BY <2>2, <2>3, <2>4, <2>5
      DEF Next, MainStep, CyclerStep, RunForever, StartCompletes, BeginCycle, Observe, Assess,
          Shutdown, ShutdownCompletes, StopRefused, StopCapability, JoinCapability,
          StopRuntimeRefused, RequestStop, Tick, BeginRuntimeCycle, EndRuntimeCycle, vars
  <1> QED
    BY <1>1, TypeCorrect, PTL DEF Spec, NoTeardownInCycle

\* Retries are never given back and never exceed the policy, for the life of the
\* supervisor.
THEOREM RetryBudget == Spec => RetriesAreForLife
  <1>1. SupervisionInv => \A w \in Workers : attempts[w] <= MaxRetries
    BY DEF SupervisionInv, Budgeted
  <1>2. TypeOK /\ [Next]_vars => [\A w \in Workers : attempts'[w] >= attempts[w]]_vars
    <2> SUFFICES ASSUME TypeOK, [Next]_vars, NEW w \in Workers
                 PROVE  attempts'[w] >= attempts[w]
      OBVIOUS
    <2>1. CASE Assess
      BY <2>1, NextIsWorker DEF Assess, TypeOK
    <2>2. CASE UNCHANGED attempts
      BY <2>2 DEF TypeOK
    <2> QED
      BY <2>1, <2>2
      DEF Next, MainStep, CyclerStep, RunForever, StartWorker, StartFails, StartCompletes,
          BeginCycle, Observe, Restart, Shutdown, ShutdownCompletes, StopRefused,
          StopCapability, JoinCapability, StopRuntimeRefused, StopRuntime, JoinRuntime,
          RequestStop, Tick, BeginRuntimeCycle, EndRuntimeCycle, DiagnosticEnds,
          DiagnosticDies, vars, daemonVars
  <1> QED
    BY <1>1, <1>2, Invariance, TypeCorrect, PTL DEF Spec, RetriesAreForLife

=============================================================================
