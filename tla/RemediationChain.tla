-------------------------- MODULE RemediationChain --------------------------
(***************************************************************************)
(* From an observation to a reported outcome: the sensor tick and the      *)
(* incident manager, the diagnostic worker that hands an incident to the   *)
(* Commander, runtime.remediate for an operator, the remediation itself    *)
(* with its identity, effect, verification and evidence, and the durable   *)
(* incident reports.                                                       *)
(*                                                                         *)
(* Three threads share the incidents without a lock: the main thread       *)
(* observes and synchronizes reports, the worker terminalizes incidents,   *)
(* and an operator remediates whatever Incident object it holds.  A step   *)
(* ends where another thread could see or change what this one goes on     *)
(* with.  ExecutionIdentity has the identity boundary in detail; here an   *)
(* identity is claimed, has its effect and is closed.                      *)
(***************************************************************************)
EXTENDS Naturals, Sequences, FiniteSets, SensorPipeline

CONSTANTS Panes,
          IncidentIds, ExecutionIds,   \* pools of uuids: bounds of the model
          AllowedActions, Actions,     \* the policy, and what is asked for
          Standing,      \* the verifier the orchestrator was built with, or None
          Overlap,       \* whether two remediations may overlap in the Commander
          MaxRequests, MaxCrashes,     \* bounds: operator requests, crashes
          None

ASSUME ConstantsAreTyped ==
    /\ AllowedActions \subseteq Actions
    /\ Overlap \in BOOLEAN /\ MaxRequests \in Nat /\ MaxCrashes \in Nat
    /\ None \notin Panes \cup IncidentIds \cup ExecutionIds \cup BOOLEAN
    /\ Standing \in Panes \cup {None}

Threads == {"worker", "operator"}

VARIABLES
    alive,      \* the panes
    used,       \* incident ids that were given out
    incident,   \* Incident objects in memory
    active,     \* active_incidents, by pane
    archived,   \* incident_history: the snapshot of an incident
    main,       \* the main thread
    thread,     \* the worker and the operator
    handled,    \* incidents whose handoff the coordinator remembers
    verifier,   \* orchestrator.verifier
    identity,   \* the execution identity journal
    report,     \* the incident report store
    requests, crashes

incidentVars == <<used, incident, active, archived>>
durableVars  == <<identity, report>>
chainVars    == <<alive, incidentVars, main, thread, handled, verifier,
                  durableVars, requests, crashes>>

Evidence(type, execution, by) == [type |-> type, execution |-> execution, by |-> by]

\* _create_incident.  Of its evidence the model keeps what remediations add.
NewIncident(p) == [pane |-> p, status |-> "OPEN", outcome |-> None, evidence |-> {}]

\* signals: how many the tick still has to report of pane; todo: the incidents whose
\* reports are still to be written; read: the first field read of the one at hand.
MainIdle == [at |-> "idle", pane |-> None, signals |-> 0, incident |-> None,
             todo |-> {}, read |-> None]

Idle == [at |-> "idle", incident |-> None, execution |-> None, action |-> None,
         saved |-> None, success |-> None, verified |-> None, by |-> None,
         replayed |-> FALSE, outcome |-> None, snapshot |-> None]

Init ==
    /\ alive = [p \in Panes |-> TRUE]
    /\ used = {}
    /\ incident = [i \in IncidentIds |-> None]
    /\ active = [p \in Panes |-> None]
    /\ archived = [i \in IncidentIds |-> None]
    /\ main = MainIdle
    /\ thread = [t \in Threads |-> Idle]
    /\ handled = {}
    /\ verifier = Standing
    /\ identity = [x \in ExecutionIds |-> None]
    /\ report = [i \in IncidentIds |-> None]
    /\ requests = 0
    /\ crashes = 0

----------------------------------------------------------------------------
(* The panes.                                                              *)

\* Its command exits, or something, a remediation or not, respawns it.
PaneChanges(p) ==
    /\ alive' = [alive EXCEPT ![p] = ~@]
    /\ UNCHANGED <<incidentVars, main, thread, handled, verifier,
                   durableVars, requests, crashes>>

----------------------------------------------------------------------------
(* The main thread: process_tick, one pane at a time.                      *)

\* The memory of the sensors is left out: a tick reports what some history of the
\* pane lets it report.
TickReports ==
    [isAlive \in BOOLEAN |-> {Len(s) : s \in PossibleSignals(isAlive)} \ {0}]

\* A tick that reports nothing changes nothing here.
Observe(p) ==
    /\ main.at = "idle"
    /\ \E n \in TickReports[alive[p]] :
         main' = [MainIdle EXCEPT !.at = "evaluate", !.pane = p, !.signals = n]
    /\ UNCHANGED <<alive, incidentVars, thread, handled, verifier, durableVars, requests, crashes>>

NextSignal == IF main.signals = 1 THEN MainIdle
              ELSE [main EXCEPT !.at = "evaluate", !.signals = @ - 1]

\* Fault: ids that a restart gives out again.
FreshIdsOfMemory == {i \in IncidentIds : incident[i] = None}

\* _new_incident_id: a uuid.
FreshIds == IncidentIds \ used

\* evaluate_anomaly, evaluate_contract_violation: the pane has no active incident.
CreateIncident ==
    /\ main.at = "evaluate"
    /\ active[main.pane] = None
    /\ \E i \in FreshIds :
         /\ used' = used \cup {i}
         /\ incident' = [incident EXCEPT ![i] = NewIncident(main.pane)]
         /\ active' = [active EXCEPT ![main.pane] = i]
    /\ main' = NextSignal
    /\ UNCHANGED <<alive, archived, thread, handled, verifier, durableVars, requests, crashes>>

\* It has one, which takes the evidence, also when it became terminal meanwhile.
JoinIncident ==
    /\ main.at = "evaluate"
    /\ active[main.pane] # None
    /\ main' = NextSignal
    /\ UNCHANGED <<alive, incidentVars, thread, handled, verifier, durableVars, requests, crashes>>

AddEvidence(i, e) == incident' = [incident EXCEPT ![i].evidence = @ \cup {e}]

\* Bound of the model: a tick that would need another incident id is not continued.
OutOfIncidents ==
    /\ main.at = "evaluate"
    /\ active[main.pane] = None
    /\ FreshIds = {}
    /\ main' = MainIdle
    /\ UNCHANGED <<alive, incidentVars, thread, handled, verifier, durableVars, requests, crashes>>

----------------------------------------------------------------------------
(* The main thread: sync_incident_reports.                                 *)

Actives == {active[p] : p \in Panes} \ {None}
Archive == {i \in IncidentIds : archived[i] # None}

SyncActive ==
    /\ main.at = "idle"
    /\ main' = [main EXCEPT !.at = "history", !.todo = Actives]
    /\ UNCHANGED <<alive, incidentVars, thread, handled, verifier, durableVars, requests, crashes>>

\* An incident that was archived in between ends the synchronization.
SyncHistory ==
    /\ main.at = "history"
    /\ main' = IF main.todo \cap Archive # {} \/ main.todo \cup Archive = {} THEN MainIdle
               ELSE [main EXCEPT !.at = "read", !.todo = @ \cup Archive]
    /\ UNCHANGED <<alive, incidentVars, thread, handled, verifier, durableVars, requests, crashes>>

\* The live object an incident is in the memory of the process, also when it was
\* archived meanwhile; the snapshot of one that was found in the history.
Source(i) == IF archived[i] # None THEN archived[i] ELSE incident[i]

\* Incident.to_dict reads the status, then the outcome.
\* Fault: the outcome first.
FirstReadOutcome == "outcome"

FirstRead == "status"

Fields == {"status", "outcome"}

ReadReport(i) ==
    /\ main.at = "read"
    /\ i \in main.todo
    /\ main' = [main EXCEPT !.at = "write", !.incident = i, !.read = Source(i)[FirstRead]]
    /\ UNCHANGED <<alive, incidentVars, thread, handled, verifier, durableVars, requests, crashes>>

WriteReport ==
    /\ main.at = "write"
    /\ report' = [report EXCEPT ![main.incident] =
                    [f \in Fields |-> IF f = FirstRead THEN main.read
                                      ELSE Source(main.incident)[f]]]
    /\ main' = IF main.todo = {main.incident} THEN MainIdle
               ELSE [MainIdle EXCEPT !.at = "read", !.todo = main.todo \ {main.incident}]
    /\ UNCHANGED <<alive, incidentVars, thread, handled, verifier, identity, requests, crashes>>

----------------------------------------------------------------------------
(* The Commander's decisions.                                              *)

\* CommanderIntentDecider.decide, of an assessment of an ESTABLISHED diagnosis;
\* one that is required and has no action raises, and is never visited again.
Intent(established, required, registered, commander) ==
    CASE ~established                              -> "INSUFFICIENT_EVIDENCE"
      [] established /\ commander                  -> "NEED_COMMANDER"
      [] established /\ ~commander /\ required /\ registered -> "AUTONOMOUS_REMEDIATE"
      [] OTHER                                     -> "NO_ACTION"

\* RemediationPolicy.evaluate.
Allowed(action) == action \in AllowedActions

\* FinalOutcomeMapper.map of what does not remediate.
OutcomeOfIntent(intent) ==
    CASE intent = "INSUFFICIENT_EVIDENCE" -> "INSUFFICIENT_EVIDENCE"
      [] intent = "NEED_COMMANDER"        -> "ESCALATED"
      [] intent = "NO_ACTION"             -> None

\* Fault: a remediation that ran is a recovery.
OutcomeOfExecution(success, verified) ==
    IF success = TRUE THEN "RECOVERED" ELSE "UNRESOLVED"

\* _map_remediation_result of what was allowed: a success that was not verified
\* is not a recovery.
OutcomeOfRemediation(success, verified) ==
    IF success = TRUE /\ verified = TRUE THEN "RECOVERED" ELSE "UNRESOLVED"

\* EvidenceCompleteRemediationFlow.finalize.
RemediationEvidence(c) ==
    CASE c.replayed                                          -> "REPLAYED"
      [] ~c.replayed /\ c.success = None                     -> "DENIED"
      [] ~c.replayed /\ c.success = FALSE                    -> "FAILED"
      [] ~c.replayed /\ c.success = TRUE /\ c.verified = None  -> "EXECUTED_UNVERIFIED"
      [] ~c.replayed /\ c.success = TRUE /\ c.verified = TRUE  -> "VERIFIED"
      [] ~c.replayed /\ c.success = TRUE /\ c.verified = FALSE -> "VERIFICATION_FAILED"

Other(t) == CHOOSE s \in Threads : s # t

----------------------------------------------------------------------------
(* The diagnostic worker: _handoff_diagnosis, once per investigation.      *)

\* An incident that gets no outcome stays active, and is not handed off again.
\* The policy is asked once; a denial goes straight to the outcome.
Handoff(i) ==
    /\ thread["worker"] = Idle
    /\ i \in Actives \ handled
    /\ handled' = handled \cup {i}
    /\ \E established, required, registered, commander \in BOOLEAN, action \in Actions :
         LET intent  == Intent(established, required, registered, commander)
             denied  == intent = "AUTONOMOUS_REMEDIATE" /\ ~Allowed(action)
             outcome == IF denied THEN "ESCALATED" ELSE OutcomeOfIntent(intent)
         IN
         /\ intent = "AUTONOMOUS_REMEDIATE" => denied
         /\ thread' = IF outcome = None THEN thread
                      ELSE [thread EXCEPT !["worker"] =
                              [Idle EXCEPT !.at = "resolve", !.incident = i, !.outcome = outcome]]
    /\ UNCHANGED <<alive, incidentVars, main, verifier, durableVars, requests, crashes>>

\* AUTONOMOUS_REMEDIATE, allowed: under an execution id that is a new uuid.
HandoffRemediation(i) ==
    /\ thread["worker"] = Idle
    /\ i \in Actives \ handled
    /\ handled' = handled \cup {i}
    /\ \E action \in Actions, x \in ExecutionIds :
         /\ Allowed(action)
         /\ identity[x] = None
         /\ x # thread["operator"].execution
         /\ thread' = [thread EXCEPT !["worker"] =
                [Idle EXCEPT !.at = "remediate", !.incident = i, !.execution = x,
                             !.action = action]]
    /\ UNCHANGED <<alive, incidentVars, main, verifier, durableVars, requests, crashes>>

----------------------------------------------------------------------------
(* runtime.remediate for any Incident object somebody still holds, with an *)
(* execution id that may have been used before.                            *)

Remediate(i, action, x) ==
    /\ requests < MaxRequests
    /\ requests' = requests + 1
    /\ thread["operator"] = Idle
    /\ incident[i] # None
    /\ x # thread["worker"].execution \/ identity[x] # None
    /\ thread' = [thread EXCEPT !["operator"] =
            [Idle EXCEPT !.at = IF Allowed(action) THEN "remediate" ELSE "finalize",
                         !.incident = i, !.execution = x, !.action = action]]
    /\ UNCHANGED <<alive, incidentVars, main, handled, verifier, durableVars, crashes>>

----------------------------------------------------------------------------
(* Commander.remediate of an authorized action.                            *)

InCommander(t) == thread[t].at \in {"claim", "effect", "verify", "restore", "raise"}

\* The operator's verifier looks at the pane of the incident; the handoff has none
\* of its own and leaves the orchestrator's.
SwapVerifier(t) ==
    /\ thread[t].at = "remediate"
    /\ Overlap \/ ~InCommander(Other(t))
    /\ thread' = [thread EXCEPT ![t].at = "claim", ![t].saved = verifier]
    /\ verifier' = IF t = "operator" THEN incident[thread[t].incident].pane ELSE verifier
    /\ UNCHANGED <<alive, incidentVars, main, handled, durableVars, requests, crashes>>

Binding(c) == [incident |-> c.incident, action |-> c.action]

Claimed(c) == [binding |-> Binding(c), state |-> "RUNNING"]

\* The identity is consumed: this caller executes.
Claim(t) ==
    LET c == thread[t] IN
    /\ c.at = "claim"
    /\ identity[c.execution] = None
    /\ identity' = [identity EXCEPT ![c.execution] = Claimed(c)]
    /\ thread' = [thread EXCEPT ![t].at = "effect"]
    /\ UNCHANGED <<alive, incidentVars, main, handled, verifier, report, requests, crashes>>

\* It was consumed by the same binding: the recorded execution, if there is one.
\* A replay of one that is RUNNING waits for it.
Replay(t) ==
    LET c == thread[t]
        r == identity[c.execution]
    IN
    /\ c.at = "claim"
    /\ r # None
    /\ r.binding = Binding(c)
    /\ r.state # "RUNNING"
    /\ thread' = [thread EXCEPT ![t].at = "restore", ![t].replayed = TRUE,
                     ![t].success = IF r.state = "UNKNOWN" THEN None
                                    ELSE r.state = "SUCCEEDED"]
    /\ UNCHANGED <<alive, incidentVars, main, handled, verifier, durableVars, requests, crashes>>

RefuseClaim(t) ==
    LET c == thread[t] IN
    /\ c.at = "claim"
    /\ identity[c.execution] # None
    /\ identity[c.execution].binding # Binding(c)
    /\ thread' = [thread EXCEPT ![t].at = "raise"]
    /\ UNCHANGED <<alive, incidentVars, main, handled, verifier, durableVars, requests, crashes>>

Close(x, state) == identity' = [identity EXCEPT ![x].state = state]

Execute(t) ==
    /\ thread[t].at = "effect"
    /\ \E success \in BOOLEAN :
         /\ Close(thread[t].execution, IF success THEN "SUCCEEDED" ELSE "FAILED")
         /\ thread' = [thread EXCEPT ![t].at = IF success THEN "verify" ELSE "restore",
                                     ![t].success = success]
    /\ UNCHANGED <<alive, incidentVars, main, handled, verifier, report, requests, crashes>>

ExecuteRaises(t) ==
    /\ thread[t].at = "effect"
    /\ Close(thread[t].execution, "UNKNOWN")
    /\ thread' = [thread EXCEPT ![t].at = "raise"]
    /\ UNCHANGED <<alive, incidentVars, main, handled, verifier, report, requests, crashes>>

\* RemediationOrchestrator.handle, after a success that is not a replay: by
\* whatever verifier there is now.  One that fails has not verified.
Verify(t) ==
    /\ thread[t].at = "verify"
    /\ \E verified \in IF verifier = None THEN {None}
                       ELSE {FALSE, alive[verifier]} :
         thread' = [thread EXCEPT ![t].at = "restore", ![t].verified = verified,
                                  ![t].by = verifier]
    /\ UNCHANGED <<alive, incidentVars, main, handled, verifier, durableVars, requests, crashes>>

\* finally: whether it returns or raises.
RestoreVerifier(t) ==
    /\ thread[t].at \in {"restore", "raise"}
    /\ verifier' = thread[t].saved
    /\ thread' = [thread EXCEPT ![t] = IF @.at = "raise" THEN Idle
                                       ELSE [@ EXCEPT !.at = "finalize"]]
    /\ UNCHANGED <<alive, incidentVars, main, handled, durableVars, requests, crashes>>

\* The evidence, also on an incident that is terminal by now.
Finalize(t) ==
    LET c == thread[t] IN
    /\ c.at = "finalize"
    /\ AddEvidence(c.incident, Evidence(RemediationEvidence(c), c.execution, c.by))
    /\ thread' = [thread EXCEPT ![t] =
            IF t = "operator" THEN Idle
            ELSE [Idle EXCEPT !.at = "resolve", !.incident = c.incident,
                              !.outcome = OutcomeOfRemediation(c.success, c.verified)]]
    /\ UNCHANGED <<alive, used, active, archived, main, handled, verifier,
                   durableVars, requests, crashes>>

----------------------------------------------------------------------------
(* IncidentManager.resolve, by the worker.                                 *)

Resolving == active[incident[thread["worker"].incident].pane]

ResolveStep(from, to) ==
    /\ thread["worker"].at = from
    /\ thread' = [thread EXCEPT !["worker"].at = to]
    /\ UNCHANGED <<alive, used, main, handled, verifier, durableVars, requests, crashes>>

AcceptRecovery ==
    /\ ResolveStep("resolve", "outcome")
    /\ Resolving # None
    /\ incident' = [incident EXCEPT ![Resolving].status =
                      IF @ = "OPEN" THEN "INVESTIGATING" ELSE @]
    /\ UNCHANGED <<active, archived>>

SetOutcome ==
    /\ ResolveStep("outcome", "terminal")
    /\ incident' = [incident EXCEPT ![Resolving].outcome = thread["worker"].outcome]
    /\ UNCHANGED <<active, archived>>

SetTerminal ==
    /\ ResolveStep("terminal", "pop")
    /\ incident[Resolving].status = "INVESTIGATING"
    /\ incident' = [incident EXCEPT ![Resolving].status = "TERMINAL"]
    /\ UNCHANGED <<active, archived>>

PopIncident ==
    LET i == Resolving IN
    /\ thread["worker"].at = "pop"
    /\ thread' = [thread EXCEPT !["worker"] =
                    [@ EXCEPT !.at = "archive", !.snapshot = incident[i]]]
    /\ active' = [active EXCEPT ![incident[i].pane] = None]
    /\ UNCHANGED <<alive, used, incident, archived, main, handled, verifier,
                   durableVars, requests, crashes>>

ArchiveIncident ==
    /\ thread["worker"].at = "archive"
    /\ archived' = [archived EXCEPT ![thread["worker"].incident] = thread["worker"].snapshot]
    /\ thread' = [thread EXCEPT !["worker"] = Idle]
    /\ UNCHANGED <<alive, used, incident, active, main, handled, verifier,
                   durableVars, requests, crashes>>

----------------------------------------------------------------------------
(* A crash keeps what is on the disk; the journal recovers an identity that *)
(* was running as UNKNOWN.                                                 *)

Crash ==
    /\ crashes < MaxCrashes
    /\ crashes' = crashes + 1
    /\ incident' = [i \in IncidentIds |-> None]
    /\ active' = [p \in Panes |-> None]
    /\ archived' = [i \in IncidentIds |-> None]
    /\ main' = MainIdle
    /\ thread' = [t \in Threads |-> Idle]
    /\ handled' = {}
    /\ verifier' = Standing
    /\ identity' = [x \in ExecutionIds |->
                      IF identity[x] = None \/ identity[x].state # "RUNNING" THEN identity[x]
                      ELSE [identity[x] EXCEPT !.state = "UNKNOWN"]]
    /\ UNCHANGED <<alive, used, report, requests>>

MainSync == SyncHistory \/ (\E i \in IncidentIds : ReadReport(i)) \/ WriteReport

MainTick == CreateIncident \/ JoinIncident \/ OutOfIncidents

Resolve == AcceptRecovery \/ SetOutcome \/ SetTerminal \/ PopIncident \/ ArchiveIncident

Next ==
    \/ \E p \in Panes : PaneChanges(p) \/ Observe(p)
    \/ MainTick
    \/ SyncActive
    \/ MainSync
    \/ \E i \in IncidentIds : Handoff(i) \/ HandoffRemediation(i)
    \/ \E i \in IncidentIds, a \in Actions, x \in ExecutionIds : Remediate(i, a, x)
    \/ \E t \in Threads :
          \/ SwapVerifier(t) \/ Claim(t) \/ Replay(t) \/ RefuseClaim(t)
          \/ Execute(t) \/ ExecuteRaises(t) \/ Verify(t) \/ RestoreVerifier(t) \/ Finalize(t)
    \/ Resolve
    \/ Crash

ChainSpec == Init /\ [][Next]_chainVars

----------------------------------------------------------------------------
(* Properties.                                                             *)

Evidences == [type : {"REPLAYED", "DENIED",
                      "FAILED", "EXECUTED_UNVERIFIED", "VERIFIED", "VERIFICATION_FAILED"},
              execution : ExecutionIds \cup {None}, by : Panes \cup {None}]

Outcomes == {"RECOVERED", "UNRESOLVED", "ESCALATED", "INSUFFICIENT_EVIDENCE"}

Statuses == {"OPEN", "INVESTIGATING", "TERMINAL"}

Incidents == [pane : Panes, status : Statuses, outcome : Outcomes \cup {None},
              evidence : SUBSET Evidences]

Identities == [binding : [incident : IncidentIds, action : Actions],
               state : {"RUNNING", "SUCCEEDED", "FAILED", "UNKNOWN"}]

ASSUME NoneIsNothingElse == None \notin Outcomes \cup Incidents \cup Identities

\* An Incident, a snapshot or a report: whatever says that it is over says how.
EndsWithOutcome(r) == r # None => (r.status = "TERMINAL" => r.outcome \in Outcomes)

\* Every record is well formed.  A pane has at most one incident that is not
\* over, the active one.  And no live object, snapshot or durable report calls an
\* incident TERMINAL without saying its outcome, although the reporter reads the
\* two fields while the worker writes them.
ChainOK ==
    /\ \A i \in used : incident[i] # None =>
         /\ incident[i].pane \in Panes
         /\ incident[i].evidence \subseteq Evidences
         /\ incident[i].outcome \in Outcomes \cup {None}
    /\ \A i \in IncidentIds \ used : incident[i] = None /\ report[i] = None
    /\ \A i \in used : incident[i] # None /\ incident[i].status # "TERMINAL"
                          => active[incident[i].pane] = i
    /\ \A i \in IncidentIds : /\ EndsWithOutcome(incident[i])
                              /\ EndsWithOutcome(archived[i])
                              /\ EndsWithOutcome(report[i])

\* x ran, with a success on record, for incident i, and by an action of the policy.
RanFor(x, i) ==
    /\ identity[x] # None
    /\ identity[x].state = "SUCCEEDED"
    /\ identity[x].binding.incident = i
    /\ identity[x].binding.action \in AllowedActions

Verified(i, x) == Evidence("VERIFIED", x, incident[i].pane) \in incident[i].evidence

\* Nothing is called recovered, in memory or in a report that survives a crash,
\* unless an allowed execution of its own identity succeeded for that incident;
\* and the evidence of the incident, as archived too, holds that its own pane
\* was seen alive afterwards.
RecoveredIsVerified ==
    \A i \in IncidentIds :
        /\ report[i] # None /\ report[i].outcome = "RECOVERED"
              => \E x \in ExecutionIds : RanFor(x, i)
        /\ incident[i] # None /\ incident[i].outcome = "RECOVERED"
              => \E x \in ExecutionIds :
                    /\ RanFor(x, i) /\ Verified(i, x)
                    /\ archived[i] # None
                          => Evidence("VERIFIED", x, incident[i].pane) \in archived[i].evidence

\* A report of a later synchronization, also of a later process, never takes back
\* what an earlier one said: the lifecycle only moves on, and an outcome stays.
Rank == [OPEN |-> 1, INVESTIGATING |-> 2, TERMINAL |-> 3]

ReportsNeverRegress ==
    [][\A i \in IncidentIds : report[i] # None =>
          /\ Rank[report'[i].status] >= Rank[report[i].status]
          /\ report[i].outcome # None => report'[i].outcome = report[i].outcome]_chainVars
=============================================================================
