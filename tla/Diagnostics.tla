----------------------------- MODULE Diagnostics -----------------------------
(***************************************************************************)
(* Autonomous diagnostics: incidents, durable investigations, and the two  *)
(* threads that work on them (sentinel/diagnostic/*, incidents/manager.py).*)
(*                                                                         *)
(* The main thread reports an observation to IncidentManager and copies    *)
(* the incident's evidence into its investigation (register_incident).     *)
(* The diagnostic worker steps every active investigation, hands an        *)
(* established diagnosis to the Commander, and terminalizes the incident.  *)
(*                                                                         *)
(* Both threads change an investigation by loading its whole record,       *)
(* editing the copy and saving it; register_incident holds the             *)
(* coordinator's lock and the worker's step does not.  A load and a save   *)
(* are therefore separate steps here.  Incidents live in memory only, and  *)
(* investigations on disk only.                                            *)
(***************************************************************************)
EXTENDS Naturals, FiniteSets

CONSTANTS Components,       \* monitored panes
          Incidents,        \* incident identities, each opened at most once
          Component,        \* the pane an incident is about
          None,
          \* RuntimeDiagnosticConfig and the length of the action catalog
          MaxActions, MaxRepeated, MaxRisk, MinimumEvidence, CatalogSize,
          MaxEvidence,      \* bound: observations per incident
          MaxFaults         \* bound: crashes and failed saves

ASSUME ConstantsAreTyped ==
    /\ Component \in [Incidents -> Components]
    /\ None \notin Components \cup Incidents
    /\ {MaxActions, MaxRepeated, MaxRisk, CatalogSize} \subseteq Nat \ {0}
    /\ {MinimumEvidence, MaxEvidence, MaxFaults} \subseteq Nat

VARIABLES
    \* IncidentManager, in memory
    active,      \* the active incident of each component, or None
    trail,       \* trail[i]: the dead panes among an incident's observations
    observed,    \* observed[i]: how many observations an incident has
    terminal,    \* incidents moved to TERMINAL
    \* InvestigationStore, on disk
    inv,         \* inv[i]: the investigation of an incident, or None
    \* RuntimeDiagnosticCoordinator, in memory
    registered,  \* _investigation_by_incident
    closed,      \* _handoff_by_investigation and _final_outcome_by_investigation
    w,           \* the worker thread
    m,           \* the main thread
    \* history
    planned,     \* diagnostic actions saved
    executions,  \* diagnostic commands run
    remediations,
    lost,        \* lost[i]: reserved actions that saves of stale copies took back
    revived,     \* revived[i]: saves of stale copies that undid the end of inv[i]
    faults

incidentVars == <<active, trail, observed, terminal>>
coordVars    == <<registered, closed>>
historyVars  == <<planned, executions, remediations, lost, revived, faults>>
vars == <<incidentVars, inv, coordVars, w, m, historyVars>>

----------------------------------------------------------------------------
Evidence == 1..MaxEvidence

\* An investigation.json: obs and refs are the incident observations among its
\* observation_ids and evidence_ids, results the evidence_ids of its own
\* actions, hyp the observation that supports its hypothesis (0: none).
Investigation ==
    [state : {"ACTIVE", "COMPLETED", "BUDGET_EXHAUSTED"}, consumed : Nat,
     actions : SUBSET Nat, results : SUBSET Nat, obs : SUBSET Evidence,
     refs : SUBSET Evidence, hyp : 0..MaxEvidence, diagnosed : BOOLEAN]

NewInvestigation ==
    [state |-> "ACTIVE", consumed |-> 0, actions |-> {}, results |-> {},
     obs |-> {}, refs |-> {}, hyp |-> 0, diagnosed |-> FALSE]

\* Changes of an investigation the worker makes, in InvestigationManager.
Ops == {"hypothesis", "action", "update", "observation", "reference",
        "diagnosis", "complete", "exhaust"}

ASSUME NoneIsNoRecord == None \notin Ops \cup Investigation

WorkerPcs == {"idle", "visit", "load", "save", "execute", "refresh", "recheck",
              "handoff", "remediate", "resolve", "record"}
MainPcs   == {"idle", "append", "register", "observe", "observeSave",
              "refer", "referSave"}

WorkerIdle == [pc |-> "idle", op |-> None, todo |-> {}, cur |-> None,
               rec |-> None, budget |-> 0, arg |-> 0]
MainIdle   == [pc |-> "idle", cur |-> None, next |-> 0, rec |-> None]

\* register_incident runs under the coordinator's lock.
LockHeld == m.pc \in {"observe", "observeSave", "refer", "referSave"}

\* Type invariant; a saved record never exceeds the action budget it carries.
TypeOK ==
    /\ active \in [Components -> Incidents \cup {None}]
    /\ \A c \in Components : active[c] # None => Component[active[c]] = c
    /\ observed \in [Incidents -> 0..MaxEvidence]
    /\ trail \in [Incidents -> SUBSET Evidence]
    /\ \A i \in Incidents : trail[i] \subseteq 1..observed[i]
    /\ terminal \subseteq Incidents
    /\ inv \in [Incidents -> Investigation \cup {None}]
    /\ \A i \in Incidents : inv[i] # None => inv[i].consumed <= MaxActions
    /\ registered \subseteq {i \in Incidents : inv[i] # None}
    /\ closed \subseteq Incidents
    /\ w \in [pc : WorkerPcs, op : Ops \cup {None}, todo : SUBSET Incidents,
              cur : Incidents \cup {None}, rec : Investigation \cup {None},
              budget : Nat, arg : Nat]
    /\ m \in [pc : MainPcs, cur : Incidents \cup {None},
              next : 0..MaxEvidence + 1, rec : Investigation \cup {None}]
    /\ {planned, executions, remediations, lost, revived} \subseteq [Incidents -> Nat]
    /\ faults \in 0..MaxFaults

Init ==
    /\ active = [c \in Components |-> None]
    /\ trail = [i \in Incidents |-> {}]
    /\ observed = [i \in Incidents |-> 0]
    /\ terminal = {}
    /\ inv = [i \in Incidents |-> None]
    /\ registered = {} /\ closed = {}
    /\ w = WorkerIdle /\ m = MainIdle
    /\ planned = [i \in Incidents |-> 0]
    /\ executions = [i \in Incidents |-> 0]
    /\ remediations = [i \in Incidents |-> 0]
    /\ lost = [i \in Incidents |-> 0]
    /\ revived = [i \in Incidents |-> 0]
    /\ faults = 0

----------------------------------------------------------------------------
(* What the engine computes from a loaded record.                          *)

\* DiagnosticBudget.exhausted, or as many actions listed as the budget allows.
Exhausted(v) == v.consumed >= MaxActions \/ v.consumed >= MaxRisk
Spent(v) == Exhausted(v) \/ Cardinality(v.actions) >= MaxActions

\* The selector walks the catalog in turn, so the entry it selects for v has
\* been consumed this many times before.
Repetitions(v) == v.consumed \div CatalogSize

\* EvidenceHypothesisGenerator.generate: the first referenced observation, when
\* there is one and every referenced observation saw the pane dead.
Supporting(v) == v.obs \cap v.refs
Candidate(i, v) ==
    IF ~Spent(v) /\ Supporting(v) # {} /\ Supporting(v) \subseteq trail[i]
    THEN CHOOSE n \in Supporting(v) : \A k \in Supporting(v) : n <= k
    ELSE 0

\* DiagnosticEngine._evaluate_if_ready with DiagnosisEvaluator.evaluate.
EvidenceCount(v) == Cardinality(v.refs) + Cardinality(v.results)

\* Fault: the minimum of evidence is not required.
EstablishedWithoutMinimum(v) == v.hyp # 0 /\ v.hyp \in v.refs

Established(v) == /\ v.hyp # 0
                  /\ EvidenceCount(v) >= MinimumEvidence
                  /\ v.hyp \in v.refs

\* Fault: the repetitions are not checked before an action is planned.
DecisionsWithoutRepetitions(v) ==
    IF Established(v) THEN {"diagnosis"}
    ELSE IF Spent(v) THEN {"exhaust"}
    ELSE {"action", "exhaust"}

\* The first change DiagnosticEngine.step makes once the hypothesis is
\* recorded; the duration budget may be up at any time.
Decisions(v) ==
    IF Established(v) THEN {"diagnosis"}
    ELSE IF Spent(v) \/ Repetitions(v) >= MaxRepeated THEN {"exhaust"}
    ELSE {"action", "exhaust"}

\* The first change of a step that loaded v.
FirstOps(i, v) ==
    IF v.hyp = 0 /\ Candidate(i, v) # 0 THEN {"hypothesis"} ELSE Decisions(v)

\* InvestigationManager._require_active, and the duplicate checks of each
\* change; arg is the observation of a hypothesis or the number of an action.
Accepts(v, op, arg) ==
    /\ v.state = "ACTIVE"
    /\ op = "diagnosis" => ~v.diagnosed
    /\ op = "update" => arg \in v.actions
    /\ op = "hypothesis" => v.hyp = 0

\* Fault: record_action lists the action and forgets the consumed budget.
ApplyWithoutReservation(v, op, arg, budget) ==
    CASE op = "hypothesis"  -> [v EXCEPT !.hyp = arg]
      [] op = "action"      -> [v EXCEPT !.actions = @ \cup {arg}]
      [] op = "reference"   -> [v EXCEPT !.results = @ \cup {arg}]
      [] op = "diagnosis"   -> [v EXCEPT !.diagnosed = TRUE]
      [] op = "complete"    -> [v EXCEPT !.state = "COMPLETED"]
      [] op = "exhaust"     -> [v EXCEPT !.state = "BUDGET_EXHAUSTED"]
      [] OTHER              -> v

\* Fault: an exhausted budget is noted in the history only.
ApplyWithoutEnd(v, op, arg, budget) ==
    CASE op = "hypothesis"  -> [v EXCEPT !.hyp = arg]
      [] op = "action"      -> [v EXCEPT !.actions = @ \cup {arg},
                                         !.consumed = budget]
      [] op = "reference"   -> [v EXCEPT !.results = @ \cup {arg}]
      [] op = "diagnosis"   -> [v EXCEPT !.diagnosed = TRUE]
      [] op = "complete"    -> [v EXCEPT !.state = "COMPLETED"]
      [] OTHER              -> v

\* The record that a change of the copy v saves.
Apply(v, op, arg, budget) ==
    CASE op = "hypothesis"  -> [v EXCEPT !.hyp = arg]
      [] op = "action"      -> [v EXCEPT !.actions = @ \cup {arg},
                                         !.consumed = budget]
      [] op = "update"      -> v
      [] op = "observation" -> v
      [] op = "reference"   -> [v EXCEPT !.results = @ \cup {arg}]
      [] op = "diagnosis"   -> [v EXCEPT !.diagnosed = TRUE]
      [] op = "complete"    -> [v EXCEPT !.state = "COMPLETED"]
      [] op = "exhaust"     -> [v EXCEPT !.state = "BUDGET_EXHAUSTED"]

----------------------------------------------------------------------------
(* The worker: RuntimeDiagnosticCoordinator.run_cycle.                     *)

WorkerAt(pc) == w.pc = pc
Go(pc) == w' = [w EXCEPT !.pc = pc]

\* The next investigation of the cycle; also what every exception leads to,
\* because run_cycle catches it.
Continue == w' = [WorkerIdle EXCEPT !.pc = "visit", !.todo = w.todo]

\* Prepare a change op of the worker's investigation, decided on the copy v.
Prepare(op, i, v) ==
    [w EXCEPT !.pc = "load", !.op = op, !.cur = i, !.todo = @ \ {i},
              !.rec = None, !.budget = v.consumed + 1,
              !.arg = CASE op = "hypothesis" -> Candidate(i, v)
                        [] op = "action" -> planned[i] + 1
                        [] OTHER -> @]

\* run_cycle lists the registered investigations under the lock.
BeginCycle ==
    /\ WorkerAt("idle") /\ ~LockHeld
    /\ w' = [WorkerIdle EXCEPT !.pc = "visit", !.todo = registered]
    /\ UNCHANGED <<incidentVars, inv, coordVars, m, historyVars>>

\* Load an investigation; an active one takes a step of the engine.
Visit(i) ==
    /\ WorkerAt("visit") /\ i \in w.todo
    /\ IF inv[i].state = "ACTIVE"
       THEN \E op \in FirstOps(i, inv[i]) : w' = Prepare(op, i, inv[i])
       ELSE w' = [w EXCEPT !.todo = @ \ {i}]
    /\ UNCHANGED <<incidentVars, inv, coordVars, m, historyVars>>

EndCycle ==
    /\ WorkerAt("visit") /\ w.todo = {}
    /\ w' = WorkerIdle
    /\ UNCHANGED <<incidentVars, inv, coordVars, m, historyVars>>

\* Every change begins by loading the record again; a refused one raises.
WorkerLoads ==
    /\ WorkerAt("load")
    /\ IF Accepts(inv[w.cur], w.op, w.arg)
       THEN w' = [w EXCEPT !.pc = "save", !.rec = inv[w.cur]]
       ELSE Continue
    /\ UNCHANGED <<incidentVars, inv, coordVars, m, historyVars>>

Saved == Apply(w.rec, w.op, w.arg, w.budget)

\* The files a change writes: the record and, for a new action, its own file.
WorkerWrites ==
    /\ inv' = [inv EXCEPT ![w.cur] = Saved]
    /\ planned' = IF w.op = "action" THEN [planned EXCEPT ![w.cur] = w.arg]
                  ELSE planned

\* Save the edited copy and go on to what the engine does next.
WorkerSaves ==
    /\ WorkerAt("save")
    /\ WorkerWrites
    /\ CASE w.op = "hypothesis" ->
                \E op \in Decisions(Saved) : w' = Prepare(op, w.cur, Saved)
         [] w.op = "action"      -> Go("execute")
         [] w.op = "update"      -> w' = Prepare("observation", w.cur, Saved)
         [] w.op = "observation" -> w' = Prepare("reference", w.cur, Saved)
         [] w.op = "reference"   -> Go("refresh")
         [] w.op = "diagnosis"   -> w' = Prepare("complete", w.cur, Saved)
         [] w.op = "complete"    -> Go("handoff")
         [] w.op = "exhaust"     -> Continue
    /\ UNCHANGED <<incidentVars, coordVars, m, executions, remediations, lost, revived,
                   faults>>

\* DiagnosticExecutor.execute runs the command and catches what it raises.
Execute ==
    /\ WorkerAt("execute")
    /\ executions' = [executions EXCEPT ![w.cur] = @ + 1]
    /\ w' = Prepare("update", w.cur, w.rec)
    /\ UNCHANGED <<incidentVars, inv, coordVars, m, planned, remediations, lost, revived,
                   faults>>

\* The evaluation after an action reads the record without requiring ACTIVE.
Refresh ==
    /\ WorkerAt("refresh")
    /\ IF Established(inv[w.cur])
       THEN w' = Prepare("diagnosis", w.cur, inv[w.cur])
       ELSE Go("recheck")
    /\ UNCHANGED <<incidentVars, inv, coordVars, m, historyVars>>

Recheck ==
    /\ WorkerAt("recheck")
    /\ IF Exhausted(inv[w.cur])
       THEN w' = Prepare("exhaust", w.cur, inv[w.cur])
       ELSE Continue
    /\ UNCHANGED <<incidentVars, inv, coordVars, m, historyVars>>

\* Fault: the incident is looked up by its component.
LookupByComponent(i) == active[Component[i]]

\* IncidentManager.get_incident_by_id: only an active incident is found.
Lookup(i) == IF active[Component[i]] = i THEN i ELSE None

\* _handoff_diagnosis: once per investigation, and only for an active incident.
\* The Commander's intent and the policy decide between no effect, a terminal
\* outcome without remediation, and remediation.
Handoff ==
    /\ WorkerAt("handoff") /\ ~LockHeld
    /\ IF w.cur \in closed \/ Lookup(w.cur) = None
       THEN Continue
       ELSE Continue \/ Go("resolve") \/ Go("remediate")
    /\ UNCHANGED <<incidentVars, inv, coordVars, m, historyVars>>

\* Fault: a handoff whose remediation raised is tried again.
RemediateWithRetry ==
    /\ WorkerAt("remediate")
    /\ remediations' = [remediations EXCEPT ![Lookup(w.cur)] = @ + 1]
    /\ Go("resolve") \/ Go("handoff")
    /\ UNCHANGED <<incidentVars, inv, coordVars, m, planned, executions, lost, revived,
                   faults>>

\* CommanderHandoff.remediate on the incident found: it returns, or raises after
\* the effect.
Remediate ==
    /\ WorkerAt("remediate")
    /\ remediations' = [remediations EXCEPT ![Lookup(w.cur)] = @ + 1]
    /\ Go("resolve") \/ Continue
    /\ UNCHANGED <<incidentVars, inv, coordVars, m, planned, executions, lost, revived,
                   faults>>

\* IncidentManager.resolve finds the incident by its component.
Resolve ==
    /\ WorkerAt("resolve")
    /\ LET found == active[Component[w.cur]] IN
       IF found = None
       THEN Continue /\ UNCHANGED <<active, terminal>>
       ELSE /\ terminal' = terminal \cup {found}
            /\ active' = [active EXCEPT ![Component[w.cur]] = None]
            /\ Go("record")
    /\ UNCHANGED <<trail, observed, inv, coordVars, m, historyVars>>

\* The outcome and the handoff are remembered under the lock.
Record ==
    /\ WorkerAt("record") /\ ~LockHeld
    /\ closed' = closed \cup {w.cur}
    /\ Continue
    /\ UNCHANGED <<incidentVars, inv, registered, m, historyVars>>

\* Saving raises before or after the file is replaced; run_cycle goes on.
WorkerSaveFails ==
    /\ WorkerAt("save") /\ faults < MaxFaults
    /\ WorkerWrites \/ UNCHANGED <<inv, planned>>
    /\ Continue
    /\ faults' = faults + 1
    /\ UNCHANGED <<incidentVars, coordVars, m, executions, remediations, lost, revived>>

----------------------------------------------------------------------------
(* The main thread: one runtime cycle that reports one observation.        *)

MainAt(pc) == m.pc = pc
MainGoes(pc) == m' = [m EXCEPT !.pc = pc]
Observations(i, dead) ==
    /\ observed' = [observed EXCEPT ![i] = @ + 1]
    /\ trail' = IF dead THEN [trail EXCEPT ![i] = @ \cup {observed[i] + 1}]
                ELSE trail

\* IncidentManager.evaluate_anomaly without an active incident creates one.
OpenIncident(i) ==
    /\ MainAt("idle")
    /\ active[Component[i]] = None
    /\ observed[i] = 0 /\ MaxEvidence > 0
    /\ active' = [active EXCEPT ![Component[i]] = i]
    /\ \E dead \in BOOLEAN : Observations(i, dead)
    /\ m' = [MainIdle EXCEPT !.pc = "register", !.cur = i]
    /\ UNCHANGED <<terminal, inv, coordVars, w, historyVars>>

\* ... with one, it reads it first and appends the evidence to what it read.
FindIncident(c) ==
    /\ MainAt("idle")
    /\ active[c] # None /\ observed[active[c]] < MaxEvidence
    /\ m' = [MainIdle EXCEPT !.pc = "append", !.cur = active[c]]
    /\ UNCHANGED <<incidentVars, inv, coordVars, w, historyVars>>

AppendEvidence ==
    /\ MainAt("append")
    /\ \E dead \in BOOLEAN : Observations(m.cur, dead)
    /\ MainGoes("register")
    /\ UNCHANGED <<active, terminal, inv, coordVars, w, historyVars>>

\* register_incident: reuse the investigation of the incident or start one, and
\* record evidence only in an active one with budget left.
Register ==
    /\ MainAt("register")
    /\ LET v == IF inv[m.cur] = None THEN NewInvestigation ELSE inv[m.cur] IN
       /\ inv' = [inv EXCEPT ![m.cur] = v]
       /\ registered' = registered \cup {m.cur}
       /\ m' = IF v.state # "ACTIVE" \/ Exhausted(v) THEN MainIdle
               ELSE [m EXCEPT !.pc = "observe", !.next = 1, !.rec = v]
    /\ UNCHANGED <<incidentVars, closed, w, historyVars>>

\* record_incident_observations, one evidence record of the incident at a time:
\* a new one is recorded as an observation, and then each is referenced.
Observe ==
    /\ MainAt("observe")
    /\ m' = IF m.next > observed[m.cur] THEN MainIdle
            ELSE IF m.next \in m.rec.obs THEN [m EXCEPT !.pc = "refer"]
            ELSE IF inv[m.cur].state # "ACTIVE" THEN MainIdle
            ELSE [m EXCEPT !.pc = "observeSave", !.rec = inv[m.cur]]
    /\ UNCHANGED <<incidentVars, inv, coordVars, w, historyVars>>

Refer ==
    /\ MainAt("refer")
    /\ m' = IF inv[m.cur].state # "ACTIVE" THEN MainIdle
            ELSE IF m.next \in inv[m.cur].refs
            THEN [m EXCEPT !.pc = "observe", !.next = @ + 1, !.rec = inv[m.cur]]
            ELSE [m EXCEPT !.pc = "referSave", !.rec = inv[m.cur]]
    /\ UNCHANGED <<incidentVars, inv, coordVars, w, historyVars>>

MainSaved == IF MainAt("observeSave")
             THEN [m.rec EXCEPT !.obs = @ \cup {m.next}]
             ELSE [m.rec EXCEPT !.refs = @ \cup {m.next}]

\* The copy replaces the record, whatever the worker saved in the meantime: the
\* consumed budget and the end of the investigation go back to what was loaded.
MainWrites ==
    /\ inv' = [inv EXCEPT ![m.cur] = MainSaved]
    /\ lost' = IF MainSaved.consumed < inv[m.cur].consumed
               THEN [lost EXCEPT ![m.cur] =
                        @ + inv[m.cur].consumed - MainSaved.consumed]
               ELSE lost
    /\ revived' = IF inv[m.cur].state # "ACTIVE" /\ MainSaved.state = "ACTIVE"
                  THEN [revived EXCEPT ![m.cur] = @ + 1] ELSE revived

MainSaves ==
    /\ m.pc \in {"observeSave", "referSave"}
    /\ MainWrites
    /\ m' = IF MainAt("observeSave")
            THEN [m EXCEPT !.pc = "refer", !.rec = MainSaved]
            ELSE [m EXCEPT !.pc = "observe", !.next = @ + 1, !.rec = MainSaved]
    /\ UNCHANGED <<incidentVars, coordVars, w, planned, executions, remediations, faults>>

\* The runtime catches what submit raises and goes on with its next cycle.
MainSaveFails ==
    /\ m.pc \in {"observeSave", "referSave"} /\ faults < MaxFaults
    /\ MainWrites \/ UNCHANGED <<inv, lost, revived>>
    /\ m' = MainIdle
    /\ faults' = faults + 1
    /\ UNCHANGED <<incidentVars, coordVars, w, planned, executions, remediations>>

\* The process dies and is started again: incidents and coordinator memory are
\* gone, and RuntimeDiagnosticCoordinator.start registers what is on disk.
\* RecoveryManager leaves PLANNED and finished actions as they are, and no
\* action is ever saved as RUNNING.
Crash ==
    /\ faults < MaxFaults
    /\ active' = [c \in Components |-> None]
    /\ registered' = {i \in Incidents : inv[i] # None}
    /\ closed' = {}
    /\ w' = WorkerIdle /\ m' = MainIdle
    /\ faults' = faults + 1
    /\ UNCHANGED <<trail, observed, terminal, inv, planned, executions, remediations,
                   lost, revived>>

----------------------------------------------------------------------------
WorkerStep ==
    \/ BeginCycle \/ (\E i \in Incidents : Visit(i)) \/ EndCycle
    \/ WorkerLoads \/ WorkerSaves \/ Execute \/ Refresh \/ Recheck
    \/ Handoff \/ Remediate \/ Resolve \/ Record
RegisterStep == Register \/ Observe \/ Refer \/ MainSaves
MainStep == AppendEvidence \/ RegisterStep
Sensor == \/ \E i \in Incidents : OpenIncident(i)
          \/ \E c \in Components : FindIncident(c)
Failure == WorkerSaveFails \/ MainSaveFails \/ Crash

Next == WorkerStep \/ MainStep \/ Sensor \/ Failure
Spec == Init /\ [][Next]_vars

\* Both threads keep running; observations and failures are never forced.  A
\* diagnostic command is assumed to return: the executor sets no timeout.
FairSpec == Spec /\ WF_vars(WorkerStep) /\ WF_vars(MainStep)

----------------------------------------------------------------------------
(* Properties.                                                             *)

\* The commands an investigation ran exceed its budget of actions, of risk or of
\* repetitions of one catalog entry by no more than the reservations that stale
\* saves of register_incident took back (BudgetManager, record_action).
BudgetIsHard ==
    \A i \in Incidents : /\ executions[i] <= MaxActions + lost[i]
                         /\ executions[i] <= MaxRisk + lost[i]
                         /\ executions[i] <= CatalogSize * MaxRepeated + lost[i]

\* The state is well-formed and no budget of an investigation is overrun but by
\* a lost reservation, with the threads side by side and across crashes.
DiagnosticsOK == TypeOK /\ BudgetIsHard

\* Every command that ran is accounted for: by the counters a reload returns, or
\* by a reservation that a stale save of register_incident took back.  No crash,
\* no failed save and no save of the worker loses one (record_action).
ReservationIsAccounted ==
    \A i \in Incidents :
        inv[i] # None => executions[i] <= inv[i].consumed + lost[i]

\* The comment in record_action: subsequent reloads retain all consumed counters,
\* so that every command that ran is found in the record.
ReservationIsDurable ==
    \A i \in Incidents : inv[i] # None => executions[i] <= inv[i].consumed

\* An investigation leads to one remediation, and to another one only when a
\* stale save put the ended investigation back to ACTIVE in between: neither an
\* exception after the effect nor a restart repeats it (_handoff_diagnosis).
RemediatedOncePerEnd == \A i \in Incidents : remediations[i] <= 1 + revived[i]

\* "Terminalized and handoff results are idempotent at the investigation
\* boundary": one investigation leads to at most one remediation.
RemediatedOnce == \A i \in Incidents : remediations[i] <= 1

\* An observation of the incident saw its pane dead, and observations and
\* commands gave the minimum of evidence.
Grounded(i) == /\ trail[i] # {}
               /\ observed[i] + executions[i] >= MinimumEvidence

\* A diagnosis is recorded or completed, and a remediation done, only for an
\* incident whose pane was seen dead and with the minimum of evidence really
\* collected; a hypothesis names an observation that saw the pane dead.  Saves
\* that overwrite each other may drop references, and never make up any
\* (DiagnosisEvaluator.evaluate, EvidenceHypothesisGenerator.generate).
DiagnosisIsSupported ==
    \A i \in Incidents :
        /\ inv[i] # None =>
              /\ inv[i].hyp # 0 => inv[i].hyp \in trail[i]
              /\ inv[i].diagnosed \/ inv[i].state = "COMPLETED" => Grounded(i)
        /\ remediations[i] > 0 => Grounded(i)

\* The Commander remediates only the incident its diagnosis is about, and only
\* while that incident is active and no outcome was recorded for it; also when
\* a stale save has made its investigation active again or a restart has put a
\* new incident on the same pane (_handoff_diagnosis).
RemediatesOpenIncident ==
    [][\A i \in Incidents : remediations'[i] # remediations[i] =>
           /\ i = w.cur /\ i \notin closed \cup terminal
           /\ active[Component[i]] = i]_vars

\* resolve finds an incident by its pane, and still never terminalizes another
\* incident than the one that was diagnosed (IncidentManager.resolve).
ResolvesOwnIncident == [][terminal' \subseteq terminal \cup {w.cur}]_vars

\* The handoff remediates and resolves the incident of its diagnosis and no other.
ActsOnOwnIncident == RemediatesOpenIncident /\ ResolvesOwnIncident

Pending(i) == inv[i] # None /\ inv[i].state = "ACTIVE"

\* An investigation does not go on forever: it reaches a terminal state or has
\* its diagnosis recorded (DiagnosticEngine.step and its budget).
EndsOrIsDiagnosed ==
    \A i \in Incidents : Pending(i) ~> (~Pending(i) \/ inv[i].diagnosed)

\* Every investigation eventually reaches a terminal state, also after a crash
\* or a failed save.
InvestigationEnds == \A i \in Incidents : Pending(i) ~> ~Pending(i)

=============================================================================
