---------------------- MODULE RemediationChain_proofs ----------------------
(***************************************************************************)
(* Incidents, their outcomes and their reports: what three threads do to   *)
(* them without a lock, for any panes, ids, actions, requests and crashes. *)
(*                                                                         *)
(* Only the worker ends an incident, and while it works on one, that one   *)
(* stays the active incident of its pane; so what it reads again at each   *)
(* step of resolve is still the incident it decided on.  A report is       *)
(* written by the main thread alone, and is never ahead of the object it   *)
(* was read from.                                                          *)
(***************************************************************************)
EXTENDS RemediationChain, TLAPS

----------------------------------------------------------------------------
(* The inductive invariant.                                                *)

Remediating == {"remediate", "claim", "effect", "verify", "restore", "raise", "finalize"}

Resolves == {"resolve", "outcome", "terminal", "pop"}

Calls ==
    [at : {"idle", "archive"} \cup Remediating \cup Resolves,
     incident : IncidentIds \cup {None}, execution : ExecutionIds \cup {None},
     action : Actions \cup {None}, saved : Panes \cup {None},
     success : BOOLEAN \cup {None}, verified : BOOLEAN \cup {None},
     by : Panes \cup {None}, replayed : BOOLEAN,
     outcome : Outcomes \cup {None}, snapshot : Incidents \cup {None}]

\* The main thread is between the reads and writes of a tick or a synchronization.
MainIsTyped ==
    /\ main = [at |-> main.at, pane |-> main.pane, signals |-> main.signals,
               incident |-> main.incident, todo |-> main.todo, read |-> main.read]
    /\ main.at = "evaluate" => main.pane \in Panes
    /\ main.todo \subseteq IncidentIds
    /\ main.at = "write" => main.incident \in IncidentIds /\ main.read \in Statuses

ChainTypes ==
    /\ alive \in [Panes -> BOOLEAN]
    /\ used \subseteq IncidentIds
    /\ incident \in [IncidentIds -> Incidents \cup {None}]
    /\ archived \in [IncidentIds -> Incidents \cup {None}]
    /\ active \in [Panes -> IncidentIds \cup {None}]
    /\ thread \in [Threads -> Calls]
    /\ verifier \in Panes \cup {None}
    /\ identity \in [ExecutionIds -> Identities \cup {None}]
    /\ report \in [IncidentIds -> [Fields -> Statuses \cup Outcomes \cup {None}] \cup {None}]
    /\ MainIsTyped

Worker == thread["worker"]

Present(i) == incident[i] # None

Terminal(i) == incident[i].status = "TERMINAL"

\* An id is given out once: what was not given out names nothing, also after a crash.
UsedIsKept ==
    \A i \in IncidentIds \ used : incident[i] = None /\ archived[i] = None /\ report[i] = None

\* A pane has one incident that is not over, and an incident that is over is still
\* active only while the worker is about to take it away.
ActiveIsLive ==
    /\ \A p \in Panes : active[p] # None =>
          Present(active[p]) /\ incident[active[p]].pane = p
    /\ \A i \in IncidentIds : Present(i) =>
          IF Terminal(i)
            THEN active[incident[i].pane] = i => Worker.at = "pop" /\ Worker.incident = i
            ELSE active[incident[i].pane] = i

\* What a thread works on exists, and the worker's incident is the active one of its pane.
ThreadsHold ==
    /\ \A t \in Threads :
          /\ thread[t].at # "idle" =>
                thread[t].incident \in IncidentIds /\ Present(thread[t].incident)
          /\ thread[t].at \in Remediating =>
                thread[t].execution \in ExecutionIds /\ thread[t].action \in Actions
          /\ thread[t].at = "effect" => identity[thread[t].execution] # None
    /\ thread["operator"].at \notin Resolves \cup {"archive"}
    /\ Worker.at \in Remediating \cup Resolves =>
          active[incident[Worker.incident].pane] = Worker.incident
    /\ Worker.at \in Resolves => Worker.outcome \in Outcomes
    /\ Worker.at \in {"terminal", "pop"} => incident[Worker.incident].outcome = Worker.outcome
    /\ Worker.at = "pop" => Terminal(Worker.incident)

\* The outcome of an incident is set once, by the worker, before the incident ends.
OutcomeIsSetOnce ==
    \A i \in IncidentIds : Present(i) =>
       /\ Terminal(i) => incident[i].outcome \in Outcomes
       /\ ~Terminal(i) /\ incident[i].outcome # None =>
             Worker.at = "terminal" /\ Worker.incident = i

\* r is a copy of incident i that was made when it was over; evidence may have come since.
IsCopy(r, i) ==
    /\ Present(i) /\ Terminal(i)
    /\ r.status = "TERMINAL"
    /\ r.outcome = incident[i].outcome
    /\ r.evidence \subseteq incident[i].evidence

CopiesAreTrue ==
    /\ \A i \in IncidentIds : archived[i] # None => IsCopy(archived[i], i)
    /\ Worker.at = "archive" =>
          Worker.snapshot \in Incidents /\ IsCopy(Worker.snapshot, Worker.incident)

\* A report, and what has been read for one, is never ahead of the incident.
ReportsAreBehind ==
    /\ \A i \in IncidentIds : report[i] # None =>
          /\ report[i].status \in Statuses
          /\ report[i].outcome \in Outcomes \cup {None}
          /\ report[i].status = "TERMINAL" => report[i].outcome \in Outcomes
          /\ Present(i) =>
                /\ Rank[report[i].status] <= Rank[incident[i].status]
                /\ report[i].outcome # None => incident[i].outcome = report[i].outcome
    /\ \A i \in main.todo : Present(i)
    /\ main.at = "write" =>
          /\ Present(main.incident)
          /\ Rank[main.read] <= Rank[incident[main.incident].status]
          /\ report[main.incident] # None =>
                Rank[report[main.incident].status] <= Rank[main.read]

ChainInv ==
    /\ ChainTypes
    /\ UsedIsKept
    /\ ActiveIsLive
    /\ ThreadsHold
    /\ OutcomeIsSetOnce
    /\ CopiesAreTrue
    /\ ReportsAreBehind

----------------------------------------------------------------------------
(* What the operators are.                                                 *)

LEMMA OutcomesAreOutcomes ==
    /\ \A intent \in {"INSUFFICIENT_EVIDENCE", "NEED_COMMANDER", "NO_ACTION"} :
          OutcomeOfIntent(intent) \in (Outcomes \ {"RECOVERED"}) \cup {None}
    /\ \A s, v : OutcomeOfRemediation(s, v) \in Outcomes
    /\ \A s, v : OutcomeOfRemediation(s, v) = "RECOVERED" => s = TRUE /\ v = TRUE
  BY DEF OutcomeOfIntent, OutcomeOfRemediation, Outcomes

LEMMA IntentsAreIntents ==
    \A e, q, r, c \in BOOLEAN :
        Intent(e, q, r, c) \in {"INSUFFICIENT_EVIDENCE", "NEED_COMMANDER",
                                "AUTONOMOUS_REMEDIATE", "NO_ACTION"}
  BY DEF Intent

LEMMA EvidenceIsEvidence ==
    ASSUME NEW c \in Calls
    PROVE  Evidence(RemediationEvidence(c), c.execution, c.by) \in Evidences
  <1>1. RemediationEvidence(c) \in {"REPLAYED", "DENIED", "FAILED", "EXECUTED_UNVERIFIED",
                                    "VERIFIED", "VERIFICATION_FAILED"}
    BY ConstantsAreTyped DEF RemediationEvidence, Calls
  <1> QED
    BY <1>1 DEF Evidence, Evidences, Calls

LEMMA IdleIsACall == Idle \in Calls
  BY DEF Idle, Calls

LEMMA TheOther == Other("worker") = "operator" /\ Other("operator") = "worker"
  BY DEF Other, Threads

----------------------------------------------------------------------------
(* The types.                                                              *)

LEMMA ChainStart == Init => ChainInv
  <1> SUFFICES ASSUME Init
               PROVE  ChainInv
    OBVIOUS
  <1> USE DEF Init
  <1>1. ChainTypes
    BY IdleIsACall, ConstantsAreTyped
    DEF ChainTypes, MainIsTyped, MainIdle, Threads
  <1>2. UsedIsKept /\ ActiveIsLive
    BY DEF UsedIsKept, ActiveIsLive, Present
  <1>3. ThreadsHold /\ OutcomeIsSetOnce /\ CopiesAreTrue
    BY DEF ThreadsHold, OutcomeIsSetOnce, CopiesAreTrue, Present, Worker, Threads, Idle,
           Remediating, Resolves
  <1>4. ReportsAreBehind
    BY DEF ReportsAreBehind, MainIdle
  <1> QED
    BY <1>1, <1>2, <1>3, <1>4 DEF ChainInv

\* The main thread, whose other steps leave everything else as it is.
MainMoves ==
    \/ \E p \in Panes : Observe(p)
    \/ JoinIncident \/ OutOfIncidents \/ SyncActive \/ SyncHistory
    \/ \E i \in IncidentIds : ReadReport(i)

\* Steps of a remediation that leave the incidents, the identities and the verifier.
CallMoves ==
    \/ \E i \in IncidentIds : Handoff(i) \/ HandoffRemediation(i)
    \/ \E i \in IncidentIds, a \in Actions, x \in ExecutionIds : Remediate(i, a, x)
    \/ \E t \in Threads : Replay(t) \/ RefuseClaim(t) \/ Verify(t)

VerifierMoves == \E t \in Threads : SwapVerifier(t) \/ RestoreVerifier(t)

IdentityMoves == \E t \in Threads : Claim(t) \/ Execute(t) \/ ExecuteRaises(t)

LEMMA StepIsOne ==
    ASSUME [Next]_chainVars
    PROVE  \/ \E p \in Panes : PaneChanges(p)
           \/ MainMoves \/ CreateIncident \/ WriteReport
           \/ CallMoves \/ VerifierMoves \/ IdentityMoves
           \/ \E t \in Threads : Finalize(t)
           \/ AcceptRecovery \/ SetOutcome \/ SetTerminal \/ PopIncident \/ ArchiveIncident
           \/ Crash
           \/ UNCHANGED chainVars
  BY DEF Next, MainTick, MainSync, Resolve, MainMoves, CallMoves, VerifierMoves, IdentityMoves

\* What the steps leave alone.
LEMMA MainMovesAlone ==
    ASSUME MainMoves
    PROVE  UNCHANGED <<alive, incidentVars, thread, handled, verifier, durableVars>>
  BY DEF MainMoves, Observe, JoinIncident, OutOfIncidents, SyncActive, SyncHistory, ReadReport

LEMMA CallsMoveAlone ==
    /\ CallMoves => UNCHANGED <<alive, incidentVars, main, verifier, durableVars>>
    /\ VerifierMoves => UNCHANGED <<alive, incidentVars, main, durableVars>>
    /\ IdentityMoves => UNCHANGED <<alive, incidentVars, main, verifier, report>>
  BY DEF CallMoves, VerifierMoves, IdentityMoves, Handoff, HandoffRemediation, Remediate,
         Replay, RefuseClaim, Verify, SwapVerifier, RestoreVerifier, Claim, Execute,
         ExecuteRaises

LEMMA MainTypesStep ==
    ASSUME ChainInv, [Next]_chainVars
    PROVE  MainIsTyped'
  <1> USE DEF ChainInv
  <1>1. MainIsTyped
    BY DEF ChainTypes
  <1>2. CASE MainMoves
    <2> USE <1>1 DEF MainIsTyped
    <2>1. ASSUME NEW p \in Panes, Observe(p)
          PROVE  MainIsTyped'
      BY <2>1 DEF Observe, MainIdle
    <2>2. ASSUME JoinIncident
          PROVE  MainIsTyped'
      BY <2>2 DEF JoinIncident, NextSignal, MainIdle
    <2>3. ASSUME OutOfIncidents
          PROVE  MainIsTyped'
      BY <2>3 DEF OutOfIncidents, MainIdle
    <2>4. ASSUME SyncActive
          PROVE  MainIsTyped'
      <3>1. Actives \subseteq IncidentIds
        BY DEF Actives, ChainTypes
      <3> QED
        BY <2>4, <3>1 DEF SyncActive
    <2>5. ASSUME SyncHistory
          PROVE  MainIsTyped'
      BY <2>5 DEF SyncHistory, Archive, MainIdle
    <2>6. ASSUME NEW i \in IncidentIds, ReadReport(i)
          PROVE  MainIsTyped'
      <3>1. Source(i).status \in Statuses
        BY <2>6 DEF ReadReport, ReportsAreBehind, CopiesAreTrue, IsCopy, Source, ChainTypes,
                    Incidents, Present
      <3> QED
        BY <2>6, <3>1 DEF ReadReport, FirstRead
    <2> QED
      BY <1>2, <2>1, <2>2, <2>3, <2>4, <2>5, <2>6 DEF MainMoves
  <1>3. CASE CreateIncident
    BY <1>1, <1>3 DEF CreateIncident, NextSignal, MainIdle, MainIsTyped
  <1>4. CASE WriteReport
    BY <1>1, <1>4 DEF WriteReport, MainIdle, MainIsTyped
  <1>5. CASE Crash
    BY <1>5 DEF Crash, MainIdle, MainIsTyped
  <1>6. CASE UNCHANGED main
    BY <1>1, <1>6 DEF MainIsTyped
  <1>7. CASE AcceptRecovery \/ SetOutcome \/ SetTerminal \/ PopIncident \/ ArchiveIncident
    BY <1>6, <1>7 DEF AcceptRecovery, SetOutcome, SetTerminal, PopIncident, ArchiveIncident,
                      ResolveStep
  <1>8. CASE UNCHANGED chainVars \/ \E p \in Panes : PaneChanges(p)
    BY <1>6, <1>8 DEF chainVars, PaneChanges
  <1>9. CASE \E t \in Threads : Finalize(t)
    BY <1>6, <1>9 DEF Finalize
  <1> QED
    BY <1>2, <1>3, <1>4, <1>5, <1>6, <1>7, <1>8, <1>9, StepIsOne, CallsMoveAlone

\* A thread goes on with its own call.
LEMMA CallsStep ==
    ASSUME ChainInv, [Next]_chainVars
    PROVE  thread' \in [Threads -> Calls]
  <1> USE ConstantsAreTyped
  <1>1. /\ thread \in [Threads -> Calls]
        /\ verifier \in Panes \cup {None}
        /\ alive \in [Panes -> BOOLEAN]
        /\ incident \in [IncidentIds -> Incidents \cup {None}]
    BY DEF ChainInv, ChainTypes
  <1>2. CASE CallMoves
    <2>1. ASSUME NEW i \in IncidentIds, Handoff(i)
          PROVE  thread' \in [Threads -> Calls]
      <3>1. PICK established \in BOOLEAN, required \in BOOLEAN, registered \in BOOLEAN,
                 commander \in BOOLEAN, action \in Actions :
              LET intent  == Intent(established, required, registered, commander)
                  denied  == intent = "AUTONOMOUS_REMEDIATE" /\ ~Allowed(action)
                  outcome == IF denied THEN "ESCALATED" ELSE OutcomeOfIntent(intent)
              IN
              /\ intent = "AUTONOMOUS_REMEDIATE" => denied
              /\ thread' = IF outcome = None THEN thread
                           ELSE [thread EXCEPT !["worker"] =
                              [Idle EXCEPT !.at = "resolve", !.incident = i, !.outcome = outcome]]
        BY <2>1 DEF Handoff
      <3> DEFINE intent  == Intent(established, required, registered, commander)
                 denied  == intent = "AUTONOMOUS_REMEDIATE" /\ ~Allowed(action)
                 outcome == IF denied THEN "ESCALATED" ELSE OutcomeOfIntent(intent)
      <3>2. outcome \in Outcomes \cup {None}
        BY <3>1, OutcomesAreOutcomes, IntentsAreIntents DEF Outcomes
      <3>3. thread' = thread \/ thread' = [thread EXCEPT !["worker"] =
                [Idle EXCEPT !.at = "resolve", !.incident = i, !.outcome = outcome]]
        BY <3>1
      <3> HIDE DEF outcome
      <3>4. [Idle EXCEPT !.at = "resolve", !.incident = i, !.outcome = outcome] \in Calls
        BY <3>2 DEF Idle, Calls, Resolves
      <3> QED
        BY <1>1, <3>3, <3>4
    <2>2. ASSUME NEW i \in IncidentIds, HandoffRemediation(i)
          PROVE  thread' \in [Threads -> Calls]
      <3>1. PICK a \in Actions, x \in ExecutionIds :
                thread' = [thread EXCEPT !["worker"] =
                    [Idle EXCEPT !.at = "remediate", !.incident = i, !.execution = x,
                                 !.action = a]]
        BY <2>2 DEF HandoffRemediation
      <3>2. [Idle EXCEPT !.at = "remediate", !.incident = i, !.execution = x,
                         !.action = a] \in Calls
        BY DEF Idle, Calls, Remediating
      <3> QED
        BY <3>1, <3>2, <1>1
    <2>3. ASSUME NEW i \in IncidentIds, NEW a \in Actions, NEW x \in ExecutionIds,
                 Remediate(i, a, x)
          PROVE  thread' \in [Threads -> Calls]
      BY <2>3, <1>1 DEF Remediate, Idle, Calls, Remediating
    <2>4. ASSUME NEW t \in Threads, Replay(t)
          PROVE  thread' \in [Threads -> Calls]
      <3> DEFINE r == identity[thread[t].execution]
                 success == IF r.state = "UNKNOWN" THEN None ELSE r.state = "SUCCEEDED"
      <3>1. success \in BOOLEAN \cup {None}
        OBVIOUS
      <3>2. thread' = [thread EXCEPT ![t].at = "restore", ![t].replayed = TRUE,
                                     ![t].success = success]
        BY <2>4 DEF Replay
      <3> HIDE DEF success
      <3>3. thread[t] \in Calls
        BY <1>1
      <3>4. [thread[t] EXCEPT !.at = "restore", !.replayed = TRUE, !.success = success] \in Calls
        BY <3>1, <3>3 DEF Calls, Remediating
      <3> QED
        BY <3>2, <3>4, <1>1
    <2>5. ASSUME NEW t \in Threads, RefuseClaim(t)
          PROVE  thread' \in [Threads -> Calls]
      BY <2>5, <1>1 DEF RefuseClaim, Calls, Remediating
    <2>6. ASSUME NEW t \in Threads, Verify(t)
          PROVE  thread' \in [Threads -> Calls]
      <3>1. PICK verified \in IF verifier = None THEN {None} ELSE {FALSE, alive[verifier]} :
                thread' = [thread EXCEPT ![t].at = "restore", ![t].verified = verified,
                                         ![t].by = verifier]
        BY <2>6 DEF Verify
      <3>2. verified \in BOOLEAN \cup {None}
        BY <3>1, <1>1
      <3>3. thread[t] \in Calls
        BY <1>1
      <3>4. [thread[t] EXCEPT !.at = "restore", !.verified = verified, !.by = verifier] \in Calls
        <4>1. ASSUME NEW c \in Calls, NEW v \in BOOLEAN \cup {None},
                     NEW q \in Panes \cup {None}
              PROVE  [c EXCEPT !.at = "restore", !.verified = v, !.by = q] \in Calls
          <5> DEFINE d == [c EXCEPT !.at = "restore"]
                     e == [d EXCEPT !.verified = v]
          <5>1. d \in Calls
            BY DEF Calls, Remediating
          <5>2. e \in Calls
            <6> HIDE DEF d
            <6> QED
              BY <5>1 DEF Calls
          <5>3. [e EXCEPT !.by = q] \in Calls
            <6> HIDE DEF e
            <6> QED
              BY <5>2 DEF Calls
          <5>4. [e EXCEPT !.by = q] = [c EXCEPT !.at = "restore", !.verified = v, !.by = q]
            BY DEF Calls
          <5> QED
            BY <5>3, <5>4
        <4> QED
          BY <1>1, <3>2, <3>3, <4>1
      <3> QED
        BY <3>1, <3>4, <1>1
    <2> QED
      BY <1>2, <2>1, <2>2, <2>3, <2>4, <2>5, <2>6 DEF CallMoves
  <1>3. CASE VerifierMoves
    BY <1>3, <1>1, IdleIsACall DEF VerifierMoves, SwapVerifier, RestoreVerifier, Calls, Remediating
  <1>4. CASE IdentityMoves
    <2>1. ASSUME NEW t \in Threads, Claim(t) \/ ExecuteRaises(t)
          PROVE  thread' \in [Threads -> Calls]
      BY <2>1, <1>1 DEF Claim, ExecuteRaises, Calls, Remediating
    <2>2. ASSUME NEW t \in Threads, Execute(t)
          PROVE  thread' \in [Threads -> Calls]
      <3>1. PICK success \in BOOLEAN :
                thread' = [thread EXCEPT ![t].at = IF success THEN "verify" ELSE "restore",
                                         ![t].success = success]
        BY <2>2 DEF Execute
      <3>2. thread[t] \in Calls
        BY <1>1
      <3>3. \A at \in {"verify", "restore"} :
               [thread[t] EXCEPT !.at = at, !.success = success] \in Calls
        BY <3>2 DEF Calls, Remediating
      <3> QED
        BY <3>1, <3>3, <1>1
    <2> QED
      BY <1>4, <2>1, <2>2 DEF IdentityMoves
  <1>5. ASSUME NEW t \in Threads, Finalize(t)
        PROVE  thread' \in [Threads -> Calls]
    <2>1. thread[t] \in Calls
      BY <1>1
    <2>2. [Idle EXCEPT !.at = "resolve", !.incident = thread[t].incident,
              !.outcome = OutcomeOfRemediation(thread[t].success, thread[t].verified)] \in Calls
      BY <2>1, OutcomesAreOutcomes DEF Idle, Calls, Resolves
    <2> QED
      BY <1>5, <1>1, <2>2, IdleIsACall DEF Finalize
  <1>6. CASE AcceptRecovery \/ SetOutcome \/ SetTerminal
    BY <1>6, <1>1 DEF AcceptRecovery, SetOutcome, SetTerminal, ResolveStep, Calls, Resolves
  <1>7. CASE PopIncident
    <2>1. incident[Resolving] \in Incidents \cup {None}
      BY <1>1, <1>7 DEF PopIncident, Resolving, ChainInv, ThreadsHold, Worker, Resolves, Threads
    <2>2. thread' = [thread EXCEPT !["worker"] =
                        [@ EXCEPT !.at = "archive", !.snapshot = incident[Resolving]]]
      BY <1>7 DEF PopIncident
    <2>3. [thread["worker"] EXCEPT !.at = "archive", !.snapshot = incident[Resolving]] \in Calls
      <3>1. thread["worker"] \in Calls
        BY <1>1 DEF Threads
      <3> QED
        BY <2>1, <3>1 DEF Calls
    <2> QED
      BY <1>1, <2>2, <2>3 DEF Threads
  <1>8. CASE ArchiveIncident
    BY <1>8, <1>1, IdleIsACall DEF ArchiveIncident
  <1>9. CASE Crash
    BY <1>9, IdleIsACall DEF Crash
  <1>10. CASE UNCHANGED thread
    BY <1>10, <1>1
  <1>11. CASE UNCHANGED chainVars \/ MainMoves \/ CreateIncident \/ WriteReport
                \/ \E p \in Panes : PaneChanges(p)
    BY <1>10, <1>11, MainMovesAlone DEF chainVars, CreateIncident, WriteReport, PaneChanges
  <1> QED
    BY <1>2, <1>3, <1>4, <1>5, <1>6, <1>7, <1>8, <1>9, <1>11, StepIsOne

----------------------------------------------------------------------------
(* What a step does.                                                       *)

\* A thread goes on with its remediation, ends it, or takes an incident on.
GoesOn(c, d) ==
    /\ c.at \in Remediating /\ d.at \in Remediating
    /\ d.incident = c.incident /\ d.execution = c.execution /\ d.action = c.action
    /\ d.at = "effect" => c.at = "claim" /\ identity'[c.execution] = Claimed(c)

TakesOn(t, d) ==
    /\ d.incident \in IncidentIds /\ Present(d.incident)
    /\ t = "worker" => active[incident[d.incident].pane] = d.incident
    /\ \/ d.at \in {"remediate", "finalize"} /\ d.execution \in ExecutionIds /\ d.action \in Actions
       \/ t = "worker" /\ d.at = "resolve" /\ d.outcome \in Outcomes \ {"RECOVERED"}

CallForm(t) ==
    \/ thread'[t] = thread[t]
    \/ GoesOn(thread[t], thread'[t])
    \/ thread[t].at \in Remediating /\ thread'[t] = Idle
    \/ thread[t] = Idle /\ TakesOn(t, thread'[t])

\* Steps that leave every incident as it is.
Quiet == UNCHANGED incidentVars /\ \A t \in Threads : CallForm(t)

LEMMA ActivesArePresent ==
    ASSUME ChainInv, NEW i \in Actives
    PROVE  i \in IncidentIds /\ Present(i) /\ active[incident[i].pane] = i
  BY DEF ChainInv, ChainTypes, ActiveIsLive, Actives

LEMMA CallsForm ==
    ASSUME ChainInv, CallMoves
    PROVE  \A t \in Threads : CallForm(t)
  <1>1. thread \in [Threads -> Calls]
    BY DEF ChainInv, ChainTypes
  <1>2. ASSUME NEW i \in IncidentIds, Handoff(i)
        PROVE  \A t \in Threads : CallForm(t)
    <2>1. PICK established \in BOOLEAN, required \in BOOLEAN, registered \in BOOLEAN,
               commander \in BOOLEAN, action \in Actions :
            LET intent  == Intent(established, required, registered, commander)
                denied  == intent = "AUTONOMOUS_REMEDIATE" /\ ~Allowed(action)
                outcome == IF denied THEN "ESCALATED" ELSE OutcomeOfIntent(intent)
            IN
            /\ intent = "AUTONOMOUS_REMEDIATE" => denied
            /\ thread' = IF outcome = None THEN thread
                         ELSE [thread EXCEPT !["worker"] =
                            [Idle EXCEPT !.at = "resolve", !.incident = i, !.outcome = outcome]]
      BY <1>2 DEF Handoff
    <2> DEFINE intent  == Intent(established, required, registered, commander)
               denied  == intent = "AUTONOMOUS_REMEDIATE" /\ ~Allowed(action)
               outcome == IF denied THEN "ESCALATED" ELSE OutcomeOfIntent(intent)
    <2>2. outcome \in (Outcomes \ {"RECOVERED"}) \cup {None}
      BY <2>1, OutcomesAreOutcomes, IntentsAreIntents DEF Outcomes
    <2>3. thread' = thread \/ (outcome # None /\ thread' = [thread EXCEPT !["worker"] =
              [Idle EXCEPT !.at = "resolve", !.incident = i, !.outcome = outcome]])
      BY <2>1
    <2>4. i \in Actives /\ thread["worker"] = Idle
      BY <1>2 DEF Handoff
    <2> HIDE DEF outcome
    <2>5. CASE thread' = thread
      BY <2>5 DEF CallForm
    <2>6. CASE outcome # None /\ thread' = [thread EXCEPT !["worker"] =
              [Idle EXCEPT !.at = "resolve", !.incident = i, !.outcome = outcome]]
      <3>1. /\ thread'["worker"].at = "resolve" /\ thread'["worker"].incident = i
            /\ thread'["worker"].outcome = outcome
            /\ thread'["operator"] = thread["operator"]
        BY <1>1, <2>6 DEF Idle, Threads
      <3> QED
        BY <2>2, <2>4, <2>6, <3>1, ActivesArePresent DEF CallForm, TakesOn, Threads
    <2> QED
      BY <2>3, <2>5, <2>6
  <1>3. ASSUME NEW i \in IncidentIds, HandoffRemediation(i)
        PROVE  \A t \in Threads : CallForm(t)
    <2>1. PICK a \in Actions, x \in ExecutionIds :
              thread' = [thread EXCEPT !["worker"] =
                  [Idle EXCEPT !.at = "remediate", !.incident = i, !.execution = x,
                               !.action = a]]
      BY <1>3 DEF HandoffRemediation
    <2>2. i \in Actives /\ thread["worker"] = Idle
      BY <1>3 DEF HandoffRemediation
    <2> QED
      BY <1>1, <2>1, <2>2, ActivesArePresent DEF CallForm, TakesOn, Idle, Threads, Remediating
  <1>4. ASSUME NEW i \in IncidentIds, NEW a \in Actions, NEW x \in ExecutionIds,
               Remediate(i, a, x)
        PROVE  \A t \in Threads : CallForm(t)
    BY <1>1, <1>4 DEF Remediate, CallForm, TakesOn, Idle, Threads, Remediating, Present
  <1>5. ASSUME NEW t \in Threads, Replay(t) \/ RefuseClaim(t) \/ Verify(t)
        PROVE  \A s \in Threads : CallForm(s)
    <2>1. thread[t] \in Calls
      BY <1>1
    <2>2. GoesOn(thread[t], thread'[t]) /\ \A s \in Threads \ {t} : thread'[s] = thread[s]
      <3>1. CASE Replay(t)
        <4> DEFINE r == identity[thread[t].execution]
                   success == IF r.state = "UNKNOWN" THEN None ELSE r.state = "SUCCEEDED"
        <4>1. thread' = [thread EXCEPT ![t].at = "restore", ![t].replayed = TRUE,
                                       ![t].success = success]
          BY <3>1 DEF Replay
        <4> HIDE DEF success
        <4> QED
          BY <1>1, <2>1, <3>1, <4>1 DEF Replay, GoesOn, Calls, Remediating
      <3>3. CASE Verify(t)
        <4>1. PICK verified \in IF verifier = None THEN {None} ELSE {FALSE, alive[verifier]} :
                  thread' = [thread EXCEPT ![t].at = "restore", ![t].verified = verified,
                                           ![t].by = verifier]
          BY <3>3 DEF Verify
        <4> QED
          BY <1>1, <2>1, <3>3, <4>1 DEF Verify, GoesOn, Calls, Remediating
      <3>2. CASE RefuseClaim(t)
        BY <1>1, <3>2, <2>1 DEF RefuseClaim, GoesOn, Calls, Remediating
      <3> QED
        BY <1>5, <3>1, <3>2, <3>3
    <2> QED
      BY <2>2 DEF CallForm
  <1> QED
    BY <1>2, <1>3, <1>4, <1>5 DEF CallMoves

LEMMA OthersForm ==
    ASSUME ChainInv, VerifierMoves \/ IdentityMoves
    PROVE  \A t \in Threads : CallForm(t)
  <1>1. thread \in [Threads -> Calls]
    BY DEF ChainInv, ChainTypes
  <1>2. ASSUME NEW t \in Threads, SwapVerifier(t) \/ Claim(t) \/ Execute(t) \/ ExecuteRaises(t)
        PROVE  \A s \in Threads : CallForm(s)
    <2>1. thread[t] \in Calls
      BY <1>1
    <2>2. GoesOn(thread[t], thread'[t]) /\ \A s \in Threads \ {t} : thread'[s] = thread[s]
      <3>1. CASE Execute(t)
        <4>1. PICK success \in BOOLEAN :
                  thread' = [thread EXCEPT ![t].at = IF success THEN "verify" ELSE "restore",
                                           ![t].success = success]
          BY <3>1 DEF Execute
        <4>2. PICK at \in {"verify", "restore"} :
                  thread' = [thread EXCEPT ![t].at = at, ![t].success = success]
          BY <4>1
        <4> QED
          BY <1>1, <2>1, <3>1, <4>2 DEF Execute, GoesOn, Calls, Remediating
      <3>2. CASE SwapVerifier(t) \/ ExecuteRaises(t)
        BY <1>1, <3>2, <2>1 DEF SwapVerifier, ExecuteRaises, GoesOn, Calls, Remediating
      <3>3. CASE Claim(t)
        <4>1. thread[t].execution \in ExecutionIds
          BY <3>3 DEF Claim, ChainInv, ThreadsHold, Remediating
        <4>2. identity'[thread[t].execution] = Claimed(thread[t])
          BY <3>3, <4>1 DEF Claim, ChainInv, ChainTypes
        <4> QED
          BY <1>1, <3>3, <2>1, <4>2 DEF Claim, GoesOn, Calls, Remediating
      <3> QED
        BY <1>2, <3>1, <3>2, <3>3
    <2> QED
      BY <2>2 DEF CallForm
  <1>3. ASSUME NEW t \in Threads, RestoreVerifier(t)
        PROVE  \A s \in Threads : CallForm(s)
    <2>1. thread[t] \in Calls
      BY <1>1
    <2>2. GoesOn(thread[t], thread'[t]) \/ (thread[t].at \in Remediating /\ thread'[t] = Idle)
      BY <1>1, <1>3, <2>1 DEF RestoreVerifier, GoesOn, Calls, Remediating
    <2>3. \A s \in Threads \ {t} : thread'[s] = thread[s]
      BY <1>1, <1>3 DEF RestoreVerifier
    <2> QED
      BY <2>2, <2>3 DEF CallForm
  <1> QED
    BY <1>2, <1>3 DEF VerifierMoves, IdentityMoves

\* The steps of IncidentManager.resolve that change the incident it is about.
LEMMA ResolvingIsOwn ==
    ASSUME ChainInv, Worker.at \in Resolves
    PROVE  /\ Resolving = Worker.incident
           /\ Worker.incident \in IncidentIds
           /\ incident[Worker.incident] \in Incidents
           /\ active[incident[Worker.incident].pane] = Worker.incident
  BY DEF ChainInv, ChainTypes, ThreadsHold, Worker, Resolving, Threads, Present, Resolves

\* i is the worker's incident, which resolve ends without taking it away yet.
Ends(i) ==
    /\ i = Worker.incident /\ i \in IncidentIds /\ incident[i] \in Incidents
    /\ active[incident[i].pane] = i
    /\ UNCHANGED <<used, active, archived, main, report>>
    /\ \E at \in {"outcome", "terminal", "pop"} : thread' = [thread EXCEPT !["worker"].at = at]
    /\ \/ /\ Worker.at = "resolve" /\ Worker'.at = "outcome"
          /\ incident' = incident \/ incident' = [incident EXCEPT ![i].status = "INVESTIGATING"]
          /\ incident' # incident => incident[i].status = "OPEN"
       \/ /\ Worker.at = "outcome" /\ Worker'.at = "terminal"
          /\ incident' = [incident EXCEPT ![i].outcome = Worker.outcome]
       \/ /\ Worker.at = "terminal" /\ Worker'.at = "pop"
          /\ incident' = [incident EXCEPT ![i].status = "TERMINAL"]

\* It is not active any more, and the worker has a copy of it.
Pops(i) ==
    /\ i = Worker.incident /\ i \in IncidentIds /\ incident[i] \in Incidents
    /\ Worker.at = "pop"
    /\ active[incident[i].pane] = i
    /\ active' = [active EXCEPT ![incident[i].pane] = None]
    /\ UNCHANGED <<used, incident, archived, main, report>>
    /\ thread' = [thread EXCEPT !["worker"] =
                    [@ EXCEPT !.at = "archive", !.snapshot = incident[i]]]

LEMMA EndsOrPops ==
    ASSUME ChainInv
    PROVE  /\ AcceptRecovery \/ SetOutcome \/ SetTerminal => Ends(Worker.incident)
           /\ PopIncident => Pops(Worker.incident)
  <1>1. /\ thread \in [Threads -> Calls] /\ incident \in [IncidentIds -> Incidents \cup {None}]
        /\ Worker \in Calls
    BY DEF ChainInv, ChainTypes, Worker, Threads
  <1> DEFINE i == Worker.incident
  <1>2. ASSUME AcceptRecovery
        PROVE  Ends(i)
    <2>1. /\ Worker.at = "resolve" /\ Worker'.at = "outcome"
          /\ thread' = [thread EXCEPT !["worker"].at = "outcome"]
      BY <1>1, <1>2 DEF AcceptRecovery, ResolveStep, Worker, Threads, Calls
    <2>2. incident' = [incident EXCEPT ![i].status = IF @ = "OPEN" THEN "INVESTIGATING" ELSE @]
      BY <1>2, <2>1, ResolvingIsOwn DEF AcceptRecovery, Resolves
    <2>3. /\ incident' = incident \/ incident' = [incident EXCEPT ![i].status = "INVESTIGATING"]
          /\ incident' # incident => incident[i].status = "OPEN"
      <3>1. incident[i] \in Incidents /\ i \in IncidentIds
        BY <2>1, ResolvingIsOwn DEF Resolves
      <3> QED
        BY <1>1, <2>2, <3>1 DEF Incidents
    <2> QED
      BY <1>2, <2>1, <2>3, ResolvingIsOwn DEF Ends, AcceptRecovery, ResolveStep, Resolves,
             durableVars
  <1>3. ASSUME SetOutcome
        PROVE  Ends(i)
    <2>1. /\ Worker.at = "outcome" /\ Worker'.at = "terminal"
          /\ thread' = [thread EXCEPT !["worker"].at = "terminal"]
      BY <1>1, <1>3 DEF SetOutcome, ResolveStep, Worker, Threads, Calls
    <2>2. incident' = [incident EXCEPT ![i].outcome = Worker.outcome]
      BY <1>3, <2>1, ResolvingIsOwn DEF SetOutcome, Resolves, Worker
    <2> QED
      BY <1>3, <2>1, <2>2, ResolvingIsOwn DEF Ends, SetOutcome, ResolveStep, Resolves,
             durableVars
  <1>4. ASSUME SetTerminal
        PROVE  Ends(i)
    <2>1. /\ Worker.at = "terminal" /\ Worker'.at = "pop"
          /\ thread' = [thread EXCEPT !["worker"].at = "pop"]
      BY <1>1, <1>4 DEF SetTerminal, ResolveStep, Worker, Threads, Calls
    <2>2. incident' = [incident EXCEPT ![i].status = "TERMINAL"]
      BY <1>4, <2>1, ResolvingIsOwn DEF SetTerminal, Resolves
    <2> QED
      BY <1>4, <2>1, <2>2, ResolvingIsOwn DEF Ends, SetTerminal, ResolveStep, Resolves,
             durableVars
  <1>5. ASSUME PopIncident
        PROVE  Pops(i)
    BY <1>5, ResolvingIsOwn DEF PopIncident, Pops, Resolves, Worker, durableVars
  <1> QED
    BY <1>2, <1>3, <1>4, <1>5

LEMMA StepForms ==
    ASSUME ChainInv, [Next]_chainVars
    PROVE  \/ Quiet
           \/ CreateIncident
           \/ \E t \in Threads : Finalize(t)
           \/ Ends(Worker.incident)
           \/ Pops(Worker.incident)
           \/ ArchiveIncident
           \/ Crash
  <1>1. MainMoves \/ WriteReport \/ (\E p \in Panes : PaneChanges(p)) \/ UNCHANGED chainVars
          => Quiet
    BY MainMovesAlone DEF Quiet, CallForm, WriteReport, PaneChanges, chainVars, incidentVars
  <1>2. CallMoves \/ VerifierMoves \/ IdentityMoves => Quiet
    BY CallsForm, OthersForm, CallsMoveAlone DEF Quiet
  <1> QED
    BY <1>1, <1>2, StepIsOne, EndsOrPops

----------------------------------------------------------------------------
(* Each part of the invariant is kept.                                     *)

LEMMA IncidentsStep ==
    ASSUME ChainInv, [Next]_chainVars
    PROVE  /\ incident' \in [IncidentIds -> Incidents \cup {None}]
           /\ archived' \in [IncidentIds -> Incidents \cup {None}]
           /\ active' \in [Panes -> IncidentIds \cup {None}]
           /\ used' \subseteq IncidentIds
  <1>1. /\ used \subseteq IncidentIds
        /\ incident \in [IncidentIds -> Incidents \cup {None}]
        /\ archived \in [IncidentIds -> Incidents \cup {None}]
        /\ active \in [Panes -> IncidentIds \cup {None}]
        /\ thread \in [Threads -> Calls]
        /\ main.at = "evaluate" => main.pane \in Panes
        /\ "worker" \in Threads
    BY DEF ChainInv, ChainTypes, MainIsTyped, Threads
  <1>2. CASE Quiet
    BY <1>1, <1>2 DEF Quiet, incidentVars
  <1>3. CASE CreateIncident
    <2>1. PICK i \in FreshIds :
             /\ used' = used \cup {i}
             /\ incident' = [incident EXCEPT ![i] = NewIncident(main.pane)]
             /\ active' = [active EXCEPT ![main.pane] = i]
      BY <1>3 DEF CreateIncident
    <2>2. NewIncident(main.pane) \in Incidents
      BY <1>1, <1>3 DEF CreateIncident, NewIncident, Incidents, Statuses
    <2>3. i \in IncidentIds
      BY DEF FreshIds
    <2> QED
      BY <1>1, <1>3, <2>1, <2>2, <2>3 DEF CreateIncident
  <1>4. ASSUME NEW t \in Threads, Finalize(t)
        PROVE  incident' \in [IncidentIds -> Incidents \cup {None}]
    <2> DEFINE c == thread[t]
               e == Evidence(RemediationEvidence(c), c.execution, c.by)
    <2>1. e \in Evidences
      BY <1>1, EvidenceIsEvidence
    <2>2. incident' = [incident EXCEPT ![c.incident].evidence = @ \cup {e}]
      BY <1>4 DEF Finalize, AddEvidence
    <2>3. incident[c.incident] \in Incidents
      BY <1>1, <1>4 DEF Finalize, ChainInv, ThreadsHold, Present
    <2> HIDE DEF e
    <2>4. [incident[c.incident] EXCEPT !.evidence = @ \cup {e}] \in Incidents
      BY <2>1, <2>3 DEF Incidents
    <2> QED
      BY <1>1, <2>2, <2>4
  <1>5. ASSUME NEW i, Ends(i)
        PROVE  incident' \in [IncidentIds -> Incidents \cup {None}]
    <2>1. Worker \in Calls /\ incident[i] \in Incidents
      BY <1>1, <1>5 DEF Worker, Ends
    <2>2. \A s \in Statuses : [incident[i] EXCEPT !.status = s] \in Incidents
      BY <2>1 DEF Incidents
    <2>3. [incident[i] EXCEPT !.outcome = Worker.outcome] \in Incidents
      BY <2>1 DEF Incidents, Calls
    <2> QED
      BY <1>1, <1>5, <2>2, <2>3 DEF Ends, Statuses
  <1>6. CASE Pops(Worker.incident)
    BY <1>1, <1>6 DEF Pops
  <1>7. CASE ArchiveIncident
    BY <1>1, <1>7 DEF ArchiveIncident, Calls
  <1>8. CASE Crash
    BY <1>1, <1>8 DEF Crash
  <1> QED
    BY <1>1, <1>2, <1>3, <1>4, <1>5, <1>6, <1>7, <1>8, StepForms
    DEF Finalize, Ends

LEMMA IdentitiesStep ==
    ASSUME ChainInv, [Next]_chainVars
    PROVE  identity' \in [ExecutionIds -> Identities \cup {None}]
  <1>1. /\ identity \in [ExecutionIds -> Identities \cup {None}]
        /\ thread \in [Threads -> Calls]
        /\ \A t \in Threads : thread[t].at \in Remediating =>
              /\ thread[t].incident \in IncidentIds
              /\ thread[t].execution \in ExecutionIds /\ thread[t].action \in Actions
    BY DEF ChainInv, ChainTypes, ThreadsHold, Remediating
  <1>2. \A r \in Identities \cup {None}, s \in {"SUCCEEDED", "FAILED", "UNKNOWN"} :
           r # None => [r EXCEPT !.state = s] \in Identities
    BY DEF Identities
  <1>3. ASSUME NEW t \in Threads, Claim(t)
        PROVE  identity' \in [ExecutionIds -> Identities \cup {None}]
    <2>1. Claimed(thread[t]) \in Identities
      BY <1>1, <1>3 DEF Claim, Claimed, Binding, Identities, Remediating
    <2> QED
      BY <1>1, <1>3, <2>1 DEF Claim
  <1>4. ASSUME NEW t \in Threads, Execute(t) \/ ExecuteRaises(t)
        PROVE  identity' \in [ExecutionIds -> Identities \cup {None}]
    <2> DEFINE x == thread[t].execution
    <2>1. x \in ExecutionIds /\ identity[x] # None
      BY <1>1, <1>4 DEF Execute, ExecuteRaises, ChainInv, ThreadsHold, Remediating
    <2>2. PICK s \in {"SUCCEEDED", "FAILED", "UNKNOWN"} :
              identity' = [identity EXCEPT ![x].state = s]
      BY <1>4 DEF Execute, ExecuteRaises, Close
    <2>3. [identity[x] EXCEPT !.state = s] \in Identities
      BY <1>1, <1>2, <2>1
    <2> QED
      BY <1>1, <2>1, <2>2, <2>3
  <1>5. CASE Crash
    <2>1. ASSUME NEW x \in ExecutionIds
          PROVE  identity'[x] \in Identities \cup {None}
      BY <1>1, <1>2, <1>5 DEF Crash
    <2>2. identity' = [x \in ExecutionIds |-> identity'[x]]
      BY <1>5 DEF Crash
    <2> QED
      BY <2>1, <2>2
  <1>6. CASE UNCHANGED identity
    BY <1>1, <1>6
  <1> QED
    BY <1>3, <1>4, <1>5, <1>6, StepIsOne, MainMovesAlone, CallsMoveAlone
    DEF IdentityMoves, PaneChanges, CreateIncident, WriteReport, Finalize, AcceptRecovery,
        SetOutcome, SetTerminal, ResolveStep, PopIncident, ArchiveIncident, chainVars,
        durableVars

\* What a report is made of is the incident, or the copy of it that was archived.
LEMMA SourceIsBehind ==
    ASSUME ChainInv, NEW i \in IncidentIds, Present(i)
    PROVE  /\ Source(i) \in Incidents
           /\ Source(i).outcome = incident[i].outcome
           /\ Source(i).status = incident[i].status
  BY DEF ChainInv, ChainTypes, CopiesAreTrue, IsCopy, Present, Terminal, Source

LEMMA ReportTypesStep ==
    ASSUME ChainInv, [Next]_chainVars
    PROVE  report' \in [IncidentIds -> [Fields -> Statuses \cup Outcomes \cup {None}]
                                        \cup {None}]
  <1>1. /\ report \in [IncidentIds -> [Fields -> Statuses \cup Outcomes \cup {None}]
                                       \cup {None}]
        /\ main.at = "write" => main.incident \in IncidentIds /\ main.read \in Statuses
        /\ main.at = "write" => Present(main.incident)
    BY DEF ChainInv, ChainTypes, MainIsTyped, ReportsAreBehind
  <1>2. CASE WriteReport
    <2> DEFINE i == main.incident
    <2>1. Source(i).outcome \in Outcomes \cup {None}
      BY <1>1, <1>2, SourceIsBehind DEF WriteReport, Incidents
    <2>2. [f \in Fields |-> IF f = FirstRead THEN main.read ELSE Source(i)[f]]
             \in [Fields -> Statuses \cup Outcomes \cup {None}]
      BY <1>1, <1>2, <2>1 DEF WriteReport, Fields, FirstRead
    <2> QED
      BY <1>1, <1>2, <2>2 DEF WriteReport
  <1>3. CASE UNCHANGED report
    BY <1>1, <1>3
  <1> QED
    BY <1>2, <1>3, StepIsOne, MainMovesAlone, CallsMoveAlone
    DEF PaneChanges, CreateIncident, Finalize, AcceptRecovery, SetOutcome, SetTerminal,
        ResolveStep, PopIncident, ArchiveIncident, Crash, chainVars, durableVars

LEMMA VerifierTypesStep ==
    ASSUME ChainInv, [Next]_chainVars
    PROVE  verifier' \in Panes \cup {None} /\ alive' \in [Panes -> BOOLEAN]
  <1> USE ConstantsAreTyped
  <1>1. /\ alive \in [Panes -> BOOLEAN]
        /\ incident \in [IncidentIds -> Incidents \cup {None}]
        /\ thread \in [Threads -> Calls]
        /\ verifier \in Panes \cup {None}
        /\ ThreadsHold
    BY DEF ChainInv, ChainTypes
  <1>2. alive' \in [Panes -> BOOLEAN]
    <2>1. ASSUME NEW p \in Panes, PaneChanges(p)
          PROVE  alive' \in [Panes -> BOOLEAN]
      BY <1>1, <2>1 DEF PaneChanges
    <2>2. alive' = alive \/ \E p \in Panes : PaneChanges(p)
      BY StepIsOne, MainMovesAlone, CallsMoveAlone
      DEF CreateIncident, WriteReport, Finalize, AcceptRecovery, SetOutcome, SetTerminal,
          ResolveStep, PopIncident, ArchiveIncident, Crash, chainVars
    <2> QED
      BY <1>1, <2>1, <2>2
  <1>3. verifier' \in Panes \cup {None}
    <2>1. ASSUME NEW t \in Threads, SwapVerifier(t)
          PROVE  verifier' \in Panes \cup {None}
      BY <1>1, <2>1 DEF SwapVerifier, ThreadsHold, Present, Incidents
    <2>2. ASSUME NEW t \in Threads, RestoreVerifier(t)
          PROVE  verifier' \in Panes \cup {None}
      BY <1>1, <2>2 DEF RestoreVerifier, Calls
    <2>3. CASE verifier' \in {verifier, Standing}
      BY <1>1, <2>3
    <2> QED
      BY <2>1, <2>2, <2>3, StepIsOne, MainMovesAlone, CallsMoveAlone
      DEF VerifierMoves, PaneChanges, CreateIncident, WriteReport, Finalize, AcceptRecovery,
          SetOutcome, SetTerminal, ResolveStep, PopIncident, ArchiveIncident, Crash, chainVars
  <1> QED
    BY <1>2, <1>3

LEMMA ChainTypesStep ==
    ASSUME ChainInv, [Next]_chainVars
    PROVE  ChainTypes'
  BY MainTypesStep, CallsStep, IncidentsStep, IdentitiesStep, ReportTypesStep,
     VerifierTypesStep DEF ChainTypes

\* An incident goes on until a crash: what it has it keeps, and what it gets it
\* gets by the step of resolve that is for it.
Kept(i) ==
    /\ Present(i)'
    /\ incident'[i].pane = incident[i].pane
    /\ incident[i].evidence \subseteq incident'[i].evidence
    /\ incident'[i].outcome # incident[i].outcome =>
          Worker.at = "outcome" /\ i = Worker.incident /\ incident'[i].outcome = Worker.outcome
    /\ incident'[i].status # incident[i].status =>
          /\ i = Worker.incident /\ Worker.at \in {"resolve", "terminal"}
          /\ Worker.at = "resolve" =>
                incident[i].status = "OPEN" /\ incident'[i].status = "INVESTIGATING"
          /\ Worker.at = "terminal" => incident'[i].status = "TERMINAL"

LEMMA IncidentsAreKept ==
    ASSUME ChainInv, [Next]_chainVars, ~Crash, NEW i \in IncidentIds, Present(i)
    PROVE  Kept(i)
  <1>1. /\ incident \in [IncidentIds -> Incidents \cup {None}]
        /\ incident[i] \in Incidents
        /\ i \in used
        /\ thread \in [Threads -> Calls] /\ Worker \in Calls
    BY DEF Worker, Threads, ChainInv, ChainTypes, Present, UsedIsKept
  <1>2. incident'[i] \in Incidents \cup {None}
    BY IncidentsStep
  <1>3. CASE UNCHANGED incident
    BY <1>1, <1>3 DEF Kept, Present
  <1>4. CASE CreateIncident
    BY <1>1, <1>4 DEF CreateIncident, FreshIds, Kept, Present
  <1>5. ASSUME NEW t \in Threads, Finalize(t)
        PROVE  Kept(i)
    <2> DEFINE c == thread[t]
               e == Evidence(RemediationEvidence(c), c.execution, c.by)
    <2>1. incident' = [incident EXCEPT ![c.incident].evidence = @ \cup {e}]
      BY <1>5 DEF Finalize, AddEvidence
    <2> HIDE DEF e
    <2>2. \/ incident'[i] = incident[i]
          \/ incident'[i] = [incident[i] EXCEPT !.evidence = @ \cup {e}]
      BY <1>1, <2>1
    <2>3. [incident[i] EXCEPT !.evidence = @ \cup {e}] # None
      <3>1. e \in Evidences
        BY <1>1, EvidenceIsEvidence DEF e
      <3>2. [incident[i] EXCEPT !.evidence = @ \cup {e}] \in Incidents
        BY <1>1, <3>1 DEF Incidents
      <3> QED
        BY <3>2, NoneIsNothingElse
    <2> QED
      BY <1>1, <2>2, <2>3 DEF Kept, Present, Incidents
  <1>6. CASE Ends(Worker.incident)
    <2> DEFINE w == Worker.incident
    <2>1. CASE i # w
      BY <1>1, <1>6, <2>1 DEF Ends, Kept, Present
    <2>2. ASSUME i = w, Worker.at = "resolve", incident' # incident,
                 incident[w].status = "OPEN",
                 incident' = [incident EXCEPT ![w].status = "INVESTIGATING"]
          PROVE  Kept(i)
      <3>1. incident'[i] = [incident[i] EXCEPT !.status = "INVESTIGATING"]
        BY <1>1, <2>2
      <3>2. incident'[i] \in Incidents
        BY <1>1, <3>1 DEF Incidents, Statuses
      <3> QED
        BY <1>1, <2>2, <3>1, <3>2, NoneIsNothingElse DEF Kept, Present, Incidents
    <2>3. ASSUME i = w, Worker.at = "outcome",
                 incident' = [incident EXCEPT ![w].outcome = Worker.outcome]
          PROVE  Kept(i)
      <3>1. incident'[i] = [incident[i] EXCEPT !.outcome = Worker.outcome]
        BY <1>1, <2>3
      <3>2. incident'[i] \in Incidents
        BY <1>1, <3>1 DEF Incidents, Calls
      <3> QED
        BY <1>1, <2>3, <3>1, <3>2, NoneIsNothingElse DEF Kept, Present, Incidents
    <2>4. ASSUME i = w, Worker.at = "terminal",
                 incident' = [incident EXCEPT ![w].status = "TERMINAL"]
          PROVE  Kept(i)
      <3>1. incident'[i] = [incident[i] EXCEPT !.status = "TERMINAL"]
        BY <1>1, <2>4
      <3>2. incident'[i] \in Incidents
        BY <1>1, <3>1 DEF Incidents, Statuses
      <3> QED
        BY <1>1, <2>4, <3>1, <3>2, NoneIsNothingElse DEF Kept, Present, Incidents
    <2> QED
      BY <1>3, <1>6, <2>1, <2>2, <2>3, <2>4 DEF Ends
  <1> QED
    BY <1>3, <1>4, <1>5, <1>6, StepForms DEF Quiet, incidentVars, Pops, ArchiveIncident

LEMMA UsedStep ==
    ASSUME ChainInv, [Next]_chainVars
    PROVE  UsedIsKept'
  <1>1. /\ UsedIsKept /\ incident \in [IncidentIds -> Incidents \cup {None}]
        /\ archived \in [IncidentIds -> Incidents \cup {None}]
        /\ report \in [IncidentIds -> [Fields -> Statuses \cup Outcomes \cup {None}] \cup {None}]
    BY DEF ChainInv, ChainTypes
  <1>2. used \subseteq used'
    BY StepForms DEF Quiet, incidentVars, CreateIncident, Finalize, Ends, Pops,
                     ArchiveIncident, Crash
  <1>3. ASSUME NEW i \in IncidentIds \ used'
        PROVE  report'[i] = None
    <2>1. report[i] = None
      BY <1>1, <1>2, <1>3 DEF UsedIsKept
    <2>2. CASE WriteReport
      BY <1>1, <1>2, <1>3, <2>1, <2>2
      DEF WriteReport, ChainInv, ReportsAreBehind, UsedIsKept, Present
    <2>3. CASE UNCHANGED report
      BY <2>1, <2>3
    <2> QED
      BY <2>2, <2>3, StepIsOne, MainMovesAlone, CallsMoveAlone
      DEF PaneChanges, CreateIncident, Finalize, AcceptRecovery, SetOutcome, SetTerminal,
          ResolveStep, PopIncident, ArchiveIncident, Crash, chainVars, durableVars
  <1>4. ASSUME NEW i \in IncidentIds \ used'
        PROVE  incident'[i] = None
    <2>1. incident[i] = None
      BY <1>1, <1>2, <1>4 DEF UsedIsKept
    <2>2. CASE CreateIncident
      BY <1>1, <1>4, <2>1, <2>2 DEF CreateIncident
    <2>3. ASSUME NEW t \in Threads, Finalize(t)
          PROVE  incident'[i] = None
      BY <1>1, <2>1, <2>3 DEF Finalize, AddEvidence, ChainInv, ThreadsHold, Present
    <2>4. CASE Ends(Worker.incident)
      BY <1>1, <2>1, <2>4, NoneIsNothingElse DEF Ends
    <2> QED
      BY <2>1, <2>2, <2>3, <2>4, StepForms
      DEF Quiet, incidentVars, Pops, ArchiveIncident, Crash
  <1>5. ASSUME NEW i \in IncidentIds \ used'
        PROVE  archived'[i] = None
    <2>1. archived[i] = None /\ incident[i] = None
      BY <1>1, <1>2, <1>5 DEF UsedIsKept
    <2>2. CASE ArchiveIncident
      BY <1>1, <2>1, <2>2 DEF ArchiveIncident, ChainInv, ThreadsHold, Present, Threads
    <2> QED
      BY <2>1, <2>2, StepForms
      DEF Quiet, incidentVars, CreateIncident, Finalize, Ends, Pops, Crash
  <1> QED
    BY <1>3, <1>4, <1>5 DEF UsedIsKept

\* The worker's place between the steps that another takes.
LEMMA WorkerForm ==
    ASSUME ChainInv, [Next]_chainVars, ~Crash
    PROVE  \/ CallForm("worker")
           \/ Finalize("worker") \/ Ends(Worker.incident) \/ Pops(Worker.incident)
           \/ ArchiveIncident
  <1>1. CASE CreateIncident
    BY <1>1 DEF CreateIncident, CallForm
  <1>2. CASE Finalize("operator")
    BY <1>2 DEF Finalize, CallForm, ChainInv, ChainTypes, Threads
  <1> QED
    BY <1>1, <1>2, StepForms DEF Quiet, Threads

LEMMA PopsForm ==
    ASSUME ChainInv, Pops(Worker.incident)
    PROVE  /\ Worker.at = "pop" /\ Worker'.at = "archive"
           /\ Worker'.incident = Worker.incident
           /\ Worker'.snapshot = incident[Worker.incident]
           /\ thread'["operator"] = thread["operator"]
  <1>1. thread \in [Threads -> Calls] /\ thread["worker"] \in Calls
    BY DEF ChainInv, ChainTypes, Threads
  <1> DEFINE i == thread["worker"].incident
             d == [thread["worker"] EXCEPT !.at = "archive", !.snapshot = incident[i]]
  <1>2. d.at = "archive" /\ d.incident = i /\ d.snapshot = incident[i]
    BY <1>1 DEF Calls
  <1>3. thread' = [thread EXCEPT !["worker"] = d]
    BY DEF Pops, Worker
  <1> HIDE DEF d
  <1>4. thread'["worker"] = d /\ thread'["operator"] = thread["operator"]
    BY <1>1, <1>3 DEF Threads
  <1> QED
    BY <1>2, <1>4 DEF Pops, Worker

LEMMA ActiveStep ==
    ASSUME ChainInv, [Next]_chainVars
    PROVE  ActiveIsLive'
  <1>1. /\ incident \in [IncidentIds -> Incidents \cup {None}]
        /\ active \in [Panes -> IncidentIds \cup {None}]
        /\ thread \in [Threads -> Calls] /\ "worker" \in Threads
        /\ ActiveIsLive
        /\ main.at = "evaluate" => main.pane \in Panes
        /\ None \notin Incidents /\ None \notin IncidentIds
    BY NoneIsNothingElse, ConstantsAreTyped
    DEF ChainInv, ChainTypes, MainIsTyped, Threads
  <1>2. CASE Crash
    BY <1>2 DEF Crash, ActiveIsLive, Present
  <1>3. CASE CreateIncident
    <2>1. PICK i \in FreshIds :
             /\ incident' = [incident EXCEPT ![i] = NewIncident(main.pane)]
             /\ active' = [active EXCEPT ![main.pane] = i]
      BY <1>3 DEF CreateIncident
    <2>2. i \in IncidentIds /\ incident[i] = None
      BY DEF FreshIds, ChainInv, UsedIsKept
    <2>3. /\ NewIncident(main.pane).pane = main.pane /\ NewIncident(main.pane).status = "OPEN"
          /\ NewIncident(main.pane) \in Incidents
      BY <1>1, <1>3 DEF CreateIncident, NewIncident, Incidents, Statuses
    <2>4. main.pane \in Panes /\ active[main.pane] = None /\ UNCHANGED Worker
      BY <1>1, <1>3 DEF CreateIncident, Worker
    <2> HIDE DEF NewIncident
    <2>5. \A j \in IncidentIds : Present(j) => incident[j].pane \in Panes
      BY <1>1 DEF Present, Incidents
    <2> QED
      BY <1>1, <2>1, <2>2, <2>3, <2>4, <2>5 DEF ActiveIsLive, Present, Terminal
  <1>4. CASE Pops(Worker.incident)
    <2>1. Worker'.at = "archive"
      BY <1>1, <1>4 DEF Pops, Worker, Calls
    <2>2. \A j \in IncidentIds : Present(j) => incident[j].pane \in Panes
      BY <1>1 DEF Present, Incidents
    <2>3. Terminal(Worker.incident)
      BY <1>4 DEF Pops, ChainInv, ThreadsHold
    <2> QED
      BY <1>1, <1>4, <2>1, <2>2, <2>3 DEF Pops, ActiveIsLive, Present, Terminal
  <1>5. CASE ~Crash /\ ~CreateIncident /\ ~Pops(Worker.incident)
    <2>1. active' = active
      BY <1>5, StepForms DEF Quiet, incidentVars, Finalize, Ends, ArchiveIncident
    <2>2. ASSUME NEW i \in IncidentIds
          PROVE  Present(i)' <=> Present(i)
      <3>1. ASSUME Present(i)
            PROVE  Present(i)'
        BY <1>5, <3>1, IncidentsAreKept DEF Kept
      <3>3. ASSUME ~Present(i)
            PROVE  ~Present(i)'
        <4>1. ASSUME NEW t \in Threads, Finalize(t)
              PROVE  ~Present(i)'
          BY <1>1, <3>3, <4>1 DEF Finalize, AddEvidence, Present, ChainInv, ThreadsHold
        <4>2. CASE Ends(Worker.incident)
          BY <1>1, <3>3, <4>2 DEF Ends, Present
        <4> QED
          BY <1>5, <3>3, <4>1, <4>2, StepForms
          DEF Quiet, incidentVars, ArchiveIncident, Present
      <3> QED
        BY <3>1, <3>3 DEF Present
    <2>3. ASSUME NEW i \in IncidentIds, Present(i)
          PROVE  incident'[i].pane = incident[i].pane
      BY <1>5, <2>3, IncidentsAreKept DEF Kept
    <2>4. \A p \in Panes : active[p] # None =>
             Present(active[p])' /\ incident'[active[p]].pane = p
      BY <1>1, <2>1, <2>2, <2>3 DEF ActiveIsLive, Present
    <2>5. ASSUME NEW i \in IncidentIds, Present(i), ~Terminal(i)
          PROVE  /\ active[incident[i].pane] = i
                 /\ Terminal(i)' => Worker'.at = "pop" /\ Worker'.incident = i
      <3>1. active[incident[i].pane] = i
        BY <2>5 DEF ChainInv, ActiveIsLive
      <3>2. ASSUME Terminal(i)'
            PROVE  Worker'.at = "pop" /\ Worker'.incident = i
        <4>1. i = Worker.incident /\ Worker.at = "terminal"
          BY <1>5, <2>5, <3>2, IncidentsAreKept DEF Kept, Terminal
        <4>2. CASE Ends(Worker.incident)
          BY <1>1, <4>1, <4>2 DEF Ends, Worker, Calls
        <4>3. ASSUME NEW t \in Threads, Finalize(t)
              PROVE  incident'[i].status = incident[i].status
          BY <1>1, <2>5, <4>3 DEF Finalize, AddEvidence, Incidents, Present
        <4> QED
          BY <1>5, <2>5, <3>2, <4>1, <4>2, <4>3, StepForms
          DEF Quiet, incidentVars, ArchiveIncident, Terminal
      <3> QED
        BY <3>1, <3>2
    <2>6. ASSUME NEW i \in IncidentIds, Present(i), Terminal(i),
                 active[incident[i].pane] = i
          PROVE  Worker'.at = "pop" /\ Worker'.incident = i
      <3>1. Worker.at = "pop" /\ Worker.incident = i
        BY <1>1, <2>6 DEF ActiveIsLive
      <3> QED
        BY <1>5, <3>1, WorkerForm
        DEF CallForm, GoesOn, Ends, Finalize, ArchiveIncident, Worker, Remediating, Idle
    <2>7. ASSUME NEW i \in IncidentIds, Present(i), Terminal(i)
          PROVE  Terminal(i)'
      BY <1>5, <2>7, IncidentsAreKept DEF Kept, Terminal
    <2> QED
      BY <2>1, <2>2, <2>3, <2>4, <2>5, <2>6, <2>7 DEF ActiveIsLive
  <1> QED
    BY <1>2, <1>3, <1>4, <1>5

LEMMA IdentitiesStay ==
    ASSUME ChainInv, [Next]_chainVars, NEW x \in ExecutionIds, identity[x] # None
    PROVE  identity'[x] # None
  <1>1. /\ identity \in [ExecutionIds -> Identities \cup {None}]
        /\ None \notin Identities
    BY NoneIsNothingElse DEF ChainInv, ChainTypes
  <1>2. \A s \in {"SUCCEEDED", "FAILED", "UNKNOWN"} :
           [identity[x] EXCEPT !.state = s] \in Identities
    BY <1>1 DEF Identities
  <1>3. ASSUME NEW t \in Threads, Claim(t)
        PROVE  identity'[x] # None
    BY <1>1, <1>3 DEF Claim
  <1>4. ASSUME NEW t \in Threads, Execute(t) \/ ExecuteRaises(t)
        PROVE  identity'[x] # None
    <2>1. PICK s \in {"SUCCEEDED", "FAILED", "UNKNOWN"} :
              identity' = [identity EXCEPT ![thread[t].execution].state = s]
      BY <1>4 DEF Execute, ExecuteRaises, Close
    <2> QED
      BY <1>1, <1>2, <2>1
  <1>5. CASE Crash
    BY <1>1, <1>2, <1>5 DEF Crash
  <1>6. CASE UNCHANGED identity
    BY <1>6
  <1> QED
    BY <1>3, <1>4, <1>5, <1>6, StepIsOne, MainMovesAlone, CallsMoveAlone
    DEF IdentityMoves, PaneChanges, CreateIncident, WriteReport, Finalize, AcceptRecovery,
        SetOutcome, SetTerminal, ResolveStep, PopIncident, ArchiveIncident, chainVars,
        durableVars

\* A step of a thread that is not part of a remediation is one of resolve, or of the
\* evidence before it.
LEMMA ThreadForms ==
    ASSUME ChainInv, [Next]_chainVars, ~Crash, NEW t \in Threads
    PROVE  \/ CallForm(t)
           \/ /\ thread[t].at # "idle"
              /\ thread'[t].at \notin Remediating
              /\ thread'[t].at # "idle" => thread'[t].incident = thread[t].incident
              /\ thread'[t].at # "idle" => t = "worker"
  <1>1. /\ thread \in [Threads -> Calls] /\ "worker" \in Threads /\ "operator" \in Threads
        /\ Worker \in Calls
    BY DEF ChainInv, ChainTypes, Worker, Threads
  <1>2. ASSUME NEW s \in Threads, Finalize(s)
        PROVE  thread'[s].at # "idle" => s = "worker" /\ thread'[s].at = "resolve"
                                         /\ thread'[s].incident = thread[s].incident
    BY <1>1, <1>2 DEF Finalize, Idle, Threads
  <1>3. ASSUME NEW s \in Threads, Finalize(s)
        PROVE  thread'[t] = thread[t] \/ s = t
    BY <1>1, <1>3 DEF Finalize
  <1>4. CASE Ends(Worker.incident)
    <2>1. PICK at \in {"outcome", "terminal", "pop"} :
              thread' = [thread EXCEPT !["worker"].at = at]
      BY <1>4 DEF Ends
    <2> QED
      BY <1>1, <1>4, <2>1 DEF Ends, CallForm, Calls, Remediating, Worker
  <1>5. CASE Pops(Worker.incident)
    <2>1. thread' = [thread EXCEPT !["worker"] =
                      [@ EXCEPT !.at = "archive", !.snapshot = incident[Worker.incident]]]
      BY <1>5 DEF Pops
    <2> DEFINE d == [thread["worker"] EXCEPT !.at = "archive",
                                             !.snapshot = incident[Worker.incident]]
    <2>2. d.at = "archive" /\ d.incident = Worker.incident /\ thread["worker"].at = "pop"
      BY <1>1, <1>5 DEF Calls, Worker, Pops
    <2> HIDE DEF d
    <2>3. thread' = [thread EXCEPT !["worker"] = d]
      BY <2>1 DEF d
    <2> QED
      BY <1>1, <2>2, <2>3 DEF CallForm, Remediating, Worker
  <1>6. CASE ArchiveIncident
    BY <1>1, <1>6 DEF ArchiveIncident, CallForm, Idle, Remediating
  <1>7. CASE CreateIncident
    BY <1>7 DEF CreateIncident, CallForm
  <1>8. ASSUME NEW s \in Threads, Finalize(s)
        PROVE  \/ CallForm(t)
               \/ /\ thread[t].at # "idle"
                  /\ thread'[t].at \notin Remediating
                  /\ thread'[t].at # "idle" => thread'[t].incident = thread[t].incident
                  /\ thread'[t].at # "idle" => t = "worker"
    BY <1>2, <1>3, <1>8 DEF CallForm, Remediating, Finalize
  <1> QED
    BY <1>4, <1>5, <1>6, <1>7, <1>8, StepForms DEF Quiet

LEMMA EffectForms ==
    ASSUME ChainInv, [Next]_chainVars, NEW t \in Threads, thread'[t].at = "effect"
    PROVE  /\ ~Crash
           /\ thread'[t] = thread[t] \/ GoesOn(thread[t], thread'[t])
  <1>1. ~Crash
    BY DEF Crash, Idle
  <1> QED
    BY <1>1, ThreadForms DEF CallForm, TakesOn, Idle, Remediating

\* A thread that is at an effect has claimed its identity.
LEMMA EffectStep ==
    ASSUME ChainInv, [Next]_chainVars, NEW t \in Threads, thread'[t].at = "effect"
    PROVE  identity'[thread'[t].execution] # None
  <1>1. /\ thread \in [Threads -> Calls] /\ thread[t] \in Calls
        /\ identity \in [ExecutionIds -> Identities \cup {None}]
        /\ thread[t].at \in Remediating =>
              /\ thread[t].incident \in IncidentIds
              /\ thread[t].execution \in ExecutionIds /\ thread[t].action \in Actions
        /\ thread[t].at = "effect" => identity[thread[t].execution] # None
        /\ None \notin Identities
        /\ "effect" \in Remediating /\ "claim" \in Remediating
    BY NoneIsNothingElse DEF ChainInv, ChainTypes, ThreadsHold, Remediating
  <1>2. CASE GoesOn(thread[t], thread'[t])
    <2>1. Claimed(thread[t]) \in Identities
      BY <1>1, <1>2 DEF GoesOn, Claimed, Binding, Identities
    <2> QED
      BY <1>1, <1>2, <2>1 DEF GoesOn
  <1>3. CASE thread'[t] = thread[t] /\ ~Crash
    <2>1. thread[t].execution \in ExecutionIds /\ identity[thread[t].execution] # None
      BY <1>1, <1>3
    <2> QED
      BY <1>3, <2>1, IdentitiesStay
  <1> QED
    BY <1>2, <1>3, EffectForms

LEMMA ThreadsStep ==
    ASSUME ChainInv, [Next]_chainVars
    PROVE  ThreadsHold'
  <1>1. /\ thread \in [Threads -> Calls] /\ "worker" \in Threads /\ "operator" \in Threads
        /\ incident \in [IncidentIds -> Incidents \cup {None}]
        /\ active \in [Panes -> IncidentIds \cup {None}]
        /\ ThreadsHold /\ ActiveIsLive /\ Worker \in Calls
    BY DEF ChainInv, ChainTypes, Worker, Threads
  <1>2. CASE Crash
    BY <1>2 DEF Crash, ThreadsHold, Worker, Idle, Remediating, Resolves, Threads
  <1>3. ASSUME ~Crash, NEW t \in Threads
        PROVE  \/ CallForm(t)
               \/ /\ thread[t].at # "idle"
                  /\ thread'[t].at \notin Remediating
                  /\ thread'[t].at # "idle" => thread'[t].incident = thread[t].incident
                  /\ thread'[t].at # "idle" => t = "worker"
    BY <1>3, ThreadForms
  <1>4. ASSUME ~Crash, NEW t \in Threads, thread'[t].at # "idle"
        PROVE  /\ thread'[t].incident \in IncidentIds
               /\ incident'[thread'[t].incident] # None
    <2>1. thread'[t].incident \in IncidentIds /\ Present(thread'[t].incident)
      BY <1>1, <1>3, <1>4 DEF CallForm, GoesOn, TakesOn, Idle, ThreadsHold, Remediating
    <2> QED
      BY <1>4, <2>1, IncidentsAreKept DEF Kept, Present
  <1>5. ASSUME ~Crash, NEW t \in Threads, thread'[t].at \in Remediating
        PROVE  thread'[t].execution \in ExecutionIds /\ thread'[t].action \in Actions
    BY <1>1, <1>3, <1>5 DEF CallForm, GoesOn, TakesOn, Idle, ThreadsHold, Remediating
  <1>6. ASSUME ~Crash
        PROVE  thread'["operator"].at \notin Resolves \cup {"archive"}
    BY <1>1, <1>3, <1>6
    DEF CallForm, GoesOn, TakesOn, Idle, ThreadsHold, Remediating, Resolves
  <1>7. ASSUME ~Crash, Worker'.at \in Remediating \cup Resolves
        PROVE  active'[incident'[Worker'.incident].pane] = Worker'.incident
    <2> DEFINE w == Worker'.incident
    <2>1. ~Pops(Worker.incident)
      BY <1>7, PopsForm DEF Remediating, Resolves
    <2>2. Finalize("worker") => w = Worker.incident /\ Worker.at \in Remediating
      BY <1>1 DEF Finalize, Worker, Idle, Remediating
    <2>3. Ends(Worker.incident) => w = Worker.incident /\ Worker.at \in Resolves
      BY <1>1 DEF Ends, Worker, Calls, Resolves
    <2>4. ~ArchiveIncident
      BY <1>1, <1>7 DEF ArchiveIncident, Worker, Idle, Remediating, Resolves
    <2>5. w \in IncidentIds /\ Present(w) /\ active[incident[w].pane] = w
      BY <1>1, <1>7, <2>1, <2>2, <2>3, <2>4, WorkerForm
      DEF CallForm, GoesOn, TakesOn, Worker, ThreadsHold, Idle, Remediating, Resolves
    <2>6. incident'[w].pane = incident[w].pane /\ incident[w].pane \in Panes
      BY <1>1, <1>7, <2>5, IncidentsAreKept DEF Kept, Present, Incidents
    <2>7. active'[incident[w].pane] = active[incident[w].pane]
      <3>1. CASE CreateIncident
        BY <1>1, <2>5, <2>6, <3>1, ConstantsAreTyped DEF CreateIncident
      <3> QED
        BY <1>7, <2>1, <3>1, StepForms
        DEF Quiet, incidentVars, Finalize, Ends, ArchiveIncident
    <2> QED
      BY <2>5, <2>6, <2>7
  <1>8. ASSUME ~Crash, Worker'.at \in Resolves
        PROVE  Worker'.outcome \in Outcomes
    <2>1. Finalize("worker") => Worker'.outcome \in Outcomes
      BY <1>1, OutcomesAreOutcomes DEF Finalize, Worker, Idle
    <2>2. Ends(Worker.incident) => Worker'.outcome = Worker.outcome /\ Worker.at \in Resolves
      BY <1>1 DEF Ends, Worker, Calls, Resolves
    <2>3. ~Pops(Worker.incident) /\ ~ArchiveIncident
      BY <1>1, <1>8, PopsForm DEF ArchiveIncident, Worker, Idle, Resolves
    <2> QED
      BY <1>1, <1>8, <2>1, <2>2, <2>3, WorkerForm
      DEF CallForm, GoesOn, TakesOn, Worker, ThreadsHold, Idle, Remediating, Resolves
  <1>9. ASSUME ~Crash, Worker'.at \in {"terminal", "pop"}
        PROVE  /\ incident'[Worker'.incident].outcome = Worker'.outcome
               /\ Worker'.at = "pop" => incident'[Worker'.incident].status = "TERMINAL"
    <2>1. \/ Ends(Worker.incident)
          \/ UNCHANGED Worker
      <3>1. ~Finalize("worker") /\ ~ArchiveIncident
        <4>1. Finalize("worker") => Worker'.at = "resolve"
          BY <1>1 DEF Finalize, Worker, Idle
        <4>2. ArchiveIncident => Worker'.at = "idle"
          BY <1>1 DEF ArchiveIncident, Worker, Idle
        <4> QED
          BY <1>9, <4>1, <4>2
      <3> QED
        BY <1>1, <1>9, <3>1, WorkerForm, PopsForm
        DEF CallForm, GoesOn, TakesOn, Worker, Idle, Remediating
    <2>2. CASE UNCHANGED Worker
      <3>1. Worker.incident \in IncidentIds /\ Present(Worker.incident)
        BY <1>1, <1>9, <2>2 DEF ThreadsHold, Worker
      <3> QED
        BY <1>1, <1>9, <2>2, <3>1, IncidentsAreKept DEF Kept, ThreadsHold, Terminal
    <2>3. CASE Ends(Worker.incident)
      <3>1. Worker'.incident = Worker.incident /\ Worker'.outcome = Worker.outcome
        BY <1>1, <2>3 DEF Ends, Worker, Calls
      <3> QED
        BY <1>1, <1>9, <2>3, <3>1 DEF Ends, Incidents, ThreadsHold
    <2> QED
      BY <2>1, <2>2, <2>3
  <1> QED
    BY <1>2, <1>4, <1>5, <1>6, <1>7, <1>8, <1>9, EffectStep
    DEF ThreadsHold, Present, Terminal

LEMMA NewIncidents ==
    ASSUME ChainInv, [Next]_chainVars, NEW i \in IncidentIds, ~Present(i), Present(i)'
    PROVE  /\ incident'[i] = NewIncident(main.pane) /\ main.pane \in Panes
           /\ CreateIncident /\ i \notin used
  <1>1. incident \in [IncidentIds -> Incidents \cup {None}]
    BY DEF ChainInv, ChainTypes
  <1>2. CASE CreateIncident
    BY <1>1, <1>2 DEF CreateIncident, FreshIds, Present, ChainInv, ChainTypes, MainIsTyped
  <1>3. ASSUME NEW t \in Threads, Finalize(t)
        PROVE  ~Present(i)'
    BY <1>1, <1>3 DEF Finalize, AddEvidence, Present, ChainInv, ThreadsHold
  <1>4. CASE Ends(Worker.incident)
    BY <1>1, <1>4, NoneIsNothingElse DEF Ends, Present
  <1> QED
    BY <1>2, <1>3, <1>4, StepForms
    DEF Quiet, incidentVars, Pops, ArchiveIncident, Crash, Present

\* What is over stays as it ended.
LEMMA TerminalIsKept ==
    ASSUME ChainInv, [Next]_chainVars, ~Crash, NEW i \in IncidentIds,
           Present(i), Terminal(i)
    PROVE  Terminal(i)' /\ incident'[i].outcome = incident[i].outcome
  <1>1. Kept(i)
    BY IncidentsAreKept
  <1>2. Terminal(i)'
    BY <1>1 DEF Kept, Terminal
  <1>3. ~(Worker.at = "outcome" /\ i = Worker.incident)
    BY DEF ChainInv, ActiveIsLive, ThreadsHold, Remediating, Resolves
  <1> QED
    BY <1>1, <1>2, <1>3 DEF Kept

LEMMA OutcomeStep ==
    ASSUME ChainInv, [Next]_chainVars
    PROVE  OutcomeIsSetOnce'
  <1>1. /\ OutcomeIsSetOnce /\ ThreadsHold
        /\ incident \in [IncidentIds -> Incidents \cup {None}]
        /\ thread \in [Threads -> Calls] /\ Worker \in Calls
        /\ "worker" \in Threads
    BY DEF ChainInv, ChainTypes, Worker, Threads
  <1>2. ASSUME Crash
        PROVE  OutcomeIsSetOnce'
    BY <1>2 DEF Crash, OutcomeIsSetOnce, Present
  <1>3. ASSUME ~Crash, NEW i \in IncidentIds, Present(i)', ~Present(i)
        PROVE  ~Terminal(i)' /\ incident'[i].outcome = None
    BY <1>3, NewIncidents DEF NewIncident, Terminal
  <1>4. ASSUME ~Crash, NEW i \in IncidentIds, Present(i), Terminal(i)
        PROVE  Terminal(i)' /\ incident'[i].outcome \in Outcomes
    BY <1>1, <1>4, TerminalIsKept DEF OutcomeIsSetOnce
  <1>5. ASSUME ~Crash, NEW i \in IncidentIds, Present(i), ~Terminal(i), Terminal(i)'
        PROVE  incident'[i].outcome \in Outcomes
    <2>1. Kept(i)
      BY <1>5, IncidentsAreKept
    <2>2. i = Worker.incident /\ Worker.at = "terminal"
      BY <1>5, <2>1 DEF Kept, Terminal
    <2>3. incident[i].outcome \in Outcomes
      BY <1>1, <2>2 DEF ThreadsHold, Resolves
    <2> QED
      BY <2>1, <2>2, <2>3 DEF Kept
  <1>6. ASSUME ~Crash, NEW i \in IncidentIds, Present(i), ~Terminal(i), ~Terminal(i)',
               incident'[i].outcome # None
        PROVE  Worker'.at = "terminal" /\ Worker'.incident = i
    <2>1. Kept(i)
      BY <1>6, IncidentsAreKept
    <2>2. CASE Ends(Worker.incident)
      <3>1. Worker'.incident = Worker.incident
        BY <1>1, <2>2 DEF Ends, Worker, Calls
      <3>2. i = Worker.incident
        BY <1>1, <1>6, <2>1, <2>2 DEF Kept, OutcomeIsSetOnce
      <3>3. Worker.at # "terminal"
        BY <1>1, <1>6, <2>2, <3>2 DEF Ends, Terminal, Incidents
      <3>4. Worker.at # "resolve"
        BY <1>1, <1>6, <2>1, <2>2, <3>2 DEF Kept, OutcomeIsSetOnce
      <3> QED
        BY <2>2, <3>1, <3>2, <3>3, <3>4 DEF Ends
    <2>3. CASE ~Ends(Worker.incident)
      <3>1. incident'[i].outcome = incident[i].outcome
        <4>1. ASSUME NEW t \in Threads, Finalize(t)
              PROVE  incident'[i].outcome = incident[i].outcome
          BY <1>1, <1>6, <4>1 DEF Finalize, AddEvidence, Incidents, Present
        <4>2. CASE CreateIncident
          BY <1>1, <1>6, <4>2 DEF CreateIncident, FreshIds, ChainInv, UsedIsKept, Present
        <4> QED
          BY <1>6, <2>3, <4>1, <4>2, StepForms
          DEF Quiet, incidentVars, Pops, ArchiveIncident
      <3>2. Worker.at = "terminal" /\ Worker.incident = i
        BY <1>1, <1>6, <3>1 DEF OutcomeIsSetOnce
      <3> QED
        BY <1>6, <2>3, <3>2, WorkerForm, PopsForm
        DEF CallForm, GoesOn, Finalize, ArchiveIncident, Worker, Remediating, Idle
    <2> QED
      BY <2>2, <2>3
  <1> QED
    BY <1>2, <1>3, <1>4, <1>5, <1>6 DEF OutcomeIsSetOnce

LEMMA ArchivesFromPop ==
    ASSUME ChainInv, [Next]_chainVars, ~Crash, Worker'.at = "archive"
    PROVE  Worker' = Worker \/ Pops(Worker.incident)
  <1>1. thread \in [Threads -> Calls] /\ "worker" \in Threads
    BY DEF ChainInv, ChainTypes, Threads
  <1>2. Finalize("worker") => Worker'.at = "resolve"
    BY <1>1 DEF Finalize, Worker, Idle
  <1>3. ArchiveIncident => Worker'.at = "idle"
    BY <1>1 DEF ArchiveIncident, Worker, Idle
  <1>4. ~Ends(Worker.incident)
    BY DEF Ends
  <1> QED
    BY <1>2, <1>3, <1>4, WorkerForm DEF CallForm, GoesOn, TakesOn, Worker, Idle, Remediating

LEMMA CopiesStep ==
    ASSUME ChainInv, [Next]_chainVars
    PROVE  CopiesAreTrue'
  <1>1. /\ CopiesAreTrue /\ ThreadsHold
        /\ incident \in [IncidentIds -> Incidents \cup {None}]
        /\ archived \in [IncidentIds -> Incidents \cup {None}]
        /\ thread \in [Threads -> Calls] /\ "worker" \in Threads
    BY DEF ChainInv, ChainTypes, Threads
  <1>2. CASE Crash
    BY <1>2 DEF Crash, CopiesAreTrue, Worker, Idle, Threads
  <1>3. ASSUME ~Crash, NEW i \in IncidentIds, NEW r, IsCopy(r, i)
        PROVE  /\ Present(i)' /\ Terminal(i)' /\ r.outcome = incident'[i].outcome
               /\ r.status = "TERMINAL" /\ r.evidence \subseteq incident'[i].evidence
    BY <1>3, TerminalIsKept, IncidentsAreKept DEF IsCopy, Kept
  <1>4. ASSUME ~Crash, NEW i \in IncidentIds, archived'[i] # None
        PROVE  IsCopy(archived[i], i)'
    <2>1. PICK r : r = archived'[i] /\ IsCopy(r, i)
      <3>1. CASE archived' = archived
        BY <1>1, <1>4, <3>1 DEF CopiesAreTrue
      <3>2. CASE ArchiveIncident
        BY <1>1, <1>4, <3>2 DEF ArchiveIncident, CopiesAreTrue, Worker
      <3> QED
        BY <1>4, <3>1, <3>2, StepForms
        DEF Quiet, incidentVars, CreateIncident, Finalize, Ends, Pops
    <2> QED
      BY <1>3, <1>4, <2>1 DEF IsCopy
  <1>5. ASSUME ~Crash, Worker'.at = "archive"
        PROVE  Worker'.snapshot \in Incidents /\ IsCopy(Worker.snapshot, Worker.incident)'
    <2>1. PICK r, i : /\ r = Worker'.snapshot /\ i = Worker'.incident /\ r \in Incidents
                      /\ i \in IncidentIds /\ IsCopy(r, i)
      <3>1. CASE Pops(Worker.incident)
        <4>1. Present(Worker.incident) /\ Terminal(Worker.incident)
          BY <1>1, PopsForm, <3>1 DEF ThreadsHold, Worker
        <4> QED
          BY <1>1, <3>1, <4>1, PopsForm DEF Pops, IsCopy, Terminal
      <3>2. CASE UNCHANGED Worker
        BY <1>1, <1>5, <3>2 DEF CopiesAreTrue, ThreadsHold, Worker
      <3>3. Worker' = Worker \/ Pops(Worker.incident)
        BY <1>5, ArchivesFromPop
      <3> QED
        BY <3>1, <3>2, <3>3
    <2> QED
      BY <1>3, <1>5, <2>1 DEF IsCopy
  <1> QED
    BY <1>2, <1>4, <1>5 DEF CopiesAreTrue

LEMMA RanksAreOrdered ==
    /\ \A s \in Statuses : Rank[s] \in 1 .. 3 /\ Rank[s] <= Rank["TERMINAL"]
    /\ \A s \in Statuses : Rank["TERMINAL"] <= Rank[s] => s = "TERMINAL"
    /\ Rank["OPEN"] <= Rank["INVESTIGATING"]
  BY DEF Statuses, Rank

\* The lifecycle of an incident goes up, and an outcome it has it keeps.
LEMMA IncidentsMoveOn ==
    ASSUME ChainInv, [Next]_chainVars, ~Crash, NEW i \in IncidentIds, Present(i)
    PROVE  /\ Present(i)'
           /\ incident[i].status \in Statuses /\ incident'[i].status \in Statuses
           /\ Rank[incident[i].status] <= Rank[incident'[i].status]
           /\ incident[i].outcome # None => incident'[i].outcome = incident[i].outcome
  <1>1. Kept(i) /\ incident[i] \in Incidents
    BY IncidentsAreKept DEF ChainInv, ChainTypes, Present
  <1>2. incident'[i] \in Incidents
    BY <1>1, IncidentsStep DEF Kept, Present
  <1>3. Rank[incident[i].status] <= Rank[incident'[i].status]
    BY <1>1, <1>2, RanksAreOrdered DEF Kept, Incidents
  <1>4. incident[i].outcome # None => ~(Worker.at = "outcome" /\ i = Worker.incident)
    BY <1>1 DEF ChainInv, ActiveIsLive, OutcomeIsSetOnce, ThreadsHold, Remediating, Resolves
  <1> QED
    BY <1>1, <1>2, <1>3, <1>4 DEF Kept, Incidents

\* What WriteReport writes is not behind the report that was there, and not ahead
\* of the incident.
LEMMA WritesAreBehind ==
    ASSUME ChainInv, WriteReport
    PROVE  /\ main.incident \in IncidentIds /\ Present(main.incident)
           /\ report'[main.incident].status = main.read
           /\ report'[main.incident].outcome = incident[main.incident].outcome
           /\ \A i \in IncidentIds \ {main.incident} : report'[i] = report[i]
           /\ UNCHANGED <<incident, thread>>
  <1>1. /\ main.incident \in IncidentIds /\ Present(main.incident)
        /\ report \in [IncidentIds -> [Fields -> Statuses \cup Outcomes \cup {None}]
                                      \cup {None}]
    BY DEF WriteReport, ChainInv, ChainTypes, MainIsTyped, ReportsAreBehind
  <1> QED
    BY <1>1, SourceIsBehind DEF WriteReport, incidentVars, Fields, FirstRead

\* Where the main thread goes, and the incidents it still has to report.
LEMMA MainForms ==
    ASSUME ChainInv
    PROVE  /\ \A p \in Panes : Observe(p) => main'.at = "evaluate" /\ main'.todo = {}
           /\ JoinIncident \/ OutOfIncidents \/ CreateIncident =>
                 main'.at \in {"idle", "evaluate"} /\ main'.todo \subseteq main.todo
           /\ SyncActive => main'.at = "history" /\ main'.todo = Actives
           /\ SyncHistory => /\ main'.at \in {"idle", "read"}
                             /\ main'.todo \subseteq main.todo \cup Archive
           /\ \A i \in IncidentIds : ReadReport(i) => main'.todo = main.todo
           /\ WriteReport => main'.at \in {"idle", "read"} /\ main'.todo \subseteq main.todo
  <1> DEFINE Mains(m) == m = [at |-> m.at, pane |-> m.pane, signals |-> m.signals,
                              incident |-> m.incident, todo |-> m.todo, read |-> m.read]
  <1>1. Mains(main)
    BY DEF ChainInv, ChainTypes, MainIsTyped
  <1>2. /\ NextSignal.at \in {"idle", "evaluate"} /\ NextSignal.todo \subseteq main.todo
        /\ MainIdle.at = "idle" /\ MainIdle.todo = {}
    BY <1>1 DEF NextSignal, MainIdle
  <1>3. \A p \in Panes : Observe(p) => main'.at = "evaluate" /\ main'.todo = {}
    BY DEF Observe, MainIdle
  <1>4. JoinIncident \/ OutOfIncidents \/ CreateIncident =>
           main'.at \in {"idle", "evaluate"} /\ main'.todo \subseteq main.todo
    BY <1>2 DEF JoinIncident, OutOfIncidents, CreateIncident
  <1>5. SyncActive => main'.at = "history" /\ main'.todo = Actives
    BY <1>1 DEF SyncActive
  <1>6. SyncHistory => main'.at \in {"idle", "read"} /\ main'.todo \subseteq main.todo \cup Archive
    BY <1>1, <1>2 DEF SyncHistory
  <1>7. \A i \in IncidentIds : ReadReport(i) => main'.todo = main.todo
    BY <1>1 DEF ReadReport
  <1>8. WriteReport => main'.at \in {"idle", "read"} /\ main'.todo \subseteq main.todo
    BY <1>2 DEF WriteReport, MainIdle
  <1> QED
    BY <1>3, <1>4, <1>5, <1>6, <1>7, <1>8

LEMMA ReportsStep ==
    ASSUME ChainInv, [Next]_chainVars
    PROVE  ReportsAreBehind'
  <1>1. /\ ReportsAreBehind /\ MainIsTyped /\ OutcomeIsSetOnce
        /\ incident \in [IncidentIds -> Incidents \cup {None}]
        /\ active \in [Panes -> IncidentIds \cup {None}]
        /\ archived \in [IncidentIds -> Incidents \cup {None}]
        /\ \A i \in IncidentIds : Present(i) => incident[i].status \in Statuses
                                   /\ incident[i].outcome \in Outcomes \cup {None}
        /\ \A s \in Statuses : Rank[s] \in Nat
    BY RanksAreOrdered DEF ChainInv, ChainTypes, Present, Incidents
  <1>2. CASE Crash
    BY <1>1, <1>2 DEF Crash, MainIdle, ReportsAreBehind, Present
  <1>3. ASSUME ~Crash, NEW i \in IncidentIds, report'[i] # None
        PROVE  /\ report'[i].status \in Statuses
               /\ report'[i].outcome \in Outcomes \cup {None}
               /\ report'[i].status = "TERMINAL" => report'[i].outcome \in Outcomes
               /\ incident[i] # None =>
                     /\ Rank[report'[i].status] <= Rank[incident[i].status]
                     /\ report'[i].outcome # None => incident[i].outcome = report'[i].outcome
    <2>1. CASE WriteReport /\ i = main.incident
      <3>1. /\ main.read \in Statuses /\ Present(i)
            /\ Rank[main.read] <= Rank[incident[i].status]
        BY <1>1, <2>1 DEF WriteReport, MainIsTyped, ReportsAreBehind
      <3>2. main.read = "TERMINAL" => incident[i].outcome \in Outcomes
        BY <1>1, <3>1, RanksAreOrdered DEF OutcomeIsSetOnce, Terminal
      <3> QED
        BY <1>1, <2>1, <3>1, <3>2, WritesAreBehind
    <2>2. CASE report'[i] = report[i]
      BY <1>1, <1>3, <2>2 DEF ReportsAreBehind, Present
    <2> QED
      BY <1>3, <2>1, <2>2, WritesAreBehind, StepIsOne, MainMovesAlone, CallsMoveAlone
      DEF PaneChanges, CreateIncident, Finalize, AcceptRecovery, SetOutcome, SetTerminal,
          ResolveStep, PopIncident, ArchiveIncident, chainVars, durableVars
  <1>4. ASSUME ~Crash, NEW i \in IncidentIds, report'[i] # None, incident'[i] # None
        PROVE  /\ Rank[report'[i].status] <= Rank[incident'[i].status]
               /\ report'[i].outcome # None => incident'[i].outcome = report'[i].outcome
    <2>1. CASE Present(i)
      <3>1. /\ Rank[incident[i].status] <= Rank[incident'[i].status]
            /\ incident[i].status \in Statuses /\ incident'[i].status \in Statuses
            /\ incident[i].outcome # None => incident'[i].outcome = incident[i].outcome
        BY <1>4, <2>1, IncidentsMoveOn
      <3> QED
        BY <1>1, <1>3, <1>4, <2>1, <3>1 DEF Present
    <2>2. CASE ~Present(i)
      <3>1. CreateIncident /\ i \notin used
        BY <1>4, <2>2, NewIncidents DEF Present
      <3>2. report[i] = None
        BY <3>1 DEF ChainInv, UsedIsKept
      <3> QED
        BY <1>4, <3>1, <3>2 DEF CreateIncident, durableVars
    <2> QED
      BY <2>1, <2>2
  <1>5. ASSUME ~Crash, NEW i \in main'.todo
        PROVE  Present(i)'
    <2>1. i \in IncidentIds
      BY MainTypesStep DEF MainIsTyped
    <2>2. i \in main.todo \/ i \in Actives \/ i \in Archive
      <3>1. CASE MainMoves \/ CreateIncident \/ WriteReport
        <4>1. ASSUME MainMoves
              PROVE  main'.todo \subseteq main.todo \cup Actives \cup Archive
          BY <4>1, MainForms DEF MainMoves
        <4>2. ASSUME CreateIncident \/ WriteReport
              PROVE  main'.todo \subseteq main.todo
          BY <4>2, MainForms
        <4> QED
          BY <1>5, <3>1, <4>1, <4>2
      <3>2. CASE main' = main
        BY <1>5, <3>2
      <3> QED
        BY <1>5, <3>1, <3>2, StepIsOne, CallsMoveAlone
        DEF PaneChanges, Finalize, AcceptRecovery, SetOutcome, SetTerminal, ResolveStep,
            PopIncident, ArchiveIncident, chainVars
    <2>3. Present(i)
      BY <1>1, <2>1, <2>2, ActivesArePresent
      DEF ReportsAreBehind, Archive, ChainInv, CopiesAreTrue, IsCopy
    <2> QED
      BY <1>5, <2>1, <2>3, IncidentsMoveOn
  <1>6. ASSUME ~Crash, main'.at = "write"
        PROVE  /\ Present(main.incident)'
               /\ Rank[main'.read] <= Rank[incident'[main'.incident].status]
               /\ report'[main'.incident] # None =>
                     Rank[report'[main'.incident].status] <= Rank[main'.read]
    <2>1. ASSUME NEW i \in IncidentIds, ReadReport(i)
          PROVE  /\ main'.incident = i /\ Present(i) /\ main'.read = incident[i].status
                 /\ UNCHANGED <<incident, report>>
      <3>1. Present(i)
        BY <1>1, <2>1 DEF ReadReport, ReportsAreBehind
      <3>2. main'.incident = i /\ main'.read = Source(i).status
        BY <1>1, <2>1 DEF ReadReport, MainIsTyped, FirstRead
      <3> QED
        BY <2>1, <3>1, <3>2, SourceIsBehind DEF ReadReport, incidentVars, durableVars
    <2>2. ASSUME NEW i \in IncidentIds, ReadReport(i)
          PROVE  /\ Present(main.incident)'
                 /\ Rank[main'.read] <= Rank[incident'[main'.incident].status]
                 /\ report'[main'.incident] # None =>
                       Rank[report'[main'.incident].status] <= Rank[main'.read]
      BY <1>1, <2>1, <2>2 DEF ReportsAreBehind, Present
    <2>3. CASE main' = main /\ report' = report
      <3> DEFINE i == main.incident
      <3>1. /\ Present(i) /\ i \in IncidentIds /\ main.read \in Statuses
            /\ Rank[main.read] <= Rank[incident[i].status]
        BY <1>1, <1>6, <2>3 DEF ReportsAreBehind, MainIsTyped
      <3>2. /\ Present(i)'
            /\ incident[i].status \in Statuses /\ incident'[i].status \in Statuses
            /\ Rank[incident[i].status] <= Rank[incident'[i].status]
        <4>1. incident'[i] # None /\ Rank[incident[i].status] <= Rank[incident'[i].status]
              /\ incident[i].status \in Statuses /\ incident'[i].status \in Statuses
          BY <1>6, <3>1, IncidentsMoveOn DEF Present
        <4> QED
          BY <2>3, <4>1 DEF Present
      <3> QED
        BY <1>1, <1>6, <2>3, <3>1, <3>2 DEF ReportsAreBehind, Present
    <2>4. MainMoves => \E i \in IncidentIds : ReadReport(i)
      BY <1>6, MainForms DEF MainMoves
    <2>5. ~CreateIncident /\ ~WriteReport
      BY <1>6, MainForms
    <2> QED
      BY <1>6, <2>2, <2>3, <2>4, <2>5, StepIsOne, CallsMoveAlone
      DEF PaneChanges, Finalize, AcceptRecovery, SetOutcome, SetTerminal, ResolveStep,
          PopIncident, ArchiveIncident, chainVars, durableVars
  <1> QED
    BY <1>2, <1>3, <1>4, <1>5, <1>6 DEF ReportsAreBehind, Present

----------------------------------------------------------------------------
(* The theorems.                                                           *)

LEMMA ChainStep ==
    ASSUME ChainInv, [Next]_chainVars
    PROVE  ChainInv'
  BY ChainTypesStep, UsedStep, ActiveStep, ThreadsStep, OutcomeStep, CopiesStep, ReportsStep
  DEF ChainInv

\* Whatever the three threads and the crashes do, an incident that is not over is the
\* active one of its pane, only the worker ends it and says its outcome first, and a
\* report is never ahead of the incident it was read from (incidents/manager.py,
\* incident_reporting.py): the inductive invariant.
THEOREM ChainInvariance == ChainSpec => []ChainInv
  <1>1. Init => ChainInv
    BY ChainStart
  <1>2. ChainInv /\ [Next]_chainVars => ChainInv'
    BY ChainStep
  <1> QED
    BY <1>1, <1>2, PTL DEF ChainSpec

\* A pane never has two incidents that are not over, and nothing, in memory or in a
\* durable report, calls an incident TERMINAL without its outcome, although the
\* reporter reads the status and the outcome while the worker writes them.
THEOREM IncidentsAreWellFormed == ChainSpec => []ChainOK
  <1>1. ChainInv => ChainOK
    <2> SUFFICES ASSUME ChainInv
                 PROVE  ChainOK
      OBVIOUS
    <2>1. /\ incident \in [IncidentIds -> Incidents \cup {None}] /\ used \subseteq IncidentIds
          /\ UsedIsKept /\ ActiveIsLive /\ OutcomeIsSetOnce /\ CopiesAreTrue
          /\ ReportsAreBehind
      BY DEF ChainInv, ChainTypes
    <2>2. \A i \in used : incident[i] # None =>
             /\ incident[i].pane \in Panes
             /\ incident[i].evidence \subseteq Evidences
             /\ incident[i].outcome \in Outcomes \cup {None}
      BY <2>1 DEF Incidents
    <2>3. \A i \in IncidentIds \ used : incident[i] = None /\ report[i] = None
      BY <2>1 DEF UsedIsKept
    <2>4. \A i \in used : incident[i] # None /\ incident[i].status # "TERMINAL"
                             => active[incident[i].pane] = i
      BY <2>1 DEF ActiveIsLive, Present, Terminal
    <2>5. \A i \in IncidentIds : EndsWithOutcome(incident[i]) /\ EndsWithOutcome(report[i])
      BY <2>1 DEF EndsWithOutcome, OutcomeIsSetOnce, ReportsAreBehind, Present, Terminal
    <2>6. \A i \in IncidentIds : EndsWithOutcome(archived[i])
      BY <2>1 DEF EndsWithOutcome, CopiesAreTrue, IsCopy, OutcomeIsSetOnce
    <2> QED
      BY <2>2, <2>3, <2>4, <2>5, <2>6 DEF ChainOK
  <1> QED
    BY <1>1, ChainInvariance, PTL

\* No synchronization, also of a later process, takes back what a report said: the
\* lifecycle only moves on, and an outcome stays (incident_reporting.py upsert).
THEOREM ReportsMoveOn == ChainSpec => ReportsNeverRegress
  <1> DEFINE MovesOn(i) ==
         report[i] # None =>
            /\ Rank[report'[i].status] >= Rank[report[i].status]
            /\ report[i].outcome # None => report'[i].outcome = report[i].outcome
  <1>1. ASSUME ChainInv, [Next]_chainVars
        PROVE  \A i \in IncidentIds : MovesOn(i)
    <2> SUFFICES ASSUME NEW i \in IncidentIds, report[i] # None
                 PROVE  MovesOn(i)
      OBVIOUS
    <2>1. ReportsAreBehind
      BY <1>1 DEF ChainInv
    <2>2. CASE WriteReport /\ i = main.incident
      <3>1. /\ Rank[report[i].status] <= Rank[main.read]
            /\ report[i].outcome # None => incident[i].outcome = report[i].outcome
        BY <1>1, <2>1, <2>2, WritesAreBehind DEF WriteReport, ReportsAreBehind
      <3>2. report'[i].status = main.read /\ report'[i].outcome = incident[i].outcome
        BY <1>1, <2>2, WritesAreBehind
      <3>3. Rank[report[i].status] \in Nat /\ Rank[main.read] \in Nat
        BY <1>1, <2>1, <2>2, RanksAreOrdered
        DEF ReportsAreBehind, ChainInv, ChainTypes, MainIsTyped, WriteReport
      <3> QED
        BY <3>1, <3>2, <3>3
    <2>3. CASE report'[i] = report[i]
      <3>1. Rank[report[i].status] \in Nat
        BY <2>1, RanksAreOrdered DEF ReportsAreBehind
      <3> QED
        BY <2>3, <3>1
    <2> QED
      BY <1>1, <2>2, <2>3, WritesAreBehind, StepIsOne, MainMovesAlone, CallsMoveAlone
      DEF PaneChanges, CreateIncident, Finalize, AcceptRecovery, SetOutcome, SetTerminal,
          ResolveStep, PopIncident, ArchiveIncident, Crash, chainVars, durableVars
  <1> QED
    BY <1>1, ChainInvariance, PTL DEF ChainSpec, ReportsNeverRegress

----------------------------------------------------------------------------
(* Why what is called recovered was verified.  Two remediations of the     *)
(* Commander do not overlap here, so the verifier that the worker uses is  *)
(* the one the orchestrator was built with, and that looks at one pane.    *)

OneRemediation == ~Overlap /\ (Standing = None \/ Panes \subseteq {Standing})

\* Only one thread is in the Commander, and it is the one that swapped the verifier.
VerifierIsOwn ==
    /\ ~(InCommander("worker") /\ InCommander("operator"))
    /\ \A t \in Threads : InCommander(t) => thread[t].saved = Standing
    /\ ~InCommander("operator") => verifier = Standing

\* The identity of an effect that is going on is the one its thread claimed.
EffectsAreOwn ==
    \A t \in Threads : thread[t].at = "effect" =>
       identity[thread[t].execution] = Claimed(thread[t])

Succeeded(c) == identity[c.execution] = [binding |-> Binding(c), state |-> "SUCCEEDED"]

\* What the worker calls verified is its own execution, seen by the standing verifier.
WorkerIsTrue ==
    LET c == Worker IN
    c.at \in Remediating =>
       /\ Allowed(c.action)
       /\ c.at \in {"remediate", "claim", "effect", "verify"} => ~c.replayed /\ c.verified # TRUE
       /\ c.at = "verify" => c.success = TRUE /\ Succeeded(c)
       /\ c.verified = TRUE => /\ c.success = TRUE /\ ~c.replayed /\ Succeeded(c)
                               /\ c.by = Standing /\ Standing # None

Earned(i, evidence) ==
    \E x \in ExecutionIds : RanFor(x, i) /\ Evidence("VERIFIED", x, incident[i].pane) \in evidence

RecoveryIsEarned ==
    /\ \A i \in IncidentIds : Present(i) /\ incident[i].outcome = "RECOVERED" =>
          /\ Earned(i, incident[i].evidence)
          /\ archived[i] # None => Earned(i, archived[i].evidence)
          /\ Worker.at = "archive" /\ Worker.incident = i => Earned(i, Worker.snapshot.evidence)
    /\ Worker.at \in Resolves /\ Worker.outcome = "RECOVERED" =>
          Earned(Worker.incident, incident[Worker.incident].evidence)
    /\ \A i \in IncidentIds : report[i] # None /\ report[i].outcome = "RECOVERED" =>
          \E x \in ExecutionIds : RanFor(x, i)

RecoveryInv == VerifierIsOwn /\ EffectsAreOwn /\ WorkerIsTrue /\ RecoveryIsEarned

LEMMA RecoveryStart == Init => RecoveryInv
  <1> SUFFICES ASSUME Init
               PROVE  RecoveryInv
    OBVIOUS
  <1> USE DEF Init
  <1>1. VerifierIsOwn /\ EffectsAreOwn
    BY DEF VerifierIsOwn, EffectsAreOwn, InCommander, Threads, Idle
  <1>2. WorkerIsTrue
    BY DEF WorkerIsTrue, Worker, Threads, Idle, Remediating
  <1>3. RecoveryIsEarned
    BY DEF RecoveryIsEarned, Worker, Threads, Idle, Resolves, Present
  <1> QED
    BY <1>1, <1>2, <1>3 DEF RecoveryInv

\* Who is in the Commander changes only where the verifier does, or where all stops.
LEMMA CommanderIsKept ==
    ASSUME ChainInv, [Next]_chainVars, ~VerifierMoves, ~Crash
    PROVE  /\ \A t \in Threads : InCommander(t)' <=> InCommander(t)
           /\ \A t \in Threads : InCommander(t) => thread'[t].saved = thread[t].saved
           /\ verifier' = verifier
  <1>1. thread \in [Threads -> Calls] /\ "worker" \in Threads /\ "operator" \in Threads
    BY DEF ChainInv, ChainTypes, Threads
  <1>2. verifier' = verifier
    BY StepIsOne, MainMovesAlone, CallsMoveAlone
    DEF PaneChanges, CreateIncident, WriteReport, Finalize, AcceptRecovery, SetOutcome,
        SetTerminal, ResolveStep, PopIncident, ArchiveIncident, chainVars
  <1> DEFINE Keeps(t) == /\ InCommander(t)' <=> InCommander(t)
                         /\ InCommander(t) => thread'[t].saved = thread[t].saved
  <1>4. ASSUME NEW t \in Threads,
               Claim(t) \/ Replay(t) \/ RefuseClaim(t) \/ Execute(t) \/ ExecuteRaises(t) \/ Verify(t)
        PROVE  Keeps(t)
    <2>1. thread[t] \in Calls
      BY <1>1
    <2>2. CASE Replay(t)
      <3> DEFINE r == identity[thread[t].execution]
                 success == IF r.state = "UNKNOWN" THEN None ELSE r.state = "SUCCEEDED"
      <3>1. thread' = [thread EXCEPT ![t].at = "restore", ![t].replayed = TRUE,
                                     ![t].success = success]
        BY <2>2 DEF Replay
      <3> HIDE DEF success
      <3> QED
        BY <1>1, <2>1, <2>2, <3>1 DEF Replay, InCommander, Calls
    <2>3. CASE Execute(t)
      <3>1. PICK success \in BOOLEAN :
                thread' = [thread EXCEPT ![t].at = IF success THEN "verify" ELSE "restore",
                                         ![t].success = success]
        BY <2>3 DEF Execute
      <3> QED
        BY <1>1, <2>1, <2>3, <3>1 DEF Execute, InCommander, Calls
    <2>4. CASE Verify(t)
      <3>1. PICK v : thread' = [thread EXCEPT ![t].at = "restore", ![t].verified = v,
                                              ![t].by = verifier]
        BY <2>4 DEF Verify
      <3> QED
        BY <1>1, <2>1, <2>4, <3>1 DEF Verify, InCommander, Calls
    <2>5. CASE Claim(t) \/ RefuseClaim(t) \/ ExecuteRaises(t)
      BY <1>1, <2>1, <2>5 DEF Claim, RefuseClaim, ExecuteRaises, InCommander, Calls
    <2> QED
      BY <1>4, <2>2, <2>3, <2>4, <2>5
  <1> DEFINE Out(at) == at \notin {"claim", "effect", "verify", "restore", "raise"}
  <1>5. ASSUME NEW t \in Threads, Out(thread[t].at), Out(thread'[t].at)
        PROVE  Keeps(t)
    BY <1>5 DEF InCommander
  <1>6. ASSUME NEW t \in Threads, thread'[t] = thread[t]
        PROVE  Keeps(t)
    BY <1>6 DEF InCommander
  <1>7. ASSUME NEW i \in IncidentIds, Handoff(i) \/ HandoffRemediation(i)
        PROVE  \A t \in Threads : Keeps(t)
    <2>1. thread["worker"] = Idle /\ Out(Idle.at)
      BY <1>7 DEF Handoff, HandoffRemediation, Idle
    <2>2. Out(thread'["worker"].at) /\ thread'["operator"] = thread["operator"]
      <3>1. CASE Handoff(i)
        <4>1. PICK o : \/ thread' = thread
                       \/ thread' = [thread EXCEPT !["worker"] =
                              [Idle EXCEPT !.at = "resolve", !.incident = i, !.outcome = o]]
          BY <3>1 DEF Handoff
        <4> QED
          BY <1>1, <2>1, <4>1 DEF Idle
      <3>2. CASE HandoffRemediation(i)
        BY <1>1, <3>2 DEF HandoffRemediation, Idle
      <3> QED
        BY <1>7, <3>1, <3>2
    <2>3. Keeps("worker")
      BY <1>1, <1>5, <2>1, <2>2
    <2>4. Keeps("operator")
      BY <1>1, <1>6, <2>2
    <2> QED
      BY <2>3, <2>4 DEF Threads
  <1>8. ASSUME NEW i \in IncidentIds, NEW a \in Actions, NEW x \in ExecutionIds,
               Remediate(i, a, x)
        PROVE  \A t \in Threads : Keeps(t)
    <2>1. /\ thread["operator"] = Idle /\ Out(Idle.at) /\ Out(thread'["operator"].at)
          /\ thread'["worker"] = thread["worker"]
      BY <1>1, <1>8 DEF Remediate, Idle
    <2>2. Keeps("operator")
      BY <1>1, <1>5, <2>1
    <2>3. Keeps("worker")
      BY <1>1, <1>6, <2>1
    <2> QED
      BY <2>2, <2>3 DEF Threads
  <1>9. ASSUME NEW t \in Threads, Finalize(t)
        PROVE  \A s \in Threads : Keeps(s)
    <2>1. Out(thread[t].at) /\ Out(thread'[t].at)
      BY <1>1, <1>9 DEF Finalize, Idle
    <2>2. \A s \in Threads \ {t} : thread'[s] = thread[s]
      BY <1>1, <1>9 DEF Finalize
    <2>3. Keeps(t)
      BY <1>5, <2>1
    <2>4. \A s \in Threads \ {t} : Keeps(s)
      BY <1>6, <2>2
    <2> QED
      BY <2>3, <2>4
  <1>10. ASSUME Ends(Worker.incident) \/ Pops(Worker.incident) \/ ArchiveIncident
         PROVE  \A t \in Threads : Keeps(t)
    <2>1. Out(thread["worker"].at) /\ Out(thread'["worker"].at)
      BY <1>1, <1>10, PopsForm DEF Ends, ArchiveIncident, Worker, Idle
    <2>2. thread'["operator"] = thread["operator"]
      BY <1>1, <1>10, PopsForm DEF Ends, ArchiveIncident
    <2>3. Keeps("worker")
      BY <1>1, <1>5, <2>1
    <2>4. Keeps("operator")
      BY <1>1, <1>6, <2>2
    <2> QED
      BY <2>3, <2>4 DEF Threads
  <1>11. ASSUME NEW t \in Threads,
                Claim(t) \/ Replay(t) \/ RefuseClaim(t) \/ Execute(t) \/ ExecuteRaises(t)
                   \/ Verify(t)
         PROVE  \A s \in Threads : Keeps(s)
    <2>1. \A s \in Threads \ {t} : thread'[s] = thread[s]
      BY <1>1, <1>11 DEF Claim, Replay, RefuseClaim, Execute, ExecuteRaises, Verify
    <2>2. \A s \in Threads \ {t} : Keeps(s)
      BY <1>6, <2>1
    <2> QED
      BY <1>4, <1>11, <2>2
  <1>12. \A t \in Threads : Keeps(t)
    <2>1. CallMoves \/ IdentityMoves => \A t \in Threads : Keeps(t)
      BY <1>7, <1>8, <1>11 DEF CallMoves, IdentityMoves
    <2>2. MainMoves \/ CreateIncident \/ WriteReport \/ UNCHANGED chainVars
             \/ (\E p \in Panes : PaneChanges(p)) => thread' = thread
      BY MainMovesAlone DEF CreateIncident, WriteReport, PaneChanges, chainVars
    <2>3. thread' = thread => \A t \in Threads : Keeps(t)
      BY <1>6
    <2> QED
      BY <2>1, <2>2, <2>3, <1>9, <1>10, StepIsOne, EndsOrPops
  <1> QED
    BY <1>2, <1>12

LEMMA VerifierStep ==
    ASSUME OneRemediation, ChainInv, RecoveryInv, [Next]_chainVars
    PROVE  VerifierIsOwn'
  <1>1. /\ thread \in [Threads -> Calls] /\ "worker" \in Threads /\ "operator" \in Threads
        /\ VerifierIsOwn
    BY DEF ChainInv, ChainTypes, Threads, RecoveryInv
  <1>2. CASE Crash
    BY <1>2 DEF Crash, VerifierIsOwn, InCommander, Idle, Threads
  <1>3. ASSUME NEW t \in Threads, SwapVerifier(t)
        PROVE  VerifierIsOwn'
    <2>1. /\ ~InCommander(Other(t)) /\ ~InCommander(t) /\ Other(t) \in Threads \ {t}
          /\ \A s \in Threads : s = t \/ s = Other(t)
      BY <1>3, TheOther DEF SwapVerifier, InCommander, Threads, OneRemediation
    <2>2. verifier = Standing
      BY <1>1, <2>1 DEF VerifierIsOwn
    <2>3. thread'[t].saved = Standing /\ thread'[Other(t)] = thread[Other(t)]
      BY <1>1, <1>3, <2>1, <2>2 DEF SwapVerifier, Calls
    <2>4. ~InCommander(Other(t))'
      BY <2>1, <2>3 DEF InCommander, Other
    <2>5. t = "worker" => verifier' = Standing
      BY <1>3, <2>2 DEF SwapVerifier
    <2>6. t = "operator" => InCommander("operator")'
      BY <1>1, <1>3 DEF SwapVerifier, InCommander, Calls
    <2> QED
      BY <2>1, <2>3, <2>4, <2>5, <2>6, TheOther DEF VerifierIsOwn, Threads
  <1>4. ASSUME NEW t \in Threads, RestoreVerifier(t)
        PROVE  VerifierIsOwn'
    <2>1. InCommander(t) /\ thread[t].saved = Standing
      BY <1>1, <1>4 DEF RestoreVerifier, InCommander, VerifierIsOwn
    <2>2. verifier' = Standing
      BY <1>4, <2>1 DEF RestoreVerifier
    <2>3. \A s \in Threads \ {t} : thread'[s] = thread[s] /\ ~InCommander(s)
      BY <1>1, <1>4, <2>1 DEF RestoreVerifier, VerifierIsOwn, Threads
    <2>4. ~InCommander(t)'
      BY <1>1, <1>4 DEF RestoreVerifier, InCommander, Idle, Calls
    <2>5. \A s \in Threads : ~InCommander(s)'
      BY <2>3, <2>4 DEF InCommander
    <2> QED
      BY <1>1, <2>2, <2>5 DEF VerifierIsOwn
  <1>5. CASE ~VerifierMoves /\ ~Crash
    <2>1. /\ \A t \in Threads : InCommander(t)' <=> InCommander(t)
          /\ \A t \in Threads : InCommander(t) => thread'[t].saved = thread[t].saved
          /\ verifier' = verifier
      BY <1>5, CommanderIsKept
    <2> QED
      BY <1>1, <2>1 DEF VerifierIsOwn
  <1> QED
    BY <1>2, <1>3, <1>4, <1>5 DEF VerifierMoves

\* The identity that a thread is running changes only by that thread, and one that
\* succeeded does not change any more.
LEMMA IdentityIsKept ==
    ASSUME OneRemediation, ChainInv, RecoveryInv, [Next]_chainVars, ~Crash,
           NEW x \in ExecutionIds, identity[x] # None
    PROVE  \/ identity'[x] = identity[x]
           \/ \E t \in Threads : /\ Execute(t) \/ ExecuteRaises(t)
                                 /\ thread[t].execution = x /\ thread[t].at = "effect"
                                 /\ identity[x] = Claimed(thread[t])
  <1>1. identity \in [ExecutionIds -> Identities \cup {None}] /\ EffectsAreOwn
    BY DEF ChainInv, ChainTypes, RecoveryInv
  <1>2. ASSUME NEW t \in Threads, Claim(t)
        PROVE  identity'[x] = identity[x]
    BY <1>1, <1>2 DEF Claim
  <1>3. ASSUME NEW t \in Threads, Execute(t) \/ ExecuteRaises(t)
        PROVE  /\ thread[t].at = "effect" /\ identity[thread[t].execution] = Claimed(thread[t])
               /\ thread[t].execution # x => identity'[x] = identity[x]
    BY <1>1, <1>3 DEF Execute, ExecuteRaises, Close, EffectsAreOwn
  <1>4. CASE UNCHANGED identity
    BY <1>4
  <1> QED
    BY <1>2, <1>3, <1>4, StepIsOne, MainMovesAlone, CallsMoveAlone
    DEF IdentityMoves, PaneChanges, CreateIncident, WriteReport, Finalize, AcceptRecovery,
        SetOutcome, SetTerminal, ResolveStep, PopIncident, ArchiveIncident, chainVars,
        durableVars

LEMMA SucceededStays ==
    ASSUME OneRemediation, ChainInv, RecoveryInv, [Next]_chainVars,
           NEW x \in ExecutionIds, identity[x] # None, identity[x].state = "SUCCEEDED"
    PROVE  identity'[x] = identity[x]
  <1>1. CASE Crash
    BY <1>1 DEF Crash
  <1>2. \A c : identity[x] # Claimed(c)
    BY DEF Claimed
  <1>3. CASE ~Crash
    BY <1>2, <1>3, IdentityIsKept
  <1> QED
    BY <1>1, <1>3

LEMMA EffectsStep ==
    ASSUME OneRemediation, ChainInv, RecoveryInv, [Next]_chainVars
    PROVE  EffectsAreOwn'
  <1> SUFFICES ASSUME NEW t \in Threads, thread'[t].at = "effect"
               PROVE  identity'[thread'[t].execution] = Claimed(thread'[t])
    BY DEF EffectsAreOwn
  <1>1. /\ thread \in [Threads -> Calls] /\ "worker" \in Threads /\ "operator" \in Threads
        /\ EffectsAreOwn /\ VerifierIsOwn
    BY DEF ChainInv, ChainTypes, Threads, RecoveryInv
  <1>2. ~Crash
    BY DEF Crash, Idle
  <1>3. CASE GoesOn(thread[t], thread'[t])
    BY <1>3 DEF GoesOn, Claimed, Binding
  <1>4. CASE thread'[t] = thread[t]
    <2>1. /\ thread[t].execution \in ExecutionIds
          /\ identity[thread[t].execution] = Claimed(thread[t])
          /\ identity[thread[t].execution] # None
      BY <1>1, <1>4 DEF EffectsAreOwn, ChainInv, ThreadsHold, Remediating
    <2>2. ASSUME NEW s \in Threads, Execute(s) \/ ExecuteRaises(s)
          PROVE  thread'[s].at # "effect" /\ thread[s].at = "effect"
      BY <1>1, <2>2 DEF Execute, ExecuteRaises, Calls
    <2>3. ASSUME NEW s \in Threads, s # t
          PROVE  thread[s].at # "effect"
      BY <1>1, <1>4, <2>3 DEF VerifierIsOwn, InCommander, Threads
    <2>4. identity'[thread[t].execution] = identity[thread[t].execution]
      BY <1>2, <1>4, <2>1, <2>2, <2>3, IdentityIsKept
    <2> QED
      BY <1>4, <2>1, <2>4
  <1> QED
    BY <1>1, <1>2, <1>3, <1>4, EffectForms

\* The steps of the worker's own remediation.
WorkerCalls ==
    \/ \E i \in IncidentIds : HandoffRemediation(i)
    \/ SwapVerifier("worker") \/ Claim("worker") \/ Replay("worker") \/ RefuseClaim("worker")
    \/ Execute("worker") \/ ExecuteRaises("worker") \/ Verify("worker")
    \/ RestoreVerifier("worker")

LEMMA WorkerRemediates ==
    ASSUME ChainInv, [Next]_chainVars, Worker'.at \in Remediating
    PROVE  UNCHANGED Worker \/ WorkerCalls
  <1>1. /\ thread \in [Threads -> Calls] /\ "worker" \in Threads /\ "operator" \in Threads
        /\ ~Crash
    BY DEF ChainInv, ChainTypes, Threads, Crash, Worker, Idle, Remediating
  <1>2. ASSUME NEW i \in IncidentIds, Handoff(i)
        PROVE  UNCHANGED Worker
    <2>1. PICK o : \/ thread' = thread
                   \/ thread' = [thread EXCEPT !["worker"] =
                          [Idle EXCEPT !.at = "resolve", !.incident = i, !.outcome = o]]
      BY <1>2 DEF Handoff
    <2> QED
      BY <1>1, <2>1 DEF Worker, Idle, Remediating
  <1>3. ASSUME NEW i \in IncidentIds, NEW a \in Actions, NEW x \in ExecutionIds,
               Remediate(i, a, x)
        PROVE  UNCHANGED Worker
    BY <1>1, <1>3 DEF Remediate, Worker
  <1>4. ASSUME \/ SwapVerifier("operator") \/ Claim("operator") \/ Replay("operator")
               \/ RefuseClaim("operator") \/ Execute("operator") \/ ExecuteRaises("operator")
               \/ Verify("operator") \/ RestoreVerifier("operator") \/ Finalize("operator")
        PROVE  UNCHANGED Worker
    BY <1>1, <1>4 DEF SwapVerifier, Claim, Replay, RefuseClaim, Execute, ExecuteRaises, Verify,
                      RestoreVerifier, Finalize, Worker
  <1>5. ~Finalize("worker")
    BY <1>1 DEF Finalize, Worker, Idle, Remediating
  <1>6. ~Ends(Worker.incident) /\ ~Pops(Worker.incident) /\ ~ArchiveIncident
    BY <1>1, PopsForm DEF Ends, ArchiveIncident, Worker, Idle, Remediating
  <1>7. MainMoves \/ CreateIncident \/ WriteReport \/ UNCHANGED chainVars
          \/ (\E p \in Panes : PaneChanges(p)) => UNCHANGED Worker
    BY MainMovesAlone DEF CreateIncident, WriteReport, PaneChanges, chainVars, Worker
  <1>8. \A t \in Threads : t = "worker" \/ t = "operator"
    BY DEF Threads
  <1>9. CallMoves \/ VerifierMoves \/ IdentityMoves => UNCHANGED Worker \/ WorkerCalls
    BY <1>2, <1>3, <1>4, <1>8 DEF CallMoves, VerifierMoves, IdentityMoves, WorkerCalls
  <1> QED
    BY <1>1, <1>4, <1>5, <1>6, <1>7, <1>8, <1>9, StepIsOne, EndsOrPops

LEMMA WorkerTrueStep ==
    ASSUME OneRemediation, ChainInv, RecoveryInv, [Next]_chainVars
    PROVE  WorkerIsTrue'
  <1> DEFINE c == Worker
             d == Worker'
             done(e) == [binding |-> Binding(e), state |-> "SUCCEEDED"]
  <1> SUFFICES ASSUME d.at \in Remediating
               PROVE  /\ Allowed(d.action)
                      /\ d.at \in {"remediate", "claim", "effect", "verify"} =>
                            ~d.replayed /\ d.verified # TRUE
                      /\ d.at = "verify" => d.success = TRUE /\ identity'[d.execution] = done(d)
                      /\ d.verified = TRUE => /\ d.success = TRUE /\ ~d.replayed
                                             /\ identity'[d.execution] = done(d)
                                             /\ d.by = Standing /\ Standing # None
    BY DEF WorkerIsTrue, Succeeded
  <1>1. /\ thread \in [Threads -> Calls] /\ "worker" \in Threads /\ c \in Calls
        /\ VerifierIsOwn
        /\ c.at \in Remediating =>
              c.execution \in ExecutionIds /\ c.incident \in IncidentIds /\ c.action \in Actions
        /\ None \notin BOOLEAN
    BY ConstantsAreTyped
    DEF ChainInv, ChainTypes, ThreadsHold, Threads, RecoveryInv, Worker, Remediating
  <1>2. c.at \in Remediating =>
           /\ Allowed(c.action)
           /\ c.at \in {"remediate", "claim", "effect", "verify"} => ~c.replayed /\ c.verified # TRUE
           /\ c.at = "verify" => c.success = TRUE /\ identity[c.execution] = done(c)
           /\ c.verified = TRUE => /\ c.success = TRUE /\ ~c.replayed
                                  /\ identity[c.execution] = done(c)
                                  /\ c.by = Standing /\ Standing # None
    BY DEF RecoveryInv, WorkerIsTrue, Succeeded
  <1>3. ASSUME c.at \in Remediating, identity[c.execution] = done(c)
        PROVE  identity'[c.execution] = done(c)
    <2>1. done(c) \in Identities
      BY <1>1, <1>3 DEF Identities, Binding
    <2> QED
      BY <1>1, <1>3, <2>1, NoneIsNothingElse, SucceededStays
  <1>4. CASE d = c
    BY <1>2, <1>3, <1>4
  <1>5. ASSUME NEW i \in IncidentIds, HandoffRemediation(i)
        PROVE  d.at = "remediate" /\ Allowed(d.action) /\ ~d.replayed /\ d.verified # TRUE
    BY <1>1, <1>5 DEF HandoffRemediation, Worker, Idle
  <1>6. CASE SwapVerifier("worker") \/ Claim("worker") \/ RefuseClaim("worker")
    <2>1. /\ c.at \in {"remediate", "claim"} /\ d.at \in {"claim", "effect", "raise"}
          /\ d.action = c.action /\ d.replayed = c.replayed /\ d.verified = c.verified
      BY <1>1, <1>6 DEF SwapVerifier, Claim, RefuseClaim, Worker, Calls
    <2> QED
      BY <1>2, <2>1 DEF Remediating
  <1>7. CASE Replay("worker")
    <2>1. /\ c.at = "claim" /\ d.at = "restore"
          /\ d.action = c.action /\ d.verified = c.verified
      <3> DEFINE r == identity[c.execution]
                 success == IF r.state = "UNKNOWN" THEN None ELSE r.state = "SUCCEEDED"
      <3>1. thread' = [thread EXCEPT !["worker"].at = "restore", !["worker"].replayed = TRUE,
                                     !["worker"].success = success]
        BY <1>7 DEF Replay, Worker
      <3>2. c.at = "claim"
        BY <1>7 DEF Replay, Worker
      <3> HIDE DEF success
      <3> QED
        BY <1>1, <3>1, <3>2 DEF Worker, Calls
    <2> QED
      BY <1>2, <2>1 DEF Remediating
  <1>8. CASE Execute("worker")
    <2>1. PICK success \in BOOLEAN :
             /\ identity' = [identity EXCEPT ![c.execution].state =
                                IF success THEN "SUCCEEDED" ELSE "FAILED"]
             /\ thread' = [thread EXCEPT !["worker"].at = IF success THEN "verify" ELSE "restore",
                                         !["worker"].success = success]
      BY <1>8 DEF Execute, Close, Worker
    <2>2. c.at = "effect" /\ identity[c.execution] = Claimed(c)
      BY <1>1, <1>8 DEF Execute, RecoveryInv, EffectsAreOwn, Worker
    <2>3. /\ d.at = IF success THEN "verify" ELSE "restore"
          /\ d.success = success /\ d.action = c.action /\ d.verified = c.verified
          /\ d.replayed = c.replayed /\ d.execution = c.execution /\ Binding(d) = Binding(c)
      BY <1>1, <2>1 DEF Worker, Calls, Binding
    <2>4. success => identity'[c.execution] = done(c)
      <3>1. identity \in [ExecutionIds -> Identities \cup {None}]
        BY DEF ChainInv, ChainTypes
      <3> QED
        BY <1>1, <2>1, <2>2, <3>1 DEF Claimed, Remediating
    <2> QED
      BY <1>2, <2>2, <2>3, <2>4 DEF Remediating
  <1>9. CASE ExecuteRaises("worker")
    <2>1. /\ c.at = "effect" /\ d.at = "raise"
          /\ d.action = c.action /\ d.verified = c.verified
      BY <1>1, <1>9 DEF ExecuteRaises, Worker, Calls
    <2> QED
      BY <1>2, <2>1 DEF Remediating
  <1>10. CASE Verify("worker")
    <2>1. PICK verified \in IF verifier = None THEN {None} ELSE {FALSE, alive[verifier]} :
              thread' = [thread EXCEPT !["worker"].at = "restore",
                             !["worker"].verified = verified, !["worker"].by = verifier]
      BY <1>10 DEF Verify
    <2>2. c.at = "verify" /\ verifier = Standing /\ UNCHANGED identity
      BY <1>1, <1>10 DEF Verify, VerifierIsOwn, InCommander, Worker, durableVars
    <2>3. /\ d.at = "restore" /\ d.verified = verified /\ d.by = Standing
          /\ d.success = c.success /\ d.action = c.action /\ d.replayed = c.replayed
          /\ d.execution = c.execution /\ Binding(d) = Binding(c)
      BY <1>1, <2>1, <2>2 DEF Worker, Calls, Binding
    <2>4. verified = TRUE => Standing # None
      BY <1>1, <2>1, <2>2
    <2> QED
      BY <1>2, <2>2, <2>3, <2>4 DEF Remediating
  <1>11. CASE RestoreVerifier("worker")
    <2>1. /\ c.at = "restore" /\ d = [c EXCEPT !.at = "finalize"] /\ UNCHANGED identity
      BY <1>1, <1>11 DEF RestoreVerifier, Worker, Idle, Remediating, durableVars
    <2> QED
      BY <1>1, <1>2, <2>1 DEF Remediating, Calls, Binding
  <1> QED
    BY <1>4, <1>5, <1>6, <1>7, <1>8, <1>9, <1>10, <1>11, WorkerRemediates DEF WorkerCalls

\* RanFor and Earned, of the next state.
RanThen(x, i) ==
    /\ identity'[x] # None
    /\ identity'[x].state = "SUCCEEDED"
    /\ identity'[x].binding.incident = i
    /\ identity'[x].binding.action \in AllowedActions

EarnedThen(i, evidence) ==
    \E x \in ExecutionIds :
       RanThen(x, i) /\ Evidence("VERIFIED", x, incident'[i].pane) \in evidence

LEMMA RanForStays ==
    ASSUME OneRemediation, ChainInv, RecoveryInv, [Next]_chainVars,
           NEW x \in ExecutionIds, NEW i, RanFor(x, i)
    PROVE  RanThen(x, i)
  BY SucceededStays DEF RanFor, RanThen

LEMMA EarnedStays ==
    ASSUME OneRemediation, ChainInv, RecoveryInv, [Next]_chainVars, ~Crash,
           NEW i \in IncidentIds, Present(i), NEW ev, NEW more, ev \subseteq more,
           Earned(i, ev)
    PROVE  EarnedThen(i, more)
  <1>1. PICK x \in ExecutionIds :
            RanFor(x, i) /\ Evidence("VERIFIED", x, incident[i].pane) \in ev
    BY DEF Earned
  <1>2. RanThen(x, i)
    BY <1>1, RanForStays
  <1>3. incident'[i].pane = incident[i].pane
    BY IncidentsAreKept DEF Kept
  <1> QED
    BY <1>1, <1>2, <1>3 DEF EarnedThen

\* A recovery is decided where the evidence of the verified execution is added.
LEMMA FinalizeEarns ==
    ASSUME OneRemediation, ChainInv, RecoveryInv, [Next]_chainVars, ~Crash,
           Finalize("worker"), Worker'.outcome = "RECOVERED"
    PROVE  EarnedThen(Worker'.incident, incident'[Worker'.incident].evidence)
  <1> DEFINE c == Worker
             i == c.incident
             x == c.execution
             e == Evidence(RemediationEvidence(c), c.execution, c.by)
  <1>1. /\ thread \in [Threads -> Calls] /\ c \in Calls /\ c.at = "finalize"
        /\ "worker" \in Threads
        /\ c.at \in Remediating
        /\ i \in IncidentIds /\ x \in ExecutionIds /\ c.action \in Actions
        /\ Present(i) /\ incident[i] \in Incidents
        /\ incident \in [IncidentIds -> Incidents \cup {None}]
    BY DEF ChainInv, ChainTypes, ThreadsHold, Worker, Finalize, Remediating, Threads, Present
  <1>2. Worker'.incident = i /\ OutcomeOfRemediation(c.success, c.verified) = "RECOVERED"
    BY <1>1 DEF Finalize, Worker, Idle
  <1>3. c.success = TRUE /\ c.verified = TRUE
    BY <1>2, OutcomesAreOutcomes
  <1>4. /\ Allowed(c.action) /\ ~c.replayed /\ Succeeded(c)
        /\ c.by = Standing /\ Standing # None
    BY <1>1, <1>3 DEF RecoveryInv, WorkerIsTrue
  <1>5. RanFor(x, i)
    <2>1. [binding |-> Binding(c), state |-> "SUCCEEDED"] \in Identities
      BY <1>1 DEF Identities, Binding
    <2> QED
      BY <1>4, <2>1, NoneIsNothingElse DEF RanFor, Succeeded, Binding, Allowed
  <1>6. RemediationEvidence(c) = "VERIFIED"
    BY <1>3, <1>4, ConstantsAreTyped DEF RemediationEvidence
  <1>7. incident[i].pane = Standing
    BY <1>1, <1>4 DEF OneRemediation, Incidents
  <1>8. e = Evidence("VERIFIED", x, incident[i].pane)
    BY <1>4, <1>6, <1>7
  <1>9. e \in incident'[i].evidence /\ incident'[i].pane = incident[i].pane
    <2>1. incident' = [incident EXCEPT ![i].evidence = @ \cup {e}]
      BY DEF Finalize, AddEvidence, Worker
    <2> HIDE DEF e
    <2> QED
      BY <1>1, <2>1 DEF Incidents
  <1> QED
    BY <1>1, <1>2, <1>5, <1>8, <1>9, RanForStays DEF EarnedThen

LEMMA RecoveryEarnedStep ==
    ASSUME OneRemediation, ChainInv, RecoveryInv, [Next]_chainVars
    PROVE  RecoveryIsEarned'
  <1>1. /\ RecoveryIsEarned /\ ThreadsHold /\ CopiesAreTrue /\ UsedIsKept
        /\ thread \in [Threads -> Calls] /\ "worker" \in Threads /\ Worker \in Calls
        /\ incident \in [IncidentIds -> Incidents \cup {None}]
        /\ archived \in [IncidentIds -> Incidents \cup {None}]
    BY DEF ChainInv, ChainTypes, RecoveryInv, Threads, Worker
  \* An incident: its outcome is the one it had, or the worker sets it.
  <1>2. ASSUME ~Crash, NEW i \in IncidentIds, Present(i)', incident'[i].outcome = "RECOVERED"
        PROVE  EarnedThen(i, incident'[i].evidence)
    <2>1. Present(i)
      BY <1>2, NewIncidents, ConstantsAreTyped, NoneIsNothingElse DEF NewIncident, Outcomes
    <2>2. Kept(i)
      BY <1>2, <2>1, IncidentsAreKept
    <2>3. Earned(i, incident[i].evidence)
      BY <1>1, <1>2, <2>1, <2>2 DEF Kept, RecoveryIsEarned, Resolves
    <2> QED
      BY <1>2, <2>1, <2>2, <2>3, EarnedStays DEF Kept
  \* A copy of it was made after it was over.
  <1>3. ASSUME ~Crash, NEW i \in IncidentIds, NEW ev, Present(i), Terminal(i),
               incident'[i].outcome = "RECOVERED",
               incident[i].outcome = "RECOVERED" => Earned(i, ev)
        PROVE  EarnedThen(i, ev)
    <2>1. incident[i].outcome = "RECOVERED"
      BY <1>3, TerminalIsKept
    <2> QED
      BY <1>3, <2>1, EarnedStays
  <1>4. ASSUME ~Crash, NEW i \in IncidentIds, incident'[i].outcome = "RECOVERED",
               archived'[i] # None
        PROVE  EarnedThen(i, archived'[i].evidence)
    <2>1. CASE archived'[i] = archived[i]
      BY <1>1, <1>3, <1>4, <2>1 DEF CopiesAreTrue, IsCopy, RecoveryIsEarned
    <2>2. CASE ArchiveIncident /\ archived'[i] # archived[i]
      <3>1. /\ i = Worker.incident /\ Worker.at = "archive"
            /\ archived'[i] = Worker.snapshot
        BY <1>1, <2>2 DEF ArchiveIncident, Worker
      <3> QED
        BY <1>1, <1>3, <1>4, <3>1 DEF CopiesAreTrue, IsCopy, RecoveryIsEarned
    <2> QED
      BY <1>4, <2>1, <2>2, StepForms
      DEF Quiet, incidentVars, CreateIncident, Finalize, Ends, Pops
  <1>5. ASSUME ~Crash, Worker'.at = "archive", NEW i \in IncidentIds, i = Worker'.incident,
               incident'[i].outcome = "RECOVERED"
        PROVE  EarnedThen(i, Worker'.snapshot.evidence)
    <2>1. CASE Pops(Worker.incident)
      <3>1. /\ i = Worker.incident /\ Present(i) /\ Terminal(i)
            /\ Worker'.snapshot = incident[i]
        BY <1>1, <1>5, <2>1, PopsForm DEF ThreadsHold, Worker
      <3> QED
        BY <1>1, <1>3, <1>5, <3>1 DEF RecoveryIsEarned
    <2>2. CASE UNCHANGED Worker
      BY <1>1, <1>3, <1>5, <2>2 DEF CopiesAreTrue, IsCopy, RecoveryIsEarned
    <2> QED
      BY <1>5, <2>1, <2>2, ArchivesFromPop
  <1>6. ASSUME ~Crash, Worker'.at \in Resolves, Worker'.outcome = "RECOVERED"
        PROVE  EarnedThen(Worker'.incident, incident'[Worker'.incident].evidence)
    <2>1. CASE Finalize("worker")
      BY <1>6, <2>1, FinalizeEarns
    <2>2. CASE UNCHANGED Worker \/ Ends(Worker.incident)
      <3>1. /\ Worker'.incident = Worker.incident /\ Worker'.outcome = Worker.outcome
            /\ Worker.at \in Resolves
        BY <1>1, <1>6, <2>2 DEF Ends, Worker, Calls, Resolves
      <3>2. Worker.incident \in IncidentIds /\ Present(Worker.incident)
        BY <1>1, <3>1 DEF ThreadsHold, Worker, Resolves
      <3>3. Earned(Worker.incident, incident[Worker.incident].evidence)
        BY <1>1, <1>6, <3>1 DEF RecoveryIsEarned
      <3> QED
        BY <1>6, <3>1, <3>2, <3>3, EarnedStays, IncidentsAreKept DEF Kept
    <2>3. ~Pops(Worker.incident) /\ ~ArchiveIncident
      BY <1>1, <1>6, PopsForm DEF ArchiveIncident, Worker, Idle, Resolves
    <2> QED
      BY <1>1, <1>6, <2>1, <2>2, <2>3, WorkerForm
      DEF CallForm, GoesOn, TakesOn, Worker, Idle, Remediating, Resolves
  <1>7. ASSUME NEW i \in IncidentIds, report'[i] # None, report'[i].outcome = "RECOVERED"
        PROVE  \E x \in ExecutionIds : RanThen(x, i)
    <2>1. \E x \in ExecutionIds : RanFor(x, i)
      <3>1. CASE WriteReport /\ i = main.incident
        BY <1>1, <1>7, <3>1, WritesAreBehind DEF RecoveryIsEarned, Earned
      <3>2. CASE report'[i] = report[i]
        BY <1>1, <1>7, <3>2 DEF RecoveryIsEarned
      <3> QED
        BY <1>7, <3>1, <3>2, WritesAreBehind, StepIsOne, MainMovesAlone, CallsMoveAlone
        DEF PaneChanges, CreateIncident, Finalize, AcceptRecovery, SetOutcome, SetTerminal,
            ResolveStep, PopIncident, ArchiveIncident, Crash, chainVars, durableVars
    <2> QED
      BY <2>1, RanForStays
  <1>8. CASE Crash
    BY <1>7, <1>8
    DEF Crash, RecoveryIsEarned, RanFor, RanThen, Worker, Idle, Threads, Resolves, Present
  <1>9. CASE ~Crash
    BY <1>2, <1>4, <1>5, <1>6, <1>7, <1>9 DEF RecoveryIsEarned, Earned, EarnedThen, RanFor, RanThen, Present
  <1> QED
    BY <1>8, <1>9

LEMMA RecoveryStep ==
    ASSUME OneRemediation, ChainInv, RecoveryInv, [Next]_chainVars
    PROVE  RecoveryInv'
  BY VerifierStep, EffectsStep, WorkerTrueStep, RecoveryEarnedStep DEF RecoveryInv

\* In an orchestrator that remediates one incident at a time, with a standing verifier
\* of the one pane there is, or none: nothing is called recovered, in memory, in an
\* archived copy or in a report that survives a crash, unless an allowed execution of
\* its own identity succeeded for that incident and its pane was seen alive afterwards
\* (diagnostic/runtime_coordinator.py _handoff_diagnosis, commander.py remediate).
THEOREM RecoveriesAreVerified ==
    ASSUME OneRemediation
    PROVE  ChainSpec => []RecoveredIsVerified
  <1>1. Init => RecoveryInv
    BY RecoveryStart
  <1>2. ChainInv /\ RecoveryInv /\ [Next]_chainVars => RecoveryInv'
    BY RecoveryStep
  <1>3. ChainInv /\ RecoveryInv => RecoveredIsVerified
    <2> SUFFICES ASSUME ChainInv, RecoveryInv, NEW i \in IncidentIds
                 PROVE  /\ report[i] # None /\ report[i].outcome = "RECOVERED"
                              => \E x \in ExecutionIds : RanFor(x, i)
                        /\ incident[i] # None /\ incident[i].outcome = "RECOVERED"
                              => \E x \in ExecutionIds :
                                    /\ RanFor(x, i) /\ Verified(i, x)
                                    /\ archived[i] # None
                                          => Evidence("VERIFIED", x, incident[i].pane)
                                                \in archived[i].evidence
      BY DEF RecoveredIsVerified
    <2>1. RecoveryIsEarned /\ CopiesAreTrue
      BY DEF RecoveryInv, ChainInv
    <2>2. archived[i] # None => archived[i].evidence \subseteq incident[i].evidence
      BY <2>1 DEF CopiesAreTrue, IsCopy
    <2> QED
      BY <2>1, <2>2 DEF RecoveryIsEarned, Earned, Verified, Present
  <1> QED
    BY <1>1, <1>2, <1>3, ChainInvariance, PTL DEF ChainSpec

=============================================================================
