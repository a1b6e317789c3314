------------------------- MODULE ExecutionIdentity -------------------------
(***************************************************************************)
(* The durable execution identity journal and the boundary around the      *)
(* remediation gate (sentinel/remediation_execution_identity.py).          *)
(*                                                                         *)
(* A caller is one thread of one Sentinel process inside boundary.execute  *)
(* (a request without a run) or .execute_bound (a request with one).       *)
(* Callers share only the file system: one directory per identity,         *)
(* published by rename, and one file per live run permit, published by     *)
(* hard link.  Every file-system call another caller can observe is one    *)
(* step, and a caller can be killed between any two.                       *)
(*                                                                         *)
(* `state' is what the running system reads, `diskState' what the last     *)
(* fsync of a record directory made durable, `linked' the identities whose *)
(* entry in the journal root is durable; a power loss leaves each record   *)
(* in either its visible or its durable version.                           *)
(***************************************************************************)
EXTENDS Naturals, FiniteSets

CONSTANTS Callers,    \* execution contexts that call the boundary
          Ids,        \* execution identities
          Runs,       \* live run identities
          Bodies,     \* incident, component, action and command of a request
          Requests,   \* the requests that callers submit
          None,       \* no run, no body, no permit, no request, no answer
          RecoveryAtStartupOnly  \* recover_interrupted runs before any caller

Request == [id : Ids, run : Runs \cup {None}, body : Bodies]

ASSUME ConstantsAreTyped ==
    /\ Requests \subseteq Request
    /\ None \notin Ids \cup Runs \cup Bodies \cup Requests
    /\ RecoveryAtStartupOnly \in BOOLEAN

VARIABLES
    \* the journal directory
    state,      \* state in <id>/record.json, "ABSENT" when there is no <id>/
    bodyOf,     \* what the record of an identity says was claimed
    diskState,  \* the durable content of <id>/record.json
    linked,     \* identities whose directory entry is durable
    orphans,    \* identities with a left-over temporary directory .<id>.xxxx
    permit,     \* permit[r]: the request _live_run_permits/<r>.json records
    flushed,    \* runs whose permit entry is durable in _live_run_permits
    permitDirLinked,  \* the entry of _live_run_permits in the root is durable
    \* the callers
    pc, req, target, answer,
    \* the process running recover_interrupted
    recovery,
    \* history: invocations of the execution boundary
    effects, runEffects

journalVars == <<state, bodyOf, diskState, linked, orphans>>
permitVars  == <<permit, flushed, permitDirLinked>>
callerVars  == <<pc, req, target, answer>>
effectVars  == <<effects, runEffects>>
vars == <<journalVars, permitVars, callerVars, recovery, effectVars>>

----------------------------------------------------------------------------
Terminal == {"SUCCEEDED", "FAILED", "UNKNOWN"}
RecordState == {"CLAIMED", "RUNNING"} \cup Terminal

\* The program points at which a caller has won the publication of its identity.
BeforeEffect == {"rootSync", "start", "startWrite", "startSync", "effect"}
AfterEffect  == {"executing", "finish", "finishWrite", "finishSync"}
Owning       == BeforeEffect \cup AfterEffect
Pcs == {"idle", "permit", "permitSync", "replay", "stage", "publish", "poll"}
           \cup Owning

Id(p) == req[p].id
IsBound(p) == req[p].run # None

\* What a call that did not raise returned: the record, whether it was a
\* replay, and the request it answers.
Answer == [request : Requests, replayed : BOOLEAN,
           state : RecordState, body : Bodies]

AnswerOf(p, replayed) == [request |-> req[p], replayed |-> replayed,
                          state |-> state[Id(p)], body |-> bodyOf[Id(p)]]
Raised == None

\* An entry of recover_interrupted's directory listing.
Entry == [temp : BOOLEAN, id : Ids]

RecoveryOff == [pc |-> "off", todo |-> {}, cur |-> None]
Recovering == recovery.pc # "off"

\* Type invariant: every durable file and every caller is in a shape the code
\* writes, and an identity has contents exactly while it has a directory.
TypeOK ==
    /\ state \in [Ids -> RecordState \cup {"ABSENT"}]
    /\ bodyOf \in [Ids -> Bodies \cup {None}]
    /\ \A i \in Ids : state[i] = "ABSENT" <=> bodyOf[i] = None
    /\ diskState \in [Ids -> RecordState \cup {"ABSENT"}]
    /\ linked \subseteq Ids
    /\ orphans \subseteq Ids
    /\ permit \in [Runs -> Requests \cup {None}]
    /\ flushed \subseteq Runs
    /\ permitDirLinked \in BOOLEAN
    /\ pc \in [Callers -> Pcs]
    /\ req \in [Callers -> Requests \cup {None}]
    /\ \A p \in Callers : pc[p] # "idle" => req[p] # None
    /\ target \in [Callers -> Terminal]
    /\ answer \in [Callers -> Answer \cup {None}]
    /\ recovery \in [pc : {"off", "scan", "read", "write", "sync"},
                     todo : SUBSET Entry, cur : Ids \cup {None}]
    /\ recovery.pc \in {"read", "write", "sync"} => recovery.cur # None
    /\ effects \in [Ids -> Nat]
    /\ runEffects \in [Runs -> Nat]

Init ==
    /\ state = [i \in Ids |-> "ABSENT"]
    /\ bodyOf = [i \in Ids |-> None]
    /\ diskState = [i \in Ids |-> "ABSENT"]
    /\ linked = {}
    /\ orphans = {}
    /\ permit = [r \in Runs |-> None]
    /\ flushed = {}
    /\ permitDirLinked = FALSE
    /\ pc = [p \in Callers |-> "idle"]
    /\ req = [p \in Callers |-> None]
    /\ target = [p \in Callers |-> "UNKNOWN"]
    /\ answer = [p \in Callers |-> None]
    /\ recovery = RecoveryOff
    /\ effects = [i \in Ids |-> 0]
    /\ runEffects = [r \in Runs |-> 0]

----------------------------------------------------------------------------
\* The call of p goes on at l.
Goto(p, l) ==
    /\ pc' = [pc EXCEPT ![p] = l]
    /\ UNCHANGED <<req, target, answer>>

\* The call of p returns a, or raises.
Return(p, a) ==
    /\ pc' = [pc EXCEPT ![p] = "idle"]
    /\ req' = [req EXCEPT ![p] = None]
    /\ target' = [target EXCEPT ![p] = "UNKNOWN"]
    /\ answer' = [answer EXCEPT ![p] = a]

(***************************************************************************)
(* boundary.execute / boundary.execute_bound with an ALLOW decision whose  *)
(* authorization matches the effect.                                       *)
(***************************************************************************)
Submit(p) ==
    /\ pc[p] = "idle"
    /\ RecoveryAtStartupOnly => ~Recovering
    /\ \E r \in Requests :
          /\ req' = [req EXCEPT ![p] = r]
          /\ pc' = [pc EXCEPT ![p] = IF r.run = None THEN "stage" ELSE "permit"]
    /\ answer' = [answer EXCEPT ![p] = None]
    /\ UNCHANGED <<target, journalVars, permitVars, recovery, effectVars>>

\* claim_live_run_permit: os.link of the complete temporary file.
LinkPermit(p) ==
    /\ pc[p] = "permit"
    /\ permit[req[p].run] = None
    /\ permit' = [permit EXCEPT ![req[p].run] = req[p]]
    /\ Goto(p, "permitSync")
    /\ UNCHANGED <<journalVars, flushed, permitDirLinked, recovery, effectVars>>

\* Fault: a permit held for another request is taken for an exact replay, and
\* an exact replay goes on as if it were new.
PermitExistsReclaimed(p) ==
    /\ pc[p] = "permit"
    /\ permit[req[p].run] # None
    /\ Goto(p, "stage")
    /\ UNCHANGED <<journalVars, permitVars, recovery, effectVars>>

\* ... FileExistsError: the recorded request is compared with this one.
PermitExists(p) ==
    /\ pc[p] = "permit"
    /\ permit[req[p].run] # None
    /\ IF permit[req[p].run] = req[p] THEN Goto(p, "replay")
                                      ELSE Return(p, Raised)
    /\ UNCHANGED <<journalVars, permitVars, recovery, effectVars>>

\* ... fsync of the permit directory.
SyncPermit(p) ==
    /\ pc[p] = "permitSync"
    /\ flushed' = {r \in Runs : permit[r] # None}
    /\ Goto(p, "stage")
    /\ UNCHANGED <<journalVars, permit, permitDirLinked, recovery, effectVars>>

\* execute_bound after an exact permit replay: the identity is read once, in
\* whatever state it is; no identity means the outcome is unknowable.
ReplayPermit(p) ==
    /\ pc[p] = "replay"
    /\ Return(p, IF state[Id(p)] # "ABSENT" /\ bodyOf[Id(p)] = req[p].body
                 THEN AnswerOf(p, TRUE)
                 ELSE Raised)
    /\ UNCHANGED <<journalVars, permitVars, recovery, effectVars>>

\* claim: the complete record is written and fsynced in a private directory.
Stage(p) ==
    /\ pc[p] = "stage"
    /\ Goto(p, "publish")
    /\ UNCHANGED <<journalVars, permitVars, recovery, effectVars>>

\* Fault: the loser of the publication race adopts a record it finds CLAIMED.
PublishOverClaim(p) ==
    /\ pc[p] = "publish"
    /\ state[Id(p)] \in {"ABSENT", "CLAIMED"}
    /\ state' = [state EXCEPT ![Id(p)] = "CLAIMED"]
    /\ diskState' = [diskState EXCEPT ![Id(p)] = "CLAIMED"]
    /\ bodyOf' = [bodyOf EXCEPT ![Id(p)] = req[p].body]
    /\ Goto(p, "rootSync")
    /\ UNCHANGED <<linked, orphans, permitVars, recovery, effectVars>>

\* Fault: the record's contents are published empty.
PublishWithoutBody(p) ==
    /\ pc[p] = "publish"
    /\ state[Id(p)] = "ABSENT"
    /\ state' = [state EXCEPT ![Id(p)] = "CLAIMED"]
    /\ diskState' = [diskState EXCEPT ![Id(p)] = "CLAIMED"]
    /\ Goto(p, "rootSync")
    /\ UNCHANGED <<bodyOf, linked, orphans, permitVars, recovery, effectVars>>

\* claim: os.rename onto the identity's directory.
Publish(p) ==
    /\ pc[p] = "publish"
    /\ state[Id(p)] = "ABSENT"
    /\ state' = [state EXCEPT ![Id(p)] = "CLAIMED"]
    /\ diskState' = [diskState EXCEPT ![Id(p)] = "CLAIMED"]
    /\ bodyOf' = [bodyOf EXCEPT ![Id(p)] = req[p].body]
    /\ Goto(p, "rootSync")
    /\ UNCHANGED <<linked, orphans, permitVars, recovery, effectVars>>

\* ... EEXIST or ENOTEMPTY: another caller has published this identity.
LosePublication(p) ==
    /\ pc[p] = "publish"
    /\ state[Id(p)] # "ABSENT"
    /\ Goto(p, "poll")
    /\ UNCHANGED <<journalVars, permitVars, recovery, effectVars>>

\* Fault: the loser returns the record it finds without waiting for an outcome.
PollReplayEarly(p) ==
    /\ pc[p] = "poll"
    /\ Return(p, AnswerOf(p, TRUE))
    /\ UNCHANGED <<journalVars, permitVars, recovery, effectVars>>

\* claim: the loser returns the record once it is terminal; execute_bound
\* then validates it against its own effect, execute does not.
PollReplay(p) ==
    /\ pc[p] = "poll"
    /\ state[Id(p)] \in Terminal
    /\ Return(p, IF IsBound(p) /\ bodyOf[Id(p)] # req[p].body
                 THEN Raised
                 ELSE AnswerOf(p, TRUE))
    /\ UNCHANGED <<journalVars, permitVars, recovery, effectVars>>

\* Fault: no deadline.
PollForever(p) == FALSE /\ UNCHANGED vars

\* ... or gives up at the 30 s deadline, removing its temporary directory.
PollTimeout(p) ==
    /\ pc[p] = "poll"
    /\ state[Id(p)] \notin Terminal
    /\ Return(p, Raised)
    /\ UNCHANGED <<journalVars, permitVars, recovery, effectVars>>

\* Fault: the claim returns without the fsync of the journal root.
SkipSyncRoot(p) ==
    /\ pc[p] = "rootSync"
    /\ Goto(p, "start")
    /\ UNCHANGED <<journalVars, permitVars, recovery, effectVars>>

\* claim: fsync of the journal root, which makes every entry of it durable.
SyncRoot(p) ==
    /\ pc[p] = "rootSync"
    /\ linked' = {i \in Ids : state[i] # "ABSENT"}
    /\ permitDirLinked' = (permitDirLinked \/ \E r \in Runs : permit[r] # None)
    /\ Goto(p, "start")
    /\ UNCHANGED <<state, bodyOf, diskState, orphans, permit, flushed, recovery,
                   effectVars>>

----------------------------------------------------------------------------
(***************************************************************************)
(* journal.transition(execution_id, RUNNING), outside the try block: it    *)
(* loads the record, replaces it without a lock, and fsyncs the directory. *)
(***************************************************************************)
StartRead(p) ==
    /\ pc[p] = "start"
    /\ IF state[Id(p)] \in Terminal THEN Return(p, Raised)
                                    ELSE Goto(p, "startWrite")
    /\ UNCHANGED <<journalVars, permitVars, recovery, effectVars>>

StartWrite(p) ==
    /\ pc[p] = "startWrite"
    /\ state' = [state EXCEPT ![Id(p)] = "RUNNING"]
    /\ Goto(p, "startSync")
    /\ UNCHANGED <<bodyOf, diskState, linked, orphans, permitVars, recovery,
                   effectVars>>

StartSync(p) ==
    /\ pc[p] = "startSync"
    /\ diskState' = [diskState EXCEPT ![Id(p)] = state[Id(p)]]
    /\ Goto(p, "effect")
    /\ UNCHANGED <<state, bodyOf, linked, orphans, permitVars, recovery,
                   effectVars>>

\* gate.execute / gate.execute_bound reaches the execution boundary.
BeginEffect(p) ==
    /\ pc[p] = "effect"
    /\ effects' = [effects EXCEPT ![Id(p)] = @ + 1]
    /\ runEffects' = IF IsBound(p)
                     THEN [runEffects EXCEPT ![req[p].run] = @ + 1]
                     ELSE runEffects
    /\ Goto(p, "executing")
    /\ UNCHANGED <<journalVars, permitVars, recovery>>

\* The subprocess ends with exit code 0, ends with another one, or the
\* executor raises (OSError; TimeoutExpired in execute_argv).
EndEffect(p) ==
    /\ pc[p] = "executing"
    /\ pc' = [pc EXCEPT ![p] = "finish"]
    /\ \E t \in Terminal : target' = [target EXCEPT ![p] = t]
    /\ UNCHANGED <<req, answer, journalVars, permitVars, recovery, effectVars>>

\* The exception handler of the boundary: it records UNKNOWN, then re-raises.
HandleException(p) ==
    /\ pc' = [pc EXCEPT ![p] = "finish"]
    /\ target' = [target EXCEPT ![p] = "UNKNOWN"]
    /\ UNCHANGED <<req, answer>>

FinishedAnswer(p) ==
    IF target[p] = "UNKNOWN" THEN Raised ELSE AnswerOf(p, FALSE)

(***************************************************************************)
(* The transition to the outcome.  One that is refused because the record  *)
(* is already in another terminal state raises into the handler, whose own *)
(* transition then leaves the terminal record alone.                       *)
(***************************************************************************)
FinishRead(p) ==
    /\ pc[p] = "finish"
    /\ \/ /\ state[Id(p)] \notin Terminal
          /\ Goto(p, "finishWrite")
       \/ /\ state[Id(p)] \in Terminal
          /\ target[p] \in {"UNKNOWN", state[Id(p)]}
          /\ Return(p, FinishedAnswer(p))
       \/ /\ state[Id(p)] \in Terminal
          /\ target[p] \notin {"UNKNOWN", state[Id(p)]}
          /\ HandleException(p)
    /\ UNCHANGED <<journalVars, permitVars, recovery, effectVars>>

FinishWrite(p) ==
    /\ pc[p] = "finishWrite"
    /\ state' = [state EXCEPT ![Id(p)] = target[p]]
    /\ Goto(p, "finishSync")
    /\ UNCHANGED <<bodyOf, diskState, linked, orphans, permitVars, recovery,
                   effectVars>>

FinishSync(p) ==
    /\ pc[p] = "finishSync"
    /\ diskState' = [diskState EXCEPT ![Id(p)] = state[Id(p)]]
    /\ Return(p, FinishedAnswer(p))
    /\ UNCHANGED <<state, bodyOf, linked, orphans, permitVars, recovery,
                   effectVars>>

----------------------------------------------------------------------------
(***************************************************************************)
(* Failures.                                                               *)
(***************************************************************************)

\* An OSError before the effect ends the call; `claim' removes its temporary
\* directory, a published permit or identity stays as it is.
FailBeforeEffect(p) ==
    /\ pc[p] \in {"permit", "permitSync", "stage", "publish", "rootSync",
                  "startWrite", "startSync"}
    /\ Return(p, Raised)
    /\ UNCHANGED <<journalVars, permitVars, recovery, effectVars>>

\* An OSError while the outcome is recorded: the handler tries UNKNOWN, and
\* an error there leaves the identity as it is.
FailAfterEffect(p) ==
    /\ pc[p] \in {"finishWrite", "finishSync"}
    /\ IF target[p] = "UNKNOWN" THEN Return(p, Raised) ELSE HandleException(p)
    /\ UNCHANGED <<journalVars, permitVars, recovery, effectVars>>

\* The identities whose claim has a private directory in the journal root.
LiveTemps == {Id(p) : p \in {q \in Callers : pc[q] \in {"publish", "poll"}}}

\* The process of caller p is killed; its private directory stays.
Crash(p) ==
    /\ pc[p] # "idle"
    /\ Return(p, None)
    /\ orphans' = IF pc[p] \in {"publish", "poll"} THEN orphans \cup {Id(p)}
                                                   ELSE orphans
    /\ UNCHANGED <<state, bodyOf, diskState, linked, permitVars, recovery,
                   effectVars>>

\* What an identity, or a permit, can be after the machine lost power.
Survivors(i) ==
    {state[i], IF i \in linked THEN diskState[i] ELSE "ABSENT"}
PermitSurvivors(r) ==
    {permit[r], IF r \in flushed /\ permitDirLinked THEN permit[r] ELSE None}

PowerLoss ==
    /\ state' \in [Ids -> RecordState \cup {"ABSENT"}]
    /\ \A i \in Ids : state'[i] \in Survivors(i)
    /\ diskState' = state'
    /\ linked' = {i \in Ids : state'[i] # "ABSENT"}
    /\ bodyOf' = [i \in Ids |-> IF state'[i] = "ABSENT" THEN None ELSE bodyOf[i]]
    /\ orphans' \in SUBSET (orphans \cup LiveTemps)
    /\ permit' \in [Runs -> Requests \cup {None}]
    /\ \A r \in Runs : permit'[r] \in PermitSurvivors(r)
    /\ flushed' = {r \in Runs : permit'[r] # None}
    /\ permitDirLinked' = (flushed' # {})
    /\ pc' = [p \in Callers |-> "idle"]
    /\ req' = [p \in Callers |-> None]
    /\ target' = [p \in Callers |-> "UNKNOWN"]
    /\ answer' = [p \in Callers |-> None]
    /\ recovery' = RecoveryOff
    /\ UNCHANGED effectVars

----------------------------------------------------------------------------
(***************************************************************************)
(* recover_interrupted: the sorted listing of the journal root holds the   *)
(* identity directories and, first since their names start with a dot, the *)
(* temporary directories of dead (and live) claims.                        *)
(***************************************************************************)
RecoverBegin ==
    /\ ~Recovering
    /\ RecoveryAtStartupOnly => \A p \in Callers : pc[p] = "idle"
    /\ recovery' = [pc |-> "scan",
                    todo |-> [temp : {TRUE}, id : orphans \cup LiveTemps] \cup
                             [temp : {FALSE}, id : {i \in Ids : state[i] # "ABSENT"}],
                    cur |-> None]
    /\ UNCHANGED <<journalVars, permitVars, callerVars, effectVars>>

\* Fault: only RUNNING identities count as interrupted.
InterruptedIfRunning(e) ==
    IF e.temp THEN e.id \in orphans \cup LiveTemps ELSE state[e.id] = "RUNNING"

\* The record found in the entry's directory, CLAIMED in a temporary one.
Interrupted(e) ==
    IF e.temp THEN e.id \in orphans \cup LiveTemps
              ELSE state[e.id] \in {"CLAIMED", "RUNNING"}

RecoverVisit ==
    /\ recovery.pc = "scan"
    /\ \E e \in recovery.todo :
          /\ (\E f \in recovery.todo : f.temp) => e.temp
          /\ recovery' = [pc |-> IF Interrupted(e) THEN "read" ELSE "scan",
                          todo |-> recovery.todo \ {e},
                          cur |-> IF Interrupted(e) THEN e.id ELSE None]
    /\ UNCHANGED <<journalVars, permitVars, callerVars, effectVars>>

\* Fault: transition does not look at the state of the record it replaces.
RecoverReadUnguarded ==
    /\ recovery.pc = "read"
    /\ state[recovery.cur] # "ABSENT"
    /\ recovery' = [recovery EXCEPT !.pc = "write"]
    /\ UNCHANGED <<journalVars, permitVars, callerVars, effectVars>>

\* transition(current.execution_id, UNKNOWN) loads the identity's own record.
RecoverRead ==
    /\ recovery.pc = "read"
    /\ \/ /\ state[recovery.cur] \in {"CLAIMED", "RUNNING"}
          /\ recovery' = [recovery EXCEPT !.pc = "write"]
       \/ /\ state[recovery.cur] = "UNKNOWN"
          /\ recovery' = [recovery EXCEPT !.pc = "scan", !.cur = None]
    /\ UNCHANGED <<journalVars, permitVars, callerVars, effectVars>>

\* ... a missing record or another outcome raises out of the whole scan.
RecoverAbort ==
    /\ recovery.pc = "read"
    /\ state[recovery.cur] \in {"ABSENT", "SUCCEEDED", "FAILED"}
    /\ recovery' = RecoveryOff
    /\ UNCHANGED <<journalVars, permitVars, callerVars, effectVars>>

\* Fault: an interrupted execution is recorded as failed.
RecoverWriteFailed ==
    /\ recovery.pc = "write"
    /\ state' = [state EXCEPT ![recovery.cur] = "FAILED"]
    /\ recovery' = [recovery EXCEPT !.pc = "sync"]
    /\ UNCHANGED <<bodyOf, diskState, linked, orphans, permitVars, callerVars,
                   effectVars>>

RecoverWrite ==
    /\ recovery.pc = "write"
    /\ state' = [state EXCEPT ![recovery.cur] = "UNKNOWN"]
    /\ recovery' = [recovery EXCEPT !.pc = "sync"]
    /\ UNCHANGED <<bodyOf, diskState, linked, orphans, permitVars, callerVars,
                   effectVars>>

RecoverSync ==
    /\ recovery.pc = "sync"
    /\ diskState' = [diskState EXCEPT ![recovery.cur] = state[recovery.cur]]
    /\ recovery' = [recovery EXCEPT !.pc = "scan", !.cur = None]
    /\ UNCHANGED <<state, bodyOf, linked, orphans, permitVars, callerVars,
                   effectVars>>

RecoverEnd ==
    /\ recovery.pc = "scan"
    /\ recovery.todo = {}
    /\ recovery' = RecoveryOff
    /\ UNCHANGED <<journalVars, permitVars, callerVars, effectVars>>

\* The recovering process is killed.
RecoverCrash ==
    /\ Recovering
    /\ recovery' = RecoveryOff
    /\ UNCHANGED <<journalVars, permitVars, callerVars, effectVars>>

----------------------------------------------------------------------------
\* What a caller does by itself, apart from waiting for the subprocess.
Step(p) ==
    \/ LinkPermit(p) \/ PermitExists(p) \/ SyncPermit(p) \/ ReplayPermit(p)
    \/ Stage(p) \/ Publish(p) \/ LosePublication(p)
    \/ PollReplay(p) \/ PollTimeout(p) \/ SyncRoot(p)
    \/ StartRead(p) \/ StartWrite(p) \/ StartSync(p) \/ BeginEffect(p)
    \/ FinishRead(p) \/ FinishWrite(p) \/ FinishSync(p)

Fault(p) == FailBeforeEffect(p) \/ FailAfterEffect(p) \/ Crash(p)

Recover ==
    \/ RecoverVisit \/ RecoverRead \/ RecoverAbort
    \/ RecoverWrite \/ RecoverSync \/ RecoverEnd

Next ==
    \/ \E p \in Callers : Submit(p) \/ Step(p) \/ EndEffect(p) \/ Fault(p)
    \/ PowerLoss
    \/ RecoverBegin \/ Recover \/ RecoverCrash

Spec == Init /\ [][Next]_vars

(***************************************************************************)
(* A started call keeps running; subprocess.run returns within the timeout *)
(* that execute_argv passes, and nothing bounds the one of execute.        *)
(***************************************************************************)
Fairness ==
    \A p \in Callers :
       /\ WF_vars(Step(p))
       /\ WF_vars(req[p] # None /\ IsBound(p) /\ EndEffect(p))

FairSpec == Spec /\ Fairness

----------------------------------------------------------------------------
\* An execution identity reaches the execution boundary at most once, whoever
\* submits it, however often, and whatever crashes in between
\* (boundary.execute and execute_bound over journal.claim).
EffectAtMostOncePerIdentity == \A i \in Ids : effects[i] <= 1

\* A live run identity reaches the execution boundary at most once, also when
\* two requests with different execution identities carry it
\* (claim_live_run_permit before claim in execute_bound).
EffectAtMostOncePerRun == \A r \in Runs : runEffects[r] <= 1

\* Both limits on the execution boundary: no identity and no live run reaches it
\* a second time.
EffectAtMostOnce == EffectAtMostOncePerIdentity /\ EffectAtMostOncePerRun

\* Write-ahead: once an effect may have happened, no power loss can make the
\* journal forget the identity or show it as merely claimed, so that recovery
\* and every later caller see that it is consumed (fsyncs of claim and
\* transition before gate.execute).
AnnouncedBeforeEffect ==
    \A i \in Ids : effects[i] > 0 =>
        /\ i \in linked
        /\ diskState[i] \notin {"ABSENT", "CLAIMED"}
        /\ state[i] \notin {"ABSENT", "CLAIMED"}

\* No caller is ever told, as result or as replay, that an execution SUCCEEDED
\* or FAILED unless the effect was really invoked: an interrupted claim is
\* never reported as an outcome.
ReportedOutcomeIsReal ==
    \A p \in Callers :
        answer[p] # None /\ answer[p].state \in {"SUCCEEDED", "FAILED"}
            => effects[answer[p].request.id] = 1

\* What a replay told its caller: execute_bound only ever returns a record of
\* its own effect, and the outcome execute returned is still the recorded one.
ReplayAnswersHold ==
    \A p \in Callers :
        answer[p] # None /\ answer[p].replayed =>
            LET a == answer[p] IN
            /\ a.request.run # None => a.body = a.request.body
            /\ a.request.run = None => a.state = state[a.request.id]

\* What a caller is told, as a result of its own or as a replay, is what
\* happened and what the journal says (execute, execute_bound).
AnswersAreTrue == ReportedOutcomeIsReal /\ ReplayAnswersHold

\* A durable outcome is never replaced by another one (the check of transition
\* for a terminal record, which is not atomic with its write).  It holds only
\* while recover_interrupted runs before the callers, not beside them.
TerminalIsFinal ==
    [][\A i \in linked : diskState[i] \in Terminal =>
           i \in linked' /\ diskState'[i] = diskState[i]]_vars

\* A recovery that ends normally before any caller starts leaves no identity
\* CLAIMED or RUNNING, whatever earlier recoveries were killed half-way
\* (recover_interrupted).
RecoveryClosesInterrupted ==
    [][RecoverEnd => \A i \in Ids : state[i] \notin {"CLAIMED", "RUNNING"}]_vars

\* A bound call, and a call that waits for another one's outcome, returns even
\* when the caller that owns the identity has died or hangs in its command.
CallReturns ==
    \A p \in Callers :
        (req[p] # None /\ (IsBound(p) \/ pc[p] = "poll")) ~> req[p] = None

----------------------------------------------------------------------------
(***************************************************************************)
(* Stated by the contract of the boundary, and not true of the code.       *)
(***************************************************************************)

\* A recovery that gives up has nothing left to recover ("Interrupted
\* execution produces UNKNOWN when outcome is indeterminate").
RecoveryIsComplete ==
    [][RecoverAbort => \A i \in Ids : state[i] \notin {"CLAIMED", "RUNNING"}]_vars

----------------------------------------------------------------------------
(***************************************************************************)
(* The inductive invariant.                                                *)
(***************************************************************************)

\* A caller past the publication owns its identity, which is published.
OwnerIsUnique ==
    /\ \A p \in Callers : pc[p] \in Owning => state[Id(p)] # "ABSENT"
    /\ \A p, q \in Callers :
          pc[p] \in Owning /\ pc[q] \in Owning /\ Id(p) = Id(q) => p = q

\* The identity of an owner is durable, and past its RUNNING record, before
\* the effect.
OwnerIsDurable ==
    /\ \A i \in linked : state[i] # "ABSENT"
    /\ \A i \in Ids : state[i] # "ABSENT" => diskState[i] # "ABSENT"
    /\ \A p \in Callers :
          /\ pc[p] \in Owning \ {"rootSync"} => Id(p) \in linked
          /\ pc[p] \in {"startSync", "effect"} \cup AfterEffect
                => state[Id(p)] # "CLAIMED"
          /\ pc[p] \in {"effect"} \cup AfterEffect => diskState[Id(p)] # "CLAIMED"
    /\ recovery.pc \in {"write", "sync"} => state[recovery.cur] # "ABSENT"

\* An owner before its effect is the first to reach the boundary.
EffectIsFirst ==
    \A p \in Callers : pc[p] \in BeforeEffect => effects[Id(p)] = 0

IdentityInv ==
    /\ TypeOK
    /\ OwnerIsUnique
    /\ OwnerIsDurable
    /\ EffectIsFirst
    /\ AnnouncedBeforeEffect
    /\ EffectAtMostOncePerIdentity

\* The bound callers that hold the permit of their run.
HoldsPermit(p) ==
    /\ pc[p] \in {"permitSync", "stage", "publish", "poll"} \cup Owning
    /\ IsBound(p)

\* A run has one holder, whose request its permit records.
HolderIsUnique ==
    /\ \A p \in Callers : HoldsPermit(p) => permit[req[p].run] = req[p]
    /\ \A p, q \in Callers :
          HoldsPermit(p) /\ HoldsPermit(q) /\ req[p].run = req[q].run => p = q

\* The permit is durable before the effect of its run.
PermitIsDurable ==
    /\ \A p \in Callers : pc[p] \in {"permit", "permitSync", "replay"} => IsBound(p)
    /\ \A r \in flushed : permit[r] # None
    /\ \A p \in Callers : HoldsPermit(p) =>
          /\ pc[p] # "permitSync" => req[p].run \in flushed
          /\ pc[p] \in Owning \ {"rootSync"} => permitDirLinked
    /\ \A r \in Runs : runEffects[r] > 0 => r \in flushed /\ permitDirLinked

\* A holder before its effect is the first of its run.
RunIsFirst ==
    \A p \in Callers :
        HoldsPermit(p) /\ pc[p] \notin AfterEffect => runEffects[req[p].run] = 0

RunInv ==
    /\ HolderIsUnique
    /\ PermitIsDurable
    /\ RunIsFirst
    /\ EffectAtMostOncePerRun

----------------------------------------------------------------------------
Abstract == INSTANCE OnceOnlyEffect WITH
    consumed <- {i \in Ids : state[i] # "ABSENT"},
    executed <- {i \in Ids : effects[i] > 0},
    closed   <- {i \in linked : diskState[i] \in Terminal}

\* The journal and the boundary implement the once-only effect: the effect of
\* an identity is performed only while it is consumed and open, and consumption
\* is never undone once the effect was performed or an outcome is durable.
ImplementsOnceOnly == Abstract!Spec
=============================================================================
