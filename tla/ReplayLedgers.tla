---------------------------- MODULE ReplayLedgers ----------------------------
(***************************************************************************)
(* The identity ledgers of AI agent executions and of Commander deliveries *)
(* and the orchestrators on top of them.  Both claim an identity on disk,  *)
(* mark it RUNNING, perform the effect and record the outcome; callers in  *)
(* any number of processes repeat requests at any point.                   *)
(*                                                                         *)
(* No lock is held: each step below is one file operation, or the reads    *)
(* and checks before one.  The fsync that follows a write is part of the   *)
(* next step of the same caller; until then a power loss may undo it.      *)
(*                                                                         *)
(* The ledgers differ in two things.  An agent claim makes the directory   *)
(* of the identity first and writes its record after; a delivery claim     *)
(* renames a complete directory into place.  And a repeated agent request  *)
(* closes an incomplete attempt as UNKNOWN, while a delivery refuses it.   *)
(***************************************************************************)
EXTENDS Naturals, FiniteSets

CONSTANTS Callers, Agents, Deliveries,
          Contents,     \* what the fingerprint of a request or of a projection binds
          MaxAborts     \* bound on the calls and machines that stop

Ids == Agents \cup Deliveries

LedgerConstants == Agents \cap Deliveries = {} /\ MaxAborts \in Nat

ASSUME LedgerConstantsAreTyped == LedgerConstants

Incomplete == {"CLAIMED", "RUNNING"}
Outcomes   == {"SUCCEEDED", "FAILED", "UNKNOWN"}

VARIABLES
    record,     \* what is found under an identity
    durable,    \* what a power loss is sure to keep of it
    call,       \* the step a caller has reached, for which request, and the
                \* outcome it is about to write or return
    effect,     \* what became of the effect: "none", "begun" or its true outcome
    effects,    \* how often it was begun
    effectOf,   \* the contents it was begun for
    told,       \* every state returned for an identity
    aborts

effectVars == <<effect, effects, effectOf>>
ledgerVars == <<record, durable, call, effectVars, told, aborts>>

RecordOf(state, contents) == [state |-> state, contents |-> contents]

NoRecord == RecordOf("absent", "none")
Empty    == RecordOf("empty", "none")       \* a directory without a record

Requests == [id : Ids, contents : Contents]

Call(point, r, answer) ==
    [at |-> point, id |-> r.id, contents |-> r.contents, answer |-> answer]

Idle == Call("idle", [id |-> "none", contents |-> "none"], "UNKNOWN")

LedgerInit ==
    /\ record = [i \in Ids |-> NoRecord]
    /\ durable = [i \in Ids |-> NoRecord]
    /\ call = [c \in Callers |-> Idle]
    /\ effect = [i \in Ids |-> "none"]
    /\ effects = [i \in Ids |-> 0]
    /\ effectOf = [i \in Ids |-> "none"]
    /\ told = [i \in Ids |-> {}]
    /\ aborts = 0

----------------------------------------------------------------------------
At(c, point)   == call[c].at = point
CallGoto(c, point) == call' = [call EXCEPT ![c].at = point]
End(c)         == call' = [call EXCEPT ![c] = Idle]

Write(c, state) ==
    record' = [record EXCEPT ![call[c].id] = RecordOf(state, call[c].contents)]

\* The fsyncs that end a write.
Sync(c) == durable' = [durable EXCEPT ![call[c].id] = record[call[c].id]]

Tell(i, states) == told' = [told EXCEPT ![i] = @ \cup states]

----------------------------------------------------------------------------
(* claim.  A delivery whose transport is disabled never gets here.         *)

\* Fault: a directory without a record is taken for an abandoned claim.
IsFreeOrEmpty(i) == record[i] \in {NoRecord, Empty}

\* os.mkdir, or os.rename of a directory that holds the record: exclusive.
IsFree(i) == record[i] = NoRecord

ClaimNew(c, r) ==
    /\ At(c, "idle")
    /\ IsFree(r.id)
    /\ IF r.id \in Agents
       THEN /\ record' = [record EXCEPT ![r.id] = Empty]
            /\ call' = [call EXCEPT ![c] = Call("making", r, "UNKNOWN")]
       ELSE /\ record' = [record EXCEPT ![r.id] = RecordOf("CLAIMED", r.contents)]
            /\ call' = [call EXCEPT ![c] = Call("claimed", r, "UNKNOWN")]
    /\ UNCHANGED <<durable, effectVars, told, aborts>>

\* The agent ledger writes the record into a directory others already see.
WriteClaim(c) ==
    /\ At(c, "making")
    /\ Write(c, "CLAIMED")
    /\ CallGoto(c, "claimed")
    /\ UNCHANGED <<durable, effectVars, told, aborts>>

\* A request for an identity that exists is refused when the record cannot be
\* read or is bound to other contents, and answered when it is complete.
Continues(r) == record[r.id].contents = r.contents

ReplayComplete(c, r) ==
    /\ At(c, "idle")
    /\ record[r.id].state \in Outcomes
    /\ Continues(r)
    /\ Tell(r.id, {record[r.id].state})
    /\ UNCHANGED <<record, durable, call, effectVars, aborts>>

\* The agent ledger has read an incomplete attempt and will close it as
\* UNKNOWN; the delivery ledger raises.
ReplayIncomplete(c, r) ==
    /\ At(c, "idle")
    /\ r.id \in Agents
    /\ record[r.id].state \in Incomplete
    /\ Continues(r)
    /\ call' = [call EXCEPT ![c] = Call("replacing", r, "UNKNOWN")]
    /\ UNCHANGED <<record, durable, effectVars, told, aborts>>

\* Whatever the record has become since, UNKNOWN replaces it.
CloseIncomplete(c) ==
    /\ At(c, "replacing")
    /\ Write(c, "UNKNOWN")
    /\ CallGoto(c, "returning")
    /\ UNCHANGED <<durable, effectVars, told, aborts>>

----------------------------------------------------------------------------
(* The winner of a claim.                                                  *)

\* The claim is durable; mark_running and transition load it again and start
\* nothing that is not CLAIMED.
Start(c) ==
    /\ At(c, "claimed")
    /\ Sync(c)
    /\ IF record[call[c].id].state = "CLAIMED" THEN CallGoto(c, "starting") ELSE End(c)
    /\ UNCHANGED <<record, effectVars, told, aborts>>

WriteRunning(c) ==
    /\ At(c, "starting")
    /\ Write(c, "RUNNING")
    /\ CallGoto(c, "running")
    /\ UNCHANGED <<durable, effectVars, told, aborts>>

Begin(c) ==
    LET i == call[c].id IN
    /\ effect' = [effect EXCEPT ![i] = "begun"]
    /\ effects' = [effects EXCEPT ![i] = @ + 1]
    /\ effectOf' = [effectOf EXCEPT ![i] = call[c].contents]

\* Fault: the adapter is called before RUNNING is durable.
BeginUnsynced(c) ==
    /\ At(c, "running")
    /\ Begin(c)
    /\ CallGoto(c, "executing")
    /\ UNCHANGED <<record, durable, told, aborts>>

BeginEffect(c) ==
    /\ At(c, "running")
    /\ Sync(c)
    /\ Begin(c)
    /\ CallGoto(c, "executing")
    /\ UNCHANGED <<record, told, aborts>>

\* AgentExecutionBoundary: what its adapter, its checks of the result and the
\* independent verifier make of an execution.  TIMED_OUT and CANCELLED are FAILED.
Accepted == [error |-> "none", status |-> "SUCCEEDED", accepted |-> TRUE]

AdapterRaised == [error |-> "adapter", status |-> "none", accepted |-> FALSE]

BoundaryOutcomes ==
    {Accepted, AdapterRaised}
    \cup [error : {"verifier"}, status : {"SUCCEEDED"}, accepted : {FALSE}]
    \cup [error : {"none", "identity"}, status : {"SUCCEEDED", "FAILED"}, accepted : {FALSE}]
    \cup [error : {"result type"}, status : {"none"}, accepted : {FALSE}]

\* Fault: the agent's own report of success is enough.
StateOfReport(o) ==
    CASE o.error = "adapter"      -> "UNKNOWN"
      [] o.status = "SUCCEEDED"   -> "SUCCEEDED"
      [] OTHER                    -> "FAILED"

\* finalize
StateOf(o) ==
    CASE o.error = "adapter"                     -> "UNKNOWN"
      [] o.accepted /\ o.status = "SUCCEEDED"    -> "SUCCEEDED"
      [] OTHER                                   -> "FAILED"

EndEffect(c, true, answer) ==
    /\ At(c, "executing")
    /\ effect' = [effect EXCEPT ![call[c].id] = true]
    /\ call' = [call EXCEPT ![c].at = "finishing", ![c].answer = answer]
    /\ UNCHANGED <<record, durable, effects, effectOf, told, aborts>>

\* Only a verified execution has succeeded, whoever reports what.
ExecuteAgent(c) ==
    /\ call[c].id \in Agents
    /\ \E o \in BoundaryOutcomes :
         EndEffect(c, IF o.accepted THEN "SUCCEEDED" ELSE "unverified", StateOf(o))

\* A transport reports an outcome, also that it does not know it; one that raises
\* leaves it UNKNOWN.
Deliver(c) ==
    /\ call[c].id \in Deliveries
    /\ \E state \in Outcomes : EndEffect(c, state, state)

\* A disabled adapter is a FAILED attempt that ran nothing.
SkipEffect(c) ==
    /\ At(c, "running")
    /\ call[c].id \in Agents
    /\ Sync(c)
    /\ call' = [call EXCEPT ![c].at = "finishing", ![c].answer = "FAILED"]
    /\ UNCHANGED <<record, effectVars, told, aborts>>

\* finalize and transition close only what is RUNNING.
LoadToFinish(c) ==
    /\ At(c, "finishing")
    /\ record[call[c].id].state = "RUNNING"
    /\ CallGoto(c, "closing")
    /\ UNCHANGED <<record, durable, effectVars, told, aborts>>

\* An attempt that a replay has closed meanwhile is answered as UNKNOWN.
Overtaken(c) ==
    /\ At(c, "finishing")
    /\ record[call[c].id].state = "UNKNOWN"
    /\ Tell(call[c].id, {"UNKNOWN"})
    /\ End(c)
    /\ UNCHANGED <<record, durable, effectVars, aborts>>

WriteOutcome(c) ==
    /\ At(c, "closing")
    /\ Write(c, call[c].answer)
    /\ CallGoto(c, "returning")
    /\ UNCHANGED <<durable, effectVars, told, aborts>>

ReturnAnswer(c) ==
    /\ At(c, "returning")
    /\ Sync(c)
    /\ Tell(call[c].id, {call[c].answer})
    /\ End(c)
    /\ UNCHANGED <<record, effectVars, aborts>>

----------------------------------------------------------------------------
(* A call ends without an answer, because its process dies or a file       *)
(* operation raises; a power loss ends all of them.                        *)

AbortCall(c) ==
    /\ aborts < MaxAborts
    /\ ~At(c, "idle")
    /\ aborts' = aborts + 1
    /\ End(c)
    /\ UNCHANGED <<record, durable, effectVars, told>>

\* An agent directory may be found without the record of an unfinished claim.
Survives(i, kept) ==
    \/ kept \in {record[i], durable[i]}
    \/ i \in Agents /\ durable[i] = NoRecord /\ record[i] # NoRecord /\ kept = Empty

LedgerPowerLoss ==
    /\ aborts < MaxAborts
    /\ aborts' = aborts + 1
    /\ record' \in [Ids -> {record[i] : i \in Ids} \cup {durable[i] : i \in Ids} \cup {Empty}]
    /\ \A i \in Ids : Survives(i, record'[i])
    /\ durable' = record'
    /\ call' = [c \in Callers |-> Idle]
    /\ UNCHANGED <<effectVars, told>>

----------------------------------------------------------------------------
Claim(c) ==
    \/ \E r \in Requests : ClaimNew(c, r) \/ ReplayComplete(c, r) \/ ReplayIncomplete(c, r)
    \/ WriteClaim(c) \/ CloseIncomplete(c)

Proceed(c) == Start(c) \/ WriteRunning(c) \/ BeginEffect(c)
              \/ ExecuteAgent(c) \/ Deliver(c) \/ SkipEffect(c)

Finish(c) == LoadToFinish(c) \/ Overtaken(c) \/ WriteOutcome(c) \/ ReturnAnswer(c)

LedgerNext == (\E c \in Callers : Claim(c) \/ Proceed(c) \/ Finish(c) \/ AbortCall(c)) \/ LedgerPowerLoss

LedgerSpec == LedgerInit /\ [][LedgerNext]_ledgerVars

----------------------------------------------------------------------------
(* Properties.                                                             *)

States == Incomplete \cup Outcomes

\* Type invariant.  While an effect runs, its identity is on disk, bound to
\* the contents of that call, and a power loss cannot undo it.
LedgersOK ==
    /\ \A i \in Ids :
         /\ {record[i], durable[i]} \subseteq
              {NoRecord, Empty} \cup [state : States, contents : Contents]
         /\ effect[i] \in {"none", "begun", "unverified"} \cup Outcomes
         /\ effects[i] \in Nat
         /\ told[i] \subseteq Outcomes
    /\ aborts \in 0..MaxAborts
    /\ \A c \in Callers :
         call[c].at \in {"executing", "finishing", "closing"} =>
             /\ durable[call[c].id].state \notin {"absent", "empty", "CLAIMED"}
             /\ durable[call[c].id].contents = call[c].contents

\* "Agent self-report is never proof", and a replay is answered with what
\* happened: however calls, replays and crashes interleave, SUCCEEDED is
\* returned only for an effect that succeeded, was verified and was performed
\* for the contents on record; no two callers get different outcomes, except
\* that an agent attempt which a replay has overtaken is also UNKNOWN.
AnswersAgree ==
    \A i \in Ids :
        /\ "SUCCEEDED" \in told[i] => effect[i] = "SUCCEEDED"
        /\ "FAILED" \in told[i] => effect[i] \in {"none", "unverified", "FAILED"}
        /\ Cardinality(told[i] \ (IF i \in Agents THEN {"UNKNOWN"} ELSE {})) <= 1
        /\ effects[i] > 0 => record[i].contents = effectOf[i]

\* Both orchestrators consume the identity before the effect, perform it at
\* most once per identity and never lose that, over every crash; a delivery
\* is never performed after its outcome was recorded, and keeps it.
Once == INSTANCE OnceOnlyEffect WITH
    consumed <- {i \in Ids : record[i] # NoRecord},
    executed <- {i \in Ids : effects[i] = 1},
    closed   <- {i \in Deliveries : durable[i].state \in Outcomes}

ImplementsOnce == Once!Spec
=============================================================================
