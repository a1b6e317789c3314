-------------------------- MODULE WorkflowRecords --------------------------
(***************************************************************************)
(* What the workflow layer keeps on disk: the lifecycle of one incident    *)
(* workflow, or the journal of executed workflows.                         *)
(*                                                                         *)
(* Both are objects in the memory of a writer with a history of entries.   *)
(* A lifecycle projects its events to a state, and a saved one is read by  *)
(* replaying its events; a journal binds an execution id to one workflow   *)
(* and its result.  The two file stores serialize writers with a lock file *)
(* and replace the contents only when their digest is still the one the    *)
(* writer loaded; the lifecycle store also compares the histories.         *)
(*                                                                         *)
(* A digest stands for the contents it was made of, so it is the history   *)
(* itself; fingerprints, states and projection of an entry follow from the *)
(* entries before it.  Nobody else enters while a writer holds the lock,   *)
(* so a critical section is divided only where a fault finds different     *)
(* files.                                                                  *)
(***************************************************************************)
EXTENDS Naturals, Sequences, FiniteSets, SequencesExt

CONSTANTS Writers,
          Events,        \* the events callers report to a lifecycle
          Executions,    \* execution ids and the workflows run under them
          None, Partial,
          MaxHistory, MaxUnsaved, MaxFaults   \* bounds of the model

Abort == {"TIMEOUT", "CANCELLED", "RETRY_EXHAUSTED"}

Kinds == {"DIAGNOSTICS", "AUTHORIZATION", "ELIGIBILITY", "STARTED", "RESULT",
          "VERIFICATION"} \cup Abort

\* positive: ALLOW, eligible, success, verified.  Diagnostics and a start are no
\* decisions, and nothing to the contrary.
ASSUME ConstantsAreTyped ==
    /\ \A e \in Events :
          /\ e.kind \in Kinds /\ e.positive \in BOOLEAN
          /\ e.kind \in {"DIAGNOSTICS", "STARTED"} => e.positive
    /\ None \notin Writers \cup BOOLEAN /\ Partial # None
    /\ MaxHistory \in Nat /\ MaxUnsaved \in Nat /\ MaxFaults \in Nat

VARIABLES
    store,         \* what the file keeps: "lifecycle" or "journal"
    file,          \* what a reader finds: None, Partial or a history
    settled,       \* what a power loss is sure to keep of it
    writerAt,      \* the point a writer has reached
    object,        \* its lifecycle or journal, or None
    digest,        \* the history that was loaded or saved with it, or None
    acknowledged,  \* the last history create or replace returned for
    writerFaults

fileVars   == <<store, file, settled>>
clientVars == <<object, digest>>
recordVars == <<fileVars, writerAt, clientVars, acknowledged, writerFaults>>

----------------------------------------------------------------------------
(* The objects.  Only a lifecycle has events that change a state.          *)

Terminal == {"RECOVERED", "FAILED"}

New == [state |-> "OPEN", reason |-> None, diagnosed |-> FALSE,
          decision |-> None, eligible |-> None, execution |-> None,
          succeeded |-> None, verified |-> None, history |-> <<>>]

Fail(l, reason) == [l EXCEPT !.state = "FAILED", !.reason = reason]

RecordDiagnostics(l) == [l EXCEPT !.diagnosed = TRUE]

MayAuthorize(l, e) == l.diagnosed /\ l.decision \in {None, e.positive}

RecordAuthorization(l, e) ==
    LET decided == [l EXCEPT !.decision = e.positive] IN
    IF e.positive THEN decided ELSE Fail(decided, "AUTHORIZATION_DENIED")

MayRecordEligibility(l, e) ==
    l.decision = TRUE /\ l.eligible \in {None, e.positive}

RecordEligibility(l, e) ==
    LET recorded == [l EXCEPT !.eligible = e.positive] IN
    IF e.positive THEN recorded ELSE Fail(recorded, "REMEDIATION_INELIGIBLE")

MayRemediate(l) ==
    l.diagnosed /\ l.decision = TRUE /\ l.eligible = TRUE /\ l.state = "OPEN"

MarkRemediating(l, e) ==
    [l EXCEPT !.execution = e.execution, !.state = "REMEDIATING"]

\* The execution of a lifecycle has one outcome, however often it is reported.
MayRecordResult(l, e) ==
    /\ l.state = "REMEDIATING"
    /\ l.execution = e.execution
    /\ l.succeeded \in {None, e.positive}

RecordResult(l, e) ==
    LET known == [l EXCEPT !.succeeded = e.positive] IN
    IF e.positive THEN known ELSE Fail(known, "REMEDIATION_FAILED")

\* Fault: a result is enough, whatever it was reported for.
MayVerifyAnything(l) == l.state = "REMEDIATING"

MayVerify(l) == l.state = "REMEDIATING" /\ l.succeeded = TRUE

RecordVerification(l, e) ==
    LET checked == [l EXCEPT !.verified = e.positive] IN
    IF e.positive THEN [checked EXCEPT !.state = "RECOVERED"]
                  ELSE Fail(checked, "VERIFICATION_FAILED")

\* Fault: a timeout, a cancellation or exhausted retries end any lifecycle.
NonterminalUnlessAborted(l, e) == l.state \notin Terminal \/ e.kind \in Abort

Nonterminal(l, e) == l.state \notin Terminal

Accepts(l, e) ==
    /\ Nonterminal(l, e)
    /\ e.kind = "AUTHORIZATION" => MayAuthorize(l, e)
    /\ e.kind = "ELIGIBILITY"   => MayRecordEligibility(l, e)
    /\ e.kind = "STARTED"       => MayRemediate(l)
    /\ e.kind = "RESULT"        => MayRecordResult(l, e)
    /\ e.kind = "VERIFICATION"  => MayVerify(l)

Projected(l, e) ==
    CASE e.kind = "DIAGNOSTICS"   -> RecordDiagnostics(l)
      [] e.kind = "AUTHORIZATION" -> RecordAuthorization(l, e)
      [] e.kind = "ELIGIBILITY"   -> RecordEligibility(l, e)
      [] e.kind = "STARTED"       -> MarkRemediating(l, e)
      [] e.kind = "RESULT"        -> RecordResult(l, e)
      [] e.kind = "VERIFICATION"  -> RecordVerification(l, e)
      [] e.kind \in Abort         -> Fail(l, e.kind)
      [] e.kind = "EXECUTED"      -> l

Commit(l, e) == [Projected(l, e) EXCEPT !.history = Append(@, e)]

Recorded(l) == {l.history[i] : i \in DOMAIN l.history}

\* An id is bound to the first event that used it: the same event again
\* returns that event, other contents raise.
IsNew(l, e) == \A f \in Recorded(l) : f.id # e.id

CanRecord(l, e) == IsNew(l, e) /\ Accepts(l, e)

\* What the journal keeps of an execution.
Results == [id : {x.id : x \in Executions}, kind : {"EXECUTED"},
            positive : BOOLEAN, execution : {x.workflow : x \in Executions}]

\* from_replay_snapshot: None when one of the entries is rejected.
\* Fault: a replay takes the second report of a result for a contradiction.
ReplayEntryOnce(l, e) ==
    IF l = None \/ ~CanRecord(l, e) \/ (e.kind = "RESULT" /\ l.succeeded # None)
    THEN None ELSE Commit(l, e)

ReplayEntry(l, e) == IF l = None \/ ~CanRecord(l, e) THEN None ELSE Commit(l, e)

\* WorkflowExecutionJournal.from_snapshot: the same record twice is one record.
RecordAgain(l, e) ==
    CASE l = None                                     -> None
      [] l # None /\ e \in Recorded(l)                -> l
      [] l # None /\ e \notin Recorded(l) /\ ~IsNew(l, e) -> None
      [] OTHER                                        -> Commit(l, e)

ReadEntry(kind, l, e) ==
    IF kind = "lifecycle" THEN ReplayEntry(l, e) ELSE RecordAgain(l, e)

\* What reading the entries of h one after the other into a new object leaves.
Rebuilt(kind, h) ==
    LET after[n \in 0..Len(h)] ==
          IF n = 0 THEN New ELSE ReadEntry(kind, after[n - 1], h[n])
    IN  after[Len(h)]

Replay(h) == Rebuilt("lifecycle", h)

Parse(h) == Rebuilt(store, h)

\* What an object is written as: the events of a lifecycle in their order, and
\* the records of a journal in one of their own, whichever was made first.
Serialize(l) == IF store = "lifecycle" THEN l.history ELSE SetToSeq(Recorded(l))

Reasons == Abort \cup {"AUTHORIZATION_DENIED", "REMEDIATION_INELIGIBLE",
                     "REMEDIATION_FAILED", "VERIFICATION_FAILED"}

Objects == [state : {"OPEN", "REMEDIATING"} \cup Terminal,
            reason : Reasons \cup {None}, diagnosed : BOOLEAN,
            decision : BOOLEAN \cup {None}, eligible : BOOLEAN \cup {None},
            execution : {e.execution : e \in Events} \cup {None},
            succeeded : BOOLEAN \cup {None}, verified : BOOLEAN \cup {None},
            history : Seq(Events \cup Results)]

ASSUME NoneIsNothingElse ==
    {None, Partial} \cap (Objects \cup Seq(Events \cup Results)) = {}

----------------------------------------------------------------------------
Saved(w) == IF digest[w] = None THEN <<>> ELSE digest[w]

HasHistory == file \notin {None, Partial}

\* The writer that holds the lock file.
Unlocked == \A w \in Writers : writerAt[w] = "idle"

\* Type invariant.  What a writer holds, and every history in the file, is
\* accepted when it is parsed and is exactly what that rebuilds: the stores
\* never write what they would refuse to load.
RecordsOK ==
    /\ store \in {"lifecycle", "journal"}
    /\ settled \in {None, Partial} \/ settled \in Seq(Events \cup Results)
    /\ writerAt \in [Writers -> {"idle", "writing", "syncing"}]
    /\ acknowledged \in Seq(Events \cup Results)
    /\ writerFaults \in 0..MaxFaults
    /\ Cardinality({w \in Writers : writerAt[w] # "idle"}) <= 1
    /\ HasHistory => Parse(file) # None
    /\ \A w \in Writers :
         object[w] # None => object[w] = Parse(object[w].history)

Init ==
    /\ store \in {"lifecycle", "journal"}
    /\ file = None
    /\ settled = None
    /\ writerAt = [w \in Writers |-> "idle"]
    /\ object = [w \in Writers |-> None]
    /\ digest = [w \in Writers |-> None]
    /\ acknowledged = <<>>
    /\ writerFaults = 0

----------------------------------------------------------------------------
(* A writer outside the store.                                             *)

\* IncidentWorkflowLifecycle(...) or WorkflowExecutionJournal()
Construct(w) ==
    /\ writerAt[w] = "idle"
    /\ object[w] = None
    /\ object' = [object EXCEPT ![w] = New]
    /\ UNCHANGED <<fileVars, writerAt, digest, acknowledged, writerFaults>>

\* The bounds: entries that were not saved yet, and entries in all.
HasRoom(w) ==
    LET entries == Len(object[w].history) IN
    entries < MaxHistory /\ entries < Len(Saved(w)) + MaxUnsaved

\* A record_*, mark_* or cancel call that is neither a duplicate nor rejected.
Record(w, e) ==
    /\ store = "lifecycle"
    /\ writerAt[w] = "idle"
    /\ object[w] # None
    /\ HasRoom(w)
    /\ CanRecord(object[w], e)
    /\ object' = [object EXCEPT ![w] = Commit(@, e)]
    /\ UNCHANGED <<fileVars, writerAt, digest, acknowledged, writerFaults>>

\* WorkflowExecutor.execute of an id its journal does not hold: the commands
\* run, and only then the result is recorded.  An id it holds is answered from
\* the journal, or raises when it was recorded for another workflow.
Execute(w, x) ==
    /\ store = "journal"
    /\ writerAt[w] = "idle"
    /\ object[w] # None
    /\ HasRoom(w)
    /\ \E e \in Results :
         /\ e.id = x.id /\ e.execution = x.workflow
         /\ IsNew(object[w], e)
         /\ object' = [object EXCEPT ![w] = Commit(@, e)]
    /\ UNCHANGED <<fileVars, writerAt, digest, acknowledged, writerFaults>>

----------------------------------------------------------------------------
(* The stores.                                                             *)

Goto(w, point) == writerAt' = [writerAt EXCEPT ![w] = point]

\* load: a file that does not replay raises, and the writer keeps what it had.
Load(w) ==
    /\ Unlocked
    /\ HasHistory
    /\ object' = [object EXCEPT ![w] = Parse(file)]
    /\ digest' = [digest EXCEPT ![w] = file]
    /\ UNCHANGED <<fileVars, writerAt, acknowledged, writerFaults>>

\* create: O_CREAT | O_EXCL.
CreateFile(w) ==
    /\ Unlocked
    /\ object[w] # None
    /\ file = None
    /\ file' = Partial
    /\ Goto(w, "writing")
    /\ UNCHANGED <<store, settled, clientVars, acknowledged, writerFaults>>

\* The contents and their fsync.
WriteFile(w) ==
    /\ writerAt[w] = "writing"
    /\ file' = Serialize(object[w])
    /\ Goto(w, "syncing")
    /\ UNCHANGED <<store, settled, clientVars, acknowledged, writerFaults>>

IsCurrent(w) == file = digest[w]

\* _assert_append_only, in the lifecycle store only.
IsAppendOnly(w) == store = "lifecycle" => IsPrefix(file, Serialize(object[w]))

\* replace: the comparisons, a temporary file with its fsync, os.replace.  A
\* conflict raises and changes nothing.
ReplaceFile(w) ==
    /\ Unlocked
    /\ digest[w] # None
    /\ HasHistory /\ IsCurrent(w) /\ IsAppendOnly(w)
    /\ file' = Serialize(object[w])
    /\ Goto(w, "syncing")
    /\ UNCHANGED <<store, settled, clientVars, acknowledged, writerFaults>>

\* Fault: the parent directory is not synced.
ReturnUnsynced(w) ==
    /\ writerAt[w] = "syncing"
    /\ digest' = [digest EXCEPT ![w] = Serialize(object[w])]
    /\ acknowledged' = Serialize(object[w])
    /\ Goto(w, "idle")
    /\ UNCHANGED <<fileVars, object, writerFaults>>

\* The fsync of the parent directory, and the return.
Return(w) ==
    /\ writerAt[w] = "syncing"
    /\ settled' = file
    /\ digest' = [digest EXCEPT ![w] = Serialize(object[w])]
    /\ acknowledged' = Serialize(object[w])
    /\ Goto(w, "idle")
    /\ UNCHANGED <<store, file, object, writerFaults>>

----------------------------------------------------------------------------
(* Faults.                                                                 *)

\* OSError: create or replace raises although the file has changed.
OperationFails(w) ==
    /\ writerFaults < MaxFaults
    /\ writerAt[w] # "idle"
    /\ writerFaults' = writerFaults + 1
    /\ Goto(w, "idle")
    /\ UNCHANGED <<fileVars, clientVars, acknowledged>>

\* The lock and the object of a writer end with it.
WriterDies(w) ==
    /\ writerFaults < MaxFaults
    /\ writerFaults' = writerFaults + 1
    /\ object' = [object EXCEPT ![w] = None]
    /\ digest' = [digest EXCEPT ![w] = None]
    /\ Goto(w, "idle")
    /\ UNCHANGED <<fileVars, acknowledged>>

\* A rename or a new entry whose directory was not synced may be lost.
PowerLoss ==
    /\ writerFaults < MaxFaults
    /\ writerFaults' = writerFaults + 1
    /\ file' \in {file, settled}
    /\ settled' = file'
    /\ writerAt' = [w \in Writers |-> "idle"]
    /\ object' = [w \in Writers |-> None]
    /\ digest' = [w \in Writers |-> None]
    /\ UNCHANGED <<store, acknowledged>>

----------------------------------------------------------------------------
Client(w) == \/ Construct(w)
             \/ \E e \in Events : Record(w, e)
             \/ \E x \in Executions : Execute(w, x)

Store(w) == Load(w) \/ CreateFile(w) \/ WriteFile(w) \/ ReplaceFile(w) \/ Return(w)

Fault == (\E w \in Writers : OperationFails(w) \/ WriterDies(w)) \/ PowerLoss

Next == (\E w \in Writers : Client(w) \/ Store(w)) \/ Fault

Spec == Init /\ [][Next]_recordVars
----------------------------------------------------------------------------
(* Properties.                                                             *)

\* A workflow is RECOVERED only when, in this order, it was diagnosed, allowed,
\* found eligible and started, that execution succeeded and was verified, with
\* nothing to the contrary anywhere in its history: over events that several
\* writers recorded, repeated and replayed.
Steps == <<"DIAGNOSTICS", "AUTHORIZATION", "ELIGIBILITY", "STARTED", "RESULT",
           "VERIFICATION">>

Earned(l) ==
    \E i \in [1..6 -> 1..Len(l.history)] :
        /\ \A k \in 1..6 : l.history[i[k]].kind = Steps[k]
        /\ \A k \in 1..5 : i[k] < i[k + 1]
        /\ l.history[i[4]].execution = l.history[i[5]].execution

RecoveredIsEarned ==
    \A w \in Writers :
        LET l == object[w] IN
        (l # None /\ l.state = "RECOVERED") =>
            /\ Earned(l)
            /\ \A e \in Recorded(l) : e.positive

\* "RECOVERED and FAILED are terminal and cannot be overwritten": whoever loads
\* the file, and whatever a power loss undoes, a terminal history gets no
\* further event, in the file or in what is acknowledged.
Ended(h) == Replay(h).state \in Terminal

TerminalIsFinal ==
    [][/\ (HasHistory /\ HasHistory' /\ Len(file') > Len(file)) => ~Ended(file)
       /\ acknowledged' # acknowledged => ~Ended(acknowledged)]_recordVars

\* "compare-and-swap prevents stale writers from silently erasing newer
\* lifecycle events": the lock, the digest, the rename and the syncs implement
\* a history that only grows and never loses what was acknowledged.  A journal
\* has no other protection than its digest.
Entries(h) == IF store = "lifecycle" THEN {<<i, h[i]>> : i \in DOMAIN h} ELSE Range(h)

Log == INSTANCE AppendOnlyHistory WITH
    visible <- IF HasHistory THEN Entries(file) ELSE {},
    acknowledged <- Entries(acknowledged)

ImplementsAppendOnly == Log!Spec
=============================================================================
