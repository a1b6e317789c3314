-------------------------- MODULE MCDurableRecords --------------------------
(* Small instances for TLC of what the workflow layer and the ledgers keep on *)
(* the disk.  They share nothing, so a behaviour is one of the one or of the  *)
(* other: while one moves, the other is as it was in the beginning.           *)
EXTENDS WorkflowRecords, ReplayLedgers, TLC

CONSTANTS x1, x2

Ev(id, kind, positive, execution) ==
    [id |-> id, kind |-> kind, positive |-> positive, execution |-> execution]

\* Both outcomes of most decisions, an authorization whose id is used again for
\* other contents, a result that is reported twice under two ids, a result of
\* an execution nobody started, and a timeout.
Reports ==
    {Ev("d1", "DIAGNOSTICS", TRUE, None),
     Ev("a1", "AUTHORIZATION", TRUE, None), Ev("a1", "AUTHORIZATION", FALSE, None),
     Ev("e1", "ELIGIBILITY", TRUE, None), Ev("e2", "ELIGIBILITY", FALSE, None),
     Ev("s1", "STARTED", TRUE, x1),
     Ev("r1", "RESULT", TRUE, x1), Ev("r2", "RESULT", TRUE, x1),
     Ev("r3", "RESULT", FALSE, x1), Ev("r4", "RESULT", TRUE, x2),
     Ev("v1", "VERIFICATION", TRUE, None), Ev("v2", "VERIFICATION", FALSE, None),
     Ev("t1", "TIMEOUT", FALSE, None)}

\* Two ids and two workflows.
Runs == [id : {x1, x2}, workflow : {"build", "repair"}]

ActorsAreSymmetric == Permutations(Writers) \cup Permutations(Callers)

BothInit == Init /\ LedgerInit

LedgersRest == record = [i \in Agents \cup Deliveries |-> NoRecord] /\ aborts = 0

RecordsRest == store = "journal" /\ object = [w \in Writers |-> None] /\ writerFaults = 0

MoveRecords == LedgersRest /\ Next /\ UNCHANGED ledgerVars

MoveLedgers == RecordsRest /\ file = None /\ LedgerNext /\ UNCHANGED recordVars

BothNext == MoveRecords \/ MoveLedgers

BothSpec == BothInit /\ [][BothNext]_<<recordVars, ledgerVars>>

\* What both stores keep is well-formed: a lifecycle and a journal satisfy their
\* constructors in every state, and while an agent or a transport is at work, its
\* identity is on the disk, bound to the contents of that call, to survive a crash.
StoresOK == RecordsOK /\ LedgersOK
=============================================================================
