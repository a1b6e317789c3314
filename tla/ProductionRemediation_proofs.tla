--------------------- MODULE ProductionRemediation_proofs ---------------------
(***************************************************************************)
(* A request runs once, every restart is on record, alone and within the   *)
(* budget, and one approval restarts for one request only: for any         *)
(* runtimes, requests and cycles, any limits of the target rule, and any   *)
(* number of crashes, failed file operations and power losses.             *)
(***************************************************************************)
EXTENDS ProductionRemediation, FiniteSetTheorems, TLAPS

----------------------------------------------------------------------------
(***************************************************************************)
(* The inductive invariant.                                                *)
(***************************************************************************)

\* A process that reserves, writes or has written an attempt.
OnAttempt(p) == pc[p] \in Publishing /\ ledger[p] = "attempt"

\* What a process has in its hands at each point.
JobsAreHeld ==
    \A p \in Processes :
        /\ pc[p] # "idle" => job[p] \in Jobs
        /\ pc[p] \in {"opened", "unlinked", "inspect", "authorize"} => job[p] \in Requests
        /\ pc[p] \in Entering => ledger[p] = "issuance"
        /\ pc[p] = "authorize" => ledger[p] = "consumption"
        /\ pc[p] \in Publishing /\ ~OnAttempt(p) => job[p] \in Requests
        /\ pc[p] \in {"effect", "verify"} => job[p] \in begun
        /\ pc[p] \in {"execute", "effect", "verify"} => ledger[p] = "attempt"

\* Whoever is past the guard has the effect lease.
LeaseIsHeld == \A p \in Processes : Active(p) => lease = p

\* A request that was processed is neither in the inbox nor on its way out of it, and one
\* that is on its way is in the hands of one process.
TakenIsGone ==
    /\ \A r \in Requests : filed[r] = None =>
          /\ inbox # r /\ inboxOnDisk # r /\ runs[r] = 0
          /\ \A p \in Processes : job[p] # r
    /\ \A r \in Requests : runs[r] # 0 =>
          /\ inbox # r /\ inboxOnDisk # r
          /\ \A p \in Processes : ~(pc[p] = "unlinked" /\ job[p] = r)
    /\ \A p \in Processes : pc[p] = "unlinked" =>
          /\ inbox # job[p]
          /\ \A q \in Processes : pc[q] = "unlinked" /\ job[q] = job[p] => q = p
    /\ RequestRunsOnce

\* The entry of a record belongs to the one process that writes it.
EntriesAreExclusive ==
    /\ \A p \in Processes :
          /\ pc[p] = "write" => file[Entry(p)] \in {"reserved", "linked"}
          /\ pc[p] = "seal" => file[Entry(p)] = "written"
    /\ \A p, q \in Processes :
          p # q /\ pc[p] \in {"write", "seal"} /\ pc[q] \in {"write", "seal"}
             => Entry(p) # Entry(q)

\* The issuance names the request that has created its entry.
IssuanceIsOwned ==
    /\ reservedBy = None <=> file[Issuance] = "none"
    /\ Readable(Issuance) => issuedTo = reservedBy
    /\ \A p \in Processes : pc[p] \in {"write", "seal"} /\ ledger[p] = "issuance"
                               => reservedBy = job[p]

\* A request goes on only with a durable issuance of its own, and past its authorization
\* with a durable consumption.
RequestsAreAuthorized ==
    \A p \in Processes : job[p] \in Requests =>
        /\ ledger[p] \in {"consumption", "attempt"} \/ pc[p] \in {"authorize", "guard"} \cup Leased
              => file[Issuance] = "stable" /\ issuedTo = job[p]
        /\ pc[p] \in {"authorize", "guard"} \cup Leased \/ ledger[p] = "attempt"
              => file[<<"consumption", job[p]>>] = "stable"

\* The attempt of a job is durable before its command.
AttemptsAreDurable ==
    \A p \in Processes : pc[p] \in {"execute", "effect", "verify"}
                            => file[Attempt(job[p])] = "stable"

\* The attempts in the ledger, those of jobs that never started included, keep to the
\* limits of the target rule.
LedgerKeepsBudget ==
    /\ IsFiniteSet(Attempted)
    /\ \A t \in Nat : Cardinality(InWindow(t)) <= MaxAttempts
    /\ \A j, k \in Attempted :
          j = k \/ attemptAt[j] >= attemptAt[k] + Cooldown
                \/ attemptAt[k] >= attemptAt[j] + Cooldown

\* What a process has been allowed is still so when it records its attempt: only it
\* could have changed the ledger.
AllowanceHolds ==
    \A p \in Processes :
        /\ OnAttempt(p) /\ pc[p] \in {"reserve", "write"} =>
              /\ \A j \in Attempted : attemptAt[j] <= now[p]
              /\ CooledDown(p) /\ HasBudget(p)
        /\ OnAttempt(p) => \A j \in Jobs : Malformed(Attempt(j)) => j = job[p] /\ pc[p] = "write"
        /\ pc[p] = "execute" => \A j \in Jobs : ~Malformed(Attempt(j))

ProductionInv ==
    /\ TypeOK /\ JobsAreHeld /\ LeaseIsHeld /\ TakenIsGone
    /\ EntriesAreExclusive /\ IssuanceIsOwned /\ RequestsAreAuthorized
    /\ AttemptsAreDurable /\ EffectsAreRecorded /\ LedgerKeepsBudget /\ AllowanceHolds
----------------------------------------------------------------------------
(***************************************************************************)
(* Type correctness.                                                       *)
(***************************************************************************)

\* Jobs, entries and the points of a process.
LEMMA Names ==
    /\ \A j \in Jobs : Attempt(j) \in Entries
    /\ \A r \in Requests : <<"consumption", r>> \in Entries /\ r \in Jobs
    /\ Issuance \in Entries
    /\ None \notin Jobs
  BY ConstantsAreTyped DEF Jobs, Entries, Attempt, Issuance

\* The entry of the record that a process is publishing.
LEMMA EntryIsTyped ==
    ASSUME TypeOK, JobsAreHeld, NEW p \in Processes, pc[p] \in Publishing
    PROVE  /\ Entry(p) \in Entries
           /\ ledger[p] = "issuance" => Entry(p) = Issuance /\ job[p] \in Requests
           /\ ledger[p] = "consumption" =>
                 Entry(p) = <<"consumption", job[p]>> /\ job[p] \in Requests
           /\ ledger[p] = "attempt" => Entry(p) = Attempt(job[p]) /\ job[p] \in Jobs
  <1>1. ledger[p] \in Ledgers /\ job[p] \in Jobs
    BY DEF TypeOK, JobsAreHeld, Publishing
  <1>2. ledger[p] # "attempt" => job[p] \in Requests
    BY DEF JobsAreHeld, OnAttempt
  <1> QED
    BY <1>1, <1>2, Names DEF Entry, Ledgers, Attempt

\* What the fsync of the directory of a ledger changes.
LEMMA SyncedIsTyped ==
    ASSUME TypeOK, NEW l \in Ledgers
    PROVE  /\ Synced(l, file) \in [Entries -> Stage]
           /\ \A e \in Entries : \/ Synced(l, file)[e] = file[e]
                                 \/ file[e] = "reserved" /\ Synced(l, file)[e] = "linked"
  BY DEF TypeOK, Synced, Stage

\* The end of a job, whichever way it ends.
Leaves(p) ==
    /\ Forget(p)
    /\ UNCHANGED <<clock, invocations, inbox, inboxOnDisk, filed, issuedTo, attemptAt,
                   reservedBy, runs, begun, restarted>>
    /\ unit' \in {0, unit}
    /\ issuanceDir' \in BOOLEAN /\ evidence' \in BOOLEAN
    /\ outcome' \in [Jobs -> {None, "RECOVERED", "UNRESOLVED", "ESCALATED"}]
    /\ file' = file \/ file' = Synced("attempt", file)
    /\ faults' \in 0..MaxFaults
    /\ \/ Release(p)
       \/ pc[p] \in {"opened", "unlinked"} /\ UNCHANGED <<lease, activation, incident>>

\* What is left by the with blocks and finally clauses.
LEMMA ConcludeLeaves ==
    ASSUME TypeOK, NEW p \in Processes,
           NEW result \in {"RECOVERED", "UNRESOLVED", "ESCALATED"}, Conclude(p, result)
    PROVE  /\ Forget(p) /\ Release(p) /\ evidence' \in BOOLEAN
           /\ outcome' \in [Jobs -> {None, "RECOVERED", "UNRESOLVED", "ESCALATED"}]
  BY DEF TypeOK, Conclude, ByCommander

\* All the steps that end a job.
LEMMA LeavingSteps ==
    ASSUME TypeOK, NEW p \in Processes,
           \/ LoseRequest(p) \/ Refuse(p) \/ CannotReserve(p) \/ Contend(p) \/ Deny(p)
           \/ Authorize(p) /\ ~Authorized(p)
           \/ RestartFails(p) \/ Verify(p) \/ Raise(p) \/ Crash(p)
    PROVE  Leaves(p)
  <1> USE DEF inboxVars, recordVars, scopeVars, effectVars, resultVars, unitVars
  <1>0. /\ unit \in {0, unit} /\ issuanceDir \in BOOLEAN /\ evidence \in BOOLEAN
        /\ outcome \in [Jobs -> {None, "RECOVERED", "UNRESOLVED", "ESCALATED"}]
        /\ faults \in 0..MaxFaults /\ MaxFaults \in Nat
        /\ Denied(p) \in {"RECOVERED", "UNRESOLVED", "ESCALATED"}
    BY ConstantsAreTyped DEF TypeOK, Denied
  <1>1. CASE LoseRequest(p)
    BY <1>0, <1>1 DEF LoseRequest, Leaves
  <1>2. CASE Refuse(p)
    BY <1>0, <1>2, ConcludeLeaves DEF Refuse, Leaves
  <1>3. CASE CannotReserve(p)
    BY <1>0, <1>3, ConcludeLeaves DEF CannotReserve, Leaves
  <1>4. CASE Contend(p)
    BY <1>0, <1>4, ConcludeLeaves DEF Contend, Leaves
  <1>5. CASE Deny(p)
    BY <1>0, <1>5, ConcludeLeaves DEF Deny, Leaves
  <1>6. CASE Authorize(p) /\ ~Authorized(p)
    BY <1>0, <1>6, ConcludeLeaves DEF Authorize, Leaves
  <1>7. CASE RestartFails(p)
    BY <1>0, <1>7, ConcludeLeaves DEF RestartFails, Leaves
  <1>8. CASE Verify(p)
    <2>1. (IF Verified(p) THEN "RECOVERED" ELSE "UNRESOLVED")
              \in {"RECOVERED", "UNRESOLVED", "ESCALATED"}
      OBVIOUS
    <2> QED
      BY <1>0, <1>8, <2>1, ConcludeLeaves DEF Verify, Leaves
  <1>9. CASE Raise(p)
    <2>1. faults' \in 0..MaxFaults
      BY <1>0, <1>9 DEF Raise
    <2>2. CASE pc[p] \in {"opened", "unlinked"}
      BY <1>0, <1>9, <2>1, <2>2 DEF Raise, Leaves
    <2>3. CASE pc[p] \notin {"opened", "unlinked"}
      BY <1>0, <1>9, <2>1, <2>3, ConcludeLeaves DEF Raise, Leaves
    <2> QED
      BY <2>2, <2>3
  <1>10. CASE Crash(p)
    <2>1. faults' \in 0..MaxFaults
      BY <1>0, <1>10 DEF Crash
    <2> QED
      BY <1>0, <1>10, <2>1 DEF Crash, Leaves
  <1> QED
    BY <1>1, <1>2, <1>3, <1>4, <1>5, <1>6, <1>7, <1>8, <1>9, <1>10

\* A step ends a job, goes on with one, or is not one of a process.
GoesOn(p) ==
    \/ OpenInbox(p) \/ TakeRequest(p) \/ SyncInbox(p) \/ Inspect(p)
    \/ \E c \in Cycles : Observe(p, c)
    \/ Reserve(p) \/ Write(p) \/ Seal(p)
    \/ Authorize(p) /\ Authorized(p)
    \/ Guard(p) \/ Allow(p) \/ Execute(p) \/ Restart(p)

LEMMA StepKinds ==
    ASSUME TypeOK, [Next]_vars
    PROVE  \/ \E p \in Processes : Leaves(p) \/ GoesOn(p)
           \/ \E r \in Requests : FileRequest(r)
           \/ Tick \/ UnitChanges \/ PowerLoss \/ UNCHANGED vars
  BY LeavingSteps DEF Next, Step, Gate3, Gate4, Publish, Guarded, Environment, Fault, GoesOn

\* The end of a job leaves everything in its shape, with nothing in force.
LEMMA LeavesType ==
    ASSUME TypeOK, NEW p \in Processes, Leaves(p)
    PROVE  TypeOK'
  <1> USE DEF Leaves, Forget, Goto
  <1>1. file' \in [Entries -> Stage]
    BY SyncedIsTyped DEF TypeOK, Ledgers
  <1>2. /\ pc' \in [Processes -> Pcs] /\ ledger' \in [Processes -> Ledgers]
        /\ job' \in [Processes -> Jobs \cup {None}] /\ now' \in [Processes -> 0..MaxTime]
        /\ before' \in [Processes -> 0..MaxInvocation]
    BY ConstantsAreTyped DEF TypeOK, Pcs, Entering, Ledgers
  <1>3. /\ lease' \in Processes \cup {None}
        /\ activation' \in [Processes -> {None, "COMMANDER_ONLY", "AUTONOMOUS"}]
        /\ incident' \in [Processes -> BOOLEAN]
    BY DEF TypeOK, Release
  <1>4. \A q \in Processes :
           /\ activation'[q] = IF Active(q)' THEN Mode(q)' ELSE None
           /\ incident'[q] <=> pc'[q] \notin Entering
           /\ lease' = q => Active(q)'
    <2> TAKE q \in Processes
    <2>1. CASE q = p
      <3>1. pc'[p] = "idle" /\ ~Active(p)'
        BY DEF TypeOK, Active, Leased, Publishing
      <3>2. CASE Release(p)
        BY <2>1, <3>1, <3>2, ConstantsAreTyped DEF TypeOK, Release, Entering
      <3>3. CASE pc[p] \in {"opened", "unlinked"} /\ UNCHANGED <<lease, activation, incident>>
        BY <2>1, <3>1, <3>3 DEF TypeOK, Entering, Active, Leased, Publishing
      <3> QED
        BY <3>2, <3>3
    <2>2. CASE q # p
      <3>1. /\ pc'[q] = pc[q] /\ ledger'[q] = ledger[q] /\ job'[q] = job[q]
            /\ activation'[q] = activation[q] /\ incident'[q] = incident[q]
            /\ lease' = q => lease = q
        BY <2>2, ConstantsAreTyped DEF TypeOK, Release
      <3>2. (Active(q)' <=> Active(q)) /\ Mode(q)' = Mode(q)
        BY <3>1 DEF Active, Mode, ByCommander
      <3> QED
        BY <3>1, <3>2 DEF TypeOK
    <2> QED
      BY <2>1, <2>2
  <1>5. /\ unit' \in 0..invocations' /\ invocations' \in 1..MaxInvocation
        /\ clock' \in 0..MaxTime
        /\ inbox' \in Requests \cup {None} /\ inboxOnDisk' \in Requests \cup {None}
        /\ filed' \in [Requests -> [at : 0..MaxTime, inv : 1..MaxInvocation] \cup {None}]
        /\ issuedTo' \in Requests \cup {None} /\ attemptAt' \in [Jobs -> 0..MaxTime]
        /\ reservedBy' \in Requests \cup {None} /\ runs' \in [Requests -> Nat]
        /\ begun' \subseteq Jobs /\ restarted' \subseteq begun'
    BY ConstantsAreTyped DEF TypeOK
  <1> HIDE DEF Forget, Goto
  <1> QED
    BY <1>1, <1>2, <1>3, <1>4, <1>5 DEF TypeOK

\* What ties the activation, the incident and the lease of a process to its place.
ScopeOK(q) ==
    /\ activation[q] = IF Active(q) THEN Mode(q) ELSE None
    /\ incident[q] <=> pc[q] \notin Entering
    /\ lease = q => Active(q)

\* They stay tied for every other process.
LEMMA OthersScope ==
    ASSUME TypeOK, NEW p \in Processes, NEW q \in Processes, q # p,
           pc'[q] = pc[q], ledger'[q] = ledger[q], job'[q] = job[q],
           activation'[q] = activation[q], incident'[q] = incident[q],
           lease' \in {lease, p, None}
    PROVE  ScopeOK(q)'
  <1>1. (Active(q)' <=> Active(q)) /\ Mode(q)' = Mode(q)
    BY DEF Active, Mode, ByCommander
  <1>2. lease' = q => lease = q
    BY ConstantsAreTyped
  <1> QED
    BY <1>1, <1>2 DEF TypeOK, ScopeOK

\* A job that goes on keeps the shapes, and its own activation, incident and lease.
LEMMA GoesOnType ==
    ASSUME TypeOK, JobsAreHeld, NEW p \in Processes, GoesOn(p)
    PROVE  TypeOK'
  <1> USE DEF unitVars, inboxVars, recordVars, localVars, scopeVars, effectVars, resultVars,
              Goto
  <1>0. /\ \A q \in Processes : ScopeOK(q)
        /\ clock \in 0..MaxTime /\ job[p] \in Jobs \cup {None}
        /\ pc[p] # "idle" => job[p] \in Jobs
    BY DEF TypeOK, JobsAreHeld, ScopeOK
  <1>1. SUFFICES /\ unit' \in 0..invocations' /\ invocations' \in 1..MaxInvocation
                 /\ clock' \in 0..MaxTime
                 /\ inbox' \in Requests \cup {None} /\ inboxOnDisk' \in Requests \cup {None}
                 /\ filed' = filed /\ issuanceDir' \in BOOLEAN
                 /\ file' \in [Entries -> Stage] /\ issuedTo' \in Requests \cup {None}
                 /\ attemptAt' \in [Jobs -> 0..MaxTime]
                 /\ pc' \in [Processes -> Pcs] /\ ledger' \in [Processes -> Ledgers]
                 /\ job' \in [Processes -> Jobs \cup {None}]
                 /\ now' \in [Processes -> 0..MaxTime]
                 /\ before' \in [Processes -> 0..MaxInvocation]
                 /\ lease' \in Processes \cup {None}
                 /\ activation' \in [Processes -> {None, "COMMANDER_ONLY", "AUTONOMOUS"}]
                 /\ incident' \in [Processes -> BOOLEAN]
                 /\ reservedBy' \in Requests \cup {None} /\ runs' \in [Requests -> Nat]
                 /\ begun' \subseteq Jobs /\ restarted' \subseteq begun'
                 /\ UNCHANGED <<evidence, outcome, faults>>
                 /\ \A q \in Processes : ScopeOK(q)'
    BY DEF TypeOK, ScopeOK
  <1>2. CASE OpenInbox(p)
    <2>1. job' \in [Processes -> Jobs \cup {None}] /\ pc' \in [Processes -> Pcs]
      BY <1>2 DEF TypeOK, OpenInbox, Jobs, Pcs, Entering
    <2>2. ScopeOK(p)'
      BY <1>2 DEF TypeOK, OpenInbox, ScopeOK, Active, Leased, Publishing, Entering
    <2>3. \A q \in Processes \ {p} : ScopeOK(q)'
      BY <1>2, OthersScope DEF TypeOK, OpenInbox
    <2> QED
      BY <1>2, <2>1, <2>2, <2>3 DEF TypeOK, OpenInbox
  <1>3. CASE TakeRequest(p)
    <2>1. pc' \in [Processes -> Pcs]
      BY <1>3 DEF TypeOK, TakeRequest, Pcs, Entering
    <2>2. ScopeOK(p)'
      BY <1>3 DEF TypeOK, TakeRequest, ScopeOK, Active, Leased, Publishing, Entering
    <2>3. \A q \in Processes \ {p} : ScopeOK(q)'
      BY <1>3, OthersScope DEF TypeOK, TakeRequest
    <2> QED
      BY <1>3, <2>1, <2>2, <2>3 DEF TypeOK, TakeRequest
  <1>4. CASE SyncInbox(p)
    <2>1. pc' \in [Processes -> Pcs] /\ runs' \in [Requests -> Nat]
      BY <1>4 DEF TypeOK, SyncInbox, Pcs, Entering, JobsAreHeld
    <2>2. ScopeOK(p)'
      BY <1>4 DEF TypeOK, SyncInbox, ScopeOK, Active, Leased, Publishing, Entering
    <2>3. \A q \in Processes \ {p} : ScopeOK(q)'
      BY <1>4, OthersScope DEF TypeOK, SyncInbox
    <2> QED
      BY <1>4, <2>1, <2>2, <2>3 DEF TypeOK, SyncInbox
  <1>5. CASE \E c \in Cycles : Observe(p, c)
    <2>0. PICK c \in Cycles : Observe(p, c)
      BY <1>5
    <2>1. /\ pc' \in [Processes -> Pcs] /\ job' \in [Processes -> Jobs \cup {None}]
          /\ now' \in [Processes -> 0..MaxTime] /\ before' \in [Processes -> 0..MaxInvocation]
          /\ incident' \in [Processes -> BOOLEAN]
      BY <2>0, ConstantsAreTyped DEF TypeOK, Observe, Examine, Pcs, Jobs
    <2>2. ScopeOK(p)'
      BY <2>0 DEF TypeOK, Observe, Examine, ScopeOK, Active, Leased, Publishing, Entering
    <2>3. \A q \in Processes \ {p} : ScopeOK(q)'
      BY <2>0, OthersScope DEF TypeOK, Observe, Examine
    <2> QED
      BY <2>0, <2>1, <2>2, <2>3 DEF TypeOK, Observe, Examine
  <1>6. CASE Inspect(p)
    <2>1. /\ pc' \in [Processes -> Pcs]
          /\ now' \in [Processes -> 0..MaxTime] /\ before' \in [Processes -> 0..MaxInvocation]
          /\ incident' \in [Processes -> BOOLEAN]
      BY <1>6, ConstantsAreTyped DEF TypeOK, Inspect, Examine, Pcs, Entering, Publishing
    <2>2. ScopeOK(p)'
      BY <1>6 DEF TypeOK, Inspect, Examine, ScopeOK, Active, Leased, Publishing, Entering,
                  JobsAreHeld
    <2>3. \A q \in Processes \ {p} : ScopeOK(q)'
      BY <1>6, OthersScope DEF TypeOK, Inspect, Examine
    <2> QED
      BY <1>6, <2>1, <2>2, <2>3 DEF TypeOK, Inspect, Examine
  <1>7. CASE Reserve(p) \/ Write(p) \/ Seal(p)
    <2>0. /\ Entry(p) \in Entries /\ ledger[p] \in Ledgers
          /\ ledger[p] = "issuance" => job[p] \in Requests
      BY <1>7, EntryIsTyped DEF Reserve, Write, Seal, Publishing, TypeOK
    <2>1. file' \in [Entries -> Stage]
      <3>1. PICK f \in {file, Synced(ledger[p], file)}, stage \in Stage :
                file' = [f EXCEPT ![Entry(p)] = stage]
        BY <1>7 DEF Reserve, Write, Seal, Stage
      <3>2. f \in [Entries -> Stage]
        BY <2>0, <3>1, SyncedIsTyped DEF TypeOK
      <3> QED
        BY <3>1, <3>2
    <2>2. /\ pc' \in [Processes -> Pcs] /\ ledger' \in [Processes -> Ledgers]
          /\ attemptAt' \in [Jobs -> 0..MaxTime] /\ issuedTo' \in Requests \cup {None}
          /\ reservedBy' \in Requests \cup {None} /\ issuanceDir' \in BOOLEAN
      <3>1. CASE Reserve(p)
        BY <2>0, <3>1 DEF TypeOK, Reserve, Pcs, Publishing
      <3>2. CASE Write(p)
        BY <2>0, <3>2 DEF TypeOK, Write, Pcs, Publishing
      <3>3. CASE Seal(p)
        <4>1. pc' \in [Processes -> Pcs]
          BY <2>0, <3>3 DEF TypeOK, Seal, Pcs, Publishing, Leased, Ledgers
        <4>2. ledger' \in [Processes -> Ledgers]
          BY <2>0, <3>3 DEF TypeOK, Seal, Ledgers
        <4> QED
          BY <3>3, <4>1, <4>2 DEF TypeOK, Seal
      <3> QED
        BY <1>7, <3>1, <3>2, <3>3
    <2>3. ScopeOK(p)'
      <3>1. pc[p] \in Publishing /\ job'[p] = job[p] /\ lease' = lease
            /\ activation' = activation /\ incident' = incident
        BY <1>7 DEF Reserve, Write, Seal, Publishing
      <3>2. pc'[p] \notin Entering /\ pc[p] \notin Entering
        BY <1>7, <2>0 DEF TypeOK, Reserve, Write, Seal, Entering, Publishing, Ledgers
      <3>3. Active(p)' <=> Active(p)
        BY <1>7, <2>0 DEF TypeOK, Reserve, Write, Seal, Active, Leased, Publishing, Ledgers
      <3> QED
        BY <1>0, <3>1, <3>2, <3>3 DEF ScopeOK, Mode, ByCommander
    <2>4. \A q \in Processes \ {p} : ScopeOK(q)'
      BY <1>7, OthersScope DEF TypeOK, Reserve, Write, Seal
    <2>5. UNCHANGED <<clock, unit, invocations, inbox, inboxOnDisk, filed, job, now, before,
                      lease, activation, incident, runs, begun, restarted, evidence, outcome,
                      faults>>
      BY <1>7 DEF Reserve, Write, Seal
    <2> QED
      BY <2>1, <2>2, <2>3, <2>4, <2>5 DEF TypeOK
  <1>8. CASE Authorize(p) /\ Authorized(p)
    <2>1. pc' \in [Processes -> Pcs]
      BY <1>8 DEF TypeOK, Authorize, Pcs
    <2>2. ScopeOK(p)'
      BY <1>8 DEF TypeOK, Authorize, ScopeOK, Active, Leased, Publishing, Entering
    <2>3. \A q \in Processes \ {p} : ScopeOK(q)'
      BY <1>8, OthersScope DEF TypeOK, Authorize
    <2> QED
      BY <1>8, <2>1, <2>2, <2>3 DEF TypeOK, Authorize
  <1>9. CASE Guard(p)
    <2>1. /\ pc' \in [Processes -> Pcs] /\ lease' \in Processes \cup {None}
          /\ activation' \in [Processes -> {None, "COMMANDER_ONLY", "AUTONOMOUS"}]
      BY <1>9 DEF TypeOK, Guard, Activate, AcquireLease, Mode, Pcs, Leased
    <2>2. ScopeOK(p)'
      BY <1>9 DEF TypeOK, Guard, Activate, AcquireLease, ScopeOK, Active, Leased, Publishing,
                  Entering, Mode, ByCommander
    <2>3. \A q \in Processes \ {p} : ScopeOK(q)'
      BY <1>9, OthersScope DEF TypeOK, Guard, Activate, AcquireLease
    <2> QED
      BY <1>9, <2>1, <2>2, <2>3, SyncedIsTyped DEF TypeOK, Guard, Ledgers
  <1>10. CASE Allow(p)
    <2>1. pc' \in [Processes -> Pcs] /\ ledger' \in [Processes -> Ledgers]
      BY <1>10 DEF TypeOK, Allow, Pcs, Publishing, Ledgers
    <2>2. ScopeOK(p)'
      BY <1>10 DEF TypeOK, Allow, ScopeOK, Active, Leased, Publishing, Entering, Mode,
                   ByCommander
    <2>3. \A q \in Processes \ {p} : ScopeOK(q)'
      BY <1>10, OthersScope DEF TypeOK, Allow
    <2> QED
      BY <1>10, <2>1, <2>2, <2>3 DEF TypeOK, Allow
  <1>11. CASE Execute(p)
    <2>1. pc' \in [Processes -> Pcs] /\ begun' \subseteq Jobs /\ restarted \subseteq begun'
      BY <1>0, <1>11 DEF TypeOK, Execute, Pcs, Leased
    <2>2. ScopeOK(p)'
      BY <1>11 DEF TypeOK, Execute, ScopeOK, Active, Leased, Publishing, Entering, Mode,
                   ByCommander
    <2>3. \A q \in Processes \ {p} : ScopeOK(q)'
      BY <1>11, OthersScope DEF TypeOK, Execute
    <2> QED
      BY <1>11, <2>1, <2>2, <2>3 DEF TypeOK, Execute
  <1>12. CASE Restart(p)
    <2>1. /\ pc' \in [Processes -> Pcs] /\ restarted' \subseteq begun
          /\ unit' \in 0..invocations' /\ invocations' \in 1..MaxInvocation
      BY <1>12, ConstantsAreTyped DEF TypeOK, Restart, Pcs, Leased, JobsAreHeld
    <2>2. ScopeOK(p)'
      BY <1>12 DEF TypeOK, Restart, ScopeOK, Active, Leased, Publishing, Entering, Mode,
                   ByCommander
    <2>3. \A q \in Processes \ {p} : ScopeOK(q)'
      BY <1>12, OthersScope DEF TypeOK, Restart
    <2> QED
      BY <1>12, <2>1, <2>2, <2>3 DEF TypeOK, Restart
  <1> QED
    BY <1>2, <1>3, <1>4, <1>5, <1>6, <1>7, <1>8, <1>9, <1>10, <1>11, <1>12 DEF GoesOn

\* What is not durable may be gone after a power loss, and no process is left.
LEMMA PowerLossIs ==
    ASSUME TypeOK, PowerLoss
    PROVE  /\ \A p \in Processes : pc'[p] = "idle" /\ ledger'[p] = "issuance" /\ job'[p] = None
           /\ file' \in [Entries -> Stage]
           /\ \A e \in Entries :
                 \/ file'[e] = file[e] /\ file[e] \notin {"reserved", "written"}
                 \/ file[e] = "reserved" /\ file'[e] \in {"none", "linked"}
                 \/ file[e] = "written" /\ file'[e] \in {"stable", "linked"}
           /\ inbox' \in {inbox, inboxOnDisk} /\ inboxOnDisk' = inbox'
           /\ reservedBy' = IF file'[Issuance] = "none" THEN None ELSE reservedBy
           /\ lease' = None
           /\ UNCHANGED <<clock, invocations, filed, issuanceDir, issuedTo, attemptAt, runs,
                          begun, restarted, evidence, outcome>>
  <1>1. PICK kept \in SUBSET Unsettled :
            file' = [e \in Entries |->
                       CASE e \notin Unsettled     -> file[e]
                         [] file[e] = "reserved"   -> IF e \in kept THEN "linked" ELSE "none"
                         [] file[e] = "written"    -> IF e \in kept THEN "stable" ELSE "linked"]
    BY DEF PowerLoss
  <1>2. \A e \in Entries :
           /\ \/ file'[e] = file[e] /\ file[e] \notin {"reserved", "written"}
              \/ file[e] = "reserved" /\ file'[e] \in {"none", "linked"}
              \/ file[e] = "written" /\ file'[e] \in {"stable", "linked"}
           /\ file'[e] \in Stage
    BY <1>1 DEF Unsettled, TypeOK, Stage
  <1>3. file' \in [Entries -> Stage]
    BY <1>1, <1>2
  <1> QED
    BY <1>2, <1>3 DEF PowerLoss, effectVars, resultVars

LEMMA PowerLossType ==
    ASSUME TypeOK, PowerLoss
    PROVE  TypeOK'
  <1>1. \A q \in Processes : ScopeOK(q)'
    BY ConstantsAreTyped
       DEF PowerLoss, ScopeOK, Active, Leased, Publishing, Entering
  <1>2. file' \in [Entries -> Stage]
    BY PowerLossIs
  <1>3. /\ unit' \in 0..invocations' /\ faults' \in 0..MaxFaults
        /\ inbox' \in Requests \cup {None} /\ inboxOnDisk' \in Requests \cup {None}
        /\ reservedBy' \in Requests \cup {None}
    BY ConstantsAreTyped DEF PowerLoss, TypeOK
  <1>4. /\ pc' \in [Processes -> Pcs] /\ ledger' \in [Processes -> Ledgers]
        /\ job' \in [Processes -> Jobs \cup {None}] /\ now' \in [Processes -> 0..MaxTime]
        /\ before' \in [Processes -> 0..MaxInvocation] /\ lease' \in Processes \cup {None}
        /\ activation' \in [Processes -> {None, "COMMANDER_ONLY", "AUTONOMOUS"}]
        /\ incident' \in [Processes -> BOOLEAN]
    BY ConstantsAreTyped DEF PowerLoss, Pcs, Entering, Ledgers
  <1>5. UNCHANGED <<clock, invocations, filed, issuanceDir, issuedTo, attemptAt, runs,
                    begun, restarted, evidence, outcome>>
    BY DEF PowerLoss, effectVars, resultVars
  <1> QED
    BY <1>1, <1>2, <1>3, <1>4, <1>5 DEF TypeOK, ScopeOK

\* Every step preserves the type invariant.
LEMMA TypeStep ==
    ASSUME TypeOK, JobsAreHeld, [Next]_vars
    PROVE  TypeOK'
  <1> USE DEF unitVars, inboxVars, recordVars, localVars, scopeVars, effectVars, resultVars
  <1>1. ASSUME NEW r \in Requests, FileRequest(r)
        PROVE  TypeOK'
    <2>1. filed' \in [Requests -> [at : 0..MaxTime, inv : 1..MaxInvocation] \cup {None}]
      BY <1>1, ConstantsAreTyped DEF FileRequest, TypeOK
    <2>2. \A q \in Processes : (Active(q)' <=> Active(q)) /\ Mode(q)' = Mode(q)
      BY <1>1 DEF FileRequest, Active, Mode, ByCommander
    <2> QED
      BY <1>1, <2>1, <2>2 DEF FileRequest, TypeOK
  <1>2. CASE Tick \/ UnitChanges
    <2>1. \A q \in Processes : (Active(q)' <=> Active(q)) /\ Mode(q)' = Mode(q)
      BY <1>2 DEF Tick, UnitChanges, Active, Mode, ByCommander
    <2>2. /\ clock' \in 0..MaxTime
          /\ unit' \in 0..invocations' /\ invocations' \in 1..MaxInvocation
      BY <1>2, ConstantsAreTyped DEF Tick, UnitChanges, TypeOK
    <2>3. UNCHANGED <<inbox, inboxOnDisk, filed, issuanceDir, evidence, file, issuedTo,
                      attemptAt, lease, pc, ledger, job, now, before, activation, incident,
                      reservedBy, runs, begun, restarted, outcome, faults>>
      BY <1>2 DEF Tick, UnitChanges
    <2> QED
      BY <2>1, <2>2, <2>3 DEF TypeOK
  <1>3. CASE UNCHANGED vars
    <2>1. \A q \in Processes : (Active(q)' <=> Active(q)) /\ Mode(q)' = Mode(q)
      BY <1>3 DEF vars, Active, Mode, ByCommander
    <2> QED
      BY <1>3, <2>1 DEF vars, TypeOK
  <1> QED
    BY <1>1, <1>2, <1>3, StepKinds, LeavesType, GoesOnType, PowerLossType

----------------------------------------------------------------------------
(***************************************************************************)
(* What the processes hold.                                                *)
(***************************************************************************)

\* A process leaves the others alone.
LEMMA OthersStay ==
    ASSUME TypeOK, NEW p \in Processes, Leaves(p) \/ GoesOn(p),
           NEW q \in Processes, q # p
    PROVE  /\ pc'[q] = pc[q] /\ ledger'[q] = ledger[q]
           /\ job'[q] = job[q] /\ now'[q] = now[q]
  <1> USE DEF TypeOK, Goto, localVars
  <1>1. CASE Leaves(p)
    BY <1>1 DEF Leaves, Forget
  <1>2. CASE OpenInbox(p) \/ TakeRequest(p) \/ SyncInbox(p)
    BY <1>2 DEF OpenInbox, TakeRequest, SyncInbox
  <1>3. CASE Inspect(p)
    BY <1>3 DEF Inspect, Examine
  <1>4. CASE \E c \in Cycles : Observe(p, c)
    BY <1>4 DEF Observe, Examine
  <1>5. CASE Reserve(p) \/ Write(p)
    BY <1>5 DEF Reserve, Write
  <1>6. CASE Seal(p)
    BY <1>6 DEF Seal
  <1>7. CASE Authorize(p) /\ Authorized(p)
    BY <1>7 DEF Authorize
  <1>8. CASE Guard(p) \/ Allow(p) \/ Execute(p) \/ Restart(p)
    BY <1>8 DEF Guard, Allow, Execute, Restart
  <1> QED
    BY <1>1, <1>2, <1>3, <1>4, <1>5, <1>6, <1>7, <1>8 DEF GoesOn

\* Where a job that goes on takes its process.
LEMMA PointsOfJob ==
    ASSUME TypeOK, JobsAreHeld, NEW p \in Processes, GoesOn(p)
    PROVE  \/ OpenInbox(p) /\ pc[p] = "idle" /\ pc'[p] = "opened" /\ ledger'[p] = ledger[p]
              /\ job'[p] = inbox /\ inbox \in Requests
           \/ \E c \in Cycles : Observe(p, c) /\ pc[p] = "idle" /\ pc'[p] = "guard"
                                /\ ledger'[p] = ledger[p] /\ job'[p] = c
           \/ /\ job'[p] = job[p] /\ job[p] \in Jobs
              /\ \/ /\ ledger'[p] = ledger[p]
                    /\ \/ TakeRequest(p) /\ pc[p] = "opened" /\ pc'[p] = "unlinked"
                       \/ SyncInbox(p) /\ pc[p] = "unlinked" /\ pc'[p] = "inspect"
                       \/ Inspect(p) /\ pc[p] = "inspect" /\ pc'[p] = "reserve"
                       \/ Reserve(p) /\ pc[p] = "reserve" /\ pc'[p] = "write"
                       \/ Write(p) /\ pc[p] = "write" /\ pc'[p] = "seal"
                       \/ Authorize(p) /\ Authorized(p) /\ pc[p] = "authorize"
                          /\ pc'[p] = "guard"
                       \/ Guard(p) /\ pc[p] = "guard" /\ pc'[p] = "budget"
                       \/ Execute(p) /\ pc[p] = "execute" /\ pc'[p] = "effect"
                       \/ Restart(p) /\ pc[p] = "effect" /\ pc'[p] = "verify"
                 \/ Allow(p) /\ pc[p] = "budget" /\ pc'[p] = "reserve"
                    /\ ledger'[p] = "attempt"
                 \/ /\ Seal(p) /\ pc[p] = "seal"
                    /\ \/ /\ ledger[p] = "issuance" /\ ledger'[p] = "consumption"
                          /\ pc'[p] = "reserve"
                       \/ /\ ledger[p] = "consumption" /\ ledger'[p] = "consumption"
                          /\ pc'[p] = "authorize"
                       \/ /\ ledger[p] = "attempt" /\ ledger'[p] = "attempt"
                          /\ pc'[p] = "execute"
  <1> USE DEF TypeOK, Goto, localVars
  <1>1. pc[p] # "idle" => job[p] \in Jobs
    BY DEF JobsAreHeld
  <1>2. CASE OpenInbox(p)
    BY <1>2 DEF OpenInbox
  <1>3. CASE \E c \in Cycles : Observe(p, c)
    BY <1>3 DEF Observe, Examine
  <1>4. CASE TakeRequest(p) \/ SyncInbox(p)
    BY <1>1, <1>4 DEF TakeRequest, SyncInbox
  <1>5. CASE Inspect(p)
    BY <1>1, <1>5 DEF Inspect, Examine
  <1>6. CASE Reserve(p) \/ Write(p)
    BY <1>1, <1>6 DEF Reserve, Write
  <1>7. CASE Seal(p)
    <2>1. ledger[p] \in Ledgers
      OBVIOUS
    <2> QED
      BY <1>1, <1>7, <2>1 DEF Seal, Ledgers
  <1>8. CASE Authorize(p) /\ Authorized(p)
    BY <1>1, <1>8 DEF Authorize
  <1>9. CASE Guard(p) \/ Allow(p) \/ Execute(p) \/ Restart(p)
    BY <1>1, <1>9 DEF Guard, Allow, Execute, Restart
  <1> QED
    BY <1>2, <1>3, <1>4, <1>5, <1>6, <1>7, <1>8, <1>9 DEF GoesOn

\* The steps of the environment leave every process alone.
LEMMA EnvironmentLeaves ==
    ASSUME Tick \/ UnitChanges \/ (\E r \in Requests : FileRequest(r)) \/ UNCHANGED vars
    PROVE  /\ UNCHANGED <<pc, ledger, job, now, lease, file, issuedTo, attemptAt, reservedBy,
                          runs, begun>>
           /\ (\E r \in Requests : FileRequest(r)) \/ UNCHANGED <<inbox, inboxOnDisk, filed>>
  BY DEF Tick, UnitChanges, FileRequest, vars, unitVars, inboxVars, recordVars, localVars,
         scopeVars, effectVars, resultVars

\* A job is begun by the process that executes it, and stays begun.
LEMMA BegunStep ==
    ASSUME TypeOK, [Next]_vars
    PROVE  \/ UNCHANGED begun
           \/ \E p \in Processes : Execute(p) /\ begun' = begun \cup {job[p]}
  <1>1. ASSUME NEW p \in Processes, GoesOn(p)
        PROVE  UNCHANGED begun \/ (Execute(p) /\ begun' = begun \cup {job[p]})
    BY <1>1 DEF GoesOn, OpenInbox, TakeRequest, SyncInbox, Inspect, Observe, Reserve, Write,
           Seal, Authorize, Guard, Allow, Execute, Restart, effectVars
  <1>2. ASSUME NEW p \in Processes, Leaves(p)
        PROVE  UNCHANGED begun
    BY <1>2 DEF Leaves
  <1>3. PowerLoss => UNCHANGED begun
    BY DEF PowerLoss, effectVars
  <1> QED
    BY <1>1, <1>2, <1>3, StepKinds, EnvironmentLeaves

\* A step leaves each process with what it needs at its point.
LEMMA JobsStep ==
    ASSUME TypeOK, JobsAreHeld, [Next]_vars
    PROVE  JobsAreHeld'
  <1>1. begun \subseteq begun'
    BY BegunStep
  <1>2. ASSUME NEW p \in Processes, Leaves(p)
        PROVE  JobsAreHeld'
    <2>1. pc'[p] = "idle" /\ ledger'[p] = "issuance"
      BY <1>2 DEF Leaves, Forget, Goto, TypeOK
    <2> QED
      BY <1>1, <1>2, <2>1, OthersStay
         DEF JobsAreHeld, OnAttempt, Entering, Publishing
  <1>3. ASSUME NEW p \in Processes, GoesOn(p)
        PROVE  JobsAreHeld'
    <2>1. Execute(p) => job[p] \in begun'
      BY DEF Execute
    <2>2. /\ pc'[p] # "idle" => job'[p] \in Jobs
          /\ pc'[p] \in {"opened", "unlinked", "inspect", "authorize"} => job'[p] \in Requests
          /\ pc'[p] \in Entering => ledger'[p] = "issuance"
          /\ pc'[p] = "authorize" => ledger'[p] = "consumption"
          /\ pc'[p] \in Publishing /\ ~OnAttempt(p)' => job'[p] \in Requests
          /\ pc'[p] \in {"effect", "verify"} => job'[p] \in begun'
          /\ pc'[p] \in {"execute", "effect", "verify"} => ledger'[p] = "attempt"
      BY <1>1, <1>3, <2>1, PointsOfJob
         DEF JobsAreHeld, OnAttempt, Entering, Publishing, Jobs
    <2> QED
      BY <1>1, <1>3, <2>2, OthersStay
         DEF JobsAreHeld, OnAttempt, Entering, Publishing
  <1>4. CASE PowerLoss
    BY <1>4, PowerLossIs DEF JobsAreHeld, OnAttempt, Entering, Publishing
  <1>5. CASE Tick \/ UnitChanges \/ (\E r \in Requests : FileRequest(r)) \/ UNCHANGED vars
    BY <1>5, EnvironmentLeaves DEF JobsAreHeld, OnAttempt, Entering, Publishing
  <1> QED
    BY <1>2, <1>3, <1>4, <1>5, StepKinds

\* The lease is taken before anything that needs it, and given up with the job.
LEMMA LeaseStep ==
    ASSUME TypeOK, JobsAreHeld, LeaseIsHeld, [Next]_vars
    PROVE  LeaseIsHeld'
  <1>1. ASSUME NEW p \in Processes, Leaves(p)
        PROVE  LeaseIsHeld'
    <2>1. ~Active(p)'
      BY <1>1 DEF Leaves, Forget, Goto, TypeOK, Active, Leased, Publishing
    <2>2. ASSUME NEW q \in Processes, q # p, lease = q
          PROVE  lease' = q
      BY <1>1, <2>2 DEF Leaves, Release
    <2>3. ASSUME NEW q \in Processes, q # p
          PROVE  Active(q)' <=> Active(q)
      BY <1>1, <2>3, OthersStay DEF Active
    <2> QED
      BY <2>1, <2>2, <2>3 DEF LeaseIsHeld
  <1>2. ASSUME NEW p \in Processes, GoesOn(p)
        PROVE  LeaseIsHeld'
    <2>1. Guard(p) \/ UNCHANGED lease
      BY <1>2 DEF GoesOn, OpenInbox, TakeRequest, SyncInbox, Inspect, Observe, Reserve, Write,
             Seal, Authorize, Guard, Allow, Execute, Restart, scopeVars
    <2>2. Guard(p) => lease = None /\ lease' = p
      BY DEF Guard, AcquireLease
    <2>3. Active(p)' => Active(p) \/ Guard(p)
      BY <1>2, PointsOfJob DEF Active, Leased, Publishing, JobsAreHeld, Entering
    <2>4. ASSUME NEW q \in Processes, q # p
          PROVE  Active(q)' <=> Active(q)
      BY <1>2, <2>4, OthersStay DEF Active
    <2> QED
      BY <2>1, <2>2, <2>3, <2>4, ConstantsAreTyped DEF LeaseIsHeld
  <1>3. CASE PowerLoss
    BY <1>3, PowerLossIs DEF LeaseIsHeld, Active, Leased, Publishing
  <1>4. CASE Tick \/ UnitChanges \/ (\E r \in Requests : FileRequest(r)) \/ UNCHANGED vars
    BY <1>4, EnvironmentLeaves DEF LeaseIsHeld, Active
  <1> QED
    BY <1>1, <1>2, <1>3, <1>4, StepKinds

----------------------------------------------------------------------------
(***************************************************************************)
(* A request runs once.                                                    *)
(***************************************************************************)

\* Only four steps of a process touch what is known of the requests.
LEMMA InboxStep ==
    ASSUME TypeOK, NEW p \in Processes, Leaves(p) \/ GoesOn(p)
    PROVE  /\ UNCHANGED filed
           /\ OpenInbox(p) \/ TakeRequest(p) \/ SyncInbox(p)
                 \/ UNCHANGED <<inbox, inboxOnDisk, runs>>
  BY DEF Leaves, GoesOn, OpenInbox, TakeRequest, SyncInbox, Inspect, Observe, Reserve, Write,
         Seal, Authorize, Guard, Allow, Execute, Restart, inboxVars

\* A request leaves the inbox once for good: the file system's copy of the inbox may bring
\* it back only as long as it was not processed.
LEMMA TakenStep ==
    ASSUME TypeOK, JobsAreHeld, TakenIsGone, [Next]_vars
    PROVE  TakenIsGone'
  <1>0. /\ inbox \in Requests \cup {None} /\ runs \in [Requests -> Nat] /\ None \notin Requests
        /\ \A r \in Requests : r \notin Cycles
    BY ConstantsAreTyped DEF TypeOK
  <1>1. ASSUME NEW r \in Requests, FileRequest(r)
        PROVE  TakenIsGone'
    <2>0. [at |-> clock, inv |-> unit] \in [at : Nat, inv : Nat]
      BY DEF TypeOK
    <2>1. /\ inbox = None /\ filed[r] = None /\ inbox' = r /\ inboxOnDisk' = r
          /\ \A s \in Requests : filed'[s] = None => filed[s] = None /\ s # r
          /\ UNCHANGED <<runs, pc, job>>
      <3>1. [at |-> clock, inv |-> unit] # None
        BY <2>0, ConstantsAreTyped
      <3> QED
        BY <1>1, <3>1 DEF FileRequest, TypeOK, localVars
    <2> QED
      BY <1>0, <2>1 DEF TakenIsGone, RequestRunsOnce
  <1>2. ASSUME NEW p \in Processes, Leaves(p)
        PROVE  TakenIsGone'
    <2>1. pc'[p] = "idle" /\ job'[p] = None /\ UNCHANGED <<filed, inbox, inboxOnDisk, runs>>
      BY <1>2 DEF Leaves, Forget, Goto, TypeOK
    <2> QED
      BY <1>0, <1>2, <2>1, OthersStay DEF TakenIsGone, RequestRunsOnce
  <1>3. ASSUME NEW p \in Processes, GoesOn(p), ~OpenInbox(p), ~TakeRequest(p), ~SyncInbox(p)
        PROVE  TakenIsGone'
    <2>1. pc'[p] # "unlinked" /\ (job'[p] = job[p] \/ job'[p] \in Cycles)
      BY <1>3, PointsOfJob DEF Entering, Publishing, JobsAreHeld
    <2>2. UNCHANGED <<filed, inbox, inboxOnDisk, runs>>
      BY <1>3, InboxStep
    <2> QED
      BY <1>0, <1>3, <2>1, <2>2, OthersStay DEF TakenIsGone, RequestRunsOnce
  <1>4. ASSUME NEW p \in Processes, OpenInbox(p)
        PROVE  TakenIsGone'
    <2>1. /\ pc'[p] = "opened" /\ job'[p] = inbox /\ inbox \in Requests
          /\ UNCHANGED <<filed, inbox, inboxOnDisk, runs>>
      BY <1>0, <1>4 DEF OpenInbox, Goto, TypeOK, inboxVars
    <2>2. filed[inbox] # None
      BY <2>1 DEF TakenIsGone
    <2> QED
      BY <1>0, <1>4, <2>1, <2>2, OthersStay DEF TakenIsGone, RequestRunsOnce, GoesOn
  <1>5. ASSUME NEW p \in Processes, TakeRequest(p)
        PROVE  TakenIsGone'
    <2>1. /\ pc'[p] = "unlinked" /\ job' = job /\ inbox = job[p] /\ inbox' = None
          /\ job[p] \in Requests /\ UNCHANGED <<filed, inboxOnDisk, runs>>
      BY <1>5 DEF TakeRequest, IsOpenedFile, Goto, TypeOK, localVars, JobsAreHeld
    <2>2. \A q \in Processes \ {p} : pc'[q] = pc[q]
      BY <1>5, OthersStay DEF GoesOn
    <2>3. runs[job[p]] = 0 /\ filed[job[p]] # None
      BY <2>1 DEF TakenIsGone
    <2>4. \A q \in Processes \ {p} : pc[q] = "unlinked" => job[q] # job[p]
      BY <2>1 DEF TakenIsGone
    <2>5. \A r \in Requests : filed'[r] = None =>
             /\ inbox' # r /\ inboxOnDisk' # r /\ runs'[r] = 0
             /\ \A q \in Processes : job'[q] # r
      BY <1>0, <2>1 DEF TakenIsGone
    <2>6. \A r \in Requests : runs'[r] # 0 =>
             /\ inbox' # r /\ inboxOnDisk' # r
             /\ \A q \in Processes : ~(pc'[q] = "unlinked" /\ job'[q] = r)
      <3>1. \A r \in Requests : runs[r] # 0 =>
               /\ r # job[p] /\ inboxOnDisk # r
               /\ \A q \in Processes : ~(pc[q] = "unlinked" /\ job[q] = r)
        BY <2>3 DEF TakenIsGone
      <3>2. inbox' \notin Requests /\ runs' = runs /\ inboxOnDisk' = inboxOnDisk /\ job' = job
        BY <1>0, <2>1
      <3> QED
        BY <2>2, <3>1, <3>2
    <2>7. \A q \in Processes : pc'[q] = "unlinked" =>
             /\ inbox' # job'[q]
             /\ \A s \in Processes : pc'[s] = "unlinked" /\ job'[s] = job'[q] => s = q
      <3>1. \A q \in Processes : pc'[q] = "unlinked" => job[q] \in Requests
        BY <2>1, <2>2 DEF JobsAreHeld
      <3>2. \A q, s \in Processes \ {p} :
               pc[q] = "unlinked" /\ pc[s] = "unlinked" /\ job[s] = job[q] => s = q
        BY DEF TakenIsGone
      <3> QED
        BY <1>0, <2>1, <2>2, <2>4, <3>1, <3>2
    <2>8. RequestRunsOnce'
      BY <2>1 DEF TakenIsGone, RequestRunsOnce
    <2> QED
      BY <2>5, <2>6, <2>7, <2>8 DEF TakenIsGone
  <1>6. ASSUME NEW p \in Processes, SyncInbox(p)
        PROVE  TakenIsGone'
    <2>1. /\ pc[p] = "unlinked" /\ pc'[p] = "inspect" /\ job' = job /\ job[p] \in Requests
          /\ inboxOnDisk' = inbox /\ runs' = [runs EXCEPT ![job[p]] = @ + 1]
          /\ UNCHANGED <<filed, inbox>>
      BY <1>6 DEF SyncInbox, Goto, TypeOK, localVars, JobsAreHeld
    <2>2. runs[job[p]] = 0 /\ inbox # job[p] /\ filed[job[p]] # None
      BY <2>1 DEF TakenIsGone
    <2>3. /\ runs'[job[p]] = 1
          /\ \A r \in Requests : r # job[p] => runs'[r] = runs[r]
      BY <1>0, <2>1, <2>2
    <2>4. \A q \in Processes : pc'[q] = "unlinked" => q # p /\ pc[q] = "unlinked"
      BY <1>6, <2>1, OthersStay DEF GoesOn
    <2>5. \A q \in Processes : pc'[q] = "unlinked" => job[q] # job[p]
      BY <2>1, <2>4 DEF TakenIsGone
    <2> QED
      BY <1>0, <2>1, <2>2, <2>3, <2>4, <2>5 DEF TakenIsGone, RequestRunsOnce
  <1>7. CASE PowerLoss
    BY <1>0, <1>7, PowerLossIs DEF TakenIsGone, RequestRunsOnce
  <1>8. CASE Tick \/ UnitChanges \/ UNCHANGED vars
    <2>1. UNCHANGED <<filed, inbox, inboxOnDisk, runs, pc, job>>
      BY <1>8 DEF Tick, UnitChanges, vars, inboxVars, localVars
    <2> QED
      BY <2>1 DEF TakenIsGone, RequestRunsOnce
  <1> QED
    BY <1>1, <1>2, <1>3, <1>4, <1>5, <1>6, <1>7, <1>8, StepKinds

----------------------------------------------------------------------------
(***************************************************************************)
(* Records and their durability.                                           *)
(***************************************************************************)

\* What a step of a process does to the entries of the ledgers.
LEMMA FileStep ==
    ASSUME TypeOK, JobsAreHeld, NEW p \in Processes, Leaves(p) \/ GoesOn(p)
    PROVE  /\ \A e \in Entries :
                 \/ file'[e] = file[e]
                 \/ file[e] = "reserved" /\ file'[e] = "linked"
                 \/ e = Entry(p) /\ (Reserve(p) \/ Write(p) \/ Seal(p))
           /\ Reserve(p) => file[Entry(p)] = "none" /\ file'[Entry(p)] = "reserved"
           /\ Write(p) => file'[Entry(p)] = "written"
           /\ Seal(p) => file'[Entry(p)] = "stable"
  <1>0. file \in [Entries -> Stage]
    BY DEF TypeOK
  <1>1. CASE Reserve(p) \/ Write(p) \/ Seal(p)
    <2>1. Entry(p) \in Entries /\ ledger[p] \in Ledgers
      BY <1>1, EntryIsTyped DEF Reserve, Write, Seal, Publishing, TypeOK
    <2>2. PICK f \in {file, Synced(ledger[p], file)}, stage \in {"reserved", "written", "stable"} :
              /\ file' = [f EXCEPT ![Entry(p)] = stage]
              /\ Reserve(p) => f = file /\ stage = "reserved"
              /\ Write(p) => stage = "written"
              /\ Seal(p) => stage = "stable"
      <3>1. ~(Reserve(p) /\ Write(p)) /\ ~(Reserve(p) /\ Seal(p)) /\ ~(Write(p) /\ Seal(p))
        BY DEF Reserve, Write, Seal
      <3>2. CASE Reserve(p)
        BY <3>1, <3>2 DEF Reserve
      <3>3. CASE Write(p)
        BY <3>1, <3>3 DEF Write
      <3>4. CASE Seal(p)
        BY <3>1, <3>4 DEF Seal
      <3> QED
        BY <1>1, <3>2, <3>3, <3>4
    <2>3. /\ f \in [Entries -> Stage]
          /\ \A e \in Entries : f[e] = file[e] \/ (file[e] = "reserved" /\ f[e] = "linked")
      BY <1>0, <2>1, <2>2, SyncedIsTyped
    <2>4. file'[Entry(p)] = stage /\ \A e \in Entries : e # Entry(p) => file'[e] = f[e]
      BY <2>1, <2>2, <2>3
    <2>5. Reserve(p) => file[Entry(p)] = "none"
      BY DEF Reserve, Free
    <2> QED
      BY <1>1, <2>2, <2>3, <2>4, <2>5
  <1>2. CASE ~(Reserve(p) \/ Write(p) \/ Seal(p))
    <2>1. file' = file \/ file' = Synced("attempt", file)
      BY <1>2 DEF Leaves, GoesOn, OpenInbox, TakeRequest, SyncInbox, Inspect, Observe,
             Authorize, Guard, Allow, Execute, Restart, recordVars
    <2> QED
      BY <1>2, <2>1, SyncedIsTyped DEF Ledgers
  <1> QED
    BY <1>1, <1>2

\* What is stable stays so, and the entry of a record is written by one process.
LEMMA StableStays ==
    ASSUME TypeOK, JobsAreHeld, EntriesAreExclusive, [Next]_vars, NEW e \in Entries,
           file[e] = "stable"
    PROVE  file'[e] = "stable"
  <1>1. ASSUME NEW p \in Processes, Leaves(p) \/ GoesOn(p)
        PROVE  file'[e] = "stable"
    BY <1>1, FileStep DEF EntriesAreExclusive, Write, Seal
  <1>2. PowerLoss => file'[e] = "stable"
    BY PowerLossIs
  <1> QED
    BY <1>1, <1>2, StepKinds, EnvironmentLeaves

LEMMA EntriesStep ==
    ASSUME TypeOK, JobsAreHeld, EntriesAreExclusive, [Next]_vars
    PROVE  EntriesAreExclusive'
  <1>1. ASSUME NEW p \in Processes, Leaves(p) \/ GoesOn(p)
        PROVE  EntriesAreExclusive'
    <2>1. ASSUME NEW q \in Processes, q # p, pc'[q] \in {"write", "seal"}
          PROVE  /\ pc[q] = pc'[q] /\ Entry(q)' = Entry(q) /\ Entry(q) \in Entries
                 /\ pc[q] = "write" => file'[Entry(q)] \in {"reserved", "linked"}
                 /\ pc[q] = "seal" => file'[Entry(q)] = "written"
                 /\ file[Entry(q)] \in {"reserved", "linked", "written"}
      <3>1. pc'[q] = pc[q] /\ Entry(q)' = Entry(q)
        BY <1>1, <2>1, OthersStay DEF Entry
      <3>2. Entry(q) \in Entries
        BY <2>1, <3>1, EntryIsTyped DEF Publishing
      <3>3. ~((Reserve(p) \/ Write(p) \/ Seal(p)) /\ Entry(q) = Entry(p))
        BY <2>1, <3>1, FileStep, <1>1 DEF EntriesAreExclusive, Reserve, Write, Seal, Free
      <3> QED
        BY <1>1, <2>1, <3>1, <3>2, <3>3, FileStep DEF EntriesAreExclusive
    <2>2. ASSUME pc'[p] \in {"write", "seal"}
          PROVE  /\ Entry(p)' = Entry(p) /\ (Reserve(p) \/ Write(p))
                 /\ pc'[p] = "write" => file'[Entry(p)] = "reserved"
                 /\ pc'[p] = "seal" => file'[Entry(p)] = "written"
      <3>1. ~Leaves(p)
        BY <2>2 DEF Leaves, Forget, Goto, TypeOK
      <3>2. /\ (Reserve(p) /\ pc'[p] = "write") \/ (Write(p) /\ pc'[p] = "seal")
            /\ ledger'[p] = ledger[p] /\ job'[p] = job[p]
        BY <1>1, <2>2, <3>1, PointsOfJob DEF JobsAreHeld, Entering
      <3> QED
        BY <1>1, <3>2, FileStep DEF Entry
    <2>3. ASSUME NEW q \in Processes, q # p, pc'[q] \in {"write", "seal"},
                 pc'[p] \in {"write", "seal"}
          PROVE  Entry(q)' # Entry(p)'
      BY <1>1, <2>1, <2>2, <2>3, FileStep DEF EntriesAreExclusive, Reserve, Write, Free
    <2> QED
      BY <2>1, <2>2, <2>3 DEF EntriesAreExclusive
  <1>2. CASE PowerLoss
    BY <1>2, PowerLossIs DEF EntriesAreExclusive
  <1>3. CASE Tick \/ UnitChanges \/ (\E r \in Requests : FileRequest(r)) \/ UNCHANGED vars
    BY <1>3, EnvironmentLeaves DEF EntriesAreExclusive, Entry
  <1> QED
    BY <1>1, <1>2, <1>3, StepKinds

----------------------------------------------------------------------------
(***************************************************************************)
(* What the records say.                                                   *)
(***************************************************************************)

\* The steps of a process that change what an issuance or an attempt says.
LEMMA RecordStep ==
    ASSUME TypeOK, NEW p \in Processes, Leaves(p) \/ GoesOn(p)
    PROVE  /\ reservedBy' = IF Reserve(p) /\ ledger[p] = "issuance" THEN job[p] ELSE reservedBy
           /\ issuedTo' = IF Write(p) /\ ledger[p] = "issuance" THEN job[p] ELSE issuedTo
           /\ attemptAt' = IF Write(p) /\ ledger[p] = "attempt"
                           THEN [attemptAt EXCEPT ![job[p]] = now[p]] ELSE attemptAt
  <1>1. CASE Leaves(p)
    <2>1. UNCHANGED <<reservedBy, issuedTo, attemptAt>> /\ pc'[p] = "idle"
      BY <1>1 DEF Leaves, Forget, Goto, TypeOK
    <2>2. ~Reserve(p) /\ ~Write(p)
      BY <2>1 DEF Reserve, Write, Goto, TypeOK
    <2> QED
      BY <2>1, <2>2
  <1>2. CASE Reserve(p)
    BY <1>2 DEF Reserve, Write
  <1>3. CASE Write(p)
    BY <1>3 DEF Reserve, Write
  <1>4. CASE GoesOn(p) /\ ~Reserve(p) /\ ~Write(p)
    BY <1>4 DEF GoesOn, OpenInbox, TakeRequest, SyncInbox, Inspect, Observe, Seal, Authorize,
           Guard, Allow, Execute, Restart, recordVars
  <1> QED
    BY <1>1, <1>2, <1>3, <1>4

\* The issuance is reserved by one request and names it.
LEMMA IssuanceStep ==
    ASSUME TypeOK, JobsAreHeld, EntriesAreExclusive, IssuanceIsOwned, [Next]_vars
    PROVE  IssuanceIsOwned'
  <1>0. Issuance \in Entries /\ file \in [Entries -> Stage] /\ None \notin Requests
    BY Names, ConstantsAreTyped DEF TypeOK
  <1>1. ASSUME NEW p \in Processes, Leaves(p) \/ GoesOn(p)
        PROVE  IssuanceIsOwned'
    <2>1. /\ Reserve(p) \/ Write(p) \/ Seal(p) => (Entry(p) = Issuance <=> ledger[p] = "issuance")
          /\ Reserve(p) /\ ledger[p] = "issuance" => job[p] \in Requests
      BY EntryIsTyped DEF Reserve, Write, Seal, Publishing, Issuance, Attempt, TypeOK, Ledgers
    <2>2. /\ Write(p) => pc[p] = "write" /\ file[Entry(p)] \in {"reserved", "linked"}
          /\ Seal(p) => pc[p] = "seal" /\ file[Entry(p)] = "written"
      BY DEF Write, Seal, EntriesAreExclusive
    <2>3. \/ file'[Issuance] = file[Issuance]
          \/ file[Issuance] = "reserved" /\ file'[Issuance] = "linked"
          \/ Reserve(p) /\ ledger[p] = "issuance" /\ file[Issuance] = "none"
             /\ file'[Issuance] = "reserved"
          \/ Write(p) /\ ledger[p] = "issuance" /\ file[Issuance] \in {"reserved", "linked"}
             /\ file'[Issuance] = "written"
          \/ Seal(p) /\ ledger[p] = "issuance" /\ file[Issuance] = "written"
             /\ file'[Issuance] = "stable"
      BY <1>0, <1>1, <2>1, <2>2, FileStep
    <2>4. Reserve(p) /\ ledger[p] = "issuance" =>
             file[Issuance] = "none" /\ file'[Issuance] = "reserved"
      BY <1>1, <2>1, FileStep
    <2>5. Write(p) /\ ledger[p] = "issuance" =>
             reservedBy = job[p] /\ file[Issuance] \in {"reserved", "linked"} /\ ~Reserve(p)
      BY <2>1, <2>2 DEF IssuanceIsOwned, Reserve
    <2>6. reservedBy' = None <=> file'[Issuance] = "none"
      <3>1. CASE Reserve(p) /\ ledger[p] = "issuance"
        BY <1>0, <1>1, <2>1, <2>4, <3>1, RecordStep
      <3>2. CASE ~(Reserve(p) /\ ledger[p] = "issuance")
        BY <1>1, <2>3, <3>2, RecordStep DEF IssuanceIsOwned
      <3> QED
        BY <3>1, <3>2
    <2>7. Readable(Issuance)' => issuedTo' = reservedBy'
      <3>1. CASE Reserve(p) /\ ledger[p] = "issuance"
        BY <2>4, <3>1 DEF Readable
      <3>2. CASE Write(p) /\ ledger[p] = "issuance"
        BY <1>1, <2>5, <3>2, RecordStep
      <3>3. CASE ~(Reserve(p) /\ ledger[p] = "issuance") /\ ~(Write(p) /\ ledger[p] = "issuance")
        <4>1. Readable(Issuance)' => Readable(Issuance)
          BY <2>3, <3>3 DEF Readable
        <4> QED
          BY <1>1, <3>3, <4>1, RecordStep DEF IssuanceIsOwned
      <3> QED
        BY <3>1, <3>2, <3>3
    <2>8. ASSUME NEW q \in Processes, pc'[q] \in {"write", "seal"}, ledger'[q] = "issuance"
          PROVE  reservedBy' = job'[q]
      <3>1. CASE q = p
        <4>1. (Reserve(p) \/ Write(p)) /\ ledger[p] = "issuance" /\ job'[p] = job[p]
          <5>1. ~Leaves(p)
            BY <2>8, <3>1 DEF Leaves, Forget, Goto, TypeOK
          <5> QED
            BY <1>1, <2>8, <3>1, <5>1, PointsOfJob DEF JobsAreHeld, Entering
        <4> QED
          BY <1>1, <2>5, <3>1, <4>1, RecordStep
      <3>2. CASE q # p
        <4>1. pc[q] \in {"write", "seal"} /\ ledger[q] = "issuance" /\ job'[q] = job[q]
          BY <1>1, <2>8, <3>2, OthersStay
        <4>2. Entry(q) = Issuance /\ file[Issuance] # "none"
          BY <4>1 DEF Entry, EntriesAreExclusive
        <4>3. ~(Reserve(p) /\ ledger[p] = "issuance")
          BY <2>4, <4>2
        <4> QED
          BY <1>1, <4>1, <4>3, RecordStep DEF IssuanceIsOwned
      <3> QED
        BY <3>1, <3>2
    <2> QED
      BY <2>6, <2>7, <2>8 DEF IssuanceIsOwned
  <1>2. CASE PowerLoss
    <2>1. /\ file'[Issuance] = "none" => file[Issuance] \in {"none", "reserved"}
          /\ file'[Issuance] # "none" => file[Issuance] # "none"
          /\ Readable(Issuance)' => Readable(Issuance) /\ file'[Issuance] # "none"
      BY <1>0, <1>2, PowerLossIs DEF Readable
    <2> QED
      BY <1>2, <2>1, PowerLossIs DEF IssuanceIsOwned
  <1>3. CASE Tick \/ UnitChanges \/ (\E r \in Requests : FileRequest(r)) \/ UNCHANGED vars
    BY <1>3, EnvironmentLeaves DEF IssuanceIsOwned, Readable
  <1> QED
    BY <1>1, <1>2, <1>3, StepKinds

\* A durable issuance names the same request for good.
LEMMA IssuedStays ==
    ASSUME TypeOK, JobsAreHeld, EntriesAreExclusive, [Next]_vars, file[Issuance] = "stable"
    PROVE  file'[Issuance] = "stable" /\ issuedTo' = issuedTo
  <1>1. file'[Issuance] = "stable"
    BY StableStays, Names
  <1>2. ASSUME NEW p \in Processes, Leaves(p) \/ GoesOn(p)
        PROVE  issuedTo' = issuedTo
    <2>1. ~(Write(p) /\ ledger[p] = "issuance")
      BY DEF Write, Entry, EntriesAreExclusive
    <2> QED
      BY <1>2, <2>1, RecordStep
  <1> QED
    BY <1>1, <1>2, StepKinds, EnvironmentLeaves, PowerLossIs

\* No request gets past a publication without the records behind it.
LEMMA AuthorizedStep ==
    ASSUME TypeOK, JobsAreHeld, EntriesAreExclusive, IssuanceIsOwned, RequestsAreAuthorized,
           [Next]_vars
    PROVE  RequestsAreAuthorized'
  <1>1. \A r \in Requests : file[<<"consumption", r>>] = "stable"
                               => file'[<<"consumption", r>>] = "stable"
    BY StableStays, Names
  <1>2. ASSUME NEW p \in Processes, Leaves(p) \/ GoesOn(p), NEW q \in Processes, q # p,
               job'[q] \in Requests
        PROVE  /\ ledger'[q] \in {"consumption", "attempt"}
                     \/ pc'[q] \in {"authorize", "guard"} \cup Leased
                     => file'[Issuance] = "stable" /\ issuedTo' = job'[q]
               /\ pc'[q] \in {"authorize", "guard"} \cup Leased \/ ledger'[q] = "attempt"
                     => file'[<<"consumption", job'[q]>>] = "stable"
    <2>1. pc'[q] = pc[q] /\ ledger'[q] = ledger[q] /\ job'[q] = job[q]
      BY <1>2, OthersStay
    <2> QED
      BY <1>1, <1>2, <2>1, IssuedStays DEF RequestsAreAuthorized
  <1>3. ASSUME NEW p \in Processes, Leaves(p)
        PROVE  job'[p] \notin Requests
    BY <1>3, ConstantsAreTyped DEF Leaves, Forget, TypeOK
  <1>4. ASSUME NEW p \in Processes, GoesOn(p), job'[p] \in Requests
        PROVE  /\ ledger'[p] \in {"consumption", "attempt"}
                     \/ pc'[p] \in {"authorize", "guard"} \cup Leased
                     => file'[Issuance] = "stable" /\ issuedTo' = job'[p]
               /\ pc'[p] \in {"authorize", "guard"} \cup Leased \/ ledger'[p] = "attempt"
                     => file'[<<"consumption", job'[p]>>] = "stable"
    <2>1. CASE pc[p] = "idle"
      <3>1. pc'[p] = "opened" /\ ledger'[p] = "issuance"
        BY <1>4, <2>1, PointsOfJob, ConstantsAreTyped DEF JobsAreHeld, Entering, Publishing
      <3> QED
        BY <3>1 DEF Leased
    <2>2. CASE pc[p] # "idle" /\ ~Seal(p)
      <3>1. /\ job'[p] = job[p]
            /\ ledger'[p] \in {"consumption", "attempt"}
                  \/ pc'[p] \in {"authorize", "guard"} \cup Leased
                  => ledger[p] \in {"consumption", "attempt"}
                        \/ pc[p] \in {"authorize", "guard"} \cup Leased
            /\ pc'[p] \in {"authorize", "guard"} \cup Leased \/ ledger'[p] = "attempt"
                  => pc[p] \in {"authorize", "guard"} \cup Leased \/ ledger[p] = "attempt"
        BY <1>4, <2>2, PointsOfJob DEF Leased
      <3> QED
        BY <1>1, <1>4, <3>1, IssuedStays DEF RequestsAreAuthorized
    <2>3. CASE Seal(p)
      <3>1. pc[p] = "seal" /\ job'[p] = job[p] /\ file'[Entry(p)] = "stable"
        BY <1>4, <2>3, PointsOfJob, FileStep DEF Seal
      <3>2. issuedTo' = issuedTo
        BY <2>3 DEF Seal
      <3>3. CASE ledger[p] = "issuance"
        <4>1. ledger'[p] = "consumption" /\ pc'[p] = "reserve"
          BY <1>4, <2>3, <3>1, <3>3, PointsOfJob
        <4>2. Entry(p) = Issuance /\ file[Issuance] = "written"
          BY <3>1, <3>3 DEF Entry, EntriesAreExclusive
        <4>3. issuedTo = job[p]
          BY <3>1, <3>3, <4>2 DEF IssuanceIsOwned, Readable
        <4> QED
          BY <3>1, <3>2, <4>1, <4>2, <4>3 DEF Leased
      <3>4. CASE ledger[p] = "consumption"
        <4>1. Entry(p) = <<"consumption", job[p]>>
          BY <3>4 DEF Entry
        <4>2. ledger'[p] = "consumption"
          BY <1>4, <2>3, <3>1, <3>4, PointsOfJob
        <4> QED
          BY <1>4, <3>1, <3>4, <4>1, <4>2, IssuedStays DEF RequestsAreAuthorized
      <3>5. CASE ledger[p] = "attempt"
        BY <1>1, <1>4, <3>1, <3>5, IssuedStays DEF RequestsAreAuthorized
      <3> QED
        BY <3>3, <3>4, <3>5 DEF TypeOK, Ledgers
    <2> QED
      BY <2>1, <2>2, <2>3
  <1>5. CASE PowerLoss
    BY <1>5, PowerLossIs, ConstantsAreTyped DEF RequestsAreAuthorized
  <1>6. CASE Tick \/ UnitChanges \/ (\E r \in Requests : FileRequest(r)) \/ UNCHANGED vars
    BY <1>6, EnvironmentLeaves DEF RequestsAreAuthorized
  <1>7. ASSUME NEW p \in Processes, Leaves(p) \/ GoesOn(p)
        PROVE  RequestsAreAuthorized'
    BY <1>2, <1>3, <1>4, <1>7 DEF RequestsAreAuthorized
  <1> QED
    BY <1>5, <1>6, <1>7, StepKinds

\* A process executes only after the seal of its attempt.
LEMMA DurableStep ==
    ASSUME TypeOK, JobsAreHeld, EntriesAreExclusive, AttemptsAreDurable, [Next]_vars
    PROVE  AttemptsAreDurable'
  <1>1. \A j \in Jobs : file[Attempt(j)] = "stable" => file'[Attempt(j)] = "stable"
    BY StableStays, Names
  <1>2. \A p \in Processes : pc[p] \in {"execute", "effect", "verify"} => job[p] \in Jobs
    BY DEF JobsAreHeld
  <1>3. ASSUME NEW p \in Processes, Leaves(p) \/ GoesOn(p)
        PROVE  AttemptsAreDurable'
    <2>1. ASSUME NEW q \in Processes, q # p, pc'[q] \in {"execute", "effect", "verify"}
          PROVE  file'[Attempt(job[q])] = "stable" /\ job'[q] = job[q]
      BY <1>1, <1>2, <1>3, <2>1, OthersStay DEF AttemptsAreDurable
    <2>2. ASSUME pc'[p] \in {"execute", "effect", "verify"}
          PROVE  file'[Attempt(job[p])] = "stable" /\ job'[p] = job[p]
      <3>1. ~Leaves(p)
        BY <2>2 DEF Leaves, Forget, Goto, TypeOK
      <3>2. job'[p] = job[p] /\ (pc[p] \in {"execute", "effect"} \/ (Seal(p) /\ ledger[p] = "attempt"))
        BY <1>3, <2>2, <3>1, PointsOfJob
      <3>3. Seal(p) /\ ledger[p] = "attempt" => file'[Attempt(job[p])] = "stable"
        BY <1>3, FileStep DEF Entry, Attempt
      <3> QED
        BY <1>1, <1>2, <3>2, <3>3 DEF AttemptsAreDurable
    <2> QED
      BY <2>1, <2>2 DEF AttemptsAreDurable, Attempt
  <1>4. CASE PowerLoss
    BY <1>4, PowerLossIs DEF AttemptsAreDurable
  <1>5. CASE Tick \/ UnitChanges \/ (\E r \in Requests : FileRequest(r)) \/ UNCHANGED vars
    BY <1>5, EnvironmentLeaves DEF AttemptsAreDurable, Attempt
  <1> QED
    BY <1>3, <1>4, <1>5, StepKinds

\* A restart starts with its records in place, and they stay.
LEMMA RecordedStep ==
    ASSUME TypeOK, JobsAreHeld, EntriesAreExclusive, RequestsAreAuthorized, AttemptsAreDurable,
           EffectsAreRecorded, [Next]_vars
    PROVE  EffectsAreRecorded'
  <1>1. /\ \A j \in Jobs : file[Attempt(j)] = "stable" => file'[Attempt(j)] = "stable"
        /\ \A r \in Requests : file[<<"consumption", r>>] = "stable"
                                  => file'[<<"consumption", r>>] = "stable"
    BY StableStays, Names
  <1>2. \A j \in begun : /\ file'[Attempt(j)] = "stable"
                         /\ j \in Requests => /\ file'[Issuance] = "stable" /\ issuedTo' = j
                                              /\ file'[<<"consumption", j>>] = "stable"
    BY <1>1, IssuedStays DEF EffectsAreRecorded, TypeOK
  <1>3. ASSUME NEW p \in Processes, Execute(p)
        PROVE  /\ file'[Attempt(job[p])] = "stable"
               /\ job[p] \in Requests => /\ file'[Issuance] = "stable" /\ issuedTo' = job[p]
                                         /\ file'[<<"consumption", job[p]>>] = "stable"
    <2>1. pc[p] = "execute" /\ job[p] \in Jobs
      BY <1>3 DEF Execute, JobsAreHeld
    <2> QED
      BY <1>1, <2>1, IssuedStays DEF AttemptsAreDurable, RequestsAreAuthorized, Leased
  <1> QED
    BY <1>2, <1>3, BegunStep DEF EffectsAreRecorded, Attempt
----------------------------------------------------------------------------
(***************************************************************************)
(* The budget.                                                             *)
(***************************************************************************)

\* An attempt enters the ledger when its process writes it; a power loss may take one out.
LEMMA AttemptedStep ==
    ASSUME TypeOK, JobsAreHeld, EntriesAreExclusive, [Next]_vars
    PROVE  \/ Attempted' \subseteq Attempted /\ attemptAt' = attemptAt
           \/ \E p \in Processes :
                 /\ Write(p) /\ OnAttempt(p) /\ pc[p] = "write" /\ job[p] \in Jobs
                 /\ job[p] \notin Attempted /\ Attempted' = Attempted \cup {job[p]}
                 /\ attemptAt' = [attemptAt EXCEPT ![job[p]] = now[p]]
  <1>1. ASSUME NEW p \in Processes, Leaves(p) \/ GoesOn(p), ~(Write(p) /\ ledger[p] = "attempt")
        PROVE  Attempted' \subseteq Attempted /\ attemptAt' = attemptAt
    <2>1. Write(p) => \A j \in Jobs : Attempt(j) # Entry(p)
      BY <1>1, EntryIsTyped DEF Write, Publishing, Issuance, Attempt, TypeOK, Ledgers
    <2>2. Seal(p) => file[Entry(p)] = "written"
      BY DEF Seal, EntriesAreExclusive
    <2>3. \A j \in Jobs : Readable(Attempt(j))' => Readable(Attempt(j))
      BY <1>1, <2>1, <2>2, FileStep, Names DEF Readable, Attempt
    <2> QED
      BY <1>1, <2>3, RecordStep DEF Attempted
  <1>2. ASSUME NEW p \in Processes, Write(p), ledger[p] = "attempt"
        PROVE  /\ OnAttempt(p) /\ pc[p] = "write" /\ job[p] \in Jobs
               /\ job[p] \notin Attempted /\ Attempted' = Attempted \cup {job[p]}
               /\ attemptAt' = [attemptAt EXCEPT ![job[p]] = now[p]]
    <2>1. OnAttempt(p) /\ pc[p] = "write" /\ job[p] \in Jobs /\ Entry(p) = Attempt(job[p])
      BY <1>2, EntryIsTyped DEF Write, OnAttempt, Publishing
    <2>2. ~Readable(Attempt(job[p]))
      BY <2>1 DEF EntriesAreExclusive, Readable
    <2>3. ~Reserve(p) /\ ~Seal(p)
      BY <1>2 DEF Reserve, Seal, Write
    <2>4. \A j \in Jobs : Readable(Attempt(j))' <=> j = job[p] \/ Readable(Attempt(j))
      <3>1. \A j \in Jobs : j # job[p] => Attempt(j) # Entry(p)
        BY <2>1 DEF Attempt
      <3>2. file'[Attempt(job[p])] = "written"
        BY <1>2, <2>1, FileStep DEF GoesOn
      <3>3. \A j \in Jobs : j # job[p] =>
               \/ file'[Attempt(j)] = file[Attempt(j)]
               \/ file[Attempt(j)] = "reserved" /\ file'[Attempt(j)] = "linked"
        BY <1>2, <2>3, <3>1, FileStep, Names DEF GoesOn
      <3> QED
        BY <2>1, <3>2, <3>3 DEF Readable, Attempt
    <2> QED
      BY <1>2, <2>1, <2>2, <2>4 DEF Attempted, Write
  <1>3. PowerLoss => Attempted' \subseteq Attempted /\ attemptAt' = attemptAt
    BY PowerLossIs, Names DEF Attempted, Readable, Attempt
  <1>4. Tick \/ UnitChanges \/ (\E r \in Requests : FileRequest(r)) \/ UNCHANGED vars
           => Attempted' \subseteq Attempted /\ attemptAt' = attemptAt
    BY EnvironmentLeaves DEF Attempted, Readable, Attempt
  <1> QED
    BY <1>1, <1>2, <1>3, <1>4, StepKinds

\* One more attempt, later than the others by the cooldown and within the budget of its
\* moment, keeps the budget of every moment.
LEMMA BudgetStep ==
    ASSUME TypeOK, JobsAreHeld, EntriesAreExclusive, LedgerKeepsBudget, AllowanceHolds,
           [Next]_vars
    PROVE  LedgerKeepsBudget'
  <1>0. /\ IsFiniteSet(Attempted) /\ Attempted \subseteq Jobs /\ attemptAt \in [Jobs -> Nat]
        /\ now \in [Processes -> Nat]
        /\ Window \in Nat /\ Cooldown \in Nat /\ MaxAttempts \in Nat
    BY ConstantsAreTyped DEF TypeOK, LedgerKeepsBudget, Attempted
  <1>1. \A t \in Nat : IsFiniteSet(InWindow(t)) /\ Cardinality(InWindow(t)) \in Nat
                       /\ Cardinality(InWindow(t)) <= MaxAttempts
    BY <1>0, FS_Subset, FS_CardinalityType DEF LedgerKeepsBudget, InWindow
  <1>2. CASE Attempted' \subseteq Attempted /\ attemptAt' = attemptAt
    <2>1. IsFiniteSet(Attempted')
      BY <1>0, <1>2, FS_Subset
    <2>2. ASSUME NEW t \in Nat
          PROVE  Cardinality(InWindow(t)') <= MaxAttempts
      <3>1. InWindow(t)' \subseteq InWindow(t)
        BY <1>2 DEF InWindow
      <3>2. Cardinality(InWindow(t)') <= Cardinality(InWindow(t)) /\ Cardinality(InWindow(t)') \in Nat
        BY <1>1, <3>1, FS_Subset, FS_CardinalityType
      <3> QED
        BY <1>0, <1>1, <3>2
    <2> QED
      BY <1>2, <2>1, <2>2 DEF LedgerKeepsBudget, InWindow
  <1>3. ASSUME NEW p \in Processes, OnAttempt(p), pc[p] = "write", job[p] \in Jobs,
               job[p] \notin Attempted, Attempted' = Attempted \cup {job[p]},
               attemptAt' = [attemptAt EXCEPT ![job[p]] = now[p]]
        PROVE  LedgerKeepsBudget'
    <2>1. /\ attemptAt'[job[p]] = now[p] /\ now[p] \in Nat
          /\ \A j \in Attempted : /\ attemptAt'[j] = attemptAt[j] /\ attemptAt[j] \in Nat
                                  /\ attemptAt[j] <= now[p]
                                  /\ now[p] >= attemptAt[j] + Cooldown
          /\ Cardinality(InWindow(now[p])) < MaxAttempts
      BY <1>0, <1>3 DEF AllowanceHolds, CooledDown, HasBudget
    <2>2. IsFiniteSet(Attempted')
      BY <1>0, <1>3, FS_AddElement
    <2>3. ASSUME NEW t \in Nat
          PROVE  Cardinality(InWindow(t)') <= MaxAttempts
      <3>1. CASE job[p] \notin InWindow(t)'
        <4>1. InWindow(t)' \subseteq InWindow(t)
          BY <1>3, <2>1, <3>1 DEF InWindow
        <4>2. Cardinality(InWindow(t)') <= Cardinality(InWindow(t))
              /\ Cardinality(InWindow(t)') \in Nat
          BY <1>1, <4>1, FS_Subset, FS_CardinalityType
        <4> QED
          BY <1>0, <1>1, <4>2
      <3>2. CASE job[p] \in InWindow(t)'
        <4>1. now[p] <= t
          BY <2>1, <3>2 DEF InWindow
        <4>2. ASSUME NEW j \in InWindow(t)', j # job[p]
              PROVE  j \in InWindow(now[p])
          <5>1. j \in Attempted /\ t <= attemptAt[j] + Window
            BY <1>3, <2>1, <4>2 DEF InWindow
          <5>2. attemptAt[j] <= now[p] /\ attemptAt[j] \in Nat
            BY <2>1, <5>1
          <5>3. now[p] <= attemptAt[j] + Window
            BY <1>0, <2>1, <4>1, <5>1, <5>2
          <5> QED
            BY <5>1, <5>2, <5>3 DEF InWindow
        <4>3. InWindow(t)' \subseteq InWindow(now[p]) \cup {job[p]}
          BY <4>2
        <4>4. /\ IsFiniteSet(InWindow(now[p]) \cup {job[p]})
              /\ Cardinality(InWindow(now[p]) \cup {job[p]}) = Cardinality(InWindow(now[p])) + 1
          BY <1>1, <1>3, <2>1, FS_AddElement DEF InWindow
        <4>5. Cardinality(InWindow(t)') <= Cardinality(InWindow(now[p]) \cup {job[p]})
              /\ Cardinality(InWindow(t)') \in Nat
          BY <4>3, <4>4, FS_Subset, FS_CardinalityType
        <4> QED
          BY <1>0, <1>1, <2>1, <4>4, <4>5
      <3> QED
        BY <3>1, <3>2
    <2>4. ASSUME NEW j \in Attempted', NEW k \in Attempted', j # k
          PROVE  attemptAt'[j] >= attemptAt'[k] + Cooldown
                    \/ attemptAt'[k] >= attemptAt'[j] + Cooldown
      <3>1. CASE j \in Attempted /\ k \in Attempted
        BY <2>1, <2>4, <3>1 DEF LedgerKeepsBudget
      <3>2. CASE j = job[p] /\ k \in Attempted
        BY <2>1, <3>2
      <3>3. CASE k = job[p] /\ j \in Attempted
        BY <2>1, <3>3
      <3> QED
        BY <1>3, <2>4, <3>1, <3>2, <3>3
    <2> QED
      BY <2>2, <2>3, <2>4 DEF LedgerKeepsBudget
  <1> QED
    BY <1>2, <1>3, AttemptedStep

\* Only the process that reserves an attempt makes a malformed one.
LEMMA MalformedStep ==
    ASSUME TypeOK, JobsAreHeld, NEW p \in Processes, Leaves(p) \/ GoesOn(p),
           NEW j \in Jobs, Malformed(Attempt(j))'
    PROVE  \/ Malformed(Attempt(j))
           \/ Reserve(p) /\ OnAttempt(p) /\ j = job[p]
  <1>1. file'[Attempt(j)] \in {"reserved", "linked"} /\ Attempt(j) \in Entries
    BY Names DEF Malformed, Attempt
  <1>2. CASE Attempt(j) = Entry(p) /\ Reserve(p)
    BY <1>2, EntryIsTyped DEF Reserve, OnAttempt, Publishing, Issuance, Attempt, TypeOK, Ledgers
  <1>3. CASE ~(Attempt(j) = Entry(p) /\ Reserve(p))
    BY <1>1, <1>3, FileStep DEF Malformed
  <1> QED
    BY <1>2, <1>3

\* What was allowed to the holder of the lease stays allowed.
LEMMA AllowanceStep ==
    ASSUME TypeOK, JobsAreHeld, LeaseIsHeld, EntriesAreExclusive, LedgerKeepsBudget,
           AllowanceHolds, [Next]_vars
    PROVE  AllowanceHolds'
  <1>0. \A p, q \in Processes : Active(p) /\ Active(q) => p = q
    BY DEF LeaseIsHeld
  <1>1. ASSUME NEW p \in Processes, Leaves(p) \/ GoesOn(p), NEW q \in Processes
        PROVE  /\ OnAttempt(q)' /\ pc'[q] \in {"reserve", "write"} =>
                     /\ \A j \in Attempted' : attemptAt'[j] <= now'[q]
                     /\ CooledDown(q)' /\ HasBudget(q)'
               /\ OnAttempt(q)' =>
                     \A j \in Jobs : Malformed(Attempt(j))' => j = job'[q] /\ pc'[q] = "write"
               /\ pc'[q] = "execute" => \A j \in Jobs : ~Malformed(Attempt(j))'
    <2>0. Leaves(p) => pc'[p] = "idle"
      BY DEF Leaves, Forget, Goto, TypeOK
    <2>1. ASSUME OnAttempt(q)', pc'[q] \in {"reserve", "write"}
          PROVE  /\ \A j \in Attempted' : attemptAt'[j] <= now'[q]
                 /\ CooledDown(q)' /\ HasBudget(q)'
      <3>1. /\ Active(q) /\ now'[q] = now[q]
            /\ \A j \in Attempted : attemptAt[j] <= now[q]
            /\ CooledDown(q) /\ HasBudget(q)
        <4>1. CASE q # p
          <5>1. OnAttempt(q) /\ pc[q] \in {"reserve", "write"} /\ now'[q] = now[q]
            BY <1>1, <2>1, <4>1, OthersStay DEF OnAttempt
          <5> QED
            BY <5>1 DEF AllowanceHolds, Active, OnAttempt
        <4>2. CASE q = p
          <5>1. Allow(p) \/ (Reserve(p) /\ OnAttempt(p) /\ pc[p] = "reserve")
            BY <1>1, <2>0, <2>1, <4>2, PointsOfJob DEF OnAttempt, Publishing, JobsAreHeld, Entering
          <5>2. now' = now /\ Active(p)
            BY <5>1 DEF Allow, Reserve, localVars, Active, OnAttempt, Leased
          <5> QED
            BY <4>2, <5>1, <5>2 DEF AllowanceHolds, Allow, LedgerIsSound
        <4> QED
          BY <4>1, <4>2
      <3>2. Attempted' \subseteq Attempted /\ attemptAt' = attemptAt
        <4>1. ASSUME NEW s \in Processes, Write(s), OnAttempt(s)
              PROVE  FALSE
          <5>1. s = q
            BY <1>0, <3>1, <4>1 DEF Active, OnAttempt
          <5> QED
            BY <2>1, <4>1, <5>1 DEF Write, Goto, TypeOK
        <4> QED
          BY <4>1, AttemptedStep
      <3>3. HasBudget(q)'
        <4>1. InWindow(now[q])' \subseteq InWindow(now[q]) /\ InWindow(now[q]) \subseteq Attempted
          BY <3>1, <3>2 DEF InWindow
        <4>2. IsFiniteSet(InWindow(now[q]))
          BY <4>1, FS_Subset DEF LedgerKeepsBudget
        <4>3. Cardinality(InWindow(now[q])') <= Cardinality(InWindow(now[q]))
              /\ Cardinality(InWindow(now[q])') \in Nat /\ Cardinality(InWindow(now[q])) \in Nat
          BY <4>1, <4>2, FS_Subset, FS_CardinalityType
        <4>4. Cardinality(InWindow(now[q])) < MaxAttempts /\ MaxAttempts \in Nat
          BY <3>1, ConstantsAreTyped DEF HasBudget
        <4>5. Cardinality(InWindow(now[q])') < MaxAttempts
          BY <4>3, <4>4
        <4> QED
          BY <3>1, <4>5 DEF HasBudget, InWindow
      <3> QED
        BY <3>1, <3>2, <3>3 DEF CooledDown
    <2>2. ASSUME OnAttempt(q)', NEW j \in Jobs, Malformed(Attempt(j))'
          PROVE  j = job'[q] /\ pc'[q] = "write"
      <3>1. CASE q # p
        <4>1. /\ OnAttempt(q) /\ Active(q)
              /\ pc'[q] = pc[q] /\ job'[q] = job[q]
          BY <1>1, <2>2, <3>1, OthersStay DEF OnAttempt, Active
        <4>2. ~OnAttempt(p)
          BY <1>0, <3>1, <4>1 DEF Active, OnAttempt
        <4> QED
          BY <1>1, <2>2, <4>1, <4>2, MalformedStep DEF AllowanceHolds
      <3>2. CASE q = p
        <4>1. GoesOn(p) /\ job'[p] = job[p]
              /\ \/ Allow(p)
                 \/ Reserve(p) /\ OnAttempt(p) /\ pc[p] = "reserve" /\ pc'[p] = "write"
                 \/ Write(p) /\ OnAttempt(p)
          BY <1>1, <2>0, <2>2, <3>2, PointsOfJob
             DEF OnAttempt, Publishing, JobsAreHeld, Entering
        <4>2. CASE Allow(p)
          <5>1. ~MalformedIn("attempt") /\ ~Reserve(p)
            BY <4>2 DEF Allow, LedgerIsSound, Reserve
          <5>2. ~Malformed(Attempt(j))
            BY <5>1, Names DEF MalformedIn, Attempt
          <5> QED
            BY <1>1, <2>2, <5>1, <5>2, MalformedStep
        <4>3. CASE Reserve(p) /\ OnAttempt(p) /\ pc[p] = "reserve" /\ pc'[p] = "write"
          BY <1>1, <2>2, <3>2, <4>1, <4>3, MalformedStep DEF AllowanceHolds
        <4>4. CASE Write(p) /\ OnAttempt(p)
          <5>1. Malformed(Attempt(j)) /\ ~Reserve(p)
            BY <1>1, <2>2, <4>4, MalformedStep DEF Write, Reserve
          <5>2. j = job[p]
            BY <4>4, <5>1 DEF AllowanceHolds
          <5>3. file'[Attempt(j)] = "written"
            BY <1>1, <4>4, <5>2, FileStep DEF Entry, OnAttempt, Attempt
          <5> QED
            BY <2>2, <5>3 DEF Malformed, Attempt
        <4> QED
          BY <4>1, <4>2, <4>3, <4>4
      <3> QED
        BY <3>1, <3>2
    <2>3. ASSUME pc'[q] = "execute", NEW j \in Jobs, Malformed(Attempt(j))'
          PROVE  FALSE
      <3>1. CASE q # p
        <4>1. pc[q] = "execute" /\ Active(q)
          BY <1>1, <2>3, <3>1, OthersStay DEF Active, Leased
        <4>2. ~OnAttempt(p)
          BY <1>0, <3>1, <4>1 DEF Active, OnAttempt
        <4> QED
          BY <1>1, <2>3, <4>1, <4>2, MalformedStep DEF AllowanceHolds
      <3>2. CASE q = p
        <4>1. Seal(p) /\ OnAttempt(p) /\ pc[p] = "seal"
          BY <1>1, <2>0, <2>3, <3>2, PointsOfJob DEF OnAttempt, Publishing
        <4>2. ~Malformed(Attempt(j)) /\ ~Reserve(p)
          BY <4>1 DEF AllowanceHolds, Reserve
        <4> QED
          BY <1>1, <2>3, <4>2, MalformedStep
      <3> QED
        BY <3>1, <3>2
    <2> QED
      BY <2>1, <2>2, <2>3
  <1>2. CASE PowerLoss
    BY <1>2, PowerLossIs DEF AllowanceHolds, OnAttempt, Publishing
  <1>3. CASE Tick \/ UnitChanges \/ (\E r \in Requests : FileRequest(r)) \/ UNCHANGED vars
    <2>1. UNCHANGED <<pc, ledger, job, now, file, attemptAt>>
      BY <1>3, EnvironmentLeaves
    <2> QED
      BY <2>1 DEF AllowanceHolds, OnAttempt, CooledDown, HasBudget, InWindow, Attempted,
                  Readable, Malformed, Attempt
  <1>4. ASSUME NEW p \in Processes, Leaves(p) \/ GoesOn(p)
        PROVE  AllowanceHolds'
    BY <1>1, <1>4 DEF AllowanceHolds
  <1> QED
    BY <1>2, <1>3, <1>4, StepKinds

----------------------------------------------------------------------------
(***************************************************************************)
(* The invariance of all of it.                                            *)
(***************************************************************************)

\* Before the first request and the first failure.
LEMMA InvInit == Init => ProductionInv
  <1> SUFFICES ASSUME Init
               PROVE  ProductionInv
    OBVIOUS
  <1>1. TypeOK
    <2>1. \A p \in Processes : pc[p] = "idle" /\ ~Active(p)
      BY DEF Init, Active, Leased, Publishing
    <2>2. /\ 0 \in 0..MaxTime /\ 0 \in 0..MaxFaults /\ 1 \in 1..MaxInvocation
          /\ 0 \in 0..MaxInvocation /\ unit \in 0..1 /\ {} \subseteq Jobs
      BY ConstantsAreTyped DEF Init
    <2>3. /\ pc \in [Processes -> Pcs] /\ ledger \in [Processes -> Ledgers]
          /\ job \in [Processes -> Jobs \cup {None}]
          /\ file \in [Entries -> Stage] /\ runs \in [Requests -> Nat]
          /\ attemptAt \in [Jobs -> 0..MaxTime] /\ now \in [Processes -> 0..MaxTime]
          /\ before \in [Processes -> 0..MaxInvocation]
      BY <2>2 DEF Init, Stage, Pcs, Entering, Ledgers
    <2>4. \A p \in Processes :
             /\ activation[p] = IF Active(p) THEN Mode(p) ELSE None
             /\ incident[p] <=> pc[p] \notin Entering
             /\ lease = p => Active(p)
      BY <2>1, ConstantsAreTyped DEF Init, Entering
    <2> QED
      BY <2>2, <2>3, <2>4 DEF Init, TypeOK
  <1>2. JobsAreHeld /\ LeaseIsHeld
    BY DEF Init, JobsAreHeld, LeaseIsHeld, Active, OnAttempt, Leased, Publishing, Entering
  <1>3. TakenIsGone
    BY ConstantsAreTyped DEF Init, TakenIsGone, RequestRunsOnce
  <1>4. EntriesAreExclusive /\ IssuanceIsOwned
    BY Names DEF Init, EntriesAreExclusive, IssuanceIsOwned, Readable
  <1>5. RequestsAreAuthorized /\ AttemptsAreDurable /\ EffectsAreRecorded
    BY ConstantsAreTyped DEF Init, RequestsAreAuthorized, AttemptsAreDurable, EffectsAreRecorded
  <1>6. LedgerKeepsBudget
    <2>1. Attempted = {} /\ \A t \in Nat : InWindow(t) = {}
      BY Names DEF Init, Attempted, InWindow, Readable
    <2> QED
      BY <2>1, FS_EmptySet, ConstantsAreTyped DEF LedgerKeepsBudget
  <1>7. AllowanceHolds
    BY DEF Init, AllowanceHolds, OnAttempt, Publishing
  <1> QED
    BY <1>1, <1>2, <1>3, <1>4, <1>5, <1>6, <1>7 DEF ProductionInv

LEMMA InvStep == ProductionInv /\ [Next]_vars => ProductionInv'
  BY TypeStep, JobsStep, LeaseStep, TakenStep, EntriesStep, IssuanceStep, AuthorizedStep,
     DurableStep, RecordedStep, BudgetStep, AllowanceStep
     DEF ProductionInv

\* The inductive invariant holds in every state of the two gates.
THEOREM Invariance == Spec => []ProductionInv
  BY InvInit, InvStep, PTL DEF Spec

\* Every record, request and process is in a shape the code produces, and a job that ends in
\* any way leaves no target policy, no incident and no effect lease behind.
THEOREM TypeCorrect == Spec => []TypeOK
  BY Invariance, PTL DEF ProductionInv

\* A request of the inbox is handed to _process at most once, whoever opens the file and
\* whatever a power loss brings back.
THEOREM RequestsRunOnce == Spec => []RequestRunsOnce
  <1>1. ProductionInv => RequestRunsOnce
    BY DEF ProductionInv, TakenIsGone
  <1> QED
    BY <1>1, Invariance, PTL

\* Every restart that was started is on durable record, alone at its time, and one of those
\* the cooldown and the budget of the target rule allow.
THEOREM KeepsBudget == Spec => []BudgetIsKept
  <1>1. ASSUME ProductionInv
        PROVE  BudgetIsKept
    <2> USE <1>1 DEF ProductionInv
    <2>1. begun \subseteq Attempted
      BY DEF EffectsAreRecorded, Attempted, Readable, TypeOK
    <2>2. EffectsWithinBudget
      <3>1. ASSUME NEW t \in 0..MaxTime
            PROVE  Cardinality({j \in begun : attemptAt[j] <= t /\ t <= attemptAt[j] + Window})
                      <= MaxAttempts
        <4> DEFINE S == {j \in begun : attemptAt[j] <= t /\ t <= attemptAt[j] + Window}
        <4>1. S \subseteq InWindow(t) /\ InWindow(t) \subseteq Attempted /\ t \in Nat
          BY <2>1 DEF InWindow
        <4>2. IsFiniteSet(InWindow(t)) /\ Cardinality(InWindow(t)) <= MaxAttempts
          BY <4>1, FS_Subset DEF LedgerKeepsBudget
        <4>3. /\ Cardinality(S) <= Cardinality(InWindow(t)) /\ Cardinality(S) \in Nat
              /\ Cardinality(InWindow(t)) \in Nat
          <5> HIDE DEF S
          <5> QED
            BY <4>1, <4>2, FS_Subset, FS_CardinalityType
        <4>4. Cardinality(S) <= MaxAttempts
          <5> HIDE DEF S
          <5> QED
            BY <4>2, <4>3, ConstantsAreTyped
        <4> QED
          BY <4>4
      <3>2. \A j, k \in begun :
               j = k \/ attemptAt[j] >= attemptAt[k] + Cooldown
                     \/ attemptAt[k] >= attemptAt[j] + Cooldown
        BY <2>1 DEF LedgerKeepsBudget
      <3> QED
        BY <3>1, <3>2 DEF EffectsWithinBudget
    <2>3. OneEffectAtATime
      <3>1. \A p, q \in Processes : Active(p) /\ Active(q) => p = q
        BY DEF LeaseIsHeld
      <3> QED
        BY <3>1 DEF OneEffectAtATime, Active, Leased
    <2> QED
      BY <2>2, <2>3 DEF BudgetIsKept
  <1>2. ProductionInv => BudgetIsKept
    BY <1>1
  <1> QED
    BY <1>2, Invariance, PTL

\* No restart starts while a partial attempt record, of any job, is in the ledger.
THEOREM ClosesOnPartialRecord == Spec => FailsClosed
  <1>1. ProductionInv /\ [Next]_vars =>
           [\A j \in Jobs : j \in begun' \ begun => \A k \in Jobs : ~Malformed(Attempt(k))]_vars
    <2>1. ASSUME ProductionInv, [Next]_vars, NEW j \in begun' \ begun, NEW k \in Jobs
          PROVE  ~Malformed(Attempt(k))
      <3>1. PICK p \in Processes : Execute(p)
        BY <2>1, BegunStep DEF ProductionInv
      <3> QED
        BY <2>1, <3>1 DEF ProductionInv, AllowanceHolds, Execute
    <2> QED
      BY <2>1
  <1> QED
    BY <1>1, Invariance, PTL DEF Spec, FailsClosed

\* Each step is one of the token's, or leaves it alone.
LEMMA TokenStep ==
    ASSUME ProductionInv, ProductionInv', [Next]_vars
    PROVE  [Token!Next]_<<reservedBy, begun \cap Requests>>
  <1> USE DEF ProductionInv, Token!Next, Token!Issue, Token!Spend, Token!Lose
  <1>0. \A j \in begun \cap Requests :
           file[Issuance] = "stable" /\ issuedTo = j /\ reservedBy = j
    BY DEF EffectsAreRecorded, IssuanceIsOwned, Readable
  <1>1. CASE \E p \in Processes : Execute(p) /\ begun' = begun \cup {job[p]}
    <2>1. PICK p \in Processes : Execute(p) /\ begun' = begun \cup {job[p]}
      BY <1>1
    <2>2. reservedBy' = reservedBy /\ pc[p] = "execute"
      BY <2>1 DEF Execute, recordVars
    <2>3. CASE job[p] \in Requests /\ job[p] \notin begun
      <3>1. file[Issuance] = "stable" /\ issuedTo = job[p]
        BY <2>2, <2>3 DEF RequestsAreAuthorized, Leased
      <3>2. reservedBy = job[p]
        BY <3>1 DEF IssuanceIsOwned, Readable
      <3>3. begun \cap Requests = {}
        BY <1>0, <2>3, <3>1
      <3>4. reservedBy # None
        BY <2>3, <3>2, ConstantsAreTyped
      <3>5. (begun \cap Requests)' = {reservedBy}
        BY <2>1, <2>3, <3>2, <3>3
      <3> QED
        BY <2>2, <3>3, <3>4, <3>5
    <2>4. CASE ~(job[p] \in Requests /\ job[p] \notin begun)
      BY <2>1, <2>2, <2>4
    <2> QED
      BY <2>3, <2>4
  <1>2. CASE UNCHANGED begun
    <2>1. ASSUME NEW p \in Processes, Leaves(p) \/ GoesOn(p)
          PROVE  reservedBy' = reservedBy \/ (reservedBy = None /\ reservedBy' \in Requests)
      <3>1. Reserve(p) /\ ledger[p] = "issuance" => reservedBy = None /\ job[p] \in Requests
        BY EntryIsTyped DEF Reserve, Free, IssuanceIsOwned, Publishing
      <3> QED
        BY <2>1, <3>1, RecordStep
    <2>2. ASSUME PowerLoss
          PROVE  \/ reservedBy' = reservedBy
                 \/ reservedBy' = None /\ begun \cap Requests = {}
      <3>1. begun \cap Requests # {} => file'[Issuance] = "stable"
        BY <1>0, StableStays, Names
      <3> QED
        BY <2>2, <3>1, PowerLossIs
    <2> QED
      BY <1>2, <2>1, <2>2, StepKinds, EnvironmentLeaves
  <1> QED
    BY <1>1, <1>2, BegunStep

\* The protocol of issuance, consumption and attempt implements a token that one request holds
\* at a time and that is spent once: two requests never restart under one approval.
THEOREM SingleUse == Spec => ImplementsSingleUse
  <1>1. Init => Token!Init
    BY DEF Init, Token!Init
  <1> QED
    BY <1>1, TokenStep, Invariance, PTL
       DEF Spec, ImplementsSingleUse, Token!Spec

=============================================================================
