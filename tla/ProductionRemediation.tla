----------------------- MODULE ProductionRemediation -----------------------
(***************************************************************************)
(* The two production gates of the runtime cycle and the durable state     *)
(* they share.                                                             *)
(*                                                                         *)
(* Gate 3 takes one Commander-approved request out of an inbox directory,  *)
(* issues and consumes an activation for it and restarts the probe unit.   *)
(* Gate 4, when the host enables it, restarts the unit by itself when it   *)
(* is not running.  Both go through the same runtime guard: an effect      *)
(* lease (flock) and a ledger of attempts that limits the restarts.        *)
(*                                                                         *)
(* A process is one runtime that runs its gates in turn.  A job is a gate  *)
(* 3 request or one gate 4 cycle.  The three ledgers write a record in the *)
(* same way: an O_EXCL entry that an fsync of the directory makes durable, *)
(* then the contents and the fsyncs for them.  A process may die between   *)
(* any two steps, a file operation may fail, and a power loss takes what was *)
(* not yet durable.                                                        *)
(***************************************************************************)
EXTENDS Naturals, FiniteSets

CONSTANTS Processes,         \* runtimes over one home directory
          Requests,          \* gate 3 requests
          Cycles,            \* gate 4 cycles that found the unit unhealthy
          Approval,          \* APPROVAL_ID, the same for every request
          None,
          AutonomousEnabled, \* the gate 4 enablement file is in place
          Lifetime,          \* of a request, 120 s
          Cooldown,          \* cooldown_seconds
          Window,            \* retry_window_seconds
          MaxAttempts,       \* max_attempts_per_window
          MaxTime, MaxInvocation, MaxFaults  \* bounds of the model

ASSUME ConstantsAreTyped ==
    /\ None \notin Processes \cup Requests \cup Cycles \cup {Approval}
    /\ None \notin [at : Nat, inv : Nat]
    /\ Requests \cap Cycles = {}
    /\ AutonomousEnabled \in BOOLEAN
    /\ Lifetime \in Nat \ {0}
    /\ Cooldown \in Nat \ {0}
    /\ Window \in Nat \ {0}
    /\ MaxAttempts \in Nat \ {0}
    /\ MaxTime \in Nat /\ MaxInvocation \in Nat \ {0} /\ MaxFaults \in Nat

VARIABLES
    clock,
    unit,          \* invocation of the active unit, 0 while it is not active
    invocations,   \* invocations systemd has started
    \* durable state under the home directory
    inbox,         \* the request in the gate 3 inbox
    inboxOnDisk,   \* what a power loss would restore
    filed,         \* created_at and expected_pre_invocation_id of a request
    issuanceDir,   \* the directory of issued approvals exists
    evidence,      \* the gate 3 evidence file exists
    file,          \* how far the record of an entry has come
    issuedTo,      \* the activation the issuance record names
    attemptAt,     \* the timestamp in an attempt record
    \* the kernel's effect lease
    lease,
    \* the processes
    pc, ledger, job, now, before, activation, incident,
    \* history
    reservedBy,    \* the request that created the issuance entry
    runs,          \* how often a request was processed
    begun,         \* jobs whose restart was started
    restarted,     \* jobs whose restart command succeeded
    outcome,       \* final outcome of a job's incident
    faults

unitVars    == <<unit, invocations>>
inboxVars   == <<inbox, inboxOnDisk, filed>>
recordVars  == <<issuanceDir, file, issuedTo, attemptAt, reservedBy>>
localVars   == <<ledger, job, now, before>>
scopeVars   == <<lease, activation, incident>>
effectVars  == <<begun, restarted>>
resultVars  == <<evidence, outcome>>
vars == <<clock, unitVars, inboxVars, recordVars, pc, localVars, scopeVars,
          runs, effectVars, resultVars, faults>>

----------------------------------------------------------------------------
Jobs == Requests \cup Cycles

Ledgers == {"issuance", "consumption", "attempt"}

\* An issuance is named by its approval, a consumption by its activation and
\* an attempt by its execution.
Entries == ({"issuance"} \X {Approval}) \cup ({"consumption"} \X Requests)
               \cup ({"attempt"} \X Jobs)

Attempt(j) == <<"attempt", j>>
Issuance == <<"issuance", Approval>>

\* Progress of a record: no entry, an entry a power loss may take, a durable
\* empty entry, contents a power loss may take, durable contents.
Stage == {"none", "reserved", "linked", "written", "stable"}

Malformed(e) == file[e] \in {"reserved", "linked"}
Readable(e)  == file[e] \in {"written", "stable"}

\* Fault: a reader skips the records it cannot parse.
SkipsMalformed(l) == FALSE

MalformedIn(l) == \E e \in Entries : e[1] = l /\ Malformed(e)

\* fsync of the directory of a ledger.
Synced(l, f) == [e \in Entries |->
                   IF e[1] = l /\ f[e] = "reserved" THEN "linked" ELSE f[e]]

ByCommander(p) == job[p] \in Requests
Mode(p) == IF ByCommander(p) THEN "COMMANDER_ONLY" ELSE "AUTONOMOUS"

\* The record process p is publishing.
Entry(p) == IF ledger[p] = "issuance" THEN Issuance ELSE <<ledger[p], job[p]>>

\* Gate3LiveRequest.validate_time
Current(r, t) == filed[r].at <= t /\ t < filed[r].at + Lifetime

Publishing == {"reserve", "write", "seal"}
Entering   == {"idle", "opened", "unlinked", "inspect"}
Leased     == {"budget", "execute", "effect", "verify"}
Pcs == Entering \cup Publishing \cup {"authorize", "guard"} \cup Leased

\* Under the activation lease and the target policy of its gate.
Active(p) == pc[p] \in Leased
               \/ (pc[p] \in Publishing /\ ledger[p] = "attempt")

\* Type invariant: every record, request and process is in a shape the code
\* produces; whichever way a job ends, it leaves no target policy, no incident
\* and no effect lease behind.
TypeOK ==
    /\ clock \in 0..MaxTime
    /\ unit \in 0..invocations
    /\ invocations \in 1..MaxInvocation
    /\ inbox \in Requests \cup {None}
    /\ inboxOnDisk \in Requests \cup {None}
    /\ filed \in [Requests -> [at : 0..MaxTime, inv : 1..MaxInvocation]
                                 \cup {None}]
    /\ issuanceDir \in BOOLEAN
    /\ evidence \in BOOLEAN
    /\ file \in [Entries -> Stage]
    /\ issuedTo \in Requests \cup {None}
    /\ attemptAt \in [Jobs -> 0..MaxTime]
    /\ lease \in Processes \cup {None}
    /\ pc \in [Processes -> Pcs]
    /\ ledger \in [Processes -> Ledgers]
    /\ job \in [Processes -> Jobs \cup {None}]
    /\ now \in [Processes -> 0..MaxTime]
    /\ before \in [Processes -> 0..MaxInvocation]
    /\ activation \in [Processes -> {None, "COMMANDER_ONLY", "AUTONOMOUS"}]
    /\ incident \in [Processes -> BOOLEAN]
    /\ reservedBy \in Requests \cup {None}
    /\ runs \in [Requests -> Nat]
    /\ begun \subseteq Jobs
    /\ restarted \subseteq begun
    /\ outcome \in [Jobs -> {None, "RECOVERED", "UNRESOLVED", "ESCALATED"}]
    /\ faults \in 0..MaxFaults
    /\ \A p \in Processes :
         /\ activation[p] = IF Active(p) THEN Mode(p) ELSE None
         /\ incident[p] <=> pc[p] \notin Entering
         /\ lease = p => Active(p)

Init ==
    /\ clock = 0
    /\ unit \in {0, 1}
    /\ invocations = 1
    /\ inbox = None
    /\ inboxOnDisk = None
    /\ filed = [r \in Requests |-> None]
    /\ issuanceDir = FALSE
    /\ evidence = FALSE
    /\ file = [e \in Entries |-> "none"]
    /\ issuedTo = None
    /\ attemptAt = [j \in Jobs |-> 0]
    /\ lease = None
    /\ pc = [p \in Processes |-> "idle"]
    /\ ledger = [p \in Processes |-> "issuance"]
    /\ job = [p \in Processes |-> None]
    /\ now = [p \in Processes |-> 0]
    /\ before = [p \in Processes |-> 0]
    /\ activation = [p \in Processes |-> None]
    /\ incident = [p \in Processes |-> FALSE]
    /\ reservedBy = None
    /\ runs = [r \in Requests |-> 0]
    /\ begun = {}
    /\ restarted = {}
    /\ outcome = [j \in Jobs |-> None]
    /\ faults = 0

----------------------------------------------------------------------------
Goto(p, point) == pc' = [pc EXCEPT ![p] = point]

\* Locals of a process between two cycles.
Forget(p) ==
    /\ Goto(p, "idle")
    /\ ledger' = [ledger EXCEPT ![p] = "issuance"]
    /\ job' = [job EXCEPT ![p] = None]
    /\ now' = [now EXCEPT ![p] = 0]
    /\ before' = [before EXCEPT ![p] = 0]

\* Fault: the existence of the lock file is taken for ownership of the lease.
ReleaseButLease(p) ==
    /\ activation' = [activation EXCEPT ![p] = None]
    /\ incident' = [incident EXCEPT ![p] = FALSE]
    /\ UNCHANGED lease

\* The with blocks and finally clauses on the way out: the effect lease, the
\* target policy and the activation are released and, when the job created an
\* incident, it is resolved.  Gate 3 leaves its evidence file.
Release(p) ==
    /\ lease' = IF lease = p THEN None ELSE lease
    /\ activation' = [activation EXCEPT ![p] = None]
    /\ incident' = [incident EXCEPT ![p] = FALSE]

Conclude(p, result) ==
    /\ outcome' = IF incident[p] THEN [outcome EXCEPT ![job[p]] = result]
                                 ELSE outcome
    /\ evidence' = (evidence \/ ByCommander(p))
    /\ Release(p)
    /\ Forget(p)

Denied(p) == IF ByCommander(p) THEN "ESCALATED" ELSE "UNRESOLVED"

----------------------------------------------------------------------------
(* Gate 3: from the request file to the incident.                          *)

\* The operator files a request for the approval.
FileRequest(r) ==
    /\ inbox = None /\ ~evidence /\ ~issuanceDir
    /\ filed[r] = None
    /\ unit # 0
    /\ filed' = [filed EXCEPT ![r] = [at |-> clock, inv |-> unit]]
    /\ inbox' = r
    /\ inboxOnDisk' = r
    /\ UNCHANGED <<clock, unitVars, recordVars, pc, localVars, scopeVars, runs,
                   effectVars, resultVars, faults>>

OpenInbox(p) ==
    /\ pc[p] = "idle"
    /\ inbox # None
    /\ job' = [job EXCEPT ![p] = inbox]
    /\ Goto(p, "opened")
    /\ UNCHANGED <<clock, unitVars, inboxVars, recordVars, ledger, now, before,
                   scopeVars, runs, effectVars, resultVars, faults>>

\* Fault: the lock of the file is trusted, the directory is not looked at again.
IsUnlockedFile(p) ==
    \A q \in Processes \ {p} : ~(pc[q] = "unlinked" /\ job[q] = job[p])

\* The lock is free and the directory still names the file that was opened.
IsOpenedFile(p) == inbox = job[p]

TakeRequest(p) ==
    /\ pc[p] = "opened"
    /\ IsOpenedFile(p)
    /\ inbox' = None
    /\ Goto(p, "unlinked")
    /\ UNCHANGED <<clock, unitVars, inboxOnDisk, filed, recordVars, localVars,
                   scopeVars, runs, effectVars, resultVars, faults>>

\* Somebody else has the file, or it was taken or replaced: the cycle raises.
LoseRequest(p) ==
    /\ pc[p] = "opened"
    /\ ~IsOpenedFile(p)
    /\ Forget(p)
    /\ UNCHANGED <<clock, unitVars, inboxVars, recordVars, scopeVars, runs,
                   effectVars, resultVars, faults>>

\* The fsync after the unlink; only then is the request processed.
SyncInbox(p) ==
    /\ pc[p] = "unlinked"
    /\ inboxOnDisk' = inbox
    /\ runs' = [runs EXCEPT ![job[p]] = @ + 1]
    /\ Goto(p, "inspect")
    /\ UNCHANGED <<clock, unitVars, inbox, filed, recordVars, localVars,
                   scopeVars, effectVars, resultVars, faults>>

Acceptable(p) ==
    /\ Current(job[p], clock)
    /\ activation[p] = None
    /\ unit = filed[job[p]].inv

\* The snapshot of the unit, the incident, and the one reading of the clock by
\* which everything downstream is judged.
Examine(p, point) ==
    /\ before' = [before EXCEPT ![p] = unit]
    /\ now' = [now EXCEPT ![p] = clock]
    /\ incident' = [incident EXCEPT ![p] = TRUE]
    /\ Goto(p, point)

Inspect(p) ==
    /\ pc[p] = "inspect"
    /\ Acceptable(p)
    /\ Examine(p, "reserve")
    /\ UNCHANGED <<clock, unitVars, inboxVars, recordVars, ledger, job, lease,
                   activation, runs, effectVars, resultVars, faults>>

Refuse(p) ==
    /\ pc[p] = "inspect"
    /\ ~Acceptable(p)
    /\ Conclude(p, "UNRESOLVED")
    /\ UNCHANGED <<clock, unitVars, inboxVars, recordVars, runs, effectVars,
                   faults>>

----------------------------------------------------------------------------
(* Gate 4: an unhealthy unit and no incident for it.                       *)

Observe(p, c) ==
    /\ pc[p] = "idle"
    /\ AutonomousEnabled
    /\ unit = 0
    /\ ~incident[p]
    /\ outcome[c] = None /\ file[Attempt(c)] = "none"
    /\ \A q \in Processes : job[q] # c
    /\ job' = [job EXCEPT ![p] = c]
    /\ Examine(p, "guard")
    /\ UNCHANGED <<clock, unitVars, inboxVars, recordVars, ledger, lease,
                   activation, runs, effectVars, resultVars, faults>>

----------------------------------------------------------------------------
(* Publication of a record, the same in the three ledgers.                 *)

\* Fault: an issuance is unique for its activation, not for its approval.
FreeForActivation(p) ==
    file[Entry(p)] = "none"
        \/ (ledger[p] = "issuance" /\ issuedTo \notin {None, job[p]})

\* O_CREAT | O_EXCL
Free(p) == file[Entry(p)] = "none"

\* The records already there are read, the directory of the ledger is made on
\* first use, and the entry is created.
Reserve(p) ==
    /\ pc[p] = "reserve"
    /\ ~MalformedIn(ledger[p]) /\ Free(p)
    /\ issuanceDir' = (issuanceDir \/ ledger[p] = "issuance")
    /\ file' = [file EXCEPT ![Entry(p)] = "reserved"]
    /\ reservedBy' = IF ledger[p] = "issuance" THEN job[p] ELSE reservedBy
    /\ Goto(p, "write")
    /\ UNCHANGED <<clock, unitVars, inboxVars, issuedTo, attemptAt, localVars,
                   scopeVars, runs, effectVars, resultVars, faults>>

\* A malformed record or an entry that exists already.
CannotReserve(p) ==
    /\ pc[p] = "reserve"
    /\ MalformedIn(ledger[p]) \/ ~Free(p)
    /\ issuanceDir' = (issuanceDir \/ ledger[p] = "issuance")
    /\ Conclude(p, "UNRESOLVED")
    /\ UNCHANGED <<clock, unitVars, inboxVars, file, issuedTo, attemptAt,
                   reservedBy, runs, effectVars, faults>>

\* The fsync of the directory, then the contents: the activation of an
\* issuance, the time of an attempt.
Write(p) ==
    /\ pc[p] = "write"
    /\ file' = [Synced(ledger[p], file) EXCEPT ![Entry(p)] = "written"]
    /\ issuedTo' = IF ledger[p] = "issuance" THEN job[p] ELSE issuedTo
    /\ attemptAt' = IF ledger[p] = "attempt"
                    THEN [attemptAt EXCEPT ![job[p]] = now[p]] ELSE attemptAt
    /\ Goto(p, "seal")
    /\ UNCHANGED <<clock, unitVars, inboxVars, issuanceDir, reservedBy, localVars,
                   scopeVars, runs, effectVars, resultVars, faults>>

\* Fault: the contents of a record are not synced.
SealUnsynced(p) ==
    /\ pc[p] = "seal"
    /\ ledger' = [ledger EXCEPT ![p] = IF @ = "issuance" THEN "consumption" ELSE @]
    /\ Goto(p, CASE ledger[p] = "issuance"    -> "reserve"
                 [] ledger[p] = "consumption" -> "authorize"
                 [] ledger[p] = "attempt"     -> "execute")
    /\ UNCHANGED <<clock, unitVars, inboxVars, recordVars, job, now, before,
                   scopeVars, runs, effectVars, resultVars, faults>>

\* The fsyncs that end a publication, and what the job does next.
Seal(p) ==
    /\ pc[p] = "seal"
    /\ file' = [Synced(ledger[p], file) EXCEPT ![Entry(p)] = "stable"]
    /\ ledger' = [ledger EXCEPT ![p] = IF @ = "issuance" THEN "consumption" ELSE @]
    /\ Goto(p, CASE ledger[p] = "issuance"    -> "reserve"
                 [] ledger[p] = "consumption" -> "authorize"
                 [] ledger[p] = "attempt"     -> "execute")
    /\ UNCHANGED <<clock, unitVars, inboxVars, issuanceDir, issuedTo, attemptAt,
                   reservedBy, job, now, before, scopeVars, runs, effectVars,
                   resultVars, faults>>

----------------------------------------------------------------------------
(* Authorization, the runtime guard and the effect.                        *)

\* The activation binding is current at the time the job was stamped with,
\* however long ago that was.
BindingIsCurrent(p) == Current(job[p], now[p])

Issued(p) == ~MalformedIn("issuance") /\ Readable(Issuance) /\ issuedTo = job[p]

Consumed(p) ==
    ~MalformedIn("consumption") /\ Readable(<<"consumption", job[p]>>)

\* Both ledgers hold exactly this activation.
Authorized(p) == Issued(p) /\ Consumed(p) /\ BindingIsCurrent(p)

Authorize(p) ==
    /\ pc[p] = "authorize"
    /\ IF Authorized(p)
       THEN /\ Goto(p, "guard")
            /\ UNCHANGED <<localVars, scopeVars, resultVars>>
       ELSE Conclude(p, "UNRESOLVED")
    /\ UNCHANGED <<clock, unitVars, inboxVars, recordVars, runs, effectVars,
                   faults>>

\* The action, the bound effect and the target rule of the gate.
Activate(p) == activation' = [activation EXCEPT ![p] = Mode(p)]

\* The kernel lease, tried without waiting.
AcquireLease(p) == lease = None /\ lease' = p

\* The activation and then the lease, whose directory is synced.  The routing
\* layers in between test BindingIsCurrent again, with the same time.
Guard(p) ==
    /\ pc[p] = "guard"
    /\ Activate(p)
    /\ AcquireLease(p)
    /\ file' = Synced("attempt", file)
    /\ Goto(p, "budget")
    /\ UNCHANGED <<clock, unitVars, inboxVars, issuanceDir, issuedTo, attemptAt,
                   reservedBy, localVars, incident, runs, effectVars,
                   resultVars, faults>>

\* Fault: a contender sees no attempt and no active effect.
ContendUnnoticed(p) ==
    /\ pc[p] = "guard"
    /\ lease # None
    /\ file' = Synced("attempt", file)
    /\ activation' = [activation EXCEPT ![p] = Mode(p)]
    /\ ledger' = [ledger EXCEPT ![p] = "attempt"]
    /\ Goto(p, "reserve")
    /\ UNCHANGED <<clock, unitVars, inboxVars, issuanceDir, issuedTo, attemptAt,
                   reservedBy, job, now, before, lease, incident, runs,
                   effectVars, resultVars, faults>>

\* A contender is judged as if an effect were active and reads no attempt.
Contend(p) ==
    /\ pc[p] = "guard"
    /\ lease # None
    /\ file' = Synced("attempt", file)
    /\ Conclude(p, Denied(p))
    /\ UNCHANGED <<clock, unitVars, inboxVars, issuanceDir, issuedTo, attemptAt,
                   reservedBy, runs, effectVars, faults>>

Attempted == {j \in Jobs : Readable(Attempt(j))}

\* The records can be read and none is later than the time of the job.
LedgerIsSound(p) ==
    /\ ~MalformedIn("attempt")
    /\ \A j \in Attempted : attemptAt[j] <= now[p]

CooledDown(p) == \A j \in Attempted : now[p] >= attemptAt[j] + Cooldown

\* Fault: an attempt leaves the window a moment too early.
InOpenWindow(t) == {j \in Attempted : attemptAt[j] <= t /\ t < attemptAt[j] + Window}

InWindow(t) == {j \in Attempted : attemptAt[j] <= t /\ t <= attemptAt[j] + Window}

HasBudget(p) == Cardinality(InWindow(now[p])) < MaxAttempts

\* SystemdProductionTargetPolicy.assess under the lease.
Allow(p) ==
    /\ pc[p] = "budget"
    /\ LedgerIsSound(p)
    /\ CooledDown(p) /\ HasBudget(p)
    /\ ledger' = [ledger EXCEPT ![p] = "attempt"]
    /\ Goto(p, "reserve")
    /\ UNCHANGED <<clock, unitVars, inboxVars, recordVars, job, now, before,
                   scopeVars, runs, effectVars, resultVars, faults>>

Deny(p) ==
    /\ pc[p] = "budget"
    /\ \/ ~LedgerIsSound(p) /\ Conclude(p, "UNRESOLVED")
       \/ /\ LedgerIsSound(p)
          /\ ~(CooledDown(p) /\ HasBudget(p))
          /\ Conclude(p, Denied(p))
    /\ UNCHANGED <<clock, unitVars, inboxVars, recordVars, runs, effectVars,
                   faults>>

\* systemctl restart starts behind the execution identity boundary.
Execute(p) ==
    /\ pc[p] = "execute"
    /\ begun' = begun \cup {job[p]}
    /\ Goto(p, "effect")
    /\ UNCHANGED <<clock, unitVars, inboxVars, recordVars, localVars, scopeVars,
                   runs, restarted, resultVars, faults>>

Restart(p) ==
    /\ pc[p] = "effect"
    /\ invocations < MaxInvocation
    /\ invocations' = invocations + 1
    /\ unit' = invocations'
    /\ restarted' = restarted \cup {job[p]}
    /\ Goto(p, "verify")
    /\ UNCHANGED <<clock, inboxVars, recordVars, localVars, scopeVars, runs,
                   begun, resultVars, faults>>

\* The command fails or times out, with or without stopping the unit.
RestartFails(p) ==
    /\ pc[p] = "effect"
    /\ unit' \in {0, unit}
    /\ Conclude(p, "UNRESOLVED")
    /\ UNCHANGED <<clock, invocations, inboxVars, recordVars, runs, effectVars,
                   faults>>

\* SystemdRestartVerifier and, for a unit that was down, gate 4's verifier.
Verified(p) == unit # 0 /\ unit # before[p]

Verify(p) ==
    /\ pc[p] = "verify"
    /\ Conclude(p, IF Verified(p) THEN "RECOVERED" ELSE "UNRESOLVED")
    /\ UNCHANGED <<clock, unitVars, inboxVars, recordVars, runs, effectVars,
                   faults>>

----------------------------------------------------------------------------
(* Faults and the environment.                                             *)

\* A file operation, a snapshot or the command raises; what was written stays.
Raise(p) ==
    /\ pc[p] # "idle"
    /\ faults < MaxFaults
    /\ faults' = faults + 1
    /\ IF pc[p] \in {"opened", "unlinked"}
       THEN Forget(p) /\ UNCHANGED <<scopeVars, resultVars>>
       ELSE Conclude(p, "UNRESOLVED")
    /\ UNCHANGED <<clock, unitVars, inboxVars, recordVars, runs, effectVars>>

\* The kernel frees the lock of a dead process; its incident is gone with it.
Crash(p) ==
    /\ pc[p] # "idle"
    /\ faults < MaxFaults
    /\ faults' = faults + 1
    /\ Release(p)
    /\ Forget(p)
    /\ UNCHANGED <<clock, unitVars, inboxVars, recordVars, runs, effectVars,
                   resultVars>>

Unsettled == {e \in Entries : file[e] \in {"reserved", "written"}}

PowerLoss ==
    /\ faults < MaxFaults
    /\ faults' = faults + 1
    /\ inbox' \in {inbox, inboxOnDisk}
    /\ inboxOnDisk' = inbox'
    /\ \E kept \in SUBSET Unsettled :
         /\ file' = [e \in Entries |->
                       CASE e \notin Unsettled     -> file[e]
                         [] file[e] = "reserved"   -> IF e \in kept THEN "linked" ELSE "none"
                         [] file[e] = "written"    -> IF e \in kept THEN "stable" ELSE "linked"]
         /\ reservedBy' = IF file'[Issuance] = "none" THEN None ELSE reservedBy
    /\ unit' = 0
    /\ lease' = None
    /\ pc' = [p \in Processes |-> "idle"]
    /\ ledger' = [p \in Processes |-> "issuance"]
    /\ job' = [p \in Processes |-> None]
    /\ now' = [p \in Processes |-> 0]
    /\ before' = [p \in Processes |-> 0]
    /\ activation' = [p \in Processes |-> None]
    /\ incident' = [p \in Processes |-> FALSE]
    /\ UNCHANGED <<clock, invocations, filed, issuanceDir, issuedTo, attemptAt,
                   runs, effectVars, resultVars>>

Tick ==
    /\ clock < MaxTime
    /\ clock' = clock + 1
    /\ UNCHANGED <<unitVars, inboxVars, recordVars, pc, localVars, scopeVars,
                   runs, effectVars, resultVars, faults>>

\* The unit stops, or somebody else, or a restart whose process died, starts
\* a new invocation.
UnitChanges ==
    /\ \/ unit # 0 /\ unit' = 0 /\ UNCHANGED invocations
       \/ /\ invocations < MaxInvocation
          /\ invocations' = invocations + 1
          /\ unit' = invocations'
    /\ UNCHANGED <<clock, inboxVars, recordVars, pc, localVars, scopeVars, runs,
                   effectVars, resultVars, faults>>

----------------------------------------------------------------------------
Publish(p) == Reserve(p) \/ CannotReserve(p) \/ Write(p) \/ Seal(p)

Gate3(p) == OpenInbox(p) \/ TakeRequest(p) \/ LoseRequest(p) \/ SyncInbox(p)
                \/ Inspect(p) \/ Refuse(p) \/ Authorize(p)

Gate4(p) == \E c \in Cycles : Observe(p, c)

Guarded(p) == Guard(p) \/ Contend(p) \/ Allow(p) \/ Deny(p) \/ Execute(p)
                  \/ Restart(p) \/ RestartFails(p) \/ Verify(p)

Step(p) == Gate3(p) \/ Gate4(p) \/ Publish(p) \/ Guarded(p)

Environment == (\E r \in Requests : FileRequest(r)) \/ Tick \/ UnitChanges

Fault == (\E p \in Processes : Raise(p) \/ Crash(p)) \/ PowerLoss

Next == (\E p \in Processes : Step(p)) \/ Environment \/ Fault

Spec == Init /\ [][Next]_vars
----------------------------------------------------------------------------
(* Properties.                                                             *)

\* `must never replay an uncertain production restart': a request is handed to
\* _process at most once, whoever opens the inbox, and whatever a power loss
\* brings back into it.
RequestRunsOnce == \A r \in Requests : runs[r] <= 1

\* No restart without durable proof of it: the attempt is stable before the
\* command starts and, for a request, so are the issuance that names its
\* activation and the consumption.
EffectsAreRecorded ==
    \A j \in begun :
        /\ file[Attempt(j)] = "stable"
        /\ j \in Requests => /\ file[Issuance] = "stable"
                              /\ issuedTo = j
                              /\ file[<<"consumption", j>>] = "stable"

\* The restarts of the unit, of both gates and every process and over crashes,
\* stay within the limits of the target rule, by the times in the ledger.
EffectsWithinBudget ==
    /\ \A t \in 0..MaxTime :
         Cardinality({j \in begun : attemptAt[j] <= t
                                       /\ t <= attemptAt[j] + Window}) <= MaxAttempts
    /\ \A j, k \in begun :
         j = k \/ attemptAt[j] >= attemptAt[k] + Cooldown
               \/ attemptAt[k] >= attemptAt[j] + Cooldown

\* Between its reservation of an attempt and its verification a process is
\* alone: contenders, that do not wait for the lease, never get there.
OneEffectAtATime ==
    \A p, q \in Processes :
        p # q => ~(/\ pc[p] \in {"execute", "effect", "verify"}
                   /\ pc[q] \in {"execute", "effect", "verify"} \cup Publishing
                   /\ ledger[q] = "attempt")

\* What the ledgers and the lease are for: the restarts that were started keep to the
\* budget, which is only so while each is on record and alone.
BudgetIsKept == EffectsAreRecorded /\ EffectsWithinBudget /\ OneEffectAtATime

\* A partial attempt record, left by a crash or a failed write, stops every
\* later restart.
FailsClosed ==
    [][\A j \in Jobs :
         j \in begun' \ begun => \A k \in Jobs : ~Malformed(Attempt(k))]_vars

\* One approval, whoever asks for it: the detailed protocol of issuance,
\* consumption and attempt implements a single use token.
Token == INSTANCE SingleUseApproval
             WITH holder <- reservedBy, spent <- begun \cap Requests

ImplementsSingleUse == Token!Spec
=============================================================================
