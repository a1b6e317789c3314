# A TLA+ verification of AIRIV Sentinel

AIRIV Sentinel watches tmux panes and systemd units, turns what it observes into
incidents, diagnoses them, lets a Commander decide, and performs a remediation
behind a chain of fail-closed gates. The claims that carry the program are about
things that are hard to test: a remediation happens at most once although
processes are killed and machines lose power, a diagnosis rests on evidence and
on a budget although two threads write the same record, and a daemon whose
threads cannot be cancelled starts, restarts and stops without running two of
them. This directory models those parts in TLA+, checks them with TLC on small
instances, and proves the most important claims with TLAPS for every value of
the constants.

## 1. The system

The chain of authority is

    observation -> sensor adapter -> contract verification -> IncidentManager
      -> diagnostics -> Commander -> policy -> execution identity -> gate
      -> execution -> verification -> evidence -> incident lifecycle

| Component | State it keeps | Operations | Hard behaviour | What makes it correct |
|---|---|---|---|---|
| Execution identity (`remediation_execution_identity.py`) | a journal directory per identity, live-run permits | `claim`, `transition`, `claim_live_run_permit`, `recover_interrupted`, `execute`, `execute_bound` | processes race through the file system; kills and power loss between any two system calls | an identity and a run reach the effect at most once; the effect is announced durably first; outcomes are final and true |
| Gate and execution (`remediation_gate.py`, `execution.py`, `bound_effect_contract.py`) | none | compare authorization, run a subprocess | the command fails, hangs, times out | no effect without authorization |
| Incident manager (`incidents/manager.py`) | active incident per pane, evidence, in memory | evaluate, add evidence, resolve | shared by two threads, lost by a restart | a resolution reaches the incident that was decided on |
| Diagnostics (`diagnostic/`) | investigations, actions, hypotheses on disk; handoffs and outcomes in memory | register, step, handoff, recover, start, stop | two threads load, edit and save whole records; crashes between saves | hard budgets, supported diagnoses, one remediation per investigation, termination (not all of which hold, see the findings) |
| Runtime lifecycle (`runtime.py`, `runtime_reliability.py`) | `running`, cycle in progress, pending diagnostic thread | start, stop, run_once | threads that outlive their stop | one thread of each kind; no teardown during a cycle |
| Workers and daemon (`worker/`) | worker, supervisor and daemon states, retry counts, heartbeats | run_forever, supervise_once, recover, stop | timeouts, restarts, signals | a stop returns; retries are bounded; failures are answered |
| Commander and orchestrator (`commander.py`, `remediation_orchestrator.py`, verifiers, evidence) | incident records, handoff evidence | remediate, verify, resolve | replays, a shared verifier, stale decisions | authorization before identity; verified before resolved |
| Workflow (`workflow/`) | the lifecycle of an incident workflow and the journal of executed workflows, each one file behind a lock | record events, replay, load, create, replace | duplicated, late and conflicting events; stale writers; crashes and power loss between the system calls of a save | RECOVERED is earned; terminal is final; what was acknowledged is never lost, what is saved can be loaded |
| Production gates (`systemd_production_*`, `systemd_commander_integration.py`, the activation lease) | request inbox, issuance, consumption and attempt ledgers on disk; an effect lease in the kernel; an activation and an incident in memory | take a request, issue, consume, authorize, guard, restart, verify, conclude | a crash, a failed write or a power loss between any two steps; two gates and two processes over one home directory | a request and an approval are used once; a restart is recorded first and within its budget; one effect at a time; a partial record stops everything |
| Approved restarts (`systemd_canary_live_execution.py`, `systemd_production_probe_live_execution.py`, `systemd_remediation_safety.py`) | two inbox files, the journal, evidence and state files; the active policy and two latches in memory | poll, consume, observe, activate, permit, restart, verify, restore, retain evidence | a request filed again; a unit that others restart or edit; a lost piece of evidence that an idle state would hide | an approval restarts a unit once; success is earned; idle is a proof |
| Isolated live validation (`isolated_tmux_live_validation.py`, `first_live_preflight.py`, `controlled_live_dry_run.py`, `live_remediation_*`) | a directory with marker and socket, a tmux server, permits and identities in the journal | preflight, activate, observe, permit, respawn, verify, teardown | a process that dies, a tmux that fails, a directory another run finds | one respawn, on the server the permit names; no server left behind; no server of another run touched |
| Installers (`systemd_canary_bootstrap_executor.py`, `bounded_pilot_bootstrap_executor.py`) | files under `/etc`, what systemd has loaded, two services | check, install, apply, test, roll back | a step fails, then steps of the rollback fail; a job completes after its time out; files of somebody else | a result is true of the host; nothing foreign is removed |
| Sensors (`sensors/`, `state/`, `normalization/`, `runtime_sensor_adapter.py`) | last component states | parse, normalize, raise anomalies | unreadable or contradictory observations | anomalies come from real transitions |
| Incident reports (`incident_report*`) | one report file an incident | synchronize active incidents and history | read without a lock while the worker writes | a report never regresses |
| Agent and delivery ledgers (`ai_agent_*`, `commander_delivery*`) | one record an identity, on disk | claim, mark running, execute, finalize, replay | callers without a lock; crashes between directory and record | an effect at most once; answers agree |
| Legacy task runtime (root `*.py`) | priority queue | enqueue, schedule, retry | retries | bounded retries |
| Missions, releases, SLO, readiness of the pilot | values of one request | validate, project | - | straight-line decisions |

They interact as follows. `worker/entrypoint.py` builds the daemon; the daemon's
main thread starts the runtime worker and then the capability worker, whose
thread calls `SentinelRuntime.run_once`. A cycle asks the sensor adapter for
incidents, polls the inboxes of the approved restarts and the production gates,
synchronizes the incident reports, and submits the incidents to the diagnostic
coordinator, which starts or extends an investigation on disk. A second thread,
owned by the coordinator, steps the investigations, hands an established diagnosis to the Commander, and
terminalizes the incident. A remediation passes the policy and the execution
identity, whose journal is shared with other processes through the file system.
Signals only set an event that the daemon polls.

`PROJECT.json` lists every component with its files and status, and every
hazard we know of at its line.

## 2. Modules

**`ExecutionIdentity`** models the journal and the boundary of
`remediation_execution_identity.py`. Each caller is a process (or thread) with a
program counter; one action is one system call or one block of code that no
crash can divide. `state` and `bodyOf` are what a reader sees, `diskState`,
`linked`, `flushed` and `permitDirLinked` what survives a power loss: a file
survives when it was fsynced and its directory entry when the directory was. A
rename that has not been synced may or may not survive. `Submit` chooses one of
`Requests`, each with an identity, an optional live run and contents; a bound
request first links a permit, every request then stages, publishes by
`os.rename`, and the winner syncs the root, records RUNNING, performs the effect,
and records the outcome. The loser polls. `Crash` kills a caller, `PowerLoss`
kills all of them and chooses what survives, `FailBeforeEffect` and
`FailAfterEffect` are `OSError`s. `Recover` is `recover_interrupted` entry by
entry. With `RecoveryAtStartupOnly` it runs only while no caller does; without,
beside them.

**`OnceOnlyEffect`** is what that boundary promises, in three variables: an
identity is consumed, executed, closed. `ExecutionIdentity!ImplementsOnceOnly`
is the refinement; a consumed identity without effect or outcome may be lost in
a power loss, everything else may not.

**`Diagnostics`** models `incidents/manager.py` and `diagnostic/*`. `w` is the
diagnostic worker and `m` the main thread, each with the record it loaded, so a
save may overwrite what the other thread wrote in between: every change in
`InvestigationManager` is `load -> check -> edit -> save`, and `register_incident`
holds a lock that `DiagnosticEngine.step` does not take. An investigation is
reduced to its state, its consumed budget, its action numbers, its evidence
references and the observation behind its hypothesis. An observation either saw
the pane dead or alive. The Commander's decision and the success of the
remediation are nondeterministic. `Crash` forgets what is in memory, and
`WorkerSaveFails`/`MainSaveFails` fail before or after the file is replaced.
The two threads always run side by side. What a stale save of the main thread
takes back is written down in two history variables: `lost[i]` counts the
reserved actions that leave the consumed counters, `revived[i]` the times an
ended investigation becomes ACTIVE again. No guard reads them; the properties
use them to say what remains true although the documented claims
(`ReservationIsDurable`, `RemediatedOnce`) are refuted: nothing but such a save
can add a command past a budget or a second remediation.

**`Supervision`** models `worker/*`, `SentinelRuntime.start/stop/run_once` and
the thread of the coordinator. The main thread is a program counter over the
daemon loop; `cycler` holds the capability threads, `diagnostic.alive` the
diagnostic ones. A join ends with the thread or with the timeout, at the model's
choice. A cycle may fail or never end, a diagnostic thread may die on an
unreadable investigation, and `RequestStop` is a signal. The lifecycle lock is
`LifecycleLocked`: the only place where it is held over several steps is the join
in `SentinelRuntime.stop`.

**`ProductionRemediation`** models the two production gates that
`SentinelRuntime.run_once` runs in every cycle, and the durable state they share.
A process is a runtime with a program counter, a job is a gate 3 request or one
gate 4 cycle.

| State | Code |
|---|---|
| `inbox`, `inboxOnDisk`, `filed`, `evidence` | `gate3-live-request.json` as a reader and as a power loss sees it, its `created_at` and `expected_pre_invocation_id`, and `gate3-live-evidence.json` |
| `file[e]` | how far a record of the issuance, consumption or attempt ledger has come: no entry, `reserved` (a power loss may take it), `linked` (a durable empty entry), `written` (contents a power loss may take), `stable` |
| `lease` | the `flock` of `SystemdProductionEffectLease` |
| `activation`, `incident` | the temporary activation with the target rule, and the incident a job owns, both in the memory of its process |
| `now`, `before` | the one reading of the clock and the snapshot a job is judged by |
| `unit`, `invocations` | the invocation of the probe unit, 0 while it is not active |

Gate 3 is `OpenInbox`, `TakeRequest` or `LoseRequest`, `SyncInbox`, `Inspect` or
`Refuse`, the publication of the issuance and of the consumption, `Authorize`;
gate 4 starts with `Observe`. Both then go through `execute_verified`: `Guard` or
`Contend`, `Allow` or `Deny` by cooldown and window, the publication of the
attempt, `Execute`, `Restart` or `RestartFails`, `Verify`. The three ledgers
publish with the same system calls in the same order (`Reserve`, `Write`,
`Seal`), so they share these actions and `ledger` says which one is meant.
`Conclude` is every way out: lease, activation and incident are given back and
gate 3 leaves its evidence. `Raise` is an exception at any step, `Crash` the
death of a process, `PowerLoss` that of the machine. Some adjacent calls are one
step. The snapshot and the clock: a stop of the unit between them is not told
apart from one before or after both. The listing of a ledger and its `O_EXCL`
create: attempts are listed and created under the lease, the approval has one
issuance entry, and only its holder consumes, so no entry of somebody else can
appear in between. The fsync of a reservation and the contents after it: the
files it leaves behind are those of the steps before and after.

**`SingleUseApproval`** is what one Commander approval promises, in two
variables: it is held by at most one request, and spent at most once, by its
holder. `ProductionRemediation!ImplementsSingleUse` is the refinement, with the
owner of the issuance entry as the holder and the requests whose restart began
as what was spent. A holder that has not spent it may lose it in a power loss.

**`RemediationChain`** is the composition from an observation to a reported
outcome. The main thread takes a sensor tick, gives its signals to the
`IncidentManager` and writes reports; the worker hands an incident to the
Commander and terminalizes it in five steps, as `IncidentManager.resolve` and its
callers do; an operator calls `runtime.remediate` with any incident object he
holds. A remediation is `SwapVerifier`, `Claim`, `Replay` or `RefuseClaim`,
`Execute`, `Verify`, `RestoreVerifier`, `Finalize`; an identity is claimed, has
its effect and is closed, which `ExecutionIdentity` has in detail. What a tick can
say of a pane comes from **`SensorPipeline`**, operators translated from
`inspect_panes`, the activity detector, the contract verifier and the component
state machine: `PossibleSignals` is every answer they have for a live or a dead
pane after any history of the sensor. `Crash` loses the incidents and keeps the
identities and the reports. `Overlap` says whether two remediations may be in the
Commander at a time, `Standing` is the verifier the orchestrator was built with.

**`WorkflowRecords`** models `workflow/lifecycle.py`, the journal and the two file
stores. An object is a record with its history of events; `Accepts` and
`Projected` are the recording methods, `Replay` is what loading a file does, and
`Parse` and `Serialize` differ between the two stores as the code does. A writer
constructs or loads an object, records, and saves: create or replace under the
lock, compare the digest (and, for a lifecycle, the histories), rename, sync the
directory. `settled` is what a power loss is sure to keep. It refines
**`AppendOnlyHistory`**, in which a reader's history only grows and what was
acknowledged stays.

**`ReplayLedgers`** models the agent ledger and the delivery ledger with their
orchestrators. Neither holds a lock, so a step is one file operation with the
reads and checks before it, and the fsync that follows a write belongs to the
next step of the caller. The two differ in how they claim and in what a repeated
request does with an incomplete record. It refines `OnceOnlyEffect`.

**`ApprovedRestart`** models the two inboxes of approved restarts. One thread
polls them; `cycle` is its program counter. The operator files a new request or an
old one again; others restart, stop or edit the unit; any call may raise, and the
process or the host may stop. The journal is `permits` and `identities`, one
durable step each; a unit is its activity, its invocation and its definition;
`latches` are the two flags after which an IDLE state is no proof.

**`LiveValidation`** models the isolated controller and the remediation it hosts.
The runs share one directory; a run is one process at a time, which may die
anywhere and start again. The names of session, window and pane are the same on
every server, so only the generation check tells servers apart.

**`HostBootstrap`** models both installers over their injected boundaries. `step`
walks the files and commands of the manifest forward, and backward in the
rollback; every boundary call may succeed, fail, or raise with or without
effect, and somebody else may write a file in between.

Definitions that stand before another one and are used by no specification
(`ClaimAgain`, `OwnedIfMarked`, `ReplayEntryOnce` and the like) are the plausible
bugs each property was tested against; `PROJECT.json` pairs them with the
definition they replace.

The MC modules give the constants their values. `MCExecutionIdentity`,
`MCDiagnostics`, `MCProductionRemediation` and `MCRemediationChain` instantiate one
module each. `MCDurableRecords` (`WorkflowRecords`, `ReplayLedgers`),
`MCFairSchedule` (`Supervision`, `ExecutionIdentity`) and `MCBoundChanges`
(`ApprovedRestart`, `LiveValidation`, `HostBootstrap`) check several that share
neither files nor memory. A behaviour of such a module is one of one part while
the others stay in their initial states: since the parts cannot disturb each
other, their interleaving would show nothing more, and the states add up instead
of multiplying.

The theorems about a module are in a module of their own that extends it:
`ExecutionIdentity_proofs`, `Supervision_proofs`, `Diagnostics_proofs`,
`ProductionRemediation_proofs`, `ApprovedRestart_proofs` and `RemediationChain_proofs`;
`BoundChanges_proofs` is about `LiveValidation` and `HostBootstrap`, and
`DurableRecords_proofs` about `WorkflowRecords` and `ReplayLedgers`, as the MC modules of
these names are.

Where several invariants answer one question they are one named conjunction:
`EffectAtMostOnce` (per identity and per run), `AnswersAreTrue`, `OneThreadEach`
(of each kind), `DiagnosticsOK` (types and budgets), `ActsOnOwnIncident`,
`BudgetIsKept` (recorded first, within the window, one at a time), `StoresOK`,
`LiveRunIsContained`.

## 3. Runs

| Run | Question | Instance |
|---|---|---|
| `identity_once` | Is an effect performed at most once, announced, reported truly, never undone? | 2 symmetric callers, 2 identities, 1 live run; requests that clash: one identity with two contents, one run with two identities |
| `identity_recovery_aborts` | "Interrupted execution produces UNKNOWN": refuted | as `identity_once` |
| `identity_live_recovery` | "Terminal is immutable" with a recovery beside live callers: refuted | as `identity_once`, `RecoveryAtStartupOnly = FALSE` |
| `diagnostic_threads` | Are the commands, the remediations and the evidence of an investigation accounted for, does the handoff reach only its own incident, and does an investigation end? | 2 incidents that follow each other on one pane, 2 observations, a catalog of one action with one repetition, the threads side by side, 1 crash or failed save |
| `diagnostic_remediates_twice` | "Idempotent at the investigation boundary": refuted | 1 incident, 1 command, no fault |
| `diagnostic_lost_budget` | "reloads must retain all consumed counters": refuted | 1 incident, no fault |
| `diagnostic_restart_stuck` | "MUST NOT continue indefinitely": refuted | 1 incident, 1 fault |
| `fair_schedule` | Threads, teardown, retries, stops, failures of the daemon; does every call of the identity boundary return? | 3 runs of the daemon, 1 retry per worker, 2 threads of each kind, 1 death of a diagnostic thread; or 2 callers of one identity, with and without a permit |
| `production_gates` | Are approvals and requests single use, restarts recorded, alone and within budget, and does a partial record stop them? | 2 symmetric runtimes, 2 symmetric requests for one approval, 1 autonomous cycle, 1 fault; lifetime, cooldown and window of 1, times 0 to 2 |
| `durable_records` | Is RECOVERED earned and terminal final over events in any order; does a save lose nothing acknowledged; do agents and deliveries run once and give one answer? | 2 symmetric writers, 13 events or 4 executions, histories up to 7, 2 unsaved entries, 1 fault of a writer; or 3 symmetric callers, 1 agent, 1 delivery, 2 contents, 1 death or power loss |
| `remediation_chain` | Is only the verified called recovered, in memory and in reports, and does a report never regress? | 1 pane, 2 symmetric incident ids, 1 execution id, an allowed and a forbidden action, 1 request of the operator, 1 crash; remediations do not overlap |
| `bound_changes` | Does a bound change of the host happen once, on its own target, and is it reported truly? | 3 requests over 2 inboxes, 2 symmetric ids, 1 fault; or 2 runs over one directory, 2 servers, 3 faults; or both installers once, 1 foreign write |

Why these bounds are enough to be interesting. Two callers suffice for a race
over one identity because a caller's step depends on others only through the
files; the third party a permit race needs is a caller's own earlier life, which
`Crash` and a new `Submit` give. In `diagnostic_threads` the first of two
observations forms a hypothesis and the second, referenced by the main thread
while the worker goes on, meets a reserved action, a diagnosis and a completed
investigation; each of them can be undone by a save that started earlier. The
catalog has one entry that may be run once, so the repetition budget binds first and
a second command can only come of a lost reservation. The action budget binds
first in `diagnostic_lost_budget` and the risk budget in no run: that each of the
three holds for every choice of the constants is the theorem `HardBudgets`. Two
incidents on one pane are the least in which resolving by pane could hit the wrong
incident. The one fault is a crash or a failed save at any step of either thread; the
stale saves need none. `MCNext` has two bounds of its own: `i1` is opened before
`i2`, which breaks the symmetry of the two, and only `i1` is observed a second
time, since `i2` is there to be the wrong incident. The invariants behind the
theorems were also evaluated with one incident, three observations and three commands.
Three daemon runs with one
retry let a budget spent in one run be asked for in the next, and the second
thread of each kind is the one that must never start too early; a third would
need a second one alive. `fair_schedule` disables the deadlock check because a
process whose daemon has ended after its last allowed run has nothing left to do,
and a caller whose identity is consumed may have nothing left to ask.

In `production_gates` two runtimes are what a race over the inbox, the `O_EXCL`
entries and the lease needs. The second request is filed only while there is no
evidence and no issuance directory, which happens after the first was taken and
before it was issued, or after a crash in between; the autonomous cycle is the
other user of the attempt ledger. One fault is enough to leave each kind of
partial record. With a window and a cooldown of one and times up to two a budget
is spent and becomes free again, and a request expires while its job runs. The
deadlock check is off: with its requests, times and faults used up the modelled
host really is idle.

In `durable_records` seven entries are one more than a lifecycle needs to reach
RECOVERED, so that something can come after the end; the thirteen reports contain
both outcomes of most decisions, an id that is used again for other contents, a
result under two ids, a result of a foreign execution and a timeout. A stale save
needs two writers, each with entries the other has not seen. Three callers are the
owner, one that closes its record as UNKNOWN, and one that reads the answer of
either. In `remediation_chain` the crash and the second incident id give a pane
whose incident is another one than before; the one execution id is used by the
worker and asked for again by the operator, for the same or another incident and
action. The orchestrator has a standing verifier (`Standing = p1`), without which
nothing autonomous is ever verified and the runs would show nothing of it.
Overlapping remediations are left out because the code has one diagnostic worker
and calls `runtime.remediate` nowhere by itself; section 6 says what an overlap
would do. In `bound_changes` three
requests are the least for a first use, a replay and a use of the same approval in
the other inbox; two servers and three faults let a run die, start again and meet
the remains of its own or another run; and one run of each installer with one
foreign file lets every step fail with every set of files in place. `durable_records`
and `bound_changes` disable the deadlock check: with its requests filed, its writers
gone and its installers done, the modelled host is idle. `remediation_chain` keeps it.

## 4. Fairness

`ExecutionIdentity!Fairness` requires each caller to take its own steps and the
command of a bound request to end (`execute_argv` has a timeout, `execute` has
none); nothing is required of crashes or new calls. `Diagnostics!FairSpec`
requires both threads to run; observations and faults are never forced. The diagnostic executor has no timeout, so the
assumption that a command returns is the environment's, not the code's, and is
listed as a hazard. `Supervision!FairSpec` is weak fairness of the main thread
only: its waits have timeouts, while a cycle or a diagnostic command may hang.
`fair_schedule` takes the fairness of `ExecutionIdentity` and that of the main
thread once its daemon runs; the part that does not move is in its initial state,
where idle callers and an idle main thread owe no step. The other modules state
safety only: whether a report or a delivery is ever written depends on calls the
code does not promise to repeat.

## 5. Proofs

Every theorem holds for all values of the constants: any number of processes,
identities, requests, incidents, observations, faults and times. Almost none of the
properties is inductive, so each proof module states the invariant that is, has one
lemma for each of its conjuncts with one step for each action that can disturb it,
and derives the properties from it. In the larger modules a first group of lemmas
says what a step does at the process that takes it, and the lemmas of the invariant
rest on these. Every invariant was also evaluated by TLC over the reachable states of
a small instance before it was proved.

### What is assumed

* The assumption each module makes about its constants (`ConstantsAreTyped`, or
  `LiveConstants`, `BootstrapConstants`, `LedgerConstants`): pools are disjoint, bounds
  are numbers, and the value for "none" is nothing else. In `Diagnostics`,
  `NoneIsNoRecord` adds that "none" is no investigation record, in `RemediationChain`
  and `WorkflowRecords` `NoneIsNothingElse` that it is no outcome, incident or identity,
  and no object or history. A lifecycle event that is no decision (diagnostics, a start)
  counts as positive. TLC evaluates them in every run that uses the module.
* `RecoveryAtStartupOnly`, for the outcomes of `ExecutionIdentity` only. The code does
  not enforce it, it is how a journal must be used: without it finality is false, as
  `identity_live_recovery` shows. The at-most-once theorems do not need it.
* Nothing beyond its constants for `Diagnostics`: its theorems hold of the two threads in
  any interleaving. `ReservationIsDurable` and `RemediatedOnce` do not, as two runs show;
  the theorems say what is left of them.
* `OneRemediation`, for `RecoveriesAreVerified` only: remediations do not overlap in
  the Commander, and a standing verifier, if there is one, looks at the only pane. The
  code enforces neither. The first holds of the runtime because one diagnostic worker
  hands incidents over and nothing else calls `runtime.remediate`; the second is a
  matter of composition (see the findings). Without a standing verifier the theorem
  says that nothing is ever called recovered. `IncidentsAreWellFormed` and
  `ReportsMoveOn` need neither.

### What is proved

**`ExecutionIdentity_proofs`.** `TypeCorrect`, `AtMostOnce` (one effect per identity and
per live run) and `WriteAhead` (an effect is announced in the durable journal first), with
recovery beside the callers or not. A state in which two callers stand before the effect
of one identity satisfies at-most-once. `IdentityInv` adds that a caller past the
publication is the only owner (`OwnerIsUnique`), that what it owns is durable and
RUNNING before the effect (`OwnerIsDurable`), and that it comes before the first
effect (`EffectIsFirst`); `RunInv` says the same of the permit. With recovery at startup
`OutcomeInv` says of outcomes: recovery is alone (`RecoveryIsAlone`), an owner's record is
open until it closes it (`OwnedIsOpen`), a terminal record is the outcome of the effect
(`EffectIsDone`, `OutcomeIsReal`), what survives a power loss is a state that readers have
already left or are in (`DiskIsBehind`), the scan still lists every open identity it has
not closed (`RecoveryListsAll`, `RecoveryHoldsOne`), and a reply is final
(`RepliesAreFinal`). From it follow `TrueAnswers`, `FinalOutcome`, `ClosedRecovery` and
`OnceOnly`: the boundary implements `OnceOnlyEffect`.

**`Supervision_proofs`.** `TypeCorrect`, `SingleThreads`, `CleanStops`,
`TeardownOutsideCycle`, `RetryBudget`: every safety property of the supervision. A
second capability thread is impossible because every live one is the worker's
`_thread` (`CyclerIsKnown`); a second diagnostic thread because a live one is
either the coordinator's or, after a stop that timed out, the runtime's pending
one and then the coordinator has none (`DiagnosticIsKnown`); and a clean stop is
quiescent because a worker that was stopped has left nothing behind
(`SettledIsQuiet`), a shutdown without failure has settled the workers it passed
(`ShutdownSettles`), and a daemon that reports STOPPED is still idle
(`StoppedIsSettled`). The invariant falls into a part about threads and a part
about the daemon, each preserved by every action (`ThreadStep`, `DaemonStep`).

**`Diagnostics_proofs`.** All of it for the worker and the main thread in any
interleaving, with stale copies. `OwnIncident`: what the two hold at each point
(`WorkerHolds`, `MainHolds`) and that a handoff is of an open incident (`HandsOffOpen`)
suffice, because nobody but the worker takes an incident off its pane. Three more
invariants rest on this one, each about copies that may be stale:

* `ReservationInv`, for `HardBudgets` and `AccountedReservation`. The counter of each record
  and each copy is within every budget, and counter and `lost` together account for
  the commands that ran. A copy may carry too small a counter, but the sum never
  decreases: a save of the main thread adds to `lost` what it takes off the counter, and
  the worker's own save is of a copy that no command has followed. An action that is
  about to run has its reservation in the file or in `lost`.
* `RemediationInv`, for `OneRemediationPerEnd`. An active investigation has one chance of a
  remediation and so has a worker past the completion (`Chances`); with the remediations
  done they are at most one more than the times the investigation was revived. A
  completion passes the chance on, a remediation uses it up whether it returns or raises,
  a crash loses it, and only the save of an ACTIVE copy over an ended record makes a new one.
* `EvidenceInv`, for `SupportedDiagnosis`. Each record and each copy refers to observations
  there were and has no more results than commands that ran, counting the one the worker
  has run and not referenced yet (`Rests`, `Gained`). Saves that overwrite each other drop
  references and never make up any, so an established diagnosis has its minimum of
  evidence and a dead pane behind it, and so has whatever the worker does on its account.

**`ProductionRemediation_proofs`.** `TypeCorrect`, `RequestsRunOnce`, `KeepsBudget`,
`ClosesOnPartialRecord` and `SingleUse`, the refinement of `SingleUseApproval`. The budget
is the hard one: times are in the ledger, the decision was made on a listing of it, and
the clock may move in between. `LeaseIsHeld` gives one job at a time between its listing
and its end, `AttemptsAreDurable` and `EffectsAreRecorded` that every restart is a durable
entry, and `AllowanceHolds` that the listing a job was allowed on is still the ledger
when it records its own attempt; `LedgerKeepsBudget` is then kept by that one step. For
the approval, `EntriesAreExclusive` and `IssuanceIsOwned` say that an entry has the owner
who created it, `RequestsAreAuthorized` that a job past authorization owns both.

**`DurableRecords_proofs`.** Of `WorkflowRecords`, `RecordsAreWellFormed`,
`RecoveriesAreEarned`, `TerminalHistoriesAreFinal` and `AppendOnly`, the refinement of
`AppendOnlyHistory`, for lifecycles and journals of any length. They rest on what reading
a history computes: `ReadingExists` shows that the recursive definition in `Rebuilt` has a
solution, `ReadOneMore` that an entry more is read by what was read before, both by
induction over the length (the lemma `Induction` has a set of numbers where the
library's theorem has a predicate as parameter). A history is sound (`IsSound`) when
reading it rebuilds an object with that history, nothing in it follows its end
(`IsOpenBefore`), and all that the object says of itself is supported by entries in
order (`IsSupported`), or, of a journal, ids are its own. Every call keeps an object sound
(`RecordedIsSound`, `ExecutedIsSound`), and so does writing it, a journal in whatever order
(`WrittenIsSound`). `HistoriesAreSound` says it of every object, digest and file,
`HistoriesGrow` that what was acknowledged is in what is settled, that in the file, and
the digest of a writer in its object, `OneInStore` that the file between a replacement
and the return is the writer's own.

Of `ReplayLedgers`, `Survival`, `AnswersAreTrue` and `PerformsOnce`, the refinement of
`OnceOnlyEffect`, for callers without a lock. `OneOwner` says that a claim has one winner,
`CallsAreBound` what its record may be at each point, which includes the UNKNOWN that a
replay of an agent writes over a running attempt, `EffectsAreOwned` and `FreshUntilDone`
tie the effect to the owner, and `VerdictsAgree` what may have been told.

**`ApprovedRestart_proofs`.** `ApprovedAtMostOnce` and `TrueEvidence`. An effect on record has
spent its approval and its id, in either inbox; a cycle that stands before `systemctl` owns a
permit and an identity no effect has yet; what it verifies after a success or a replay
is later than the invocation the request named; and evidence that was missed keeps one
of the two latches up.

**`BoundChanges_proofs`.** Of `LiveValidation`, `Containment` and `OwnOnly`. One process is
between its mkdir and its last removal (`OneHolder`), the server behind the socket is that
of the holder or of the run that died (`SocketIsHolders`), a directory just made is empty
(`EmptyWhenTaken`), a living server is the one behind the socket or one that was not
killed (`NoServerIsLost`), and permit, observation and effect name one server
(`PlanIsBound`, `EffectIsBound`). Of `HostBootstrap`, `HonestInstallers` for both manifests:
what has been begun is in the list of the rollback (`BegunIsMarked`), the files passed are
in place exactly (`InstalledIsExact`), and a canary that came through the tests was
restarted under its restrictions (`RestartIsTested`).

**`RemediationChain_proofs`.** `IncidentsAreWellFormed` and `ReportsMoveOn` for threads in
any interleaving, `RecoveriesAreVerified` for remediations that do not overlap. The worker
remediates the incident that it was handed and resolves, in several steps, whatever is
active on its pane by then; that is the same incident, because one that is over stays
active only until the worker itself pops it (`ActiveIsLive`, `ThreadsHold`), and a signal
joins the active incident instead of opening another. Its outcome is written once and before TERMINAL
(`OutcomeIsSetOnce`), so a snapshot or a report cannot say that it is over without saying
how, and what was read of it, in memory, in the history or on the disk, is never ahead of
it (`CopiesAreTrue`, `ReportsAreBehind`); a crash drops the memory and no id is given out
again (`UsedIsKept`). For recoveries, one thread is in the Commander and the verifier is the
standing one outside an operator's swap (`VerifierIsOwn`), an effect that is going on
belongs to the identity its thread claimed (`EffectsAreOwn`), what the worker calls
verified is its own success and no replay (`WorkerIsTrue`), and the evidence of it is on
the incident before RECOVERED can be chosen (`RecoveryIsEarned`).

### What is only model-checked

* Liveness (`CallReturns`, `EndsOrIsDiagnosed`, `StopReturns`, `FailureIsAnswered`) and the
  absence of deadlock, which the prover cannot reach.
* What `SensorPipeline` computes of one observation is a finite table, which TLC
  evaluates in `remediation_chain`.

## 6. Findings

* `identity_recovery_aborts`: a claim killed between writing its record and its
  rename leaves a private directory; `recover_interrupted` takes it for an
  identity, its transition raises, and the scan ends before anything is
  recovered.
* `identity_live_recovery`: `transition` checks and replaces a record without a
  lock, so a recovery in one context can make a live identity UNKNOWN and its
  caller can make it RUNNING again.
* `diagnostic_lost_budget`: a save of the main thread that began before the
  worker's reservation puts the consumed counters back after the command ran.
* `diagnostic_remediates_twice`: the main thread loads an ACTIVE record, the worker
  saves the diagnosis and COMPLETED and waits for the lock in `_handoff_diagnosis`, and
  the main thread saves its copy, ACTIVE and without diagnosis. The worker remediates,
  `remediate` raises after its effect, no handoff is remembered, and the next cycle
  diagnoses and remediates again under a fresh execution id.
* `diagnostic_restart_stuck`: a crash or failed save between the diagnosis and
  the completion leaves an investigation ACTIVE for good. With two observations a stale
  save over the completion does the same without any fault, when its copy was loaded
  between the diagnosis and the completion.

Met while modelling, without a line of the repository that says otherwise: an
exact permit replay returns the record of an identity that is still running;
nothing outside the tests calls `recover_interrupted`; an interrupted diagnostic
action stays PLANNED, since the engine never stores RUNNING; a hypothesis formed
on a dead pane survives later observations of a living one; an exception in the
handoff leaves a COMPLETED investigation without outcome; the diagnostic thread
can die on an unreadable file and no heartbeat shows it; a stop requested before
`run_forever` clears its event is lost; a FAILED worker makes every later
shutdown fail; and with the production `RestartPolicy()` of zero retries a
failed capability leaves the daemon running with nothing to drive. Gate 3 reads
the clock once (`systemd_production_gate3_live_validation.py:400`) and passes that
time to every later test, so `is_current` is asked "immediately before routing"
(`SYSTEMD_PRODUCTION_ACTIVATION_RUNTIME_BRIDGE_CONTRACT.md`) about a time that may
be long past: a restart may begin after its activation expired, and the attempt
is recorded with the older time. The budget in
`BudgetIsKept` is therefore stated of the times in the ledger.

Approved restarts. `execute_verified` verifies a replayed success again
(`systemd_commander_integration.py:288`), so a request that is filed a second time
may end in TERMINAL_SUCCESS, with replayed true, because somebody else restarted the
unit; "replayed ... requests fail closed"
(`SYSTEMD_PRODUCTION_PROBE_LIVE_EXECUTION_CONTRACT.md:36`) holds of the effect, not of
the outcome. While a lease is active the legacy `policy.evaluate` allows a
restart of any component; the validity of a request is not read again between
activation and effect; the unit can restart by itself between the observation and
the restart, and the effect binds neither its invocation nor its drop-ins. The
canary and the probe share the journal and the prefixes of their ids, so a canary
request may spend the approval of the probe, and the probe then fails closed. A
request file that is unsafe or locked stays, and every cycle retains failure
evidence for it.

Isolated validation. A crash between the mkdir and the marker, or between the
removal of the marker and of the directory, leaves a directory no later run can
use or remove. A `kill-server` that fails while the socket is removed loses the
server (`unkilled`); `_cleanup_after_failed_activation` removes files also when
the ownership test failed. The authorization of a dry run outlives its lease, and
`execute_prepared_bound_tmux_remediation` evaluates no policy. A failed effect and
a replay end with "exact_verification_not_performed_once" after the outcome was
recorded. Two live processes of one run could each see the marker and end the
other's server between test and use; the model has one process a run.

Installers. The contract of the canary bootstrap promises a rollback after any
failure once something has changed, but what `exists`, `canary_active` and the
like raise inside `_rollback` leaves it without a result; FAILED_NO_MUTATION may
leave a half-written first file, and a start job that timed out may complete after
ROLLED_BACK. `ResultIsTrue` says exactly what remains true.

Records. A writer of `WorkflowRecords` saves an object with the digest it loaded or
stored that object with; nothing in the repository but the tests calls the two stores.
With the digest of the file as it is, the object extends the history in the file, so
`_assert_append_only` (`workflow/lifecycle_store.py:185`) never refuses anything in the
model: it matters to a caller that pairs an object with the digest of another one,
which is not modelled. `_exclusive_lock` of both workflow stores closes its descriptor
twice when locking fails. A workflow that crashes before its journal is saved runs its
commands again. The agent ledger overwrites without a lock: a replay can turn
SUCCEEDED into UNKNOWN and a finalize UNKNOWN into SUCCEEDED, against the
comment at `ai_agent_identity.py:326`; hence `AnswersAgree` is about what was
told, not about what is on the disk. A crash leaves a delivery RUNNING for good.

Chain. Two remediations in one Commander swap its verifier without a lock and may
restore each other's (`Overlap`). A report synchronization can find an incident
both active and in the history; reports of incidents lost in a restart stay active
for good; evidence that reaches a terminal incident is missing from its snapshot;
the state machine stays FAILED on a pane that is alive again and opens new
incidents; and without a standing verifier, as the default composition builds it,
an autonomous remediation is never verified. A standing verifier looks at one fixed
pane, so with several panes an incident of another one would be called recovered
because that pane is alive; this is why the run has one pane. The docstring of `run_cycle`
(`diagnostic/runtime_coordinator.py:554`) contradicts line 467.

## 7. Not modelled, and why

Straight-line code over one request or a read-only projection, where a unit test
says all a model could: missions and the Commander's constitution, releases, health
projections and SLO, the composition and readiness of the pilot, the manifests of the
first preflight, `systemd_controlled_dry_run.py`, `systemd_live_canary_preflight.py`,
the routing layers that are disabled by default, the evidence reports, queries and
packages (`incident_evidence*.py`), the resource measurements of the worker, and the
projection of deliveries.

Text and wording: the panes a sensor parses (an arbitrary observation here), the
contents of evidence beyond what a property tells apart, and malformed input, which is
one outcome "raises".

In the modelled components: timestamps (a deadline may pass at any time; only
`ProductionRemediation`, whose budgets are made of times, has a clock); in the chain the
memory of the sensor between ticks, which is any memory at each tick; the checks of
the agent's result verifier one by one, which are a verdict; the probe design and the
trusted evidence store; an enablement file that changes while the runtime runs; the
planner and the handlers of workflow steps; `HypothesisManager` and the investigation
states no path sets. In `HostBootstrap` the last tests of a run are one step, and
`install_exact` is assumed not to overwrite, as its contract says.

The legacy task runtime is a separate single-threaded program over one YAML queue
that nothing under `sentinel/` imports; the scripts have no state.

## 8. Plan

The models are complete for the components `PROJECT.json` calls modelled or partly
modelled, every safety property the passing runs check is proved, and so are the refinements of
the three abstract specifications. What remains would extend the models: the controlled
dry run and the preflight of the canary, the projection of deliveries, and the evidence
reports, none of which changes the state that the properties are about.
