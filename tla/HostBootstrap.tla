--------------------------- MODULE HostBootstrap ---------------------------
(***************************************************************************)
(* The two installers that prepare a host for remediation: the canary      *)
(* bootstrap (systemd_canary_bootstrap_executor.py, its manifest and its   *)
(* polkit design) and the helper of the bounded pilot                      *)
(* (bounded_pilot_bootstrap_executor.py).  Each installs its files in      *)
(* order, runs its commands, verifies, and rolls back when a step fails.   *)
(* The file system, systemctl and the authorization probe are injected     *)
(* boundaries: a call may succeed, fail, or raise with or without effect.  *)
(***************************************************************************)
EXTENDS Naturals, Sequences, FiniteSets

CONSTANTS
    Installers,    \* of "canary" and "pilot"
    MaxRuns,       \* bound: runs of an installer
    MaxTampers     \* bound: files that somebody else writes

BootstrapConstants == Installers \subseteq {"canary", "pilot"}

ASSUME BootstrapConstantsAreTyped == BootstrapConstants

\* What the manifests say: the files in the order of their installation, the
\* commands that apply them, and those that a rollback runs once they are removed.
Artifacts(i) == IF i = "canary" THEN <<"dropin", "unit", "rule">> ELSE <<"helper", "pilotRule">>

ApplyCommands(i) == IF i = "canary" THEN <<"reload", "restart", "start">> ELSE <<"reload">>

RollbackCommands(i) == IF i = "canary" THEN <<"reload", "restart", "reset">> ELSE <<"reload">>

RuleOf(i) == IF i = "canary" THEN "rule" ELSE "pilotRule"

RolesOf(i) == {Artifacts(i)[k] : k \in DOMAIN Artifacts(i)}

Roles == UNION {RolesOf(i) : i \in {"canary", "pilot"}}

Results == {"SUCCEEDED", "BLOCKED", "FAILED_NO_MUTATION", "ROLLED_BACK", "ROLLBACK_FAILED"}

VARIABLES
    file,       \* per path: absent, exact (as in the manifest), damaged, or foreign
    loaded,     \* the definitions systemd has read: of "dropin" and "unit"
    sentinel,   \* the Sentinel service: active, no new privileges, invocation
    canary,     \* the canary service: inactive, starting (a job is pending), active
    setup,      \* per installer, the run it is in
    tampers     \* how many files somebody else has written

hostVars == <<file, loaded, sentinel, canary>>
bootVars == <<hostVars, setup, tampers>>

NotRunning(result, n) ==
    [pc |-> "idle", step |-> 1, began |-> FALSE, before |-> 0, errors |-> FALSE,
     result |-> result, runs |-> n]

BootInit ==
    /\ file = [r \in Roles |-> "absent"]
    /\ loaded = {}
    /\ sentinel = [active |-> TRUE, nnp |-> FALSE, invocation |-> 1]
    /\ canary = "inactive"
    /\ setup = [i \in Installers |-> NotRunning("none", 0)]
    /\ tampers = 0

StepAt(i, pc) == setup[i].pc = pc

GotoStep(i, pc) == setup' = [setup EXCEPT ![i].pc = pc, ![i].step = 1]

NextStep(i) == setup' = [setup EXCEPT ![i].step = @ + 1]

Report(i, result) == setup' = [setup EXCEPT ![i] = NotRunning(result, @.runs)]

Collides(i) == \E r \in RolesOf(i) : file[r] # "absent"

\* The handler of everything that raises in the try block of execute.
Caught(r) ==
    IF r.began THEN [r EXCEPT !.pc = "rollback", !.step = 1]
    ELSE NotRunning("FAILED_NO_MUTATION", r.runs)

\* prepare_*_authorization: both approvals are given, and the host is as expected.
Prepare(i) ==
    /\ StepAt(i, "idle")
    /\ setup[i].runs < MaxRuns
    /\ i = "canary" => ~Collides(i) /\ ~sentinel.nnp
    /\ setup' = [setup EXCEPT ![i] = [NotRunning("none", @.runs + 1) EXCEPT !.pc = "check"]]
    /\ UNCHANGED <<hostVars, tampers>>

\* The tests before the first change; the pilot only looks for its files.
Check(i) ==
    /\ StepAt(i, "check")
    /\ IF Collides(i) \/ (i = "canary" /\ (~sentinel.active \/ sentinel.nnp))
         THEN Report(i, "BLOCKED")
         ELSE setup' = [setup EXCEPT ![i].pc = "install", ![i].before = sentinel.invocation]
    /\ UNCHANGED <<hostVars, tampers>>

Artifact(i) == Artifacts(i)[setup[i].step]

\* install_exact never writes over a file.
Install(i) ==
    /\ StepAt(i, "install")
    /\ file[Artifact(i)] = "absent"
    /\ \E content \in {"exact", "damaged"} : file' = [file EXCEPT ![Artifact(i)] = content]
    /\ setup' = [setup EXCEPT ![i].pc = "verify", ![i].began = TRUE]
    /\ UNCHANGED <<loaded, sentinel, canary, tampers>>

\* It raises, before it has written anything or in the middle of the file.
InstallRaises(i) ==
    /\ StepAt(i, "install")
    /\ setup' = [setup EXCEPT ![i] = Caught(@)]
    /\ \/ UNCHANGED file
       \/ /\ file[Artifact(i)] = "absent"
          /\ file' = [file EXCEPT ![Artifact(i)] = "damaged"]
    /\ UNCHANGED <<loaded, sentinel, canary, tampers>>

VerifyFiles(i) ==
    /\ StepAt(i, "verify")
    /\ file[Artifact(i)] = "exact"
    /\ IF setup[i].step < Len(Artifacts(i))
         THEN setup' = [setup EXCEPT ![i].pc = "install", ![i].step = @ + 1]
         ELSE GotoStep(i, "apply")
    /\ UNCHANGED <<hostVars, tampers>>

\* verify_exact, a probe or a test after a command says no, or raises.
StepFails(i) ==
    /\ setup[i].pc \in {"verify", "test", "probe"}
    /\ setup' = [setup EXCEPT ![i] = Caught(@)]
    /\ UNCHANGED <<hostVars, tampers>>

\* What systemd does on each command; the restarted service may die at once.
CommandEffect(command) ==
    \/ /\ command = "reload"
       /\ loaded' = {r \in {"dropin", "unit"} : file[r] = "exact"}
       /\ UNCHANGED <<file, sentinel, canary>>
    \/ /\ command = "restart"
       /\ \E alive \in BOOLEAN :
             sentinel' = [active |-> alive, nnp |-> "dropin" \in loaded,
                          invocation |-> sentinel.invocation + 1]
       /\ UNCHANGED <<file, loaded, canary>>
    \/ /\ command = "start"
       /\ "unit" \in loaded
       /\ canary' \in {"active", "starting"}
       /\ UNCHANGED <<file, loaded, sentinel>>
    \/ /\ command = "stop"
       /\ canary' = "inactive"
       /\ UNCHANGED <<file, loaded, sentinel>>
    \/ command = "reset" /\ UNCHANGED hostVars

ApplyCommand(i) ==
    /\ StepAt(i, "apply")
    /\ CommandEffect(ApplyCommands(i)[setup[i].step])
    /\ canary' # "starting"
    /\ setup' = [setup EXCEPT ![i].pc = "test"]
    /\ UNCHANGED tampers

\* It exits with a code other than 0, or times out, in which case systemd may still
\* do what it was asked.
ApplyCommandFails(i) ==
    /\ StepAt(i, "apply")
    /\ CommandEffect(ApplyCommands(i)[setup[i].step]) \/ UNCHANGED hostVars
    /\ setup' = [setup EXCEPT ![i] = Caught(@)]
    /\ UNCHANGED tampers

\* The Sentinel runs anew and without new privileges; the canary is active.
Passes(i, command) ==
    /\ command = "restart" => /\ sentinel.active /\ sentinel.nnp
                              /\ sentinel.invocation # setup[i].before
    /\ command = "start" => canary = "active"

TestCommand(i) ==
    /\ StepAt(i, "test")
    /\ Passes(i, ApplyCommands(i)[setup[i].step])
    /\ IF setup[i].step < Len(ApplyCommands(i))
         THEN setup' = [setup EXCEPT ![i].pc = "apply", ![i].step = @ + 1]
         ELSE GotoStep(i, "probe")
    /\ UNCHANGED <<hostVars, tampers>>

\* polkit grants the daemon what the exact rule says of a service without new
\* privileges, and must grant a shell nothing.
Authorizes(i) == file[RuleOf(i)] = "exact" /\ sentinel.nnp

Succeed(i) ==
    /\ StepAt(i, "probe")
    /\ Authorizes(i)
    /\ Report(i, "SUCCEEDED")
    /\ UNCHANGED <<hostVars, tampers>>

-----------------------------------------------------------------------------
\* _rollback stops the canary first, if it is active.
RollbackStop(i) ==
    /\ StepAt(i, "rollback")
    /\ IF i = "canary" /\ canary = "active"
         THEN \/ CommandEffect("stop") /\ GotoStep(i, "remove")
              \/ /\ UNCHANGED hostVars
                 /\ setup' = [setup EXCEPT ![i] = [@ EXCEPT !.pc = "remove", !.errors = TRUE]]
         ELSE GotoStep(i, "remove") /\ UNCHANGED hostVars
    /\ UNCHANGED tampers

\* The files in reverse order, each only while it is what was installed.
Reversed(i) == Artifacts(i)[Len(Artifacts(i)) + 1 - setup[i].step]

RemovablePresent(r) == file[r] # "absent"

Removable(r) == file[r] = "exact"

AfterRemoval(r, i, failed) ==
    [r EXCEPT !.errors = @ \/ failed,
              !.pc = IF r.step < Len(Artifacts(i)) THEN "remove" ELSE "undo",
              !.step = IF r.step < Len(Artifacts(i)) THEN @ + 1 ELSE 1]

Remove(i) ==
    /\ StepAt(i, "remove")
    /\ Removable(Reversed(i))
    /\ file' = [file EXCEPT ![Reversed(i)] = "absent"]
    /\ setup' = [setup EXCEPT ![i] = AfterRemoval(@, i, FALSE)]
    /\ UNCHANGED <<loaded, sentinel, canary, tampers>>

\* There is no such file, it has changed, or its removal raises.
RemoveNot(i) ==
    /\ StepAt(i, "remove")
    /\ setup' = [setup EXCEPT ![i] = AfterRemoval(@, i, file[Reversed(i)] # "absent")]
    /\ UNCHANGED <<hostVars, tampers>>

\* Each command is run even when the one before it has failed.
Undo(i) ==
    /\ StepAt(i, "undo")
    /\ \E failed \in BOOLEAN :
          /\ CommandEffect(RollbackCommands(i)[setup[i].step]) \/ (failed /\ UNCHANGED hostVars)
          /\ setup' = [setup EXCEPT ![i].errors = @ \/ failed,
                                    ![i].pc = IF setup[i].step < Len(RollbackCommands(i))
                                            THEN "undo" ELSE "prove",
                                ![i].step = @ + 1]
    /\ UNCHANGED tampers

RestoredFiles(i) == ~Collides(i)

\* The last tests of _rollback.
Restored(i) ==
    /\ ~Collides(i)
    /\ i = "canary" => sentinel.active /\ ~sentinel.nnp /\ canary # "active"

Prove(i) ==
    /\ StepAt(i, "prove")
    /\ Report(i, IF ~setup[i].errors /\ Restored(i) THEN "ROLLED_BACK" ELSE "ROLLBACK_FAILED")
    /\ UNCHANGED <<hostVars, tampers>>

\* exists, sentinel_active, canary_active and the like are not guarded outside the
\* try block: what they raise, and the death of the process, end a run without result.
EndsWithoutResult(i) ==
    /\ ~StepAt(i, "idle")
    /\ Report(i, "none")
    /\ UNCHANGED <<hostVars, tampers>>

-----------------------------------------------------------------------------
\* A pending job of systemd completes.
JobCompletes ==
    /\ canary = "starting"
    /\ canary' = "active"
    /\ UNCHANGED <<file, loaded, sentinel, setup, tampers>>

\* Somebody else writes a file where an installer writes.
Tamper ==
    /\ tampers < MaxTampers
    /\ tampers' = tampers + 1
    /\ \E r \in Roles : file' = [file EXCEPT ![r] = "foreign"]
    /\ UNCHANGED <<loaded, sentinel, canary, setup>>

InstallerStep(i) ==
    \/ Prepare(i) \/ Check(i) \/ Install(i) \/ InstallRaises(i) \/ VerifyFiles(i) \/ StepFails(i)
    \/ ApplyCommand(i) \/ ApplyCommandFails(i) \/ TestCommand(i) \/ Succeed(i)
    \/ RollbackStop(i) \/ Remove(i) \/ RemoveNot(i) \/ Undo(i) \/ Prove(i)
    \/ EndsWithoutResult(i)

BootNext == (\E i \in Installers : InstallerStep(i)) \/ JobCompletes \/ Tamper

BootSpec == BootInit /\ [][BootNext]_bootVars

-----------------------------------------------------------------------------
\* What a result says of the host when it is given.
ResultIsTrue(i) ==
    /\ setup'[i].result = "SUCCEEDED" =>
          \/ tampers > 0
          \/ /\ \A r \in RolesOf(i) : file[r] = "exact"
             /\ i = "canary" => /\ sentinel.active /\ sentinel.nnp /\ canary = "active"
                                /\ sentinel.invocation # setup[i].before
    /\ setup'[i].result = "FAILED_NO_MUTATION" =>
          /\ \A r \in RolesOf(i) \ {Artifacts(i)[1]} : file'[r] \in {"absent", "foreign"}
          /\ file'[Artifacts(i)[1]] # "exact"
    /\ setup'[i].result = "ROLLED_BACK" =>
          /\ \A r \in RolesOf(i) : file[r] = "absent"
          /\ i = "canary" => sentinel.active /\ ~sentinel.nnp /\ canary # "active"

\* An installer that reports success has installed everything, with the Sentinel
\* restarted under its new restrictions; one that reports a rollback has put the host
\* back; one that reports that it changed nothing has left at most the file it failed to
\* write; and none removes a file that somebody else wrote
\* (execute and _rollback of both executors).
InstallersAreHonest ==
    [][/\ \A i \in Installers : setup'[i].result # setup[i].result => ResultIsTrue(i)
       /\ \A r \in Roles : file[r] = "foreign" => file'[r] = "foreign"]_bootVars
=============================================================================
