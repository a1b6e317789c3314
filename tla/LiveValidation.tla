--------------------------- MODULE LiveValidation ---------------------------
(***************************************************************************)
(* The controlled live validation of remediation on an isolated tmux       *)
(* server: the controller that owns the server and its directory           *)
(* (isolated_tmux_live_validation.py), and the chain that remediates one   *)
(* pane of it: preflight, dry run, bound plan, permit, effect and exact    *)
(* verification.  A run is one process at a time, which may die anywhere   *)
(* and start again; different runs may be given the same directory.  tmux  *)
(* and its servers are external.                                           *)
(***************************************************************************)
EXTENDS Naturals, Sequences, FiniteSets

CONSTANTS
    Runs,         \* run ids; all are given the same directory
    Nothing,
    MaxServers,       \* bound: servers that are started
    MaxLiveFaults     \* bound: calls that fail or raise, servers that die, crashes

\* Nothing is neither a server nor a run, and no run is called as an unmarked directory is.
LiveConstants == Nothing \notin Nat \cup {"unmarked"} /\ Runs \cap {Nothing, "unmarked"} = {}

ASSUME LiveConstantsAreTyped == LiveConstants

VARIABLES
    marker,      \* the directory: Nothing, "unmarked", or the run its marker names
    socket,      \* the server behind the socket in the directory, or Nothing
    servers,     \* sequence of servers: run, alive, pane, keep (remain-on-exit)
    run,         \* per run, its process: where it is, and the server it has observed
    runPermits,  \* the journal: per run, the server its permit is bound to, or Nothing
    runIdentities, \* the journal: per run, the state of its execution, or Nothing
    respawns,    \* history: <<run, server>> of every respawn of a pane
    verified,    \* history: the last exact verification of a run: the server, or Nothing
    unkilled,    \* history: servers that a kill-server failed to end
    liveFaults

dirVars == <<marker, socket>>
runJournal == <<runPermits, runIdentities>>
runHistory == <<respawns, verified, unkilled>>
liveVars == <<dirVars, servers, run, runJournal, runHistory, liveFaults>>

Away == [pc |-> "away", server |-> Nothing]

LiveInit ==
    /\ marker = Nothing
    /\ socket = Nothing
    /\ servers = <<>>
    /\ run = [r \in Runs |-> Away]
    /\ runPermits = [r \in Runs |-> Nothing]
    /\ runIdentities = [r \in Runs |-> Nothing]
    /\ respawns = <<>>
    /\ verified = [r \in Runs |-> Nothing]
    /\ unkilled = {}
    /\ liveFaults = 0

RunAt(r, pc) == run[r].pc = pc

RunGoto(r, pc) == run' = [run EXCEPT ![r].pc = pc]

LiveFault == liveFaults < MaxLiveFaults /\ liveFaults' = liveFaults + 1

Reachable == IF socket # Nothing /\ servers[socket].alive THEN {socket} ELSE {}

-----------------------------------------------------------------------------
\* run_first_live_preflight: the directory and the socket are absent; the policy and
\* the catalog of a new process always are empty.
Preflight(r) ==
    /\ RunAt(r, "away")
    /\ marker = Nothing
    /\ RunGoto(r, "root")
    /\ UNCHANGED <<dirVars, servers, runJournal, runHistory, liveFaults>>

\* activate: mkdir is exclusive, whatever the preflight has seen.
MakeRoot(r) ==
    /\ RunAt(r, "root")
    /\ IF marker = Nothing
         THEN marker' = "unmarked" /\ RunGoto(r, "mark")
         ELSE RunGoto(r, "away") /\ UNCHANGED marker
    /\ UNCHANGED <<socket, servers, runJournal, runHistory, liveFaults>>

\* The marker is synced before the server is started.
Mark(r) ==
    /\ RunAt(r, "mark")
    /\ marker' = r
    /\ RunGoto(r, "start")
    /\ UNCHANGED <<socket, servers, runJournal, runHistory, liveFaults>>

\* It cannot be opened, and the directory stays; or it cannot be written.
MarkFails(r) ==
    /\ RunAt(r, "mark")
    /\ LiveFault
    /\ marker' \in {"unmarked", Nothing}
    /\ RunGoto(r, "away")
    /\ UNCHANGED <<socket, servers, runJournal, runHistory>>

ServerOf(r) == [run |-> r, alive |-> TRUE, pane |-> "running", keep |-> FALSE]

\* new-session succeeds, or fails and may have started the server all the same.
Start(r) ==
    /\ RunAt(r, "start")
    /\ Len(servers) < MaxServers
    /\ servers' = Append(servers, ServerOf(r))
    /\ socket' = Len(servers')
    /\ \/ RunGoto(r, "option") /\ UNCHANGED liveFaults
       \/ RunGoto(r, "abort") /\ LiveFault
    /\ UNCHANGED <<marker, runJournal, runHistory>>

StartFails(r) ==
    /\ RunAt(r, "start")
    /\ LiveFault
    /\ RunGoto(r, "abort")
    /\ UNCHANGED <<dirVars, servers, runJournal, runHistory>>

\* remain-on-exit is set after the workload was started, which may have ended by then.
SetOption(r) ==
    /\ RunAt(r, "option")
    /\ \E g \in Reachable : servers' = [servers EXCEPT ![g].keep = TRUE]
    /\ RunGoto(r, "observe")
    /\ UNCHANGED <<dirVars, runJournal, runHistory, liveFaults>>

OptionFails(r) ==
    /\ RunAt(r, "option")
    /\ IF Reachable = {} THEN UNCHANGED liveFaults ELSE LiveFault
    /\ RunGoto(r, "abort")
    /\ UNCHANGED <<dirVars, servers, runJournal, runHistory>>

-----------------------------------------------------------------------------
OwnedIfMarked(r) == marker # Nothing

\* _validate_ownership: the marker is there and is this run's.
Owned(r) == marker = r

Killed == [g \in DOMAIN servers |-> IF g \in Reachable THEN [servers[g] EXCEPT !.alive = FALSE]
                                                       ELSE servers[g]]

\* kill-server ends the server behind the socket; or it fails.
KillServer ==
    \/ servers' = Killed /\ UNCHANGED <<unkilled, liveFaults>>
    \/ LiveFault /\ unkilled' = unkilled \cup Reachable /\ UNCHANGED servers

\* _cleanup_after_failed_activation: what kill-server says is ignored.
Abort(r) ==
    /\ RunAt(r, "abort")
    /\ IF Owned(r) THEN KillServer ELSE UNCHANGED <<servers, unkilled, liveFaults>>
    /\ RunGoto(r, "remove")
    /\ UNCHANGED <<dirVars, runJournal, respawns, verified>>

\* teardown, by the process that activated or by a later one of the same run; where
\* there is no directory or another's, it touches nothing.  A kill-server that times out
\* raises before any file is removed.
Teardown(r) ==
    /\ run[r].pc \in {"away", "observe", "raised"}
    /\ Owned(r)
    /\ \/ KillServer /\ RunGoto(r, "remove")
       \/ LiveFault /\ RunGoto(r, "away") /\ UNCHANGED <<servers, unkilled>>
    /\ UNCHANGED <<dirVars, runJournal, respawns, verified>>

\* _remove_owned_files: the marker, then the socket and the directory.
RemoveMarker(r) ==
    /\ RunAt(r, "remove")
    /\ marker' = IF marker = Nothing THEN Nothing ELSE "unmarked"
    /\ RunGoto(r, "removeRest")
    /\ UNCHANGED <<socket, servers, runJournal, runHistory, liveFaults>>

RemoveRest(r) ==
    /\ RunAt(r, "removeRest")
    /\ marker' = Nothing
    /\ socket' = Nothing
    /\ run' = [run EXCEPT ![r] = Away]
    /\ UNCHANGED <<servers, runJournal, runHistory, liveFaults>>

-----------------------------------------------------------------------------
\* Whatever raises in the with block of the controller goes on to its teardown.
Raised(r) == run' = [run EXCEPT ![r].pc = "raised", ![r].server = Nothing]

\* The sensor sees the dead pane of the isolated session.
SeenDead(g) == g \in Reachable /\ servers[g].pane = "dead"

\* The plan is built from what is persisted of that, and names the generation of the
\* server.
Planned(r, g) == [run EXCEPT ![r].pc = "permit", ![r].server = g]

\* prepare_controlled_live_dry_run authorizes the plan under a lease that it closes.
Observe(r) ==
    /\ RunAt(r, "observe")
    /\ \E g \in DOMAIN servers : SeenDead(g) /\ run' = Planned(r, g)
    /\ UNCHANGED <<dirVars, servers, runJournal, runHistory, liveFaults>>

\* prepare_controlled_live_dry_run raises: the lease is closed, and nothing was claimed.
DryRunRaises(r) ==
    /\ RunAt(r, "observe")
    /\ LiveFault
    /\ Raised(r)
    /\ UNCHANGED <<dirVars, servers, runJournal, runHistory>>

\* The permit of a run is claimed whatever it was spent on before.
ClaimAgain(r) ==
    /\ RunAt(r, "permit")
    /\ runPermits' = [runPermits EXCEPT ![r] = run[r].server]
    /\ RunGoto(r, "identity")
    /\ UNCHANGED <<dirVars, servers, runIdentities, runHistory, liveFaults>>

\* execute_prepared_bound_tmux_remediation: the authorization of the dry run outlives
\* its lease, and the permit of the run is spent first.
ClaimRunPermit(r) ==
    /\ RunAt(r, "permit")
    /\ runPermits[r] = Nothing
    /\ runPermits' = [runPermits EXCEPT ![r] = run[r].server]
    /\ RunGoto(r, "identity")
    /\ UNCHANGED <<dirVars, servers, runIdentities, runHistory, liveFaults>>

\* A permit for another generation is a conflict; a replay performs nothing, is not
\* verified, and therefore raises at the end.
PermitSpent(r) ==
    /\ RunAt(r, "permit")
    /\ runPermits[r] # Nothing
    /\ Raised(r)
    /\ UNCHANGED <<dirVars, servers, runJournal, runHistory, liveFaults>>

ClaimRunIdentity(r) ==
    /\ RunAt(r, "identity")
    /\ runIdentities' = [runIdentities EXCEPT ![r] = "RUNNING"]
    /\ RunGoto(r, "respawn")
    /\ UNCHANGED <<dirVars, servers, runPermits, runHistory, liveFaults>>

\* respawn-pane -k reaches whatever server is behind the socket.
Respawn(r) ==
    /\ RunAt(r, "respawn")
    /\ \E g \in Reachable :
          /\ servers' = [servers EXCEPT ![g].pane = "running"]
          /\ respawns' = Append(respawns, <<r, g>>)
    /\ \/ RunGoto(r, "record") /\ UNCHANGED liveFaults
       \/ RunGoto(r, "recordFailure") /\ LiveFault
    /\ UNCHANGED <<dirVars, runJournal, verified, unkilled>>

RespawnFails(r) ==
    /\ RunAt(r, "respawn")
    /\ IF Reachable = {} THEN UNCHANGED liveFaults ELSE LiveFault
    /\ RunGoto(r, "recordFailure")
    /\ UNCHANGED <<dirVars, servers, runJournal, runHistory>>

RecordRun(r) ==
    /\ RunAt(r, "record")
    /\ runIdentities' = [runIdentities EXCEPT ![r] = "SUCCEEDED"]
    /\ RunGoto(r, "generation")
    /\ UNCHANGED <<dirVars, servers, runPermits, runHistory, liveFaults>>

\* FAILED with an exit code, UNKNOWN with an exception: no verification, which raises.
RecordFailure(r) ==
    /\ RunAt(r, "recordFailure")
    /\ \E state \in {"FAILED", "UNKNOWN"} : runIdentities' = [runIdentities EXCEPT ![r] = state]
    /\ Raised(r)
    /\ UNCHANGED <<dirVars, servers, runPermits, runHistory, liveFaults>>

\* The process and its start time behind the socket are those of the plan.
SameGeneration(r) == run[r].server \in Reachable

VerifyGeneration(r) ==
    /\ RunAt(r, "generation")
    /\ RunGoto(r, IF SameGeneration(r) THEN "pane" ELSE "observe")
    /\ UNCHANGED <<dirVars, servers, runJournal, runHistory, liveFaults>>

\* The names of session, window and pane are equal in every server of a run: only the
\* liveness of the pane can differ.
PaneAlive(r) == \E g \in Reachable : servers[g].pane = "running"

VerifyPane(r) ==
    /\ RunAt(r, "pane")
    /\ verified' = [verified EXCEPT ![r] = IF PaneAlive(r) THEN socket ELSE Nothing]
    /\ RunGoto(r, "observe")
    /\ UNCHANGED <<dirVars, servers, runJournal, respawns, unkilled, liveFaults>>

-----------------------------------------------------------------------------
\* The workload ends: without remain-on-exit so does its server.
WorkloadEnds(g) ==
    /\ servers[g].alive
    /\ servers[g].pane = "running"
    /\ servers' = IF servers[g].keep THEN [servers EXCEPT ![g].pane = "dead"]
                                     ELSE [servers EXCEPT ![g].alive = FALSE]
    /\ UNCHANGED <<dirVars, run, runJournal, runHistory, liveFaults>>

ServerDies(g) ==
    /\ servers[g].alive
    /\ LiveFault
    /\ servers' = [servers EXCEPT ![g].alive = FALSE]
    /\ UNCHANGED <<dirVars, run, runJournal, runHistory>>

\* The process dies, or the caller raises outside the controller's block.
Crash(r) ==
    /\ ~RunAt(r, "away")
    /\ LiveFault
    /\ run' = [run EXCEPT ![r] = Away]
    /\ UNCHANGED <<dirVars, servers, runJournal, runHistory>>

RunStep(r) ==
    \/ Preflight(r) \/ MakeRoot(r) \/ Mark(r) \/ MarkFails(r) \/ Start(r) \/ StartFails(r)
    \/ SetOption(r) \/ OptionFails(r) \/ Abort(r) \/ Teardown(r) \/ RemoveMarker(r)
    \/ RemoveRest(r) \/ Observe(r) \/ DryRunRaises(r) \/ ClaimRunPermit(r) \/ PermitSpent(r)
    \/ ClaimRunIdentity(r) \/ Respawn(r) \/ RespawnFails(r) \/ RecordRun(r) \/ RecordFailure(r)
    \/ VerifyGeneration(r) \/ VerifyPane(r) \/ Crash(r)

LiveNext ==
    \/ \E r \in Runs : RunStep(r)
    \/ \E g \in DOMAIN servers : WorkloadEnds(g) \/ ServerDies(g)

LiveSpec == LiveInit /\ [][LiveNext]_liveVars

-----------------------------------------------------------------------------
\* Wherever the process of a run dies, a server it has started can still be ended by a
\* later teardown of that run: it is behind the socket of a directory that is marked as
\* that run's, unless a kill-server has failed to end it (activate, teardown).
NoServerIsLost ==
    \A g \in DOMAIN servers \ unkilled :
        servers[g].alive => socket = g /\ marker = servers[g].run

\* A run respawns one pane once, of the very server it has observed and spent its permit
\* on; and what it has verified is that server, after the respawn.
EffectIsBound ==
    /\ \A i \in DOMAIN respawns : respawns[i][2] = runPermits[respawns[i][1]]
    /\ \A i, j \in DOMAIN respawns : i # j => respawns[i][1] # respawns[j][1]
    /\ \A r \in Runs : verified[r] # Nothing =>
          /\ verified[r] = runPermits[r]
          /\ \E i \in DOMAIN respawns : respawns[i] = <<r, verified[r]>>

\* Both hold together in every state of a live validation.
LiveRunIsContained == NoServerIsLost /\ EffectIsBound

\* No step of a run ends, respawns or hides the server of another run.
OwnServersOnly ==
    [][\A r \in Runs : run'[r] # run[r] =>
          \A g \in DOMAIN servers :
              servers[g].run # r /\ servers[g].alive =>
                 servers'[g] = servers[g] /\ (socket = g => socket' = g /\ marker' = marker)]_liveVars
=============================================================================
