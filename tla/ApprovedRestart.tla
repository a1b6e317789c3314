-------------------------- MODULE ApprovedRestart --------------------------
(***************************************************************************)
(* The inboxes through which a Commander approval restarts one systemd     *)
(* unit: the canary (systemd_canary_live_execution.py) and the production  *)
(* probe (systemd_production_probe_live_execution.py).  One thread of the  *)
(* daemon polls them in turn: it consumes a request, observes the unit,    *)
(* activates the policy for exactly one effect, spends the approval,       *)
(* restarts the unit, observes it again, restores the policy and retains   *)
(* evidence.  Meanwhile others handle the unit, the operator files         *)
(* requests again, and the process or the host may stop at any point.      *)
(* What the journal does in a crash is ExecutionIdentity's: here a claim   *)
(* is one durable step.                                                    *)
(***************************************************************************)
EXTENDS Naturals, Sequences, FiniteSets

CONSTANTS
    Lanes,        \* of "canary" and "probe"
    Ids,          \* request ids
    ApprovalsOf,  \* per lane, the approval ids that may be filed; the probe has one
    None,
    MaxFiled,     \* bound: requests filed
    MaxFaults     \* bound: calls that raise, crashes, and what others do to a unit

VARIABLES
    unit,        \* per lane: is it active, its invocation, its definition
    boot,        \* the boot of the host
    inbox,       \* per lane, the request in its file, or None
    filed,       \* how many requests the operator has filed
    permits,     \* the journal: per approval, the effect it is bound to
    identities,  \* the journal: per request id, its lane, approval and state
    activation,  \* the effect that policy and catalog allow, or None
    latches,     \* per lane, of "cleanup_uncertain" and "projection_failed"
    cycle,       \* the polling thread
    success,     \* per lane, the request whose TERMINAL_SUCCESS is its evidence, or None
    idleProof,   \* per lane, is the state file a valid IDLE projection of this process
    faults,      \* how much has gone wrong
    effects,     \* history: the restarts that were commanded
    missed       \* history: lanes where this process retained no evidence of a request

worldVars == <<unit, boot, inbox, filed>>
journalVars == <<permits, identities>>
policyVars == <<activation, latches>>
fileVars == <<success, idleProof>>
histVars == <<effects, missed>>
restartVars == <<worldVars, journalVars, policyVars, cycle, fileVars, faults, histVars>>

Idle == [pc |-> "idle", lane |-> None, request |-> None, shown |-> None, target |-> None,
         outcome |-> None, recovered |-> FALSE]

Approvals == UNION {ApprovalsOf[l] : l \in Lanes}

Requests == [id : Ids, approval : Approvals, expected : Nat]

Effects == [lane : Lanes, approval : Approvals, id : Ids, target : Nat \X Nat]

Identities == [lane : Lanes, approval : Approvals,
               state : {"RUNNING", "SUCCEEDED", "FAILED", "UNKNOWN"}]

ASSUME ConstantsAreTyped ==
    /\ None \notin Lanes \cup Requests \cup Effects \cup Identities
    /\ MaxFiled \in Nat /\ MaxFaults \in Nat

RestartInit ==
    /\ unit = [l \in Lanes |-> [active |-> TRUE, invocation |-> 1, definition |-> 1]]
    /\ boot = 1
    /\ inbox = [l \in Lanes |-> None]
    /\ filed = 0
    /\ permits = [a \in Approvals |-> None]
    /\ identities = [i \in Ids |-> None]
    /\ activation = None
    /\ latches = [l \in Lanes |-> {}]
    /\ cycle = Idle
    /\ success = [l \in Lanes |-> None]
    /\ idleProof = [l \in Lanes |-> FALSE]
    /\ faults = 0
    /\ effects = <<>>
    /\ missed = {}

At(pc) == cycle.pc = pc

Lane == cycle.lane

Request == cycle.request

Goto(pc) == cycle' = [cycle EXCEPT !.pc = pc]

Fault == faults < MaxFaults /\ faults' = faults + 1

\* The activation_facts of a lane.
ActivationEmpty(l) == activation = None /\ latches[l] = {}

\* What inspect sees of a unit: first what systemctl shows, then its target, which
\* names the boot of the manager and the definition of the unit.
Shown(l) == [active |-> unit[l].active, invocation |-> unit[l].invocation]

Manager == boot

Target(l) == <<Manager, unit[l].definition>>

\* The bound effect of the request at work: what the policy is configured for, and what
\* a permit is bound to.
Effect == [lane |-> Lane, approval |-> Request.approval, id |-> Request.id,
           target |-> cycle.target]

-----------------------------------------------------------------------------
\* poll_once of an empty inbox; cycle of the canary then publishes IDLE.
PollsNothing(l) ==
    /\ At("idle")
    /\ inbox[l] = None
    /\ l = "canary"
    /\ idleProof' = [idleProof EXCEPT ![l] = ActivationEmpty(l)]
    /\ UNCHANGED <<worldVars, journalVars, policyVars, cycle, success, faults, histVars>>

\* _consume removes the file before it returns the request, which is parsed and then
\* published as PROCESSING; something may be active already.
Consume(l) ==
    /\ At("idle")
    /\ inbox[l] # None
    /\ inbox' = [inbox EXCEPT ![l] = None]
    /\ cycle' = [Idle EXCEPT !.pc = IF activation = None THEN "show" ELSE "retain",
                             !.lane = l, !.request = inbox[l]]
    /\ idleProof' = [idleProof EXCEPT ![l] = FALSE]
    /\ UNCHANGED <<unit, boot, filed, journalVars, policyVars, success, faults, histVars>>

\* The file is locked, is not safe or was replaced, and stays where it is; or it is gone
\* and its directory cannot be synced, or its contents are not a valid request.
ConsumeRaises(l) ==
    /\ At("idle")
    /\ inbox[l] # None
    /\ Fault
    /\ inbox' \in {inbox, [inbox EXCEPT ![l] = None]}
    /\ cycle' = [Idle EXCEPT !.pc = "retain", !.lane = l]
    /\ UNCHANGED <<unit, boot, filed, journalVars, policyVars, fileVars, histVars>>

Show ==
    /\ At("show")
    /\ cycle' = [cycle EXCEPT !.pc = "plan", !.shown = Shown(Lane)]
    /\ UNCHANGED <<worldVars, journalVars, policyVars, fileVars, faults, histVars>>

IsPrecondition(shown) == shown.active /\ shown.invocation = Request.expected

\* build_plan, the second test of the validity, and the lease.
Activate ==
    /\ At("plan")
    /\ IsPrecondition(cycle.shown)
    /\ cycle' = [cycle EXCEPT !.pc = "permit", !.target = Target(Lane)]
    /\ activation' = Effect'
    /\ UNCHANGED <<worldVars, journalVars, latches, fileVars, faults, histVars>>

\* What is left of a cycle for retain_evidence.
Ended(recovered) == [cycle EXCEPT !.pc = "retain", !.shown = None, !.outcome = None,
                                  !.recovered = recovered]

\* The unit is not as the request says; or the request has expired, or the lease raises
\* and restores what it found.
ActivateFails ==
    /\ At("plan")
    /\ cycle' = Ended(FALSE)
    /\ \/ ~IsPrecondition(cycle.shown) /\ UNCHANGED <<latches, faults>>
       \/ Fault /\ UNCHANGED latches
       \/ Fault /\ latches' = [latches EXCEPT ![Lane] = @ \cup {"cleanup_uncertain"}]
    /\ UNCHANGED <<worldVars, journalVars, activation, fileVars, histVars>>

-----------------------------------------------------------------------------
\* Between activation and close, whatever raises leaves by the finally clause.
Closing == [cycle EXCEPT !.pc = "close", !.shown = None, !.outcome = None]

Raise == cycle' = Closing

\* evaluate_bound: the policy allows exactly the effect it is configured for.
Allowed == activation = Effect

\* execute_verified: the permit of the approval is claimed before anything else.
ClaimPermit ==
    /\ At("permit")
    /\ Allowed
    /\ permits[Request.approval] = None
    /\ permits' = [permits EXCEPT ![Request.approval] = Effect]
    /\ Goto("identity")
    /\ UNCHANGED <<worldVars, identities, policyVars, fileVars, faults, histVars>>

BelongsUnchecked(identity) == TRUE

\* _validate_bound_record: an identity is of the incident and component it was claimed for.
Belongs(identity) == identity.lane = Lane /\ identity.approval = Request.approval

IsReplay ==
    /\ permits[Request.approval] = Effect
    /\ identities[Request.id] # None
    /\ Belongs(identities[Request.id])

\* A permit that is bound to another request or target is a conflict, and one without
\* an execution identity of its own says nothing of its effect: both raise.
PermitRefused ==
    /\ At("permit")
    /\ permits[Request.approval] # None
    /\ ~IsReplay
    /\ Raise
    /\ UNCHANGED <<worldVars, journalVars, policyVars, fileVars, faults, histVars>>

\* The same request under the same permit gets the outcome on record.
PermitReplayed ==
    /\ At("permit")
    /\ IsReplay
    /\ Goto(IF identities[Request.id].state = "SUCCEEDED" THEN "showAfter" ELSE "close")
    /\ UNCHANGED <<worldVars, journalVars, policyVars, fileVars, faults, histVars>>

ClaimedAnew(identity) == TRUE

Claimable(identity) == identity = None

\* The request id is claimed and RUNNING before the restart.
ClaimIdentity ==
    /\ At("identity")
    /\ Claimable(identities[Request.id])
    /\ identities' = [identities EXCEPT ![Request.id] =
                         [lane |-> Lane, approval |-> Request.approval, state |-> "RUNNING"]]
    /\ Goto("restart")
    /\ UNCHANGED <<worldVars, permits, policyVars, fileVars, faults, histVars>>

\* The id belongs to another approval or another unit.
IdentityRefused ==
    /\ At("identity")
    /\ ~Claimable(identities[Request.id])
    /\ Raise
    /\ UNCHANGED <<worldVars, journalVars, policyVars, fileVars, faults, histVars>>

Started(u) == [u EXCEPT !.active = TRUE, !.invocation = @ + 1]

\* systemctl restart: it succeeds; or it exits with another code or times out, and the
\* unit is restarted, stopped or left alone.
Restart ==
    /\ At("restart")
    /\ effects' = Append(effects, Effect)
    /\ \/ /\ unit' = [unit EXCEPT ![Lane] = Started(@)]
          /\ cycle' = [cycle EXCEPT !.pc = "record", !.outcome = "SUCCEEDED"]
       \/ /\ unit' \in {unit, [unit EXCEPT ![Lane] = Started(@)],
                        [unit EXCEPT ![Lane].active = FALSE]}
          /\ \E outcome \in {"FAILED", "UNKNOWN"} :
                cycle' = [cycle EXCEPT !.pc = "record", !.outcome = outcome]
    /\ UNCHANGED <<boot, inbox, filed, journalVars, policyVars, fileVars, faults, missed>>

\* The terminal state of the identity; a restart that timed out then leaves by its
\* exception.
Record ==
    /\ At("record")
    /\ identities' = [identities EXCEPT ![Request.id].state = cycle.outcome]
    /\ IF cycle.outcome = "SUCCEEDED" THEN Goto("showAfter") ELSE Raise
    /\ UNCHANGED <<worldVars, permits, policyVars, fileVars, faults, histVars>>

ShowAfter ==
    /\ At("showAfter")
    /\ cycle' = [cycle EXCEPT !.pc = "verify", !.shown = Shown(Lane)]
    /\ UNCHANGED <<worldVars, journalVars, policyVars, fileVars, faults, histVars>>

VerifiedIfActive(after, target) == target = cycle.target /\ after.active

\* SystemdRestartVerifier.verify: before activation the unit was as the request expects.
Verified(after, target) ==
    target = cycle.target /\ after.active /\ after.invocation # Request.expected

Verify ==
    /\ At("verify")
    /\ cycle' = [Closing EXCEPT !.recovered = Verified(cycle.shown, Target(Lane))]
    /\ UNCHANGED <<worldVars, journalVars, policyVars, fileVars, faults, histVars>>

\* The journal, an observation or the publication of PROCESSING raises; an identity that
\* is RUNNING becomes UNKNOWN, if the journal can still be written.
StepRaises ==
    /\ cycle.pc \in {"permit", "identity", "restart", "record", "showAfter", "verify"}
    /\ Fault
    /\ Raise
    /\ \/ UNCHANGED identities
       \/ /\ cycle.pc \in {"restart", "record"}
          /\ identities' = [identities EXCEPT ![Request.id].state = "UNKNOWN"]
    /\ UNCHANGED <<worldVars, permits, policyVars, fileVars, histVars>>

\* The lease restores what it found; if that raises, nothing restores it later.
Close ==
    /\ At("close")
    /\ activation' = None
    /\ cycle' = Ended(cycle.recovered)
    /\ UNCHANGED <<worldVars, journalVars, latches, fileVars, faults, histVars>>

CloseRaises ==
    /\ At("close")
    /\ Fault
    /\ activation' \in {activation, None}
    /\ latches' = [latches EXCEPT ![Lane] = @ \cup {"cleanup_uncertain"}]
    /\ cycle' = Ended(FALSE)
    /\ UNCHANGED <<worldVars, journalVars, fileVars, histVars>>

-----------------------------------------------------------------------------
\* retain_evidence: the evidence of a request, and then the state, are on the disk.
Retain ==
    /\ At("retain")
    /\ success' = [success EXCEPT ![Lane] = IF cycle.recovered /\ ActivationEmpty(Lane)
                                              THEN Request ELSE None]
    /\ cycle' = Idle
    /\ idleProof' = [idleProof EXCEPT ![Lane] = FALSE]
    /\ UNCHANGED <<worldVars, journalVars, policyVars, faults, histVars>>

Unlatched(l) == latches

ProjectionFailed(l) == [latches EXCEPT ![l] = @ \cup {"projection_failed"}]

\* It raises, and the evidence of this request may be lost: no later projection of this
\* process may hide that.
RetainRaises ==
    /\ At("retain")
    /\ Fault
    /\ latches' = ProjectionFailed(Lane)
    /\ missed' = missed \cup {Lane}
    /\ cycle' = Idle
    /\ UNCHANGED <<worldVars, journalVars, activation, fileVars, effects>>

-----------------------------------------------------------------------------
\* The operator files a request, a new one or the one he filed before, for the unit as
\* he sees it.
File(l) ==
    /\ filed < MaxFiled
    /\ filed' = filed + 1
    /\ \E i \in Ids, a \in ApprovalsOf[l] :
          inbox' = [inbox EXCEPT ![l] = [id |-> i, approval |-> a,
                                         expected |-> unit[l].invocation]]
    /\ UNCHANGED <<unit, boot, journalVars, policyVars, cycle, fileVars, faults, histVars>>

\* Somebody else restarts or stops the unit, or edits its fragment.
UnitChanges(l) ==
    /\ Fault
    /\ unit' \in {[unit EXCEPT ![l] = Started(@)], [unit EXCEPT ![l].active = FALSE],
                  [unit EXCEPT ![l].definition = @ + 1]}
    /\ UNCHANGED <<boot, inbox, filed, journalVars, policyVars, cycle, fileVars, histVars>>

\* A new process starts with an empty policy and nothing latched; the files and the
\* journal stay.
ForgetProcess ==
    /\ Fault
    /\ activation' = None
    /\ latches' = [l \in Lanes |-> {}]
    /\ cycle' = Idle
    /\ idleProof' = [l \in Lanes |-> FALSE]
    /\ missed' = {}
    /\ UNCHANGED <<inbox, filed, journalVars, success, effects>>

ProcessStops == ForgetProcess /\ UNCHANGED <<unit, boot>>

HostStops ==
    /\ ForgetProcess
    /\ boot' = boot + 1
    /\ unit' = [l \in Lanes |-> Started(unit[l])]

RestartNext ==
    \/ \E l \in Lanes : PollsNothing(l) \/ Consume(l) \/ ConsumeRaises(l) \/ File(l)
                        \/ UnitChanges(l)
    \/ Show \/ Activate \/ ActivateFails \/ ClaimPermit \/ PermitRefused \/ PermitReplayed
    \/ ClaimIdentity \/ IdentityRefused \/ Restart \/ Record \/ ShowAfter \/ Verify
    \/ StepRaises \/ Close \/ CloseRaises \/ Retain \/ RetainRaises
    \/ ProcessStops \/ HostStops

RestartSpec == RestartInit /\ [][RestartNext]_restartVars

-----------------------------------------------------------------------------
\* No approval and no request id restarts a unit twice, whichever inbox it is filed in
\* again, after whatever failure, crash or power loss: the two inboxes share their
\* journal and the prefixes of their ids (execute_bound; build_plan of both lanes).
ApprovedOnce ==
    \A i, j \in DOMAIN effects :
        i # j => /\ effects[i].approval # effects[j].approval
                 /\ effects[i].id # effects[j].id

\* Whoever reads TERMINAL_SUCCESS of a request may rely on this: its own approval has
\* restarted that very unit as it was defined when approved, the restart is on record,
\* and the unit has been seen in another invocation than the request names.
SuccessIsEarned(l, q) ==
    /\ permits[q.approval] \in {effects[e] : e \in DOMAIN effects}
    /\ permits[q.approval].lane = l
    /\ permits[q.approval].id = q.id
    /\ permits[q.approval].target = cycle.target
    /\ identities[q.id].state = "SUCCEEDED"
    /\ unit[l].invocation > q.expected

\* The evidence file says success only when it is earned, and a process publishes an
\* IDLE that is a proof only if it has retained evidence of all it consumed on that
\* lane (retain_evidence, publish_state, valid_idle_projection).
EvidenceIsTrue ==
    [][\A l \in Lanes :
         /\ success'[l] \notin {None, success[l]} => SuccessIsEarned(l, success'[l])
         /\ idleProof'[l] /\ ~idleProof[l] => l \notin missed]_restartVars
=============================================================================
