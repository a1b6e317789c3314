---------------------------- MODULE MCFairSchedule ----------------------------
(* Small instances for TLC of the parts that must come to an end when their     *)
(* threads are scheduled: the daemon's main thread with its workers, and calls  *)
(* of the execution identity boundary.  A behaviour is one of the one or of the *)
(* other.  In its initial state a part owes no step: the main thread and the    *)
(* callers are idle.                                                            *)
EXTENDS Supervision

CONSTANTS Callers, Ids, Runs, Bodies, i1, r1, b1

VARIABLES part, state, bodyOf, diskState, linked, orphans, permit, flushed,
          permitDirLinked, pc, req, target, answer, recovery, effects, runEffects

callVars == <<state, bodyOf, diskState, linked, orphans, permit, flushed,
              permitDirLinked, pc, req, target, answer, recovery, effects, runEffects>>

Req(i, r, b) == [id |-> i, run |-> r, body |-> b]

\* One identity, with and without a permit.
Requests == {Req(i1, None, b1), Req(i1, r1, b1)}

Identity == INSTANCE ExecutionIdentity WITH RecoveryAtStartupOnly <- TRUE

PartsInit == part \in {"daemon", "calls"} /\ Init /\ Identity!Init

MoveDaemon == part = "daemon" /\ Next /\ UNCHANGED callVars

MoveCalls == part = "calls" /\ Identity!Next /\ UNCHANGED vars

PartsNext == (MoveDaemon \/ MoveCalls) /\ UNCHANGED part

PartsSpec ==
    /\ PartsInit
    /\ [][PartsNext]_<<part, vars, callVars>>
    /\ WF_vars(MainStep /\ main.pc # "idle")
    /\ Identity!Fairness

\* From ExecutionIdentity: a bound call, and a call that waits for another one's outcome,
\* returns even when the caller that owns the identity has died or hangs.
CallReturns == Identity!CallReturns
=============================================================================
