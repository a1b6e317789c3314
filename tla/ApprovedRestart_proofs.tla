------------------------ MODULE ApprovedRestart_proofs ------------------------
(***************************************************************************)
(* An approval and a request id restart a unit at most once, and the       *)
(* evidence of a success and the projection of an idle process are true,   *)
(* for any lanes, ids and approvals and any number of requests and faults. *)
(***************************************************************************)
EXTENDS ApprovedRestart, SequenceTheorems, TLAPS

----------------------------------------------------------------------------
(***************************************************************************)
(* The inductive invariant.                                                *)
(***************************************************************************)

Units == [active : BOOLEAN, invocation : Nat, definition : Nat]

Shows == [active : BOOLEAN, invocation : Nat]

\* The points at which the request has been parsed, and those at which its effect is
\* bound and the policy may be active.
Bound == {"permit", "identity", "restart", "record", "showAfter", "verify", "close"}

Parsed == {"show", "plan"} \cup Bound

\* The records that close no cycle yet.
Cycles == [pc : {"idle", "retain"} \cup Parsed, lane : Lanes \cup {None},
           request : Requests \cup {None}, shown : Shows \cup {None},
           target : (Nat \X Nat) \cup {None},
           outcome : {"SUCCEEDED", "FAILED", "UNKNOWN", None}, recovered : BOOLEAN]

RestartTypeOK ==
    /\ unit \in [Lanes -> Units]
    /\ boot \in Nat /\ filed \in Nat /\ faults \in Nat
    /\ inbox \in [Lanes -> Requests \cup {None}]
    /\ permits \in [Approvals -> Effects \cup {None}]
    /\ identities \in [Ids -> Identities \cup {None}]
    /\ activation \in Effects \cup {None}
    /\ latches \in [Lanes -> SUBSET {"cleanup_uncertain", "projection_failed"}]
    /\ cycle \in Cycles
    /\ success \in [Lanes -> Requests \cup {None}]
    /\ idleProof \in [Lanes -> BOOLEAN]
    /\ effects \in Seq(Effects)
    /\ missed \subseteq Lanes

\* What the polling thread has in its hands at each point.
CycleIsWhole ==
    /\ ~At("idle") => Lane \in Lanes
    /\ cycle.pc \in Parsed => Request \in Requests
    /\ cycle.pc \in {"plan", "verify"} => cycle.shown \in Shows
    /\ cycle.pc \in Bound => cycle.target \in Nat \X Nat
    /\ At("record") => cycle.outcome \in {"SUCCEEDED", "FAILED", "UNKNOWN"}

\* Invocations only grow: nobody expects or has seen one that is still to come.
InvocationsArePast ==
    /\ \A l \in Lanes : inbox[l] # None => inbox[l].expected <= unit[l].invocation
    /\ cycle.pc \in Parsed => Request.expected <= unit[Lane].invocation
    /\ At("verify") => /\ Request.expected <= cycle.shown.invocation
                       /\ cycle.shown.invocation <= unit[Lane].invocation

\* A restart that was commanded has spent its approval and its request id, and no
\* other one has either.
EffectsAreSpent ==
    /\ \A e \in DOMAIN effects :
          /\ permits[effects[e].approval] = effects[e]
          /\ identities[effects[e].id] # None
          /\ identities[effects[e].id].approval = effects[e].approval
    /\ ApprovedOnce

\* The cycle at work has spent its approval before its id, and both before the
\* restart: from the permit to the record, its effect is the one on record.
CycleOwnsEffect ==
    /\ cycle.pc \in {"identity", "restart", "record"} => permits[Request.approval] = Effect
    /\ At("identity") => \A e \in DOMAIN effects : effects[e].approval # Request.approval
    /\ cycle.pc \in {"restart", "record"} =>
          /\ identities[Request.id] # None
          /\ identities[Request.id].approval = Request.approval
          /\ identities[Request.id].state = "RUNNING"
    /\ At("restart") => \A e \in DOMAIN effects : /\ effects[e].approval # Request.approval
                                                  /\ effects[e].id # Request.id
    /\ At("record") => \E e \in DOMAIN effects : effects[e] = Effect

\* An identity says SUCCEEDED only of a restart that was commanded.
SuccessHasEffect ==
    \A i \in Ids : identities[i] # None /\ identities[i].state = "SUCCEEDED"
                      => \E e \in DOMAIN effects : effects[e].id = i

\* A cycle that observes the unit again has a success of its own effect on record,
\* and one that ends in a recovery has seen another invocation.
ObservesSuccess ==
    /\ cycle.pc \in {"showAfter", "verify"} \/ cycle.recovered =>
          /\ Lane \in Lanes /\ Request \in Requests
          /\ permits[Request.approval] = Effect
          /\ identities[Request.id] # None
          /\ identities[Request.id].state = "SUCCEEDED"
          /\ \E e \in DOMAIN effects : effects[e] = Effect
    /\ cycle.recovered => /\ cycle.pc \in {"close", "retain"}
                          /\ unit[Lane].invocation > Request.expected

\* A process that missed evidence on a lane has a latch there.
MissedIsLatched == \A l \in missed : latches[l] # {}

RestartInv ==
    /\ RestartTypeOK /\ CycleIsWhole /\ InvocationsArePast
    /\ EffectsAreSpent /\ CycleOwnsEffect /\ SuccessHasEffect
    /\ ObservesSuccess /\ MissedIsLatched

----------------------------------------------------------------------------
(***************************************************************************)
(* Type correctness.                                                       *)
(***************************************************************************)

\* The effect of a request that is parsed and bound is one a permit can be bound to.
LEMMA EffectIsTyped ==
    ASSUME RestartTypeOK, CycleIsWhole, cycle.pc \in Bound
    PROVE  Effect \in Effects
  BY DEF RestartTypeOK, CycleIsWhole, Effect, Effects, Lane, Request, At, Parsed, Bound,
         Requests

\* The next request is one that was filed.
LEMMA FiledIsTyped ==
    ASSUME RestartTypeOK, NEW l \in Lanes, NEW i \in Ids, NEW a \in ApprovalsOf[l]
    PROVE  [id |-> i, approval |-> a, expected |-> unit[l].invocation] \in Requests
  BY DEF RestartTypeOK, Requests, Approvals, Units

\* A record of the polling thread that is at work on the same request.
Becomes(c, p, s, t, o, r) ==
    /\ c \in Cycles
    /\ c.pc = p /\ c.lane = Lane /\ c.request = Request
    /\ c.shown = s /\ c.target = t /\ c.outcome = o /\ c.recovered = r

\* A unit that is started, stopped or edited.
LEMMA UnitsStay ==
    ASSUME NEW u \in Units
    PROVE  /\ Started(u) \in Units /\ Started(u).invocation = u.invocation + 1
           /\ [u EXCEPT !.active = FALSE] \in Units
           /\ [u EXCEPT !.active = FALSE].invocation = u.invocation
           /\ [u EXCEPT !.definition = @ + 1] \in Units
           /\ [u EXCEPT !.definition = @ + 1].invocation = u.invocation
  <1>1. Started(u) \in Units /\ Started(u).invocation = u.invocation + 1
    <2>1. /\ u.active \in BOOLEAN /\ u.invocation + 1 \in Nat /\ u.definition \in Nat
      BY DEF Units
    <2>2. [u EXCEPT !.invocation = u.invocation + 1] \in Units
      BY <2>1 DEF Units
    <2>3. \A v \in Units : [v EXCEPT !.active = TRUE] \in Units
                           /\ [v EXCEPT !.active = TRUE].invocation = v.invocation
      BY DEF Units
    <2> QED
      BY <2>1 DEF Started, Units
  <1>2. /\ [u EXCEPT !.active = FALSE] \in Units
        /\ [u EXCEPT !.active = FALSE].invocation = u.invocation
    BY DEF Units
  <1>3. /\ [u EXCEPT !.definition = @ + 1] \in Units
        /\ [u EXCEPT !.definition = @ + 1].invocation = u.invocation
    BY DEF Units
  <1> QED
    BY <1>1, <1>2, <1>3

\* A unit after a start, a stop or an edit.
LEMMA UnitsGrow ==
    ASSUME NEW u \in Units,
           NEW v \in {Started(u), [u EXCEPT !.active = FALSE], [u EXCEPT !.definition = @ + 1]}
    PROVE  v \in Units /\ v.invocation >= u.invocation
  <1>0. u.invocation \in Nat
    BY DEF Units
  <1>1. CASE v = Started(u)
    <2>1. v \in Units /\ v.invocation = u.invocation + 1
      BY <1>1, UnitsStay
    <2> QED
      BY <1>0, <2>1
  <1>2. CASE v = [u EXCEPT !.active = FALSE]
    <2>1. v \in Units /\ v.invocation = u.invocation
      BY <1>2, UnitsStay
    <2> QED
      BY <1>0, <2>1
  <1>3. CASE v = [u EXCEPT !.definition = @ + 1]
    <2>1. v \in Units /\ v.invocation = u.invocation
      BY <1>3, UnitsStay
    <2> QED
      BY <1>0, <2>1
  <1> QED
    BY <1>1, <1>2, <1>3

\* No step takes an invocation of a unit back, and a restart that succeeds gives it one
\* more.
LEMMA UnitStep ==
    ASSUME RestartTypeOK, CycleIsWhole, [RestartNext]_restartVars
    PROVE  /\ unit' \in [Lanes -> Units]
           /\ \A l \in Lanes : unit'[l].invocation >= unit[l].invocation
  <1>0. unit \in [Lanes -> Units] /\ \A l \in Lanes : unit[l].invocation \in Nat
    BY DEF RestartTypeOK, Units
  <1>1. ASSUME NEW l \in Lanes, NEW u \in Units, unit' = [unit EXCEPT ![l] = u],
               u.invocation >= unit[l].invocation
        PROVE  /\ unit' \in [Lanes -> Units]
               /\ \A m \in Lanes : unit'[m].invocation >= unit[m].invocation
    BY <1>0, <1>1
  <1>2. ASSUME NEW l \in Lanes, UnitChanges(l)
        PROVE  /\ unit' \in [Lanes -> Units]
               /\ \A m \in Lanes : unit'[m].invocation >= unit[m].invocation
    <2>1. PICK u \in {Started(unit[l]), [unit[l] EXCEPT !.active = FALSE],
                      [unit[l] EXCEPT !.definition = @ + 1]} :
              unit' = [unit EXCEPT ![l] = u]
      BY <1>2 DEF UnitChanges
    <2>2. unit[l] \in Units /\ unit[l].invocation \in Nat
      BY <1>0
    <2>3. u \in Units /\ u.invocation >= unit[l].invocation
      BY <2>1, <2>2, UnitsGrow
    <2> QED
      BY <1>1, <2>1, <2>3
  <1>3. CASE Restart
    <2>1. Lane \in Lanes
      BY <1>3 DEF Restart, CycleIsWhole, At
    <2>2. CASE unit' = unit
      BY <1>0, <2>2
    <2>3. CASE unit' # unit
      <3>1. PICK u \in {Started(unit[Lane]), [unit[Lane] EXCEPT !.active = FALSE]} :
                unit' = [unit EXCEPT ![Lane] = u]
        BY <1>3, <2>3 DEF Restart
      <3>2. unit[Lane] \in Units /\ unit[Lane].invocation \in Nat
        BY <1>0, <2>1
      <3>3. u \in Units /\ u.invocation >= unit[Lane].invocation
        BY <3>1, <3>2, UnitsGrow
      <3> QED
        BY <1>1, <2>1, <3>1, <3>3
    <2> QED
      BY <2>2, <2>3
  <1>4. CASE HostStops
    <2>1. unit' = [l \in Lanes |-> Started(unit[l])]
      BY <1>4 DEF HostStops
    <2>2. ASSUME NEW l \in Lanes
          PROVE  /\ Started(unit[l]) \in Units
                 /\ Started(unit[l]).invocation >= unit[l].invocation
      BY <1>0, UnitsGrow
    <2> QED
      BY <2>1, <2>2
  <1>5. CASE UNCHANGED unit
    BY <1>0, <1>5
  <1>6. ASSUME NEW l \in Lanes, PollsNothing(l) \/ Consume(l) \/ ConsumeRaises(l) \/ File(l)
        PROVE  UNCHANGED unit
    BY <1>6 DEF PollsNothing, Consume, ConsumeRaises, File, worldVars
  <1>7. CASE Show \/ Activate \/ ActivateFails \/ ClaimPermit \/ PermitRefused
             \/ PermitReplayed \/ ClaimIdentity \/ IdentityRefused \/ Record \/ ShowAfter
             \/ Verify \/ StepRaises \/ Close \/ CloseRaises \/ Retain \/ RetainRaises
             \/ ProcessStops \/ UNCHANGED restartVars
    <2>1. UNCHANGED unit
      BY <1>7 DEF Show, Activate, ActivateFails, ClaimPermit, PermitRefused, PermitReplayed,
             ClaimIdentity, IdentityRefused, Record, ShowAfter, Verify, StepRaises, Close,
             CloseRaises, Retain, RetainRaises, ProcessStops, restartVars, worldVars
    <2> QED
      BY <1>5, <2>1
  <1> QED
    BY <1>2, <1>3, <1>4, <1>5, <1>6, <1>7 DEF RestartNext

\* What systemctl shows of a unit, and its target.
LEMMA ObservationIsTyped ==
    ASSUME RestartTypeOK, NEW l \in Lanes
    PROVE  /\ Shown(l) \in Shows /\ Shown(l).invocation = unit[l].invocation
           /\ Target(l) \in Nat \X Nat
  BY DEF RestartTypeOK, Shown, Shows, Units, Target, Manager

\* Where each step of a cycle leaves the polling thread.
LEMMA CycleSteps ==
    ASSUME RestartTypeOK, CycleIsWhole
    PROVE  /\ Show => Becomes(cycle', "plan", Shown(Lane), cycle.target, cycle.outcome,
                              cycle.recovered)
           /\ Activate => Becomes(cycle', "permit", cycle.shown, Target(Lane),
                                  cycle.outcome, cycle.recovered)
           /\ ActivateFails => Becomes(cycle', "retain", None, cycle.target, None, FALSE)
           /\ ClaimPermit => Becomes(cycle', "identity", cycle.shown, cycle.target,
                                     cycle.outcome, cycle.recovered)
           /\ PermitReplayed =>
                 Becomes(cycle', IF identities[Request.id].state = "SUCCEEDED"
                                   THEN "showAfter" ELSE "close",
                         cycle.shown, cycle.target, cycle.outcome, cycle.recovered)
           /\ ClaimIdentity => Becomes(cycle', "restart", cycle.shown, cycle.target,
                                       cycle.outcome, cycle.recovered)
           /\ Restart => \E o \in {"SUCCEEDED", "FAILED", "UNKNOWN"} :
                            Becomes(cycle', "record", cycle.shown, cycle.target, o,
                                    cycle.recovered)
           /\ Record => IF cycle.outcome = "SUCCEEDED"
                          THEN Becomes(cycle', "showAfter", cycle.shown, cycle.target,
                                       cycle.outcome, cycle.recovered)
                          ELSE Becomes(cycle', "close", None, cycle.target, None,
                                       cycle.recovered)
           /\ ShowAfter => Becomes(cycle', "verify", Shown(Lane), cycle.target,
                                   cycle.outcome, cycle.recovered)
           /\ Verify => Becomes(cycle', "close", None, cycle.target, None,
                                Verified(cycle.shown, Target(Lane)))
           /\ PermitRefused \/ IdentityRefused \/ StepRaises =>
                 Becomes(cycle', "close", None, cycle.target, None, cycle.recovered)
           /\ Close => Becomes(cycle', "retain", None, cycle.target, None, cycle.recovered)
           /\ CloseRaises => Becomes(cycle', "retain", None, cycle.target, None, FALSE)
  <1> USE DEF Becomes, Cycles, At, Lane, Request, Parsed, Bound
  <1>0. cycle \in Cycles /\ cycle.recovered \in BOOLEAN
    BY DEF RestartTypeOK, Cycles
  <1>1. ~At("idle") => Shown(Lane) \in Shows /\ Target(Lane) \in Nat \X Nat
    BY ObservationIsTyped DEF CycleIsWhole
  <1>3. Show => Becomes(cycle', "plan", Shown(Lane), cycle.target, cycle.outcome,
                        cycle.recovered)
    BY <1>0, <1>1 DEF Show
  <1>4. Activate => Becomes(cycle', "permit", cycle.shown, Target(Lane), cycle.outcome,
                            cycle.recovered)
    BY <1>0, <1>1 DEF Activate
  <1>5. ActivateFails => Becomes(cycle', "retain", None, cycle.target, None, FALSE)
    BY <1>0 DEF ActivateFails, Ended
  <1>6. ClaimPermit => Becomes(cycle', "identity", cycle.shown, cycle.target, cycle.outcome,
                               cycle.recovered)
    BY <1>0 DEF ClaimPermit, Goto
  <1>7. PermitReplayed =>
           Becomes(cycle', IF identities[Request.id].state = "SUCCEEDED"
                             THEN "showAfter" ELSE "close",
                   cycle.shown, cycle.target, cycle.outcome, cycle.recovered)
    BY <1>0 DEF PermitReplayed, Goto
  <1>8. ClaimIdentity => Becomes(cycle', "restart", cycle.shown, cycle.target,
                                 cycle.outcome, cycle.recovered)
    BY <1>0 DEF ClaimIdentity, Goto
  <1>9. Restart => \E o \in {"SUCCEEDED", "FAILED", "UNKNOWN"} :
                      Becomes(cycle', "record", cycle.shown, cycle.target, o,
                              cycle.recovered)
    <2>1. ASSUME Restart
          PROVE  \E o \in {"SUCCEEDED", "FAILED", "UNKNOWN"} :
                     cycle' = [cycle EXCEPT !.pc = "record", !.outcome = o]
      BY <2>1 DEF Restart
    <2> QED
      BY <1>0, <2>1
  <1>10. Record => IF cycle.outcome = "SUCCEEDED"
                     THEN Becomes(cycle', "showAfter", cycle.shown, cycle.target,
                                  cycle.outcome, cycle.recovered)
                     ELSE Becomes(cycle', "close", None, cycle.target, None,
                                  cycle.recovered)
    BY <1>0 DEF Record, Goto, Raise, Closing
  <1>11. ShowAfter => Becomes(cycle', "verify", Shown(Lane), cycle.target, cycle.outcome,
                              cycle.recovered)
    BY <1>0, <1>1 DEF ShowAfter
  <1>12. Verify => Becomes(cycle', "close", None, cycle.target, None,
                           Verified(cycle.shown, Target(Lane)))
    <2>1. Verify => cycle.shown \in Shows
      BY DEF Verify, CycleIsWhole, At
    <2>2. Verify => Verified(cycle.shown, Target(Lane)) \in BOOLEAN
      BY <2>1 DEF Verified, Shows
    <2> QED
      BY <1>0, <2>2 DEF Verify, Closing
  <1>13. PermitRefused \/ IdentityRefused \/ StepRaises =>
            Becomes(cycle', "close", None, cycle.target, None, cycle.recovered)
    BY <1>0 DEF PermitRefused, IdentityRefused, StepRaises, Raise, Closing
  <1>14. Close => Becomes(cycle', "retain", None, cycle.target, None, cycle.recovered)
    BY <1>0 DEF Close, Ended
  <1>15. CloseRaises => Becomes(cycle', "retain", None, cycle.target, None, FALSE)
    BY <1>0 DEF CloseRaises, Ended
  <1> HIDE DEF Becomes, Cycles, At, Lane, Request, Parsed, Bound
  <1> QED
    BY <1>3, <1>4, <1>5, <1>6, <1>7, <1>8, <1>9, <1>10, <1>11, <1>12, <1>13, <1>14, <1>15

\* The record of a thread that rests.
LEMMA IdleIsCycle == Idle \in Cycles /\ Idle.pc = "idle" /\ ~Idle.recovered
  BY DEF Idle, Cycles

\* Taking a request from an inbox.
LEMMA ConsumeSteps ==
    ASSUME RestartTypeOK, NEW l \in Lanes
    PROVE  /\ Consume(l) =>
                 /\ cycle' \in Cycles /\ cycle'.pc \in {"show", "retain"}
                 /\ inbox[l] \in Requests
                 /\ cycle'.lane = l /\ cycle'.request = inbox[l] /\ ~cycle'.recovered
           /\ ConsumeRaises(l) =>
                 /\ cycle' \in Cycles /\ cycle'.pc = "retain" /\ cycle'.lane = l
                 /\ ~cycle'.recovered
  <1>1. ASSUME Consume(l)
        PROVE  /\ cycle' \in Cycles /\ cycle'.pc \in {"show", "retain"}
               /\ inbox[l] \in Requests
               /\ cycle'.lane = l /\ cycle'.request = inbox[l] /\ ~cycle'.recovered
    <2>1. inbox[l] \in Requests
      BY <1>1 DEF Consume, RestartTypeOK
    <2>2. PICK p \in {"show", "retain"} :
              cycle' = [Idle EXCEPT !.pc = p, !.lane = l, !.request = inbox[l]]
      BY <1>1 DEF Consume
    <2> QED
      BY <2>1, <2>2, IdleIsCycle DEF Cycles, Parsed
  <1>2. ASSUME ConsumeRaises(l)
        PROVE  /\ cycle' \in Cycles /\ cycle'.pc = "retain" /\ cycle'.lane = l
               /\ ~cycle'.recovered
    <2>1. cycle' = [Idle EXCEPT !.pc = "retain", !.lane = l]
      BY <1>2 DEF ConsumeRaises
    <2> QED
      BY <2>1, IdleIsCycle DEF Cycles
  <1> QED
    BY <1>1, <1>2

\* The polling thread keeps to its points, and has in its hands what it needs there.
LEMMA CycleStep ==
    ASSUME RestartTypeOK, CycleIsWhole, [RestartNext]_restartVars
    PROVE  cycle' \in Cycles /\ CycleIsWhole'
  <1> USE DEF CycleIsWhole, At, Lane, Request, Parsed, Bound
  <1>1. ASSUME NEW l \in Lanes, Consume(l) \/ ConsumeRaises(l)
        PROVE  cycle' \in Cycles /\ CycleIsWhole'
    BY <1>1, ConsumeSteps
  <1>2. CASE cycle' = Idle
    BY <1>2 DEF Idle, Cycles
  <1>3. CASE UNCHANGED cycle
    BY <1>3 DEF RestartTypeOK
  <1>4. CASE Show
    BY <1>4, CycleSteps, ObservationIsTyped DEF Becomes, Show
  <1>5. CASE Activate
    BY <1>5, CycleSteps, ObservationIsTyped DEF Becomes, Activate
  <1>6. CASE ClaimPermit \/ PermitReplayed \/ ClaimIdentity
    BY <1>6, CycleSteps DEF Becomes, ClaimPermit, PermitReplayed, ClaimIdentity
  <1>7. CASE Restart
    <2>1. PICK o \in {"SUCCEEDED", "FAILED", "UNKNOWN"} :
              Becomes(cycle', "record", cycle.shown, cycle.target, o, cycle.recovered)
      BY <1>7, CycleSteps
    <2>2. cycle.pc = "restart"
      BY <1>7 DEF Restart
    <2> QED
      BY <2>1, <2>2 DEF Becomes
  <1>8. CASE Record
    BY <1>8, CycleSteps DEF Becomes, Record
  <1>9. CASE ShowAfter
    BY <1>9, CycleSteps, ObservationIsTyped DEF Becomes, ShowAfter
  <1>10. CASE Verify \/ PermitRefused \/ IdentityRefused \/ StepRaises
    BY <1>10, CycleSteps DEF Becomes, Verify, PermitRefused, IdentityRefused, StepRaises
  <1>11. CASE ActivateFails \/ Close \/ CloseRaises
    BY <1>11, CycleSteps DEF Becomes, ActivateFails, Close, CloseRaises
  <1> HIDE DEF CycleIsWhole, At, Lane, Request, Parsed, Bound
  <1>13. Retain \/ RetainRaises \/ ProcessStops \/ HostStops => cycle' = Idle
    BY DEF Retain, RetainRaises, ProcessStops, HostStops, ForgetProcess
  <1>12. ASSUME NEW l \in Lanes, PollsNothing(l) \/ File(l) \/ UnitChanges(l)
         PROVE  UNCHANGED cycle
    BY <1>12 DEF PollsNothing, File, UnitChanges
  <1> QED
    BY <1>1, <1>2, <1>3, <1>4, <1>5, <1>6, <1>7, <1>8, <1>9, <1>10, <1>11, <1>12,
       <1>13 DEF RestartNext, restartVars

\* An identity that is RUNNING may take another state.
LEMMA RunningIsTyped ==
    ASSUME RestartTypeOK, CycleIsWhole, CycleOwnsEffect, cycle.pc \in {"restart", "record"},
           NEW s \in {"SUCCEEDED", "FAILED", "UNKNOWN"}
    PROVE  [identities EXCEPT ![Request.id].state = s] \in [Ids -> Identities \cup {None}]
  <1>1. Request.id \in Ids /\ identities[Request.id] \in Identities
    BY DEF RestartTypeOK, CycleIsWhole, CycleOwnsEffect, Parsed, Bound, Requests
  <1>2. [identities[Request.id] EXCEPT !.state = s] \in Identities
    BY <1>1 DEF Identities
  <1>3. [identities EXCEPT ![Request.id].state = s]
            = [identities EXCEPT ![Request.id] = [identities[Request.id] EXCEPT !.state = s]]
    OBVIOUS
  <1> QED
    BY <1>1, <1>2, <1>3 DEF RestartTypeOK

\* A step preserves the types.
LEMMA TypeStep ==
    ASSUME RestartTypeOK, CycleIsWhole, CycleOwnsEffect, [RestartNext]_restartVars
    PROVE  RestartTypeOK'
  <1>0. cycle' \in Cycles /\ unit' \in [Lanes -> Units]
    BY CycleStep, UnitStep
  <1>1. At("idle") \/ Lane \in Lanes
    BY DEF CycleIsWhole
  <1> USE ConstantsAreTyped
          DEF RestartTypeOK, worldVars, journalVars, policyVars, fileVars, histVars
  <1>2. ASSUME NEW l \in Lanes, PollsNothing(l)
        PROVE  RestartTypeOK'
    BY <1>0, <1>2 DEF PollsNothing, ActivationEmpty
  <1>3. ASSUME NEW l \in Lanes, Consume(l)
        PROVE  RestartTypeOK'
    <2>1. /\ inbox' \in [Lanes -> Requests \cup {None}]
          /\ idleProof' \in [Lanes -> BOOLEAN]
      BY <1>3 DEF Consume
    <2> QED
      BY <1>0, <1>3, <2>1 DEF Consume
  <1>4. ASSUME NEW l \in Lanes, ConsumeRaises(l)
        PROVE  RestartTypeOK'
    <2>1. inbox' \in [Lanes -> Requests \cup {None}] /\ faults' \in Nat
      BY <1>4 DEF ConsumeRaises, Fault
    <2> QED
      BY <1>0, <1>4, <2>1 DEF ConsumeRaises
  <1>5. ASSUME NEW l \in Lanes, File(l)
        PROVE  RestartTypeOK'
    BY <1>0, <1>5, FiledIsTyped DEF File
  <1>6. ASSUME NEW l \in Lanes, UnitChanges(l)
        PROVE  RestartTypeOK'
    <2>1. faults' \in Nat
      BY <1>6 DEF UnitChanges, Fault
    <2> QED
      BY <1>0, <1>6, <2>1 DEF UnitChanges
  <1>7. CASE Show \/ ShowAfter \/ Verify \/ PermitRefused \/ PermitReplayed
             \/ IdentityRefused
    BY <1>0, <1>7 DEF Show, ShowAfter, Verify, PermitRefused, PermitReplayed,
                      IdentityRefused
  <1>8. CASE Activate
    <2>1. CycleIsWhole' /\ cycle'.pc \in Bound
      BY <1>8, CycleStep, CycleSteps DEF Becomes, Bound
    <2>2. Effect' \in Effects
      BY <1>0, <2>1 DEF Effect, Effects, Requests, CycleIsWhole, Lane, Request, At, Parsed,
                        Bound
    <2> QED
      BY <1>0, <1>8, <2>2 DEF Activate
  <1>9. CASE ActivateFails
    <2>1. latches' \in [Lanes -> SUBSET {"cleanup_uncertain", "projection_failed"}]
      BY <1>9 DEF ActivateFails
    <2>2. faults' \in Nat
      BY <1>9 DEF ActivateFails, Fault
    <2> QED
      BY <1>0, <1>9, <2>1, <2>2 DEF ActivateFails
  <1>10. CASE Close
    BY <1>0, <1>10 DEF Close
  <1>20. CASE CloseRaises
    <2>1. latches' \in [Lanes -> SUBSET {"cleanup_uncertain", "projection_failed"}]
      BY <1>20 DEF CloseRaises
    <2>2. faults' \in Nat /\ activation' \in Effects \cup {None}
      BY <1>20 DEF CloseRaises, Fault
    <2> QED
      BY <1>0, <1>20, <2>1, <2>2 DEF CloseRaises
  <1>11. CASE ClaimPermit
    <2>1. Effect \in Effects
      BY <1>11, EffectIsTyped DEF ClaimPermit, At, Bound
    <2> QED
      BY <1>0, <1>11, <2>1 DEF ClaimPermit
  <1>12. CASE ClaimIdentity
    <2>1. [lane |-> Lane, approval |-> Request.approval, state |-> "RUNNING"] \in Identities
      BY <1>12 DEF ClaimIdentity, Identities, Requests, CycleIsWhole, At, Parsed, Bound
    <2> QED
      BY <1>0, <1>12, <2>1 DEF ClaimIdentity
  <1>13. CASE Restart
    <2>1. Effect \in Effects
      BY <1>13, EffectIsTyped DEF Restart, At, Bound
    <2>2. effects' \in Seq(Effects)
      BY <1>13, <2>1 DEF Restart
    <2> QED
      BY <1>0, <1>13, <2>2 DEF Restart
  <1>14. CASE Record
    <2>1. /\ cycle.pc = "record" /\ cycle.outcome \in {"SUCCEEDED", "FAILED", "UNKNOWN"}
          /\ identities' = [identities EXCEPT ![Request.id].state = cycle.outcome]
      BY <1>14 DEF Record, CycleIsWhole, At
    <2>2. identities' \in [Ids -> Identities \cup {None}]
      BY <2>1, RunningIsTyped
    <2> QED
      BY <1>0, <1>14, <2>2 DEF Record
  <1>15. CASE StepRaises
    <2>1. identities' \in [Ids -> Identities \cup {None}]
      <3>1. CASE identities' = identities
        BY <3>1
      <3>2. CASE identities' # identities
        <4>1. /\ cycle.pc \in {"restart", "record"}
              /\ identities' = [identities EXCEPT ![Request.id].state = "UNKNOWN"]
          BY <1>15, <3>2 DEF StepRaises
        <4> QED
          BY <4>1, RunningIsTyped
      <3> QED
        BY <3>1, <3>2
    <2>2. faults' \in Nat
      BY <1>15 DEF StepRaises, Fault
    <2> QED
      BY <1>0, <1>15, <2>1, <2>2 DEF StepRaises
  <1>16. CASE Retain
    <2>1. Lane \in Lanes /\ Request \in Requests \cup {None}
      BY <1>1, <1>16 DEF Retain, At, Cycles, Request
    <2>2. success' \in [Lanes -> Requests \cup {None}] /\ idleProof' \in [Lanes -> BOOLEAN]
      BY <1>16, <2>1 DEF Retain
    <2> QED
      BY <1>0, <1>16, <2>2 DEF Retain
  <1>17. CASE RetainRaises
    <2>1. Lane \in Lanes
      BY <1>1, <1>17 DEF RetainRaises, At
    <2>2. /\ latches' \in [Lanes -> SUBSET {"cleanup_uncertain", "projection_failed"}]
          /\ missed' \subseteq Lanes /\ faults' \in Nat
      BY <1>17, <2>1 DEF RetainRaises, ProjectionFailed, Fault
    <2> QED
      BY <1>0, <1>17, <2>2 DEF RetainRaises
  <1>18. CASE ProcessStops \/ HostStops
    <2>1. ForgetProcess
      BY <1>18 DEF ProcessStops, HostStops
    <2>2. boot' \in Nat
      BY <1>18 DEF ProcessStops, HostStops
    <2>3. /\ latches' \in [Lanes -> SUBSET {"cleanup_uncertain", "projection_failed"}]
          /\ idleProof' \in [Lanes -> BOOLEAN] /\ missed' \subseteq Lanes /\ faults' \in Nat
      BY <2>1 DEF ForgetProcess, Fault
    <2> QED
      BY <1>0, <2>1, <2>2, <2>3 DEF ForgetProcess
  <1>19. CASE UNCHANGED restartVars
    BY <1>19 DEF restartVars
  <1> QED
    BY <1>2, <1>3, <1>4, <1>5, <1>6, <1>7, <1>8, <1>9, <1>10, <1>11, <1>12, <1>13, <1>14,
       <1>15, <1>16, <1>17, <1>18, <1>19, <1>20
       DEF RestartNext

----------------------------------------------------------------------------
(***************************************************************************)
(* What no step undoes.                                                    *)
(***************************************************************************)

\* A step leaves the polling thread alone, gives it the request of an inbox, leaves it
\* without one, or keeps the request at work; only showAfter leads to verify.
LEMMA CyclePath ==
    ASSUME RestartTypeOK, CycleIsWhole, [RestartNext]_restartVars
    PROVE  \/ UNCHANGED cycle
           \/ \E l \in Lanes : /\ Consume(l) /\ inbox[l] \in Requests
                               /\ cycle'.pc \in {"show", "retain"} /\ cycle'.lane = l
                               /\ cycle'.request = inbox[l]
           \/ cycle'.pc \notin Parsed
           \/ /\ cycle.pc \in Parsed /\ cycle'.lane = Lane /\ cycle'.request = Request
              /\ cycle'.pc = "verify" => /\ cycle'.shown = Shown(Lane)
                                         /\ UNCHANGED unit
  <1> USE DEF Parsed, Bound
  <1>1. ASSUME NEW l \in Lanes, Consume(l)
        PROVE  /\ inbox[l] \in Requests
               /\ cycle'.pc \in {"show", "retain"} /\ cycle'.lane = l
               /\ cycle'.request = inbox[l]
    BY <1>1, ConsumeSteps
  <1>2. ASSUME NEW l \in Lanes, ConsumeRaises(l)
        PROVE  cycle'.pc \notin Parsed
    BY <1>2, ConsumeSteps
  <1>3. ASSUME NEW l \in Lanes, PollsNothing(l) \/ File(l) \/ UnitChanges(l)
        PROVE  UNCHANGED cycle
    BY <1>3 DEF PollsNothing, File, UnitChanges
  <1>4. CASE Retain \/ RetainRaises \/ ProcessStops \/ HostStops
    BY <1>4, IdleIsCycle DEF Retain, RetainRaises, ProcessStops, HostStops, ForgetProcess
  <1>5. CASE ActivateFails \/ Close \/ CloseRaises
    BY <1>5, CycleSteps DEF Becomes
  <1>6. CASE Show \/ Activate \/ ClaimPermit \/ PermitRefused \/ PermitReplayed
             \/ ClaimIdentity \/ IdentityRefused \/ Restart \/ Record \/ ShowAfter \/ Verify
             \/ StepRaises
    <2>1. cycle.pc \in Parsed
      BY <1>6 DEF At, Show, Activate, ClaimPermit, PermitRefused, PermitReplayed,
                  ClaimIdentity, IdentityRefused, Restart, Record, ShowAfter, Verify,
                  StepRaises
    <2>2. CASE ShowAfter
      BY <2>1, <2>2, CycleSteps DEF Becomes, ShowAfter, worldVars
    <2>3. CASE Restart
      BY <2>1, <2>3, CycleSteps DEF Becomes
    <2>4. CASE Record \/ PermitReplayed
      BY <2>1, <2>4, CycleSteps DEF Becomes
    <2> QED
      BY <1>6, <2>1, <2>2, <2>3, <2>4, CycleSteps DEF Becomes
  <1>7. CASE UNCHANGED restartVars
    BY <1>7 DEF restartVars
  <1> QED
    BY <1>1, <1>2, <1>3, <1>4, <1>5, <1>6, <1>7 DEF RestartNext

\* A request that is filed names the invocation of its unit, and a file that was not
\* there before is such a request.
LEMMA InboxStep ==
    ASSUME RestartTypeOK, [RestartNext]_restartVars, NEW l \in Lanes, inbox'[l] # None
    PROVE  inbox'[l] = inbox[l] \/ inbox'[l].expected = unit[l].invocation
  <1> USE DEF RestartTypeOK
  <1>1. ASSUME NEW m \in Lanes, Consume(m) \/ ConsumeRaises(m)
        PROVE  inbox'[l] = inbox[l]
    BY <1>1 DEF Consume, ConsumeRaises
  <1>2. ASSUME NEW m \in Lanes, File(m)
        PROVE  inbox'[l] = inbox[l] \/ inbox'[l].expected = unit[l].invocation
    BY <1>2 DEF File
  <1>3. ASSUME NEW m \in Lanes, PollsNothing(m) \/ UnitChanges(m)
        PROVE  UNCHANGED inbox
    BY <1>3 DEF PollsNothing, UnitChanges, worldVars
  <1>4. CASE Show \/ Activate \/ ActivateFails \/ ClaimPermit \/ PermitRefused
             \/ PermitReplayed \/ ClaimIdentity \/ IdentityRefused \/ Restart \/ Record
             \/ ShowAfter \/ Verify \/ StepRaises \/ Close \/ CloseRaises \/ Retain
             \/ RetainRaises \/ ProcessStops \/ HostStops \/ UNCHANGED restartVars
    <2>1. UNCHANGED inbox
      BY <1>4 DEF Show, Activate, ActivateFails, ClaimPermit, PermitRefused, PermitReplayed,
             ClaimIdentity, IdentityRefused, Restart, Record, ShowAfter, Verify, StepRaises,
             Close, CloseRaises, Retain, RetainRaises, ProcessStops, HostStops,
             ForgetProcess, restartVars, worldVars
    <2> QED
      BY <2>1
  <1> QED
    BY <1>1, <1>2, <1>3, <1>4 DEF RestartNext

\* No step makes a request name an invocation that is still to come.
LEMMA PastStep ==
    ASSUME RestartTypeOK, CycleIsWhole, InvocationsArePast, [RestartNext]_restartVars
    PROVE  InvocationsArePast'
  <1>1. RestartTypeOK /\ \A l \in Lanes : /\ unit[l].invocation \in Nat
                                          /\ unit'[l].invocation \in Nat
                                          /\ unit[l].invocation <= unit'[l].invocation
    BY UnitStep DEF RestartTypeOK, Units
  <1>2. ASSUME NEW l \in Lanes, inbox'[l] # None
        PROVE  inbox'[l].expected <= unit'[l].invocation
    <2>1. CASE inbox'[l] = inbox[l]
      <3>1. inbox[l] \in Requests /\ inbox[l].expected <= unit[l].invocation
        BY <1>2, <2>1 DEF InvocationsArePast, RestartTypeOK
      <3> QED
        BY <1>1, <2>1, <3>1 DEF Requests
    <2>2. CASE inbox'[l].expected = unit[l].invocation
      BY <1>1, <2>2
    <2> QED
      BY <1>2, <2>1, <2>2, InboxStep
  <1>3. ASSUME cycle.pc \in Parsed, cycle'.lane = Lane, cycle'.request = Request
        PROVE  Request'.expected <= unit'[Lane'].invocation
    <2>1. /\ Lane \in Lanes /\ Request.expected \in Nat
          /\ Request.expected <= unit[Lane].invocation
      BY <1>3 DEF InvocationsArePast, CycleIsWhole, Requests, Parsed, Bound, At
    <2> QED
      BY <1>1, <1>3, <2>1 DEF Request, Lane
  <1>4. CASE UNCHANGED cycle
    <2>1. cycle'.pc \in Parsed => Request'.expected <= unit'[Lane'].invocation
      BY <1>3, <1>4 DEF Request, Lane
    <2>2. At("verify")' => /\ Request'.expected <= cycle'.shown.invocation
                           /\ cycle'.shown.invocation <= unit'[Lane'].invocation
      <3>1. SUFFICES ASSUME At("verify")
                     PROVE  /\ Request.expected <= cycle.shown.invocation
                            /\ cycle.shown.invocation <= unit'[Lane].invocation
        BY <1>4 DEF At, Request, Lane
      <3>2. /\ Lane \in Lanes /\ cycle.shown.invocation \in Nat
            /\ Request.expected <= cycle.shown.invocation
            /\ cycle.shown.invocation <= unit[Lane].invocation
        BY <3>1 DEF InvocationsArePast, CycleIsWhole, At, Shows
      <3> QED
        BY <1>1, <3>2
    <2> QED
      BY <1>2, <2>1, <2>2 DEF InvocationsArePast
  <1>5. ASSUME NEW l \in Lanes, Consume(l), inbox[l] \in Requests,
               cycle'.pc \in {"show", "retain"}, cycle'.lane = l, cycle'.request = inbox[l]
        PROVE  InvocationsArePast'
    <2>1. inbox[l] # None /\ UNCHANGED unit
      BY <1>5 DEF Consume
    <2>2. Request'.expected <= unit'[Lane'].invocation
      BY <1>5, <2>1 DEF InvocationsArePast, Request, Lane
    <2> QED
      BY <1>2, <1>5, <2>2 DEF InvocationsArePast, At
  <1>6. CASE cycle'.pc \notin Parsed
    BY <1>2, <1>6 DEF InvocationsArePast, At, Parsed, Bound
  <1>7. ASSUME cycle.pc \in Parsed, cycle'.lane = Lane, cycle'.request = Request,
               cycle'.pc = "verify" => cycle'.shown = Shown(Lane) /\ UNCHANGED unit
        PROVE  InvocationsArePast'
    <2>1. Request'.expected <= unit'[Lane'].invocation
      BY <1>3, <1>7
    <2>2. At("verify")' => /\ Request'.expected <= cycle'.shown.invocation
                           /\ cycle'.shown.invocation <= unit'[Lane'].invocation
      <3>1. Lane \in Lanes
        BY <1>7 DEF CycleIsWhole, At, Parsed, Bound
      <3>2. cycle'.pc = "verify" => cycle'.shown.invocation = unit'[Lane].invocation
        BY <1>7, <3>1, ObservationIsTyped
      <3> QED
        BY <1>1, <1>7, <2>1, <3>1, <3>2 DEF At, Lane
    <2> QED
      BY <1>2, <2>1, <2>2 DEF InvocationsArePast
  <1> QED
    BY <1>4, <1>5, <1>6, <1>7, CyclePath

\* A permit is never bound again.
LEMMA PermitsGrow ==
    ASSUME RestartTypeOK, CycleIsWhole, [RestartNext]_restartVars
    PROVE  /\ \A a \in Approvals : permits[a] # None => permits'[a] = permits[a]
           /\ ~ClaimPermit => UNCHANGED permits
  <1>1. ASSUME NEW l \in Lanes, PollsNothing(l) \/ Consume(l) \/ ConsumeRaises(l) \/ File(l)
                                \/ UnitChanges(l)
        PROVE  UNCHANGED permits
    BY <1>1 DEF PollsNothing, Consume, ConsumeRaises, File, UnitChanges, journalVars
  <1>2. CASE Show \/ Activate \/ ActivateFails \/ PermitRefused \/ PermitReplayed
             \/ ClaimIdentity \/ IdentityRefused \/ Restart \/ Record \/ ShowAfter \/ Verify
             \/ StepRaises \/ Close \/ CloseRaises \/ Retain \/ RetainRaises
             \/ ProcessStops \/ HostStops \/ UNCHANGED restartVars
    BY <1>2 DEF Show, Activate, ActivateFails, PermitRefused, PermitReplayed, ClaimIdentity,
           IdentityRefused, Restart, Record, ShowAfter, Verify, StepRaises, Close,
           CloseRaises, Retain, RetainRaises, ProcessStops, HostStops, ForgetProcess,
           restartVars, journalVars
  <1>3. CASE ClaimPermit
    <2>1. /\ permits[Request.approval] = None
          /\ permits' = [permits EXCEPT ![Request.approval] = Effect]
      BY <1>3 DEF ClaimPermit
    <2> QED
      BY <1>3, <2>1 DEF RestartTypeOK
  <1> QED
    BY <1>1, <1>2, <1>3 DEF RestartNext

\* What a step does to the identities: it claims one that is free, it ends the one that
\* is RUNNING, or nothing.
LEMMA IdentitySteps ==
    ASSUME RestartTypeOK, CycleIsWhole, CycleOwnsEffect, [RestartNext]_restartVars
    PROVE  \/ UNCHANGED identities
           \/ /\ ClaimIdentity /\ Request.id \in Ids /\ identities[Request.id] = None
              /\ identities' = [identities EXCEPT ![Request.id] =
                     [lane |-> Lane, approval |-> Request.approval, state |-> "RUNNING"]]
           \/ \E s \in {"SUCCEEDED", "FAILED", "UNKNOWN"} :
                 /\ Record \/ StepRaises
                 /\ s = "SUCCEEDED" => Record /\ cycle.outcome = "SUCCEEDED"
                 /\ Request.id \in Ids /\ identities[Request.id] \in Identities
                 /\ identities[Request.id].state = "RUNNING"
                 /\ identities' = [identities EXCEPT ![Request.id] =
                                      [identities[Request.id] EXCEPT !.state = s]]
  <1>1. ASSUME NEW l \in Lanes, PollsNothing(l) \/ Consume(l) \/ ConsumeRaises(l) \/ File(l)
                                \/ UnitChanges(l)
        PROVE  UNCHANGED identities
    BY <1>1 DEF PollsNothing, Consume, ConsumeRaises, File, UnitChanges, journalVars
  <1>2. CASE Show \/ Activate \/ ActivateFails \/ ClaimPermit \/ PermitRefused
             \/ PermitReplayed \/ IdentityRefused \/ Restart \/ ShowAfter \/ Verify
             \/ Close \/ CloseRaises \/ Retain \/ RetainRaises
             \/ ProcessStops \/ HostStops \/ UNCHANGED restartVars
    BY <1>2 DEF Show, Activate, ActivateFails, ClaimPermit, PermitRefused, PermitReplayed,
           IdentityRefused, Restart, ShowAfter, Verify, Close, CloseRaises, Retain,
           RetainRaises, ProcessStops, HostStops, ForgetProcess, restartVars, journalVars
  <1>3. CASE ClaimIdentity
    <2>1. Request.id \in Ids
      BY <1>3 DEF ClaimIdentity, At, CycleIsWhole, Parsed, Bound, Requests
    <2> QED
      BY <1>3, <2>1 DEF ClaimIdentity, Claimable
  <1>4. ASSUME cycle.pc \in {"restart", "record"}
        PROVE  /\ Request.id \in Ids /\ identities[Request.id] \in Identities
               /\ identities[Request.id].state = "RUNNING"
    BY <1>4 DEF RestartTypeOK, CycleIsWhole, CycleOwnsEffect, Parsed, Bound, Requests
  <1>5. CASE Record
    <2>1. /\ cycle.pc = "record" /\ cycle.outcome \in {"SUCCEEDED", "FAILED", "UNKNOWN"}
          /\ identities' = [identities EXCEPT ![Request.id] =
                               [identities[Request.id] EXCEPT !.state = cycle.outcome]]
      BY <1>5 DEF Record, At, CycleIsWhole
    <2> QED
      BY <1>4, <1>5, <2>1
  <1>6. CASE StepRaises
    <2>1. CASE identities' # identities
      <3>1. /\ cycle.pc \in {"restart", "record"}
            /\ identities' = [identities EXCEPT ![Request.id] =
                                 [identities[Request.id] EXCEPT !.state = "UNKNOWN"]]
        BY <1>6, <2>1 DEF StepRaises
      <3> QED
        BY <1>4, <1>6, <3>1
    <2> QED
      BY <2>1
  <1> QED
    BY <1>1, <1>2, <1>3, <1>5, <1>6 DEF RestartNext

\* An identity stays with its lane and its approval, and a success stays on record.
LEMMA IdentitiesGrow ==
    ASSUME RestartTypeOK, CycleIsWhole, CycleOwnsEffect, [RestartNext]_restartVars,
           NEW i \in Ids, identities[i] # None
    PROVE  /\ identities'[i] # None
           /\ identities'[i].approval = identities[i].approval
           /\ identities[i].state = "SUCCEEDED" => identities'[i] = identities[i]
  <1>1. CASE UNCHANGED identities
    BY <1>1
  <1>2. CASE ClaimIdentity /\ Request.id \in Ids /\ identities[Request.id] = None
             /\ identities' = [identities EXCEPT ![Request.id] =
                    [lane |-> Lane, approval |-> Request.approval, state |-> "RUNNING"]]
    <2>1. identities'[i] = identities[i]
      BY <1>2 DEF RestartTypeOK
    <2> QED
      BY <2>1
  <1>3. ASSUME NEW s \in {"SUCCEEDED", "FAILED", "UNKNOWN"},
               Request.id \in Ids, identities[Request.id] \in Identities,
               identities[Request.id].state = "RUNNING",
               identities' = [identities EXCEPT ![Request.id] =
                                 [identities[Request.id] EXCEPT !.state = s]]
        PROVE  /\ identities'[i] # None
               /\ identities'[i].approval = identities[i].approval
               /\ identities[i].state = "SUCCEEDED" => identities'[i] = identities[i]
    <2>1. CASE i = Request.id
      <3>1. identities'[i] = [identities[i] EXCEPT !.state = s]
        BY <1>3, <2>1 DEF RestartTypeOK
      <3>2. /\ [identities[i] EXCEPT !.state = s] \in Identities
            /\ [identities[i] EXCEPT !.state = s].approval = identities[i].approval
        BY <1>3, <2>1 DEF Identities
      <3> QED
        BY <1>3, <2>1, <3>1, <3>2, ConstantsAreTyped
    <2>2. CASE i # Request.id
      <3>1. identities'[i] = identities[i]
        BY <1>3, <2>2 DEF RestartTypeOK
      <3> QED
        BY <3>1
    <2> QED
      BY <2>1, <2>2
  <1> QED
    BY <1>1, <1>2, <1>3, IdentitySteps

\* Only a restart adds an effect, and none goes.
LEMMA EffectSteps ==
    ASSUME RestartTypeOK, [RestartNext]_restartVars
    PROVE  UNCHANGED effects \/ (Restart /\ effects' = Append(effects, Effect))
  <1>1. ASSUME NEW l \in Lanes, PollsNothing(l) \/ Consume(l) \/ ConsumeRaises(l) \/ File(l)
                                \/ UnitChanges(l)
        PROVE  UNCHANGED effects
    BY <1>1 DEF PollsNothing, Consume, ConsumeRaises, File, UnitChanges, histVars
  <1>2. CASE Show \/ Activate \/ ActivateFails \/ ClaimPermit \/ PermitRefused
             \/ PermitReplayed \/ ClaimIdentity \/ IdentityRefused \/ Record \/ ShowAfter
             \/ Verify \/ StepRaises \/ Close \/ CloseRaises \/ Retain \/ RetainRaises
             \/ ProcessStops \/ HostStops \/ UNCHANGED restartVars
    BY <1>2 DEF Show, Activate, ActivateFails, ClaimPermit, PermitRefused, PermitReplayed,
           ClaimIdentity, IdentityRefused, Record, ShowAfter, Verify, StepRaises, Close,
           CloseRaises, Retain, RetainRaises, ProcessStops, HostStops, ForgetProcess,
           restartVars, histVars
  <1>3. CASE Restart
    BY <1>3 DEF Restart
  <1> QED
    BY <1>1, <1>2, <1>3 DEF RestartNext

\* Which steps lead to the points at which the effect is owned or has been observed.
LEMMA CycleTurns ==
    ASSUME RestartTypeOK, CycleIsWhole, ObservesSuccess, [RestartNext]_restartVars,
           cycle' # cycle
    PROVE  /\ cycle'.pc = "identity" => ClaimPermit
           /\ cycle'.pc = "restart" => ClaimIdentity
           /\ cycle'.pc = "record" => Restart
           /\ cycle'.pc = "showAfter" =>
                 \/ Record /\ cycle.outcome = "SUCCEEDED"
                 \/ PermitReplayed /\ identities[Request.id].state = "SUCCEEDED"
           /\ cycle'.pc = "verify" => ShowAfter
           /\ cycle'.recovered => /\ cycle'.pc \in {"close", "retain"}
                                  /\ \/ Verify /\ Verified(cycle.shown, Target(Lane))
                                     \/ Close /\ cycle.recovered
  <1> DEFINE Resting == ~cycle'.recovered /\ cycle'.pc \in {"idle", "show", "retain"}
             Early == ~cycle'.recovered /\ cycle'.pc \in {"plan", "permit", "close", "retain"}
  <1>1. ASSUME NEW l \in Lanes, Consume(l) \/ ConsumeRaises(l)
        PROVE  Resting
    BY <1>1, ConsumeSteps
  <1>2. ASSUME NEW l \in Lanes, PollsNothing(l) \/ File(l) \/ UnitChanges(l)
        PROVE  FALSE
    BY <1>2 DEF PollsNothing, File, UnitChanges
  <1>3. CASE Retain \/ RetainRaises \/ ProcessStops \/ HostStops
    <2>1. cycle' = Idle
      BY <1>3 DEF Retain, RetainRaises, ProcessStops, HostStops, ForgetProcess
    <2>2. Resting
      BY <2>1, IdleIsCycle
    <2> QED
      BY <2>2
  <1>4. CASE ActivateFails \/ CloseRaises \/ Show \/ Activate \/ PermitRefused
             \/ IdentityRefused \/ StepRaises
    <2>1. cycle.pc \notin {"close", "retain"} \/ CloseRaises
      BY <1>4 DEF At, ActivateFails, Show, Activate, PermitRefused, IdentityRefused,
                  StepRaises
    <2>2. ~cycle.recovered \/ CloseRaises
      BY <2>1 DEF ObservesSuccess
    <2>3. Early
      BY <1>4, <2>2, CycleSteps DEF Becomes
    <2> QED
      BY <2>3
  <1>5. CASE ClaimPermit
    <2>1. ~cycle.recovered
      BY <1>5 DEF ObservesSuccess, ClaimPermit, At
    <2> QED
      BY <1>5, <2>1, CycleSteps DEF Becomes
  <1>6. CASE ClaimIdentity
    <2>1. ~cycle.recovered
      BY <1>6 DEF ObservesSuccess, ClaimIdentity, At
    <2> QED
      BY <1>6, <2>1, CycleSteps DEF Becomes
  <1>7. CASE Restart
    <2>1. ~cycle.recovered
      BY <1>7 DEF ObservesSuccess, Restart, At
    <2> QED
      BY <1>7, <2>1, CycleSteps DEF Becomes
  <1>8. CASE Record
    <2>1. ~cycle.recovered
      BY <1>8 DEF ObservesSuccess, Record, At
    <2> QED
      BY <1>8, <2>1, CycleSteps DEF Becomes
  <1>9. CASE PermitReplayed
    <2>1. ~cycle.recovered
      BY <1>9 DEF ObservesSuccess, PermitReplayed, At
    <2> QED
      BY <1>9, <2>1, CycleSteps DEF Becomes
  <1>10. CASE ShowAfter
    <2>1. ~cycle.recovered
      BY <1>10 DEF ObservesSuccess, ShowAfter, At
    <2> QED
      BY <1>10, <2>1, CycleSteps DEF Becomes
  <1>11. CASE Verify
    BY <1>11, CycleSteps DEF Becomes
  <1>12. CASE Close
    BY <1>12, CycleSteps DEF Becomes
  <1>13. CASE UNCHANGED restartVars
    BY <1>13 DEF restartVars
  <1> HIDE DEF Resting
  <1>14. Resting => /\ cycle'.pc \notin {"identity", "restart", "record", "showAfter", "verify"}
                    /\ ~cycle'.recovered
    BY DEF Resting
  <1> QED
    BY <1>1, <1>2, <1>3, <1>4, <1>5, <1>6, <1>7, <1>8, <1>9, <1>10, <1>11, <1>12, <1>13,
       <1>14 DEF RestartNext

----------------------------------------------------------------------------
(***************************************************************************)
(* Approvals and ids are spent once.                                       *)
(***************************************************************************)

\* Every effect has the approval and the id of a permit and an identity on record.
LEMMA SpentIsOnRecord ==
    ASSUME RestartTypeOK, EffectsAreSpent, NEW e \in DOMAIN effects
    PROVE  /\ effects[e] \in Effects /\ effects[e].approval \in Approvals
           /\ effects[e].id \in Ids
           /\ permits[effects[e].approval] = effects[e]
           /\ permits[effects[e].approval] # None
           /\ identities[effects[e].id] # None
           /\ identities[effects[e].id].approval = effects[e].approval
  <1>1. effects[e] \in Effects
    BY DEF RestartTypeOK
  <1>2. effects[e].approval \in Approvals /\ effects[e].id \in Ids
    BY <1>1 DEF Effects
  <1> QED
    BY <1>1, <1>2, ConstantsAreTyped DEF EffectsAreSpent

\* A restart finds its approval and its id spent by its own cycle, and by no other.
LEMMA SpentStep ==
    ASSUME RestartTypeOK, CycleIsWhole, EffectsAreSpent, CycleOwnsEffect,
           [RestartNext]_restartVars
    PROVE  EffectsAreSpent'
  <1>1. CASE UNCHANGED effects
    <2>1. ASSUME NEW e \in DOMAIN effects
          PROVE  /\ permits'[effects[e].approval] = effects[e]
                 /\ identities'[effects[e].id] # None
                 /\ identities'[effects[e].id].approval = effects[e].approval
      BY SpentIsOnRecord, PermitsGrow, IdentitiesGrow
    <2>2. ApprovedOnce'
      BY <1>1 DEF EffectsAreSpent, ApprovedOnce
    <2> QED
      BY <1>1, <2>1, <2>2 DEF EffectsAreSpent
  <1>2. CASE Restart /\ effects' = Append(effects, Effect)
    <2>1. /\ UNCHANGED <<permits, identities>>
          /\ permits[Request.approval] = Effect
          /\ identities[Request.id] # None
          /\ identities[Request.id].approval = Request.approval
          /\ \A e \in DOMAIN effects : /\ effects[e].approval # Request.approval
                                       /\ effects[e].id # Request.id
      BY <1>2 DEF Restart, At, CycleOwnsEffect, journalVars
    <2>2. Effect.approval = Request.approval /\ Effect.id = Request.id
      BY DEF Effect
    <2>3. effects \in Seq(Effects) /\ Effect \in Effects
      BY <1>2, EffectIsTyped DEF RestartTypeOK, Restart, At, Bound
    <2>4. ASSUME NEW e \in DOMAIN effects'
          PROVE  \/ e \in DOMAIN effects /\ effects'[e] = effects[e]
                 \/ e = Len(effects) + 1 /\ effects'[e] = Effect
      BY <1>2, <2>3
    <2>5. ASSUME NEW e \in DOMAIN effects'
          PROVE  /\ permits'[effects'[e].approval] = effects'[e]
                 /\ identities'[effects'[e].id] # None
                 /\ identities'[effects'[e].id].approval = effects'[e].approval
      BY <2>1, <2>2, <2>4 DEF EffectsAreSpent
    <2>6. ApprovedOnce'
      <3>1. SUFFICES ASSUME NEW i \in DOMAIN effects', NEW j \in DOMAIN effects', i # j
                     PROVE  /\ effects'[i].approval # effects'[j].approval
                            /\ effects'[i].id # effects'[j].id
        BY DEF ApprovedOnce
      <3> QED
        BY <2>1, <2>2, <2>4, <3>1 DEF EffectsAreSpent, ApprovedOnce
    <2> QED
      BY <2>5, <2>6 DEF EffectsAreSpent
  <1> QED
    BY <1>1, <1>2, EffectSteps

\* The cycle at work keeps what it owns, and takes only what nobody has spent.
LEMMA OwnsStep ==
    ASSUME RestartInv, [RestartNext]_restartVars
    PROVE  CycleOwnsEffect'
  <1> USE DEF RestartInv
  <1>1. CASE cycle' = cycle
    <2>1. Effect' = Effect /\ Request' = Request /\ (~Restart => UNCHANGED effects)
      BY <1>1, EffectSteps DEF Effect, Lane, Request
    <2>2. ~Restart /\ ~ClaimPermit /\ ~ClaimIdentity /\ ~Record
      BY <1>1, CycleSteps DEF Becomes, At, Restart, ClaimPermit, ClaimIdentity, Record
    <2>3. cycle.pc \in {"identity", "restart", "record"} => permits[Request.approval] # None
      BY EffectIsTyped, ConstantsAreTyped DEF CycleOwnsEffect, Bound
    <2>4. cycle.pc \in {"identity", "restart", "record"} =>
              Request.approval \in Approvals /\ Request.id \in Ids
      BY DEF CycleIsWhole, Parsed, Bound, Requests
    <2>5. UNCHANGED permits /\ UNCHANGED effects
      BY <2>1, <2>2, PermitsGrow
    <2>6. cycle.pc \in {"restart", "record"} => identities' = identities
      <3>1. StepRaises => cycle'.pc = "close" /\ cycle.pc # "close"
        BY CycleSteps DEF Becomes, StepRaises
      <3> QED
        BY <1>1, <2>2, <3>1, IdentitySteps
    <2> QED
      BY <1>1, <2>1, <2>5, <2>6 DEF CycleOwnsEffect, At
  <1>2. CASE cycle' # cycle
    <2>1. CASE ClaimPermit
      <3>1. /\ cycle'.pc = "identity" /\ Effect' = Effect /\ Request' = Request
        BY <2>1, CycleSteps DEF Becomes, Effect, Lane, Request
      <3>2. Request.approval \in Approvals /\ permits[Request.approval] = None
            /\ permits' = [permits EXCEPT ![Request.approval] = Effect]
            /\ UNCHANGED effects
        BY <2>1 DEF ClaimPermit, CycleIsWhole, At, Parsed, Bound, Requests, histVars
      <3>3. \A e \in DOMAIN effects : effects[e].approval # Request.approval
        BY <3>2, SpentIsOnRecord
      <3>4. permits'[Request.approval] = Effect
        BY <3>2 DEF RestartTypeOK
      <3> QED
        BY <3>1, <3>2, <3>3, <3>4 DEF CycleOwnsEffect, At
    <2>2. CASE ClaimIdentity
      <3>1. /\ cycle.pc = "identity" /\ cycle'.pc = "restart"
            /\ Effect' = Effect /\ Request' = Request
        BY <2>2, CycleSteps DEF Becomes, Effect, Lane, Request, ClaimIdentity, At
      <3>2. /\ Request.id \in Ids /\ identities[Request.id] = None
            /\ UNCHANGED <<permits, effects>>
            /\ identities' = [identities EXCEPT ![Request.id] =
                   [lane |-> Lane, approval |-> Request.approval, state |-> "RUNNING"]]
        BY <2>2 DEF ClaimIdentity, Claimable, CycleIsWhole, At, Parsed, Bound, Requests,
                    histVars
      <3>3. [lane |-> Lane, approval |-> Request.approval, state |-> "RUNNING"] \in Identities
        BY <3>1, <3>2 DEF Identities, Requests, CycleIsWhole, At, Parsed, Bound
      <3>4. /\ identities'[Request.id] # None
            /\ identities'[Request.id].approval = Request.approval
            /\ identities'[Request.id].state = "RUNNING"
        <4>1. identities'[Request.id] =
                  [lane |-> Lane, approval |-> Request.approval, state |-> "RUNNING"]
          BY <3>2 DEF RestartTypeOK
        <4> QED
          BY <3>3, <4>1, ConstantsAreTyped
      <3>5. \A e \in DOMAIN effects : /\ effects[e].approval # Request.approval
                                      /\ effects[e].id # Request.id
        BY <3>1, <3>2, SpentIsOnRecord DEF CycleOwnsEffect, At
      <3> QED
        BY <3>1, <3>2, <3>4, <3>5 DEF CycleOwnsEffect, At
    <2>3. CASE Restart
      <3>1. /\ cycle.pc = "restart" /\ cycle'.pc = "record"
            /\ Effect' = Effect /\ Request' = Request
        BY <2>3, CycleSteps DEF Becomes, Effect, Lane, Request, Restart, At
      <3>2. UNCHANGED <<permits, identities>> /\ effects' = Append(effects, Effect)
        BY <2>3 DEF Restart, journalVars
      <3>3. \E e \in DOMAIN effects' : effects'[e] = Effect
        <4>1. effects \in Seq(Effects) /\ Effect \in Effects
          BY <3>1, EffectIsTyped DEF RestartTypeOK, Bound
        <4>2. Len(effects) + 1 \in DOMAIN effects' /\ effects'[Len(effects) + 1] = Effect
          BY <3>2, <4>1
        <4> QED
          BY <4>2
      <3> QED
        BY <3>1, <3>2, <3>3 DEF CycleOwnsEffect, At
    <2>4. CASE ~ClaimPermit /\ ~ClaimIdentity /\ ~Restart
      BY <1>2, <2>4, CycleTurns DEF CycleOwnsEffect, At
    <2> QED
      BY <2>1, <2>2, <2>3, <2>4
  <1> QED
    BY <1>1, <1>2

----------------------------------------------------------------------------
(***************************************************************************)
(* A success is observed of a restart that was commanded.                  *)
(***************************************************************************)

\* An identity that says SUCCEEDED belongs to a restart on record.
LEMMA SuccessStep ==
    ASSUME RestartInv, [RestartNext]_restartVars
    PROVE  SuccessHasEffect'
  <1> USE DEF RestartInv
  <1>1. ASSUME NEW e \in DOMAIN effects
        PROVE  e \in DOMAIN effects' /\ effects'[e] = effects[e]
    <2>1. CASE UNCHANGED effects
      BY <2>1
    <2>2. CASE Restart /\ effects' = Append(effects, Effect)
      <3>1. effects \in Seq(Effects) /\ Effect \in Effects
        BY <2>2, EffectIsTyped DEF RestartTypeOK, Restart, At, Bound
      <3> QED
        BY <2>2, <3>1
    <2> QED
      BY <2>1, <2>2, EffectSteps
  <1>2. SUFFICES ASSUME NEW i \in Ids, identities'[i] # None,
                        identities'[i].state = "SUCCEEDED"
                 PROVE  \E e \in DOMAIN effects : effects[e].id = i
    BY <1>1 DEF SuccessHasEffect
  <1>3. CASE identities'[i] = identities[i]
    BY <1>2, <1>3 DEF SuccessHasEffect
  <1>4. CASE identities'[i] # identities[i]
    <2>1. CASE ClaimIdentity /\ Request.id \in Ids
               /\ identities' = [identities EXCEPT ![Request.id] =
                      [lane |-> Lane, approval |-> Request.approval, state |-> "RUNNING"]]
      <3>1. i = Request.id /\ identities'[i].state = "RUNNING"
        BY <1>4, <2>1 DEF RestartTypeOK
      <3> QED
        BY <1>2, <3>1
    <2>2. ASSUME NEW s \in {"SUCCEEDED", "FAILED", "UNKNOWN"},
                 s = "SUCCEEDED" => Record /\ cycle.outcome = "SUCCEEDED",
                 Request.id \in Ids, identities[Request.id] \in Identities,
                 identities' = [identities EXCEPT ![Request.id] =
                                   [identities[Request.id] EXCEPT !.state = s]]
          PROVE  \E e \in DOMAIN effects : effects[e].id = i
      <3>1. i = Request.id /\ identities'[i] = [identities[i] EXCEPT !.state = s]
        BY <1>4, <2>2 DEF RestartTypeOK
      <3>2. [identities[i] EXCEPT !.state = s].state = s
        BY <2>2, <3>1 DEF Identities
      <3>3. Record
        BY <1>2, <2>2, <3>1, <3>2
      <3>4. PICK e \in DOMAIN effects : effects[e] = Effect
        BY <3>3 DEF Record, CycleOwnsEffect, At
      <3> QED
        BY <3>1, <3>4 DEF Effect
    <2> QED
      BY <1>4, <2>1, <2>2, IdentitySteps
  <1> QED
    BY <1>3, <1>4

\* What a cycle that observes the unit, or has seen it recovered, can show for it.
Observes ==
    /\ Lane \in Lanes /\ Request \in Requests
    /\ permits[Request.approval] = Effect
    /\ identities[Request.id] # None
    /\ identities[Request.id].state = "SUCCEEDED"
    /\ \E e \in DOMAIN effects : effects[e] = Effect

\* It can show it as long as it is at work on the same request.
LEMMA ObservesStays ==
    ASSUME RestartInv, [RestartNext]_restartVars, Observes,
           cycle'.lane = Lane, cycle'.request = Request, cycle'.target = cycle.target
    PROVE  Observes'
  <1>1. Effect' = Effect /\ Lane' = Lane /\ Request' = Request
    BY DEF Effect, Lane, Request
  <1>2. Request.approval \in Approvals /\ Request.id \in Ids
    BY DEF Observes, Requests
  <1>3. PICK e \in DOMAIN effects : effects[e] = Effect
    BY DEF Observes
  <1>4. permits'[Request.approval] = Effect
    <2>1. Effect \in Effects
      BY <1>3 DEF RestartInv, RestartTypeOK
    <2> QED
      BY <1>2, <2>1, PermitsGrow, ConstantsAreTyped DEF Observes, RestartInv
  <1>5. identities'[Request.id] # None /\ identities'[Request.id].state = "SUCCEEDED"
    BY <1>2, IdentitiesGrow DEF Observes, RestartInv
  <1>6. e \in DOMAIN effects' /\ effects'[e] = Effect
    <2>1. CASE UNCHANGED effects
      BY <1>3, <2>1
    <2>2. CASE effects' = Append(effects, Effect)
      BY <1>3, <2>2 DEF RestartInv, RestartTypeOK
    <2> QED
      BY <2>1, <2>2, EffectSteps DEF RestartInv
  <1> QED
    BY <1>1, <1>4, <1>5, <1>6 DEF Observes

\* The outcome on record of the same request, under its own permit, is that of its own
\* effect.
LEMMA ReplayObserves ==
    ASSUME RestartInv, PermitReplayed, identities[Request.id].state = "SUCCEEDED"
    PROVE  Observes
  <1> USE DEF RestartInv
  <1>1. /\ cycle.pc = "permit" /\ permits[Request.approval] = Effect
        /\ identities[Request.id] # None
        /\ identities[Request.id].approval = Request.approval
    BY DEF PermitReplayed, At, IsReplay, Belongs
  <1>2. Lane \in Lanes /\ Request \in Requests /\ Request.id \in Ids
    BY <1>1 DEF CycleIsWhole, At, Parsed, Bound, Requests
  <1>3. PICK e \in DOMAIN effects : effects[e].id = Request.id
    BY <1>1, <1>2 DEF SuccessHasEffect
  <1>4. effects[e] = Effect
    BY <1>1, <1>3, SpentIsOnRecord
  <1> QED
    BY <1>1, <1>2, <1>4 DEF Observes

\* The identity of the restart that has ended well is recorded as a success.
LEMMA RecordObserves ==
    ASSUME RestartInv, [RestartNext]_restartVars, Record, cycle.outcome = "SUCCEEDED"
    PROVE  Observes'
  <1> USE DEF RestartInv
  <1>1. /\ cycle.pc = "record" /\ UNCHANGED <<permits, effects>>
        /\ identities' = [identities EXCEPT ![Request.id] =
                             [identities[Request.id] EXCEPT !.state = "SUCCEEDED"]]
    BY DEF Record, At, histVars
  <1>2. Effect' = Effect /\ Lane' = Lane /\ Request' = Request
    BY CycleSteps DEF Becomes, Effect, Lane, Request
  <1>3. Lane \in Lanes /\ Request \in Requests /\ Request.id \in Ids
    BY <1>1 DEF CycleIsWhole, At, Parsed, Bound, Requests
  <1>4. identities[Request.id] \in Identities
    BY <1>1, <1>3 DEF CycleOwnsEffect, RestartTypeOK
  <1>5. identities'[Request.id] = [identities[Request.id] EXCEPT !.state = "SUCCEEDED"]
    BY <1>1, <1>3 DEF RestartTypeOK
  <1>6. /\ [identities[Request.id] EXCEPT !.state = "SUCCEEDED"] \in Identities
        /\ [identities[Request.id] EXCEPT !.state = "SUCCEEDED"].state = "SUCCEEDED"
    BY <1>4 DEF Identities
  <1>7. /\ permits[Request.approval] = Effect
        /\ \E e \in DOMAIN effects : effects[e] = Effect
    BY <1>1 DEF CycleOwnsEffect, At
  <1> QED
    BY <1>1, <1>2, <1>3, <1>5, <1>6, <1>7, ConstantsAreTyped DEF Observes

\* A cycle observes the unit only after its own effect has succeeded.
LEMMA ObservesStep ==
    ASSUME RestartInv, [RestartNext]_restartVars
    PROVE  ObservesSuccess'
  <1> USE DEF RestartInv
  <1>0. cycle.pc \in {"showAfter", "verify"} \/ cycle.recovered => Observes
    BY DEF ObservesSuccess, Observes
  <1>1. cycle'.pc \in {"showAfter", "verify"} \/ cycle'.recovered => Observes'
    <2>1. CASE cycle' = cycle
      BY <1>0, <2>1, ObservesStays DEF Lane, Request
    <2>2. CASE cycle' # cycle
      <3>1. CASE cycle'.pc = "showAfter" /\ Record /\ cycle.outcome = "SUCCEEDED"
        BY <3>1, RecordObserves
      <3>2. CASE cycle'.pc = "showAfter" /\ PermitReplayed
                 /\ identities[Request.id].state = "SUCCEEDED"
        BY <3>2, ReplayObserves, ObservesStays, CycleSteps DEF Becomes
      <3>3. CASE ShowAfter
        <4>1. Observes
          BY <1>0, <3>3 DEF ShowAfter, At
        <4> QED
          BY <3>3, <4>1, ObservesStays, CycleSteps DEF Becomes
      <3>4. CASE Verify
        <4>1. Observes
          BY <1>0, <3>4 DEF Verify, At
        <4> QED
          BY <3>4, <4>1, ObservesStays, CycleSteps DEF Becomes
      <3>5. CASE Close /\ cycle.recovered
        BY <1>0, <3>5, ObservesStays, CycleSteps DEF Becomes
      <3> QED
        BY <2>2, <3>1, <3>2, <3>3, <3>4, <3>5, CycleTurns
    <2> QED
      BY <2>1, <2>2
  <1>2. cycle'.recovered => /\ cycle'.pc \in {"close", "retain"}
                            /\ unit'[Lane'].invocation > Request'.expected
    <2>0. \A l \in Lanes : /\ unit[l].invocation \in Nat /\ unit'[l].invocation \in Nat
                           /\ unit'[l].invocation >= unit[l].invocation
      BY UnitStep DEF RestartTypeOK, Units
    <2>1. CASE cycle' = cycle
      <3>1. SUFFICES ASSUME cycle.recovered
                     PROVE  unit'[Lane].invocation > Request.expected
        BY <2>1 DEF Lane, Request, ObservesSuccess
      <3>2. /\ Lane \in Lanes /\ Request.expected \in Nat
            /\ unit[Lane].invocation > Request.expected
        BY <3>1 DEF ObservesSuccess, Requests
      <3> QED
        BY <2>0, <3>2
    <2>2. CASE cycle' # cycle /\ Verify /\ Verified(cycle.shown, Target(Lane))
      <3>1. /\ Lane' = Lane /\ Request' = Request /\ cycle'.pc = "close"
        BY <2>2, CycleSteps DEF Becomes, Lane, Request
      <3>2. /\ Lane \in Lanes /\ Request.expected \in Nat /\ cycle.shown.invocation \in Nat
            /\ Request.expected <= cycle.shown.invocation
            /\ cycle.shown.invocation <= unit[Lane].invocation
            /\ cycle.shown.invocation # Request.expected
        BY <2>2 DEF Verify, Verified, InvocationsArePast, CycleIsWhole, At, Parsed, Bound,
                    Requests, Shows
      <3> QED
        BY <2>0, <3>1, <3>2
    <2>3. CASE cycle' # cycle /\ Close /\ cycle.recovered
      <3>1. /\ Lane' = Lane /\ Request' = Request /\ cycle'.pc = "retain"
        BY <2>3, CycleSteps DEF Becomes, Lane, Request
      <3>2. /\ Lane \in Lanes /\ Request.expected \in Nat
            /\ unit[Lane].invocation > Request.expected
        BY <2>3 DEF ObservesSuccess, Requests
      <3> QED
        BY <2>0, <3>1, <3>2
    <2> QED
      BY <2>1, <2>2, <2>3, CycleTurns
  <1> QED
    BY <1>1, <1>2 DEF ObservesSuccess, Observes

----------------------------------------------------------------------------
(***************************************************************************)
(* The theorems.                                                           *)
(***************************************************************************)

\* Latches go only with the process that missed the evidence.
LEMMA MissedStep ==
    ASSUME RestartTypeOK, CycleIsWhole, MissedIsLatched, [RestartNext]_restartVars
    PROVE  MissedIsLatched'
  <1> USE DEF MissedIsLatched, RestartTypeOK
  <1>1. CASE RetainRaises
    <2>1. Lane \in Lanes /\ missed' = missed \cup {Lane}
          /\ latches' = [latches EXCEPT ![Lane] = @ \cup {"projection_failed"}]
      BY <1>1 DEF RetainRaises, ProjectionFailed, CycleIsWhole, At
    <2> QED
      BY <2>1
  <1>2. CASE ProcessStops \/ HostStops
    BY <1>2 DEF ProcessStops, HostStops, ForgetProcess
  <1>3. CASE ActivateFails \/ CloseRaises
    <2>1. missed' = missed /\ \A l \in Lanes : latches[l] \subseteq latches'[l]
      BY <1>3 DEF ActivateFails, CloseRaises, histVars
    <2> QED
      BY <2>1
  <1>4. ASSUME NEW l \in Lanes, PollsNothing(l) \/ Consume(l) \/ ConsumeRaises(l) \/ File(l)
                                \/ UnitChanges(l)
        PROVE  UNCHANGED <<missed, latches>>
    BY <1>4 DEF PollsNothing, Consume, ConsumeRaises, File, UnitChanges, histVars, policyVars
  <1>5. CASE Show \/ Activate \/ ClaimPermit \/ PermitRefused \/ PermitReplayed
             \/ ClaimIdentity \/ IdentityRefused \/ Restart \/ Record \/ ShowAfter \/ Verify
             \/ StepRaises \/ Close \/ Retain \/ UNCHANGED restartVars
    <2>1. UNCHANGED <<missed, latches>>
      BY <1>5 DEF Show, Activate, ClaimPermit, PermitRefused, PermitReplayed, ClaimIdentity,
             IdentityRefused, Restart, Record, ShowAfter, Verify, StepRaises, Close, Retain,
             restartVars, histVars, policyVars
    <2> QED
      BY <2>1
  <1> QED
    BY <1>1, <1>2, <1>3, <1>4, <1>5 DEF RestartNext

\* Both inboxes start empty, with nothing on record.
LEMMA InvInit ==
    ASSUME RestartInit
    PROVE  RestartInv
  <1> USE DEF RestartInit, Idle
  <1>1. RestartTypeOK
    BY DEF RestartTypeOK, Units, Cycles
  <1>2. CycleIsWhole /\ InvocationsArePast /\ CycleOwnsEffect /\ ObservesSuccess
    BY DEF CycleIsWhole, InvocationsArePast, CycleOwnsEffect, ObservesSuccess, At, Parsed,
           Bound
  <1>3. EffectsAreSpent /\ SuccessHasEffect /\ MissedIsLatched
    BY DEF EffectsAreSpent, ApprovedOnce, SuccessHasEffect, MissedIsLatched
  <1> QED
    BY <1>1, <1>2, <1>3 DEF RestartInv

\* What the inboxes keep, in every step: the types; a cycle that holds what it needs;
\* requests that name past invocations; effects that have spent their approval and id;
\* a cycle that owns the effect it is about to command; successes and recoveries with an
\* effect of their own on record; and a latch for all evidence that was missed.
THEOREM Invariance == RestartSpec => []RestartInv
  <1>1. RestartInit => RestartInv
    BY InvInit
  <1>2. RestartInv /\ [RestartNext]_restartVars => RestartInv'
    BY CycleStep, TypeStep, PastStep, SpentStep, OwnsStep, SuccessStep, ObservesStep,
       MissedStep DEF RestartInv
  <1> QED
    BY <1>1, <1>2, PTL DEF RestartSpec

\* No approval and no request id restarts a unit twice: execute_bound claims the permit
\* and the identity before systemctl, and neither is ever free again.
THEOREM ApprovedAtMostOnce == RestartSpec => []ApprovedOnce
  <1>1. RestartInv => ApprovedOnce
    BY DEF RestartInv, EffectsAreSpent
  <1> QED
    BY <1>1, Invariance, PTL

\* TERMINAL_SUCCESS is retained only of a request whose own approval has restarted that
\* unit, as approved, into another invocation; and an IDLE projection is published only
\* by a process that has missed no evidence on that lane.
THEOREM TrueEvidence == RestartSpec => EvidenceIsTrue
  <1> DEFINE IsTrue ==
        \A l \in Lanes :
           /\ success'[l] \notin {None, success[l]} => SuccessIsEarned(l, success'[l])
           /\ idleProof'[l] /\ ~idleProof[l] => l \notin missed
  <1>1. ASSUME RestartInv, [RestartNext]_restartVars
        PROVE  IsTrue
    <2> USE DEF RestartInv, RestartTypeOK
    <2>1. SUFFICES ASSUME NEW l \in Lanes
                   PROVE  /\ success'[l] \notin {None, success[l]} =>
                                SuccessIsEarned(l, success'[l])
                          /\ idleProof'[l] /\ ~idleProof[l] => l \notin missed
      OBVIOUS
    <2>2. CASE Retain
      <3>1. /\ Lane \in Lanes /\ (idleProof'[l] => idleProof[l])
            /\ success' = [success EXCEPT ![Lane] = IF cycle.recovered /\ ActivationEmpty(Lane)
                                                      THEN Request ELSE None]
        BY <1>1, <2>2 DEF Retain, CycleIsWhole, At
      <3>2. ASSUME success'[l] \notin {None, success[l]}
            PROVE  SuccessIsEarned(l, success'[l])
        <4>1. l = Lane /\ success'[l] = Request /\ cycle.recovered
          BY <1>1, <3>1, <3>2
        <4>2. /\ permits[Request.approval] = Effect
              /\ identities[Request.id].state = "SUCCEEDED"
              /\ \E e \in DOMAIN effects : effects[e] = Effect
              /\ unit[Lane].invocation > Request.expected
          BY <1>1, <4>1 DEF ObservesSuccess
        <4> QED
          BY <4>1, <4>2 DEF SuccessIsEarned, Effect
      <3> QED
        BY <3>1, <3>2
    <2>3. ASSUME NEW m \in Lanes, PollsNothing(m)
          PROVE  /\ success' = success
                 /\ idleProof'[l] /\ ~idleProof[l] => l \notin missed
      <3>1. success' = success /\ idleProof' = [idleProof EXCEPT ![m] = ActivationEmpty(m)]
        BY <2>3 DEF PollsNothing
      <3>2. idleProof'[l] /\ ~idleProof[l] => latches[l] = {}
        BY <1>1, <3>1 DEF ActivationEmpty
      <3> QED
        BY <1>1, <3>1, <3>2 DEF MissedIsLatched
    <2>4. ASSUME NEW m \in Lanes, Consume(m)
          PROVE  success' = success /\ (idleProof'[l] => idleProof[l])
      BY <1>1, <2>4 DEF Consume
    <2>5. ASSUME NEW m \in Lanes, ConsumeRaises(m) \/ File(m) \/ UnitChanges(m)
          PROVE  UNCHANGED <<success, idleProof>>
      BY <2>5 DEF ConsumeRaises, File, UnitChanges, fileVars
    <2>6. CASE ProcessStops \/ HostStops
      BY <2>6 DEF ProcessStops, HostStops, ForgetProcess
    <2>7. CASE Show \/ Activate \/ ActivateFails \/ ClaimPermit \/ PermitRefused
               \/ PermitReplayed \/ ClaimIdentity \/ IdentityRefused \/ Restart \/ Record
               \/ ShowAfter \/ Verify \/ StepRaises \/ Close \/ CloseRaises \/ RetainRaises
               \/ UNCHANGED restartVars
      <3>1. UNCHANGED <<success, idleProof>>
        BY <2>7 DEF Show, Activate, ActivateFails, ClaimPermit, PermitRefused,
               PermitReplayed, ClaimIdentity, IdentityRefused, Restart, Record, ShowAfter,
               Verify, StepRaises, Close, CloseRaises, RetainRaises, restartVars, fileVars
      <3> QED
        BY <3>1
    <2> QED
      BY <1>1, <2>2, <2>3, <2>4, <2>5, <2>6, <2>7 DEF RestartNext
  <1>2. RestartInv /\ [RestartNext]_restartVars => [IsTrue]_restartVars
    BY <1>1
  <1> QED
    BY <1>2, Invariance, PTL DEF RestartSpec, EvidenceIsTrue

=============================================================================
