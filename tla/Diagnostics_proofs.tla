-------------------------- MODULE Diagnostics_proofs --------------------------
(***************************************************************************)
(* What holds for any incidents, budgets and failures while the two        *)
(* threads overwrite each other's saves: the handoff acts on the incident  *)
(* of its diagnosis, commands and remediations are bounded once what stale *)
(* saves took back is counted, and diagnoses rest on real evidence.        *)
(***************************************************************************)
EXTENDS Diagnostics, FiniteSetTheorems, WellFoundedInduction, TLAPS

----------------------------------------------------------------------------
(***************************************************************************)
(* Incidents, copies and the handoff.                                      *)
(***************************************************************************)

\* The worker works on an investigation that exists, with a copy it loaded.
WorkerHolds ==
    /\ \A i \in w.todo : inv[i] # None
    /\ w.pc \notin {"idle", "visit"} => w.cur # None /\ inv[w.cur] # None
    /\ w.pc \in {"load", "save"} =>
          /\ w.op # None
          /\ w.op = "hypothesis" => w.arg \in Evidence
          /\ w.op = "action" => w.budget <= MaxActions
    /\ w.pc \in {"save", "execute"} => w.rec # None /\ w.rec.consumed <= MaxActions

\* The main thread works on an incident, and on an observation of it.
MainHolds ==
    /\ m.pc # "idle" => m.cur # None
    /\ m.pc = "append" => observed[m.cur] < MaxEvidence
    /\ LockHeld => m.rec # None /\ m.rec.consumed <= MaxActions /\ inv[m.cur] # None
    /\ m.pc \in {"observeSave", "refer", "referSave"} => m.next \in Evidence
    /\ m.pc = "observe" => m.next \in 1 .. MaxEvidence + 1

\* An incident that is active or terminal was observed, so none is opened twice.
OpenedIsObserved ==
    \A i \in Incidents :
       /\ active[Component[i]] = i => i \notin terminal
       /\ observed[i] = 0 => active[Component[i]] # i /\ i \notin terminal

\* Past the handoff the incident of the diagnosis is active, until it is resolved.
HandsOffOpen ==
    /\ w.pc \in {"remediate", "resolve"} => active[Component[w.cur]] = w.cur
    /\ w.pc = "remediate" => w.cur \notin closed

HandoffInv == TypeOK /\ WorkerHolds /\ MainHolds /\ OpenedIsObserved /\ HandsOffOpen

----------------------------------------------------------------------------
(***************************************************************************)
(* Reservations.  A copy may be stale and carry too small a counter; it    *)
(* still accounts for every command once the lost reservations are added,  *)
(* because the save of a stale copy adds to lost what it takes back.       *)
(***************************************************************************)
WithinBudgets(n) == n <= MaxActions /\ n <= MaxRisk /\ n <= CatalogSize * MaxRepeated

Accounts(v, ran, gone) == WithinBudgets(v.consumed) /\ ran <= v.consumed + gone

\* An action is reserved within every budget before it runs.
ReservationInv ==
    /\ \A i \in Incidents : inv[i] = None => executions[i] = 0
    /\ \A i \in Incidents : inv[i] # None => Accounts(inv[i], executions[i], lost[i])
    /\ w.pc = "save" => Accounts(w.rec, executions[w.cur], lost[w.cur])
    /\ w.pc \in {"load", "save"} /\ w.op = "action" =>
          WithinBudgets(w.budget) /\ executions[w.cur] < w.budget + lost[w.cur]
    /\ w.pc = "execute" => executions[w.cur] < inv[w.cur].consumed + lost[w.cur]
    /\ LockHeld => WithinBudgets(m.rec.consumed)

----------------------------------------------------------------------------
(***************************************************************************)
(* Remediations.  An active investigation may still lead to one, and so    *)
(* may a worker past the completion; only a save that makes an ended       *)
(* investigation active again adds a chance.                               *)
(***************************************************************************)
HandsOver(i) == w.pc \in {"handoff", "remediate"} /\ w.cur = i
Chances(i) == (IF inv[i] # None /\ inv[i].state = "ACTIVE" THEN 1 ELSE 0)
              + (IF HandsOver(i) THEN 1 ELSE 0)

\* Both threads save copies of active records.
RemediationInv ==
    /\ \A i \in Incidents : inv[i] = None => remediations[i] = 0
    /\ \A i \in Incidents : remediations[i] + Chances(i) <= 1 + revived[i]
    /\ w.pc = "save" => w.rec.state = "ACTIVE" /\ inv[w.cur].state = "ACTIVE"
    /\ m.pc \in {"observeSave", "referSave"} => m.rec.state = "ACTIVE"

----------------------------------------------------------------------------
(***************************************************************************)
(* Evidence.  Every copy refers to observations and commands there were.   *)
(***************************************************************************)

\* The result of a command that the worker x has run and not yet referenced.
Gained(x, i) == IF /\ x.cur = i /\ x.pc \in {"load", "save"}
                   /\ x.op \in {"update", "observation", "reference"}
                THEN {x.arg} ELSE {}

Grounds(dead, seen, ran) == dead # {} /\ seen + ran >= MinimumEvidence

\* A record v rests on the observations seen, those of a dead pane among them,
\* and on the commands that ran.
Rests(v, dead, seen, ran, gained) ==
    /\ v.hyp # 0 => v.hyp \in dead
    /\ v.refs \subseteq 1 .. seen
    /\ IsFiniteSet(v.results) /\ Cardinality(v.results \cup gained) <= ran
    /\ v.diagnosed \/ v.state = "COMPLETED" => Grounds(dead, seen, ran)

Sound(i, v) == Rests(v, trail[i], observed[i], executions[i], Gained(w, i))

EvidenceInv ==
    /\ \A i \in Incidents : inv[i] # None => Sound(i, inv[i])
    /\ \A i \in Incidents : remediations[i] > 0 => Grounded(i)
    /\ w.pc = "save" => Sound(w.cur, w.rec)
    /\ w.pc \in {"load", "save"} /\ w.op = "hypothesis" => w.arg \in trail[w.cur]
    /\ w.pc \in {"load", "save"} /\ w.op \in {"diagnosis", "complete"} => Grounded(w.cur)
    /\ w.pc \in {"handoff", "remediate"} => Grounded(w.cur)
    /\ LockHeld => Sound(m.cur, m.rec)
    /\ m.pc \in {"observeSave", "refer", "referSave"} => m.next <= observed[m.cur]

----------------------------------------------------------------------------
(***************************************************************************)
(* The operators of the engine.                                            *)
(***************************************************************************)
LEMMA Constants ==
    /\ MaxActions \in Nat /\ MaxRisk \in Nat /\ MaxRepeated \in Nat /\ MaxEvidence \in Nat
    /\ MinimumEvidence \in Nat /\ MaxFaults \in Nat
    /\ CatalogSize \in Nat \ {0}
    /\ Component \in [Incidents -> Components]
    /\ None \notin Components \cup Incidents \cup Ops \cup Investigation
  BY ConstantsAreTyped, NoneIsNoRecord

\* Every non-empty set of numbers has a smallest one.
LEMMA Smallest ==
    ASSUME NEW S \in SUBSET Nat, S # {}
    PROVE  \E n \in S : \A k \in S : n <= k
  <1> DEFINE R == OpToRel(<, Nat)
  <1>1. IsWellFoundedOn(R, Nat)
    BY NatLessThanWellFounded, Zenon
  <1> HIDE DEF R
  <1>2. PICK n \in S : \A k \in S : <<k, n>> \notin R
    BY <1>1, WFMin
  <1>3. ASSUME NEW k \in S PROVE n <= k
    <2>1. <<k, n>> \in R <=> k < n
      BY Zenon DEF R, OpToRel
    <2> QED
      BY <1>2, <2>1
  <1> QED
    BY <1>3

\* A count whose quotient is below r leaves room for one more within k * r.
LEMMA RoomForOne ==
    ASSUME NEW c \in Nat, NEW k \in Nat \ {0}, NEW r \in Nat, c \div k < r
    PROVE  c + 1 <= k * r
  <1> DEFINE q == c \div k
  <1>1. q \in Nat /\ c < k * (q + 1)
    BY SMT
  <1> HIDE DEF q
  <1>2. PICK d \in Nat : r = q + 1 + d
    <2>1. r - q - 1 \in Nat
      BY <1>1 DEF q
    <2> QED
      BY <1>1, <2>1
  <1>3. k * r = k * (q + 1) + k * d
    BY <1>1, <1>2
  <1>4. k * d \in Nat /\ k * (q + 1) \in Nat
    BY <1>1
  <1> QED
    BY <1>1, <1>3, <1>4

\* A proposed hypothesis is an observation that saw the pane dead.
LEMMA CandidateType ==
    ASSUME NEW i, NEW v \in Investigation, Candidate(i, v) # 0
    PROVE  Candidate(i, v) \in Evidence /\ Candidate(i, v) \in trail[i]
  <1>1. /\ Supporting(v) \subseteq Evidence /\ Supporting(v) # {}
        /\ Supporting(v) \subseteq trail[i]
    BY DEF Supporting, Candidate, Investigation
  <1>2. Evidence \subseteq Nat
    BY Constants DEF Evidence
  <1>3. \E n \in Supporting(v) : \A k \in Supporting(v) : n <= k
    BY <1>1, <1>2, Smallest
  <1>4. (CHOOSE n \in Supporting(v) : \A k \in Supporting(v) : n <= k) \in Supporting(v)
    BY <1>3
  <1> QED
    BY <1>1, <1>4 DEF Candidate

\* What the engine decides: an action within every budget, a diagnosis that is
\* established, or the end.
LEMMA DecisionsAre ==
    ASSUME NEW v \in Investigation, NEW op \in Decisions(v)
    PROVE  /\ op \in {"action", "diagnosis", "exhaust"}
           /\ op = "diagnosis" => Established(v)
           /\ op = "action" => WithinBudgets(v.consumed + 1)
  <1>1. v.consumed \in Nat
    BY DEF Investigation
  <1>2. op \in {"action", "diagnosis", "exhaust"} /\ (op = "diagnosis" => Established(v))
    BY DEF Decisions
  <1>3. ASSUME op = "action" PROVE WithinBudgets(v.consumed + 1)
    <2>1. ~Spent(v) /\ ~(Repetitions(v) >= MaxRepeated)
      BY <1>3 DEF Decisions
    <2>2. Repetitions(v) \in Nat
      BY <1>1, Constants, SMT DEF Repetitions
    <2>3. v.consumed + 1 <= CatalogSize * MaxRepeated
      BY <1>1, <2>1, <2>2, Constants, RoomForOne DEF Repetitions
    <2> QED
      BY <1>1, <2>1, <2>3, Constants DEF Spent, Exhausted, WithinBudgets
  <1> QED
    BY <1>2, <1>3

LEMMA FirstOpsAre ==
    ASSUME NEW i, NEW v \in Investigation, NEW op \in FirstOps(i, v)
    PROVE  /\ op \in Ops
           /\ op \in {"hypothesis", "action", "diagnosis", "exhaust"}
           /\ op = "hypothesis" => Candidate(i, v) \in Evidence /\ Candidate(i, v) \in trail[i]
           /\ op = "diagnosis" => Established(v)
           /\ op = "action" => WithinBudgets(v.consumed + 1)
  BY DecisionsAre, CandidateType DEF FirstOps, Ops

\* The record a change saves, field by field.
LEMMA ApplyIs ==
    ASSUME NEW v \in Investigation, NEW op \in Ops, NEW arg \in Nat, NEW budget \in Nat,
           op = "hypothesis" => arg \in Evidence
    PROVE  /\ Apply(v, op, arg, budget) \in Investigation
           /\ Apply(v, op, arg, budget) # None
           /\ Apply(v, op, arg, budget).state =
                 IF op = "complete" THEN "COMPLETED"
                 ELSE IF op = "exhaust" THEN "BUDGET_EXHAUSTED" ELSE v.state
           /\ Apply(v, op, arg, budget).consumed = IF op = "action" THEN budget ELSE v.consumed
           /\ Apply(v, op, arg, budget).hyp = IF op = "hypothesis" THEN arg ELSE v.hyp
           /\ Apply(v, op, arg, budget).diagnosed = (v.diagnosed \/ op = "diagnosis")
           /\ Apply(v, op, arg, budget).refs = v.refs
           /\ op = "reference" => Apply(v, op, arg, budget).results = v.results \cup {arg}
           /\ op # "reference" => Apply(v, op, arg, budget).results = v.results
  <1> DEFINE A == Apply(v, op, arg, budget)
  <1>0. v.diagnosed \in BOOLEAN
    BY DEF Investigation
  <1>1. /\ A \in Investigation
        /\ A.state = IF op = "complete" THEN "COMPLETED"
                     ELSE IF op = "exhaust" THEN "BUDGET_EXHAUSTED" ELSE v.state
        /\ A.consumed = IF op = "action" THEN budget ELSE v.consumed
        /\ A.hyp = IF op = "hypothesis" THEN arg ELSE v.hyp
        /\ A.refs = v.refs
        /\ op = "reference" => A.results = v.results \cup {arg}
        /\ op # "reference" => A.results = v.results
        /\ A.diagnosed = IF op = "diagnosis" THEN TRUE ELSE v.diagnosed
    <2>1. CASE op = "hypothesis"
      BY <2>1, Constants DEF Apply, Investigation, Evidence
    <2>2. CASE op = "action"
      BY <2>2 DEF Apply, Investigation
    <2>3. CASE op \in {"update", "observation"}
      BY <2>3 DEF Apply, Investigation
    <2>4. CASE op = "reference"
      BY <2>4 DEF Apply, Investigation
    <2>5. CASE op = "diagnosis"
      BY <2>5 DEF Apply, Investigation
    <2>6. CASE op \in {"complete", "exhaust"}
      BY <2>6 DEF Apply, Investigation
    <2> QED
      BY <2>1, <2>2, <2>3, <2>4, <2>5, <2>6 DEF Ops
  <1> HIDE DEF A
  <1>2. A # None
    BY <1>1, Constants
  <1>3. A.diagnosed = (v.diagnosed \/ op = "diagnosis")
    <2>1. CASE op = "diagnosis"
      BY <1>1, <2>1
    <2>2. CASE op # "diagnosis"
      BY <1>0, <1>1, <2>2
    <2> QED
      BY <2>1, <2>2
  <1> QED
    BY <1>1, <1>2, <1>3 DEF A

WorkerRecord ==
    [pc : WorkerPcs, op : Ops \cup {None}, todo : SUBSET Incidents,
     cur : Incidents \cup {None}, rec : Investigation \cup {None},
     budget : Nat, arg : Nat]

MainRecord ==
    [pc : MainPcs, cur : Incidents \cup {None},
     next : 0..MaxEvidence + 1, rec : Investigation \cup {None}]

\* The worker about to make a change.
LEMMA PrepareIs ==
    ASSUME TypeOK, NEW i \in Incidents, NEW v \in Investigation, NEW op \in Ops,
           op = "hypothesis" => Candidate(i, v) \in Evidence
    PROVE  /\ Prepare(op, i, v) \in WorkerRecord
           /\ Prepare(op, i, v).pc = "load" /\ Prepare(op, i, v).op = op
           /\ Prepare(op, i, v).cur = i /\ Prepare(op, i, v).todo = w.todo \ {i}
           /\ Prepare(op, i, v).budget = v.consumed + 1
           /\ Prepare(op, i, v).arg = IF op = "hypothesis" THEN Candidate(i, v)
                                      ELSE IF op = "action" THEN planned[i] + 1 ELSE w.arg
           /\ op = "hypothesis" => Prepare(op, i, v).arg \in Evidence
  <1>1. v.consumed + 1 \in Nat /\ planned[i] + 1 \in Nat /\ w \in WorkerRecord
    BY DEF Investigation, TypeOK, WorkerRecord
  <1>2. Evidence \subseteq Nat
    BY Constants DEF Evidence
  <1>3. Prepare(op, i, v).arg = IF op = "hypothesis" THEN Candidate(i, v)
                                ELSE IF op = "action" THEN planned[i] + 1 ELSE w.arg
    BY <1>1 DEF Prepare, WorkerRecord
  <1>4. Prepare(op, i, v).arg \in Nat /\ (op = "hypothesis" => Prepare(op, i, v).arg \in Evidence)
    BY <1>1, <1>2, <1>3 DEF WorkerRecord
  <1> QED
    BY <1>1, <1>3, <1>4 DEF Prepare, WorkerRecord, WorkerPcs

LEMMA ContinueIs ==
    ASSUME TypeOK, Continue
    PROVE  w' \in WorkerRecord /\ w'.pc = "visit" /\ w'.todo = w.todo
  BY DEF TypeOK, Continue, WorkerIdle, WorkerRecord, WorkerPcs

LEMMA GoIs ==
    ASSUME TypeOK, NEW l \in WorkerPcs, Go(l)
    PROVE  /\ w' \in WorkerRecord /\ w'.pc = l /\ w'.todo = w.todo /\ w'.cur = w.cur
           /\ w'.op = w.op /\ w'.rec = w.rec /\ w'.budget = w.budget /\ w'.arg = w.arg
  BY DEF TypeOK, Go, WorkerRecord

LEMMA IdleTypes == WorkerIdle \in WorkerRecord /\ MainIdle \in MainRecord
  BY Constants DEF WorkerIdle, WorkerRecord, WorkerPcs, MainIdle, MainRecord, MainPcs

----------------------------------------------------------------------------
(***************************************************************************)
(* Steps of the worker.                                                    *)
(***************************************************************************)

\* The variables other than w keep their types and what the main thread holds.
InvestigationsStay ==
    /\ inv' \in [Incidents -> Investigation \cup {None}]
    /\ \A i \in Incidents : inv[i] # None => inv'[i] # None
    /\ \A i \in Incidents : inv'[i] # None => inv'[i].consumed <= MaxActions

\* What a step of the worker leaves it with.
WorkerGoesOn == w' \in WorkerRecord /\ WorkerHolds' /\ HandsOffOpen'

\* Back at the list of investigations the worker holds nothing.
LEMMA WorkerVisits ==
    ASSUME TypeOK, WorkerHolds, InvestigationsStay, w' \in WorkerRecord,
           w'.pc \in {"idle", "visit"}, \A i \in w'.todo : inv[i] # None
    PROVE  WorkerGoesOn
  BY DEF WorkerGoesOn, WorkerHolds, HandsOffOpen, InvestigationsStay, WorkerRecord

LEMMA WorkerContinues ==
    ASSUME TypeOK, WorkerHolds, InvestigationsStay, Continue
    PROVE  WorkerGoesOn
  BY ContinueIs, WorkerVisits DEF WorkerHolds

\* A change the worker prepares on a record of an investigation that exists.
LEMMA WorkerPrepares ==
    ASSUME TypeOK, WorkerHolds, InvestigationsStay,
           NEW i \in Incidents, inv'[i] # None, NEW v \in Investigation, NEW op \in Ops,
           op = "hypothesis" => Candidate(i, v) \in Evidence,
           op = "action" => v.consumed + 1 <= MaxActions,
           w' = Prepare(op, i, v)
    PROVE  WorkerGoesOn
  <1>1. /\ w' \in WorkerRecord /\ w'.pc = "load" /\ w'.op = op /\ w'.cur = i
        /\ w'.todo = w.todo \ {i} /\ w'.budget = v.consumed + 1
        /\ op = "hypothesis" => w'.arg \in Evidence
    BY PrepareIs
  <1>2. op # None /\ i # None
    BY Constants
  <1> QED
    BY <1>1, <1>2 DEF WorkerGoesOn, WorkerHolds, HandsOffOpen, InvestigationsStay, TypeOK,
                      WorkerRecord

LEMMA WorkerGoes ==
    ASSUME TypeOK, WorkerHolds, InvestigationsStay, w.pc \notin {"idle", "visit"},
           NEW l \in {"execute", "refresh", "recheck", "handoff", "remediate", "resolve",
                      "record"},
           Go(l),
           l = "execute" => w.pc = "save",
           l \in {"remediate", "resolve"} => active'[Component[w.cur]] = w.cur,
           l = "remediate" => w.cur \notin closed'
    PROVE  WorkerGoesOn
  <1>1. /\ w' \in WorkerRecord /\ w'.pc = l /\ w'.todo = w.todo /\ w'.cur = w.cur
        /\ w'.rec = w.rec
    BY GoIs DEF WorkerPcs
  <1> QED
    BY <1>1 DEF WorkerGoesOn, WorkerHolds, HandsOffOpen, InvestigationsStay, TypeOK,
                WorkerRecord

\* What the worker holds at a change it is about to make.
LEMMA WorkerCopy ==
    ASSUME TypeOK, WorkerHolds, w.pc \notin {"idle", "visit"}
    PROVE  /\ w.cur \in Incidents /\ inv[w.cur] \in Investigation
           /\ w.pc \in {"load", "save"} => w.op \in Ops
           /\ w.pc \in {"save", "execute"} => w.rec \in Investigation
           /\ w.arg \in Nat /\ w.budget \in Nat
  BY DEF TypeOK, WorkerHolds

\* Steps of the worker that change nothing but its own state.
QuietWorker ==
    \/ BeginCycle \/ (\E i \in Incidents : Visit(i)) \/ EndCycle
    \/ WorkerLoads \/ Refresh \/ Recheck \/ Handoff

LEMMA QuietWorkerGoesOn ==
    ASSUME HandoffInv, QuietWorker
    PROVE  /\ WorkerGoesOn
           /\ UNCHANGED <<incidentVars, inv, coordVars, m, historyVars>>
  <1> USE DEF HandoffInv, WorkerAt
  <1>1. UNCHANGED <<incidentVars, inv, coordVars, m, historyVars>>
    BY DEF QuietWorker, BeginCycle, Visit, EndCycle, WorkerLoads, Refresh, Recheck, Handoff
  <1> SUFFICES WorkerGoesOn
    BY <1>1
  <1>2. InvestigationsStay /\ active' = active /\ closed' = closed
    BY <1>1 DEF InvestigationsStay, TypeOK, incidentVars, coordVars
  <1>3. CASE BeginCycle
    <2>1. /\ w' \in WorkerRecord /\ w'.pc = "visit" /\ w'.todo = registered
          /\ \A i \in registered : inv[i] # None
      BY <1>3, IdleTypes DEF BeginCycle, WorkerIdle, WorkerRecord, WorkerPcs, TypeOK
    <2> QED
      BY <1>1, <1>2, <2>1, WorkerVisits
  <1>4. ASSUME NEW i \in Incidents, Visit(i)
        PROVE  WorkerGoesOn
    <2>1. i \in w.todo /\ inv[i] # None /\ inv[i] \in Investigation /\ inv'[i] # None
      BY <1>2, <1>4 DEF Visit, WorkerHolds, TypeOK, InvestigationsStay
    <2>2. ASSUME NEW op \in FirstOps(i, inv[i]), w' = Prepare(op, i, inv[i])
          PROVE  WorkerGoesOn
      BY <1>2, <2>1, <2>2, FirstOpsAre, WorkerPrepares DEF WithinBudgets
    <2>3. CASE w' = [w EXCEPT !.todo = @ \ {i}]
      <3>1. /\ w' \in WorkerRecord /\ w'.pc = "visit" /\ w'.todo \subseteq w.todo
        BY <1>4, <2>3 DEF Visit, TypeOK, WorkerRecord
      <3> QED
        BY <1>2, <3>1, WorkerVisits DEF WorkerHolds
    <2> QED
      BY <1>4, <2>2, <2>3 DEF Visit
  <1>5. CASE EndCycle
    <2>1. w' \in WorkerRecord /\ w'.pc = "idle" /\ w'.todo = {}
      BY <1>5, IdleTypes DEF EndCycle, WorkerIdle
    <2> QED
      BY <1>1, <1>2, <2>1, WorkerVisits
  <1>6. CASE WorkerLoads
    <2>1. CASE Continue
      BY <1>1, <1>2, <2>1, WorkerContinues
    <2>2. CASE w' = [w EXCEPT !.pc = "save", !.rec = inv[w.cur]]
      <3>1. w.pc = "load" /\ w.cur \in Incidents /\ inv[w.cur] \in Investigation /\ w \in WorkerRecord
        BY <1>6, WorkerCopy DEF WorkerLoads, TypeOK, WorkerRecord
      <3>2. /\ w' \in WorkerRecord /\ w'.pc = "save" /\ w'.cur = w.cur /\ w'.todo = w.todo
            /\ w'.rec = inv[w.cur] /\ w'.op = w.op /\ w'.arg = w.arg /\ w'.budget = w.budget
        BY <2>2, <3>1 DEF WorkerRecord, WorkerPcs
      <3>3. inv' = inv /\ inv[w.cur].consumed <= MaxActions
        BY <1>1, <3>1, Constants DEF TypeOK
      <3> QED
        BY <3>1, <3>2, <3>3, Constants DEF WorkerGoesOn, WorkerHolds, HandsOffOpen
    <2> QED
      BY <1>6, <2>1, <2>2 DEF WorkerLoads
  <1>7. CASE Refresh
    <2>1. /\ w.pc = "refresh" /\ w.cur \in Incidents /\ inv[w.cur] \in Investigation
          /\ inv'[w.cur] # None /\ "diagnosis" \in Ops
      BY <1>2, <1>7, WorkerCopy, Constants DEF Refresh, InvestigationsStay, Ops
    <2>2. CASE w' = Prepare("diagnosis", w.cur, inv[w.cur])
      BY <1>2, <2>1, <2>2, WorkerPrepares
    <2>3. CASE Go("recheck")
      BY <1>2, <2>1, <2>3, WorkerGoes
    <2> QED
      BY <1>7, <2>2, <2>3 DEF Refresh
  <1>8. CASE Recheck
    <2>1. /\ w.pc = "recheck" /\ w.cur \in Incidents /\ inv[w.cur] \in Investigation
          /\ inv'[w.cur] # None /\ "exhaust" \in Ops
      BY <1>2, <1>8, WorkerCopy, Constants DEF Recheck, InvestigationsStay, Ops
    <2>2. CASE w' = Prepare("exhaust", w.cur, inv[w.cur])
      BY <1>2, <2>1, <2>2, WorkerPrepares
    <2>3. CASE Continue
      BY <1>2, <2>3, WorkerContinues
    <2> QED
      BY <1>8, <2>2, <2>3 DEF Recheck
  <1>9. CASE Handoff
    <2>1. w.pc = "handoff" /\ w.cur \in Incidents
      BY <1>9, WorkerCopy DEF Handoff
    <2>2. CASE Continue
      BY <1>2, <2>2, WorkerContinues
    <2>3. CASE Go("resolve") \/ Go("remediate")
      <3>1. CASE w.cur \in closed \/ Lookup(w.cur) = None
        BY <1>2, <1>9, <3>1, WorkerContinues DEF Handoff
      <3>2. CASE w.cur \notin closed /\ Lookup(w.cur) # None
        BY <1>2, <2>1, <2>3, <3>2, WorkerGoes DEF Lookup
      <3> QED
        BY <3>1, <3>2
    <2> QED
      BY <1>9, <2>2, <2>3 DEF Handoff
  <1> QED
    BY <1>1, <1>3, <1>4, <1>5, <1>6, <1>7, <1>8, <1>9 DEF QuietWorker

\* The record the worker saves, field by field.
LEMMA WorkerSaved ==
    ASSUME TypeOK, WorkerHolds, w.pc = "save"
    PROVE  /\ Saved \in Investigation /\ Saved # None /\ Saved.consumed <= MaxActions
           /\ Saved.state = IF w.op = "complete" THEN "COMPLETED"
                            ELSE IF w.op = "exhaust" THEN "BUDGET_EXHAUSTED" ELSE w.rec.state
           /\ Saved.consumed = IF w.op = "action" THEN w.budget ELSE w.rec.consumed
           /\ Saved.hyp = IF w.op = "hypothesis" THEN w.arg ELSE w.rec.hyp
           /\ Saved.diagnosed = (w.rec.diagnosed \/ w.op = "diagnosis")
           /\ Saved.refs = w.rec.refs
           /\ w.op = "reference" => Saved.results = w.rec.results \cup {w.arg}
           /\ w.op # "reference" => Saved.results = w.rec.results
  <1>1. /\ w.rec \in Investigation /\ w.op \in Ops /\ w.arg \in Nat /\ w.budget \in Nat
        /\ w.op = "hypothesis" => w.arg \in Evidence
        /\ w.op = "action" => w.budget <= MaxActions
        /\ w.rec.consumed <= MaxActions
    BY WorkerCopy DEF WorkerHolds
  <1>2. Saved = Apply(w.rec, w.op, w.arg, w.budget)
    BY DEF Saved
  <1>3. Saved \in Investigation /\ Saved # None
    BY <1>1, <1>2, ApplyIs
  <1>4. Saved.state = IF w.op = "complete" THEN "COMPLETED"
                      ELSE IF w.op = "exhaust" THEN "BUDGET_EXHAUSTED" ELSE w.rec.state
    BY <1>1, <1>2, ApplyIs
  <1>5. /\ Saved.consumed = IF w.op = "action" THEN w.budget ELSE w.rec.consumed
        /\ Saved.hyp = IF w.op = "hypothesis" THEN w.arg ELSE w.rec.hyp
        /\ Saved.refs = w.rec.refs
    BY <1>1, <1>2, ApplyIs
  <1>6. Saved.diagnosed = (w.rec.diagnosed \/ w.op = "diagnosis")
    BY <1>1, <1>2, ApplyIs
  <1>7. /\ w.op = "reference" => Saved.results = w.rec.results \cup {w.arg}
        /\ w.op # "reference" => Saved.results = w.rec.results
    BY <1>1, <1>2, ApplyIs
  <1>8. Saved.consumed <= MaxActions
    BY <1>1, <1>5
  <1> QED
    BY <1>3, <1>4, <1>5, <1>6, <1>7, <1>8

LEMMA WorkerWritesType ==
    ASSUME TypeOK, WorkerHolds, w.pc = "save", WorkerWrites
    PROVE  /\ InvestigationsStay /\ inv'[w.cur] = Saved /\ inv'[w.cur] # None
           /\ planned' \in [Incidents -> Nat]
  <1>1. w.cur \in Incidents /\ w.arg \in Nat
    BY WorkerCopy
  <1>2. Saved \in Investigation /\ Saved # None /\ Saved.consumed <= MaxActions
    BY WorkerSaved
  <1>3. planned \in [Incidents -> Nat] /\ planned' \in [Incidents -> Nat]
    BY <1>1 DEF WorkerWrites, TypeOK
  <1> QED
    BY <1>1, <1>2, <1>3 DEF WorkerWrites, TypeOK, InvestigationsStay

LEMMA WorkerSavesGoesOn ==
    ASSUME HandoffInv, WorkerSaves
    PROVE  WorkerGoesOn
  <1>1. TypeOK /\ WorkerHolds /\ w.pc = "save"
    BY DEF HandoffInv, WorkerSaves, WorkerAt
  <1>2. /\ InvestigationsStay /\ inv'[w.cur] # None
        /\ Saved \in Investigation /\ w.cur \in Incidents /\ w.op \in Ops
    BY <1>1, WorkerWritesType, WorkerSaved, WorkerCopy DEF WorkerSaves
  <1>3. CASE w.op = "hypothesis"
    <2>1. PICK op \in Decisions(Saved) : w' = Prepare(op, w.cur, Saved)
      BY <1>3 DEF WorkerSaves
    <2>2. op \in Ops /\ op # "hypothesis" /\ (op = "action" => Saved.consumed + 1 <= MaxActions)
      BY <1>2, DecisionsAre DEF Ops, WithinBudgets
    <2> QED
      BY <1>1, <1>2, <2>1, <2>2, WorkerPrepares
  <1>4. CASE w.op \in {"update", "observation", "diagnosis"}
    <2>1. \E op \in {"observation", "reference", "complete"} : w' = Prepare(op, w.cur, Saved)
      BY <1>4 DEF WorkerSaves
    <2> QED
      BY <1>1, <1>2, <2>1, WorkerPrepares DEF Ops
  <1>5. CASE w.op \in {"action", "reference", "complete"}
    <2>1. \E l \in {"execute", "refresh", "handoff"} : Go(l)
      BY <1>5 DEF WorkerSaves
    <2> QED
      BY <1>1, <1>2, <2>1, WorkerGoes
  <1>6. CASE w.op = "exhaust"
    BY <1>1, <1>2, <1>6, WorkerContinues DEF WorkerSaves
  <1> QED
    BY <1>2, <1>3, <1>4, <1>5, <1>6 DEF Ops

LEMMA OtherWorkerGoesOn ==
    ASSUME HandoffInv, WorkerSaveFails \/ Execute \/ Remediate \/ Resolve \/ Record
    PROVE  WorkerGoesOn
  <1>1. TypeOK /\ WorkerHolds /\ HandsOffOpen
    BY DEF HandoffInv
  <1>2. CASE WorkerSaveFails
    <2>1. InvestigationsStay
      <3>1. CASE WorkerWrites
        BY <1>1, <1>2, <3>1, WorkerWritesType DEF WorkerSaveFails, WorkerAt
      <3>2. CASE UNCHANGED inv
        BY <1>1, <3>2 DEF InvestigationsStay, TypeOK
      <3> QED
        BY <1>2, <3>1, <3>2 DEF WorkerSaveFails
    <2> QED
      BY <1>1, <1>2, <2>1, WorkerContinues DEF WorkerSaveFails
  <1>3. CASE Execute \/ Remediate \/ Resolve \/ Record
    <2>1. InvestigationsStay
      BY <1>1, <1>3 DEF Execute, Remediate, Resolve, Record, InvestigationsStay, TypeOK
    <2>2. CASE Execute
      <3>1. w.pc = "execute" /\ w' = Prepare("update", w.cur, w.rec) /\ "update" \in Ops
        BY <2>2 DEF Execute, WorkerAt, Ops
      <3>2. w.cur \in Incidents /\ w.rec \in Investigation /\ inv'[w.cur] # None
        BY <1>1, <2>1, <3>1, WorkerCopy DEF WorkerHolds, InvestigationsStay
      <3> QED
        BY <1>1, <2>1, <3>1, <3>2, WorkerPrepares
    <2>3. CASE Continue
      BY <1>1, <2>1, <2>3, WorkerContinues
    <2>4. CASE Remediate /\ Go("resolve")
      <3>1. w.pc = "remediate" /\ active' = active
        BY <2>4 DEF Remediate, WorkerAt, incidentVars
      <3> QED
        BY <1>1, <2>1, <2>4, <3>1, WorkerGoes DEF HandsOffOpen
    <2>5. CASE Resolve /\ Go("record")
      <3>1. w.pc = "resolve"
        BY <2>5 DEF Resolve, WorkerAt
      <3> QED
        BY <1>1, <2>1, <2>5, <3>1, WorkerGoes
    <2> QED
      BY <1>3, <2>2, <2>3, <2>4, <2>5 DEF Remediate, Resolve, Record
  <1> QED
    BY <1>2, <1>3

LEMMA WorkerKeepsHandoff ==
    ASSUME HandoffInv, WorkerStep \/ WorkerSaveFails
    PROVE  HandoffInv'
  <1>1. TypeOK /\ WorkerHolds /\ MainHolds /\ OpenedIsObserved /\ HandsOffOpen
    BY DEF HandoffInv
  <1>2. CASE QuietWorker
    <2>1. WorkerGoesOn /\ UNCHANGED <<incidentVars, inv, coordVars, m, historyVars>>
      BY <1>2, QuietWorkerGoesOn
    <2> QED
      BY <1>1, <2>1
      DEF HandoffInv, WorkerGoesOn, WorkerRecord, TypeOK, MainHolds, LockHeld, OpenedIsObserved,
          incidentVars, coordVars, historyVars
  <1>3. CASE WorkerSaves \/ WorkerSaveFails
    <2>1. WorkerGoesOn
      BY <1>3, WorkerSavesGoesOn, OtherWorkerGoesOn
    <2>2. /\ UNCHANGED <<incidentVars, coordVars, m, executions, remediations, lost, revived>>
          /\ faults' \in 0 .. MaxFaults
      <3>1. faults \in 0 .. MaxFaults
        BY <1>1 DEF TypeOK
      <3>2. CASE WorkerSaves
        BY <3>1, <3>2 DEF WorkerSaves
      <3>3. CASE WorkerSaveFails
        BY <3>1, <3>3, Constants DEF WorkerSaveFails
      <3> QED
        BY <1>3, <3>2, <3>3
    <2>3. InvestigationsStay /\ planned' \in [Incidents -> Nat]
      <3>1. CASE WorkerWrites
        BY <1>1, <1>3, <3>1, WorkerWritesType DEF WorkerSaves, WorkerSaveFails, WorkerAt
      <3>2. CASE UNCHANGED <<inv, planned>>
        BY <1>1, <3>2 DEF InvestigationsStay, TypeOK
      <3> QED
        BY <1>3, <3>1, <3>2 DEF WorkerSaves, WorkerSaveFails
    <2>4. MainHolds' /\ OpenedIsObserved'
      BY <1>1, <2>2, <2>3 DEF MainHolds, LockHeld, OpenedIsObserved, incidentVars,
                              InvestigationsStay, TypeOK
    <2>5. TypeOK'
      BY <1>1, <2>1, <2>2, <2>3 DEF TypeOK, WorkerGoesOn, WorkerRecord, InvestigationsStay,
                                    incidentVars, coordVars
    <2> QED
      BY <2>1, <2>4, <2>5 DEF HandoffInv, WorkerGoesOn
  <1>4. CASE Execute \/ Remediate \/ Resolve \/ Record
    <2>1. WorkerGoesOn
      BY <1>4, OtherWorkerGoesOn
    <2>2. w.cur \in Incidents
      BY <1>1, <1>4, WorkerCopy DEF Execute, Remediate, Resolve, Record, WorkerAt
    <2>3. UNCHANGED <<trail, observed, inv, registered, m, planned, lost, revived, faults>>
      BY <1>4 DEF Execute, Remediate, Resolve, Record, incidentVars, coordVars, historyVars
    <2>4. /\ executions' \in [Incidents -> Nat] /\ remediations' \in [Incidents -> Nat]
          /\ closed' \subseteq Incidents
      BY <1>1, <1>4, <2>2
      DEF Execute, Remediate, Resolve, Record, TypeOK, coordVars, historyVars
    <2>5. \/ UNCHANGED <<active, terminal>>
          \/ /\ active[Component[w.cur]] = w.cur
             /\ active' = [active EXCEPT ![Component[w.cur]] = None]
             /\ terminal' = terminal \cup {w.cur}
      BY <1>1, <1>4
      DEF Execute, Remediate, Resolve, Record, incidentVars, WorkerAt, HandsOffOpen
    <2>6. /\ active' \in [Components -> Incidents \cup {None}] /\ terminal' \subseteq Incidents
          /\ \A c \in Components : active'[c] # None => Component[active'[c]] = c
          /\ OpenedIsObserved'
      BY <1>1, <2>2, <2>3, <2>5, Constants DEF TypeOK, OpenedIsObserved
    <2>7. TypeOK' /\ MainHolds'
      BY <1>1, <2>1, <2>3, <2>4, <2>6
      DEF TypeOK, WorkerGoesOn, WorkerRecord, MainHolds, LockHeld
    <2> QED
      BY <2>1, <2>6, <2>7 DEF HandoffInv, WorkerGoesOn
  <1> QED
    BY <1>2, <1>3, <1>4 DEF WorkerStep, QuietWorker

----------------------------------------------------------------------------
(***************************************************************************)
(* Steps of the main thread, and a crash.                                  *)
(***************************************************************************)

LossesAreTyped == lost \in [Incidents -> Nat] /\ revived \in [Incidents -> Nat]

\* The main thread leaves the worker where it is, and the investigations it
\* works on in place.
MainGoesOn ==
    /\ InvestigationsStay
    /\ m' \in MainRecord /\ MainHolds'

LEMMA MainKeepsHandoff ==
    ASSUME HandoffInv, MainGoesOn,
           w' = w, terminal' = terminal, closed' = closed,
           UNCHANGED <<planned, executions, remediations>>, faults' \in 0 .. MaxFaults,
           LossesAreTyped',
           active' \in [Components -> Incidents \cup {None}],
           \A c \in Components : active'[c] # None => Component[active'[c]] = c,
           observed' \in [Incidents -> 0 .. MaxEvidence],
           trail' \in [Incidents -> SUBSET Evidence],
           \A i \in Incidents : trail'[i] \subseteq 1 .. observed'[i],
           registered' \subseteq {i \in Incidents : inv'[i] # None},
           \A i \in Incidents : active[Component[i]] = i => active'[Component[i]] = i,
           OpenedIsObserved'
    PROVE  HandoffInv'
  <1>1. TypeOK /\ WorkerHolds /\ HandsOffOpen
    BY DEF HandoffInv
  <1>2. TypeOK'
    BY <1>1 DEF TypeOK, MainGoesOn, MainRecord, InvestigationsStay, LossesAreTyped
  <1>3. WorkerHolds'
    BY <1>1, Constants DEF WorkerHolds, MainGoesOn, InvestigationsStay, TypeOK
  <1>4. HandsOffOpen'
    <2>1. w.pc \in {"remediate", "resolve"} => w.cur \in Incidents
      BY <1>1, WorkerCopy
    <2> QED
      BY <1>1, <2>1 DEF HandsOffOpen
  <1> QED
    BY <1>2, <1>3, <1>4 DEF HandoffInv, MainGoesOn

\* A step of the main thread that touches no incident.
LEMMA RegisterKeepsHandoff ==
    ASSUME HandoffInv, MainGoesOn, UNCHANGED <<incidentVars, closed, w>>,
           UNCHANGED <<planned, executions, remediations>>, faults' \in 0 .. MaxFaults,
           LossesAreTyped',
           registered' \subseteq {i \in Incidents : inv'[i] # None}
    PROVE  HandoffInv'
  <1>1. TypeOK /\ OpenedIsObserved
    BY DEF HandoffInv
  <1>2. OpenedIsObserved'
    BY <1>1 DEF OpenedIsObserved, incidentVars
  <1> QED
    BY <1>1, <1>2, MainKeepsHandoff DEF TypeOK, incidentVars

\* The record the main thread saves.
LEMMA MainSavedType ==
    ASSUME TypeOK, MainHolds, m.pc \in {"observeSave", "referSave"}
    PROVE  /\ MainSaved \in Investigation /\ MainSaved # None
           /\ MainSaved.consumed <= MaxActions
           /\ m.cur \in Incidents
  <1>1. /\ m.rec \in Investigation /\ m.rec.consumed <= MaxActions /\ m.next \in Evidence
        /\ m.cur \in Incidents
    BY DEF TypeOK, MainHolds, LockHeld
  <1>2. MainSaved \in Investigation /\ MainSaved.consumed = m.rec.consumed
    BY <1>1 DEF MainSaved, MainAt, Investigation
  <1> QED
    BY <1>1, <1>2, Constants

\* What the save of a copy that may be stale does: the consumed counter may go
\* back, and what it loses is added to the losses of the incident.
LEMMA MainWritesAre ==
    ASSUME TypeOK, MainHolds, m.pc \in {"observeSave", "referSave"}, MainWrites
    PROVE  /\ LossesAreTyped'
           /\ inv' = [inv EXCEPT ![m.cur] = MainSaved] /\ inv'[m.cur] = MainSaved
           /\ \A i \in Incidents :
                 /\ lost[i] \in Nat /\ lost'[i] \in Nat /\ lost[i] <= lost'[i]
                 /\ revived[i] \in Nat /\ revived'[i] \in Nat
                 /\ i # m.cur => inv'[i] = inv[i] /\ revived'[i] = revived[i]
           /\ inv[m.cur].consumed + lost[m.cur] <= MainSaved.consumed + lost'[m.cur]
           /\ revived'[m.cur] = IF inv[m.cur].state # "ACTIVE" /\ MainSaved.state = "ACTIVE"
                                THEN revived[m.cur] + 1 ELSE revived[m.cur]
  <1> DEFINE u == MainSaved
             v == inv[m.cur]
  <1>1. m.cur \in Incidents /\ u \in Investigation
    BY MainSavedType
  <1>2. v \in Investigation
    BY <1>1 DEF TypeOK, MainHolds, LockHeld
  <1>3. lost \in [Incidents -> Nat] /\ revived \in [Incidents -> Nat]
    BY DEF TypeOK
  <1>4. inv' = [inv EXCEPT ![m.cur] = u] /\ inv'[m.cur] = u
    BY <1>1 DEF MainWrites, TypeOK
  <1>5. /\ lost' = IF u.consumed < v.consumed
                   THEN [lost EXCEPT ![m.cur] = @ + v.consumed - u.consumed] ELSE lost
        /\ revived' = IF v.state # "ACTIVE" /\ u.state = "ACTIVE"
                      THEN [revived EXCEPT ![m.cur] = @ + 1] ELSE revived
    BY DEF MainWrites
  <1> HIDE DEF u, v
  <1>6. u.consumed \in Nat /\ v.consumed \in Nat
    BY <1>1, <1>2 DEF Investigation
  <1>7. revived' \in [Incidents -> Nat]
    BY <1>1, <1>3, <1>5
  <1>8. /\ lost' \in [Incidents -> Nat]
        /\ \A i \in Incidents : lost[i] <= lost'[i]
        /\ v.consumed + lost[m.cur] <= u.consumed + lost'[m.cur]
    <2>1. CASE u.consumed < v.consumed
      <3>1. lost[m.cur] + v.consumed - u.consumed \in Nat
        BY <1>1, <1>3, <1>6, <2>1
      <3> QED
        BY <1>1, <1>3, <1>5, <1>6, <2>1, <3>1
    <2>2. CASE ~(u.consumed < v.consumed)
      BY <1>1, <1>3, <1>5, <1>6, <2>2
    <2> QED
      BY <2>1, <2>2
  <1>9. \A i \in Incidents : i # m.cur => inv'[i] = inv[i] /\ revived'[i] = revived[i]
    BY <1>1, <1>3, <1>4, <1>5 DEF TypeOK
  <1>10. revived'[m.cur] = IF v.state # "ACTIVE" /\ u.state = "ACTIVE"
                           THEN revived[m.cur] + 1 ELSE revived[m.cur]
    BY <1>1, <1>3, <1>5
  <1> QED
    BY <1>3, <1>4, <1>7, <1>8, <1>9, <1>10 DEF LossesAreTyped, u, v

LEMMA SensorKeepsHandoff ==
    ASSUME HandoffInv, Sensor
    PROVE  HandoffInv'
  <1>1. TypeOK /\ WorkerHolds /\ MainHolds /\ OpenedIsObserved /\ HandsOffOpen
    BY DEF HandoffInv
  <1>2. UNCHANGED <<terminal, inv, coordVars, w, historyVars>>
    BY DEF Sensor, OpenIncident, FindIncident, incidentVars
  <1>3. InvestigationsStay
    BY <1>1, <1>2 DEF InvestigationsStay, TypeOK
  <1>4. ASSUME NEW i \in Incidents, OpenIncident(i)
        PROVE  HandoffInv'
    <2>1. /\ active[Component[i]] = None /\ observed[i] = 0
          /\ active' = [active EXCEPT ![Component[i]] = i]
          /\ observed' = [observed EXCEPT ![i] = 1]
          /\ trail' = trail \/ trail' = [trail EXCEPT ![i] = @ \cup {1}]
          /\ MaxEvidence > 0
      BY <1>1, <1>4 DEF OpenIncident, Observations, TypeOK
    <2>2. /\ active' \in [Components -> Incidents \cup {None}]
          /\ \A c \in Components : active'[c] # None => Component[active'[c]] = c
          /\ \A j \in Incidents : active[Component[j]] = j => active'[Component[j]] = j
      <3>1. /\ active \in [Components -> Incidents \cup {None}]
            /\ \A c \in Components : active[c] # None => Component[active[c]] = c
            /\ Component[i] \in Components
        BY <1>1, Constants DEF TypeOK
      <3> QED
        BY <2>1, <3>1, Constants
    <2>3. observed' \in [Incidents -> 0 .. MaxEvidence]
      BY <1>1, <2>1, Constants DEF TypeOK
    <2>4. /\ trail' \in [Incidents -> SUBSET Evidence]
          /\ \A j \in Incidents : trail'[j] \subseteq 1 .. observed'[j]
      <3>0. trail \in [Incidents -> SUBSET Evidence] /\ 1 \in Evidence
        BY <1>1, <2>1, Constants DEF TypeOK, Evidence
      <3>1. \A j \in Incidents : trail[j] \subseteq 1 .. observed[j]
        BY <1>1 DEF TypeOK
      <3>2. trail[i] = {}
        BY <2>1, <3>1
      <3>3. ASSUME NEW j \in Incidents PROVE trail'[j] \subseteq 1 .. observed'[j]
        <4>1. CASE j # i
          BY <1>1, <2>1, <3>0, <3>1, <4>1 DEF TypeOK
        <4>2. CASE j = i
          <5>1. observed'[i] = 1
            BY <1>1, <2>1 DEF TypeOK
          <5>2. trail'[i] \subseteq {1}
            BY <2>1, <3>0, <3>2
          <5> QED
            BY <4>2, <5>1, <5>2
        <4> QED
          BY <4>1, <4>2
      <3>4. trail' \in [Incidents -> SUBSET Evidence]
        BY <2>1, <3>0
      <3> QED
        BY <3>3, <3>4
    <2>5. OpenedIsObserved'
      BY <1>1, <1>2, <2>1, Constants DEF OpenedIsObserved, TypeOK
    <2>6. m' \in MainRecord /\ m'.pc = "register" /\ m'.cur = i
      BY <1>4, IdleTypes DEF OpenIncident, MainIdle, MainRecord, MainPcs
    <2>7. MainHolds'
      BY <2>6, Constants DEF MainHolds, LockHeld
    <2> QED
      BY <1>1, <1>2, <1>3, <2>2, <2>3, <2>4, <2>5, <2>6, <2>7, MainKeepsHandoff
      DEF MainGoesOn, TypeOK, LossesAreTyped, coordVars, historyVars
  <1>5. ASSUME NEW c \in Components, FindIncident(c)
        PROVE  HandoffInv'
    <2>1. /\ m' \in MainRecord /\ m'.pc = "append" /\ m'.cur = active[c]
          /\ active[c] # None /\ observed[active[c]] < MaxEvidence
      BY <1>1, <1>5, IdleTypes DEF FindIncident, MainIdle, MainRecord, MainPcs, TypeOK
    <2>2. MainHolds'
      BY <1>5, <2>1 DEF MainHolds, LockHeld, FindIncident, incidentVars
    <2> QED
      BY <1>1, <1>2, <1>3, <1>5, <2>1, <2>2, RegisterKeepsHandoff
      DEF MainGoesOn, TypeOK, LossesAreTyped, FindIncident, coordVars, historyVars
  <1> QED
    BY <1>4, <1>5 DEF Sensor

LEMMA AppendKeepsHandoff ==
    ASSUME HandoffInv, AppendEvidence
    PROVE  HandoffInv'
  <1>1. TypeOK /\ MainHolds /\ OpenedIsObserved /\ m.pc = "append"
    BY DEF HandoffInv, AppendEvidence, MainAt
  <1>2. UNCHANGED <<active, terminal, inv, coordVars, w, historyVars>>
    BY DEF AppendEvidence
  <1>3. InvestigationsStay
    BY <1>1, <1>2 DEF InvestigationsStay, TypeOK
  <1> DEFINE i == m.cur
  <1>4. i \in Incidents /\ observed[i] \in Nat /\ observed[i] < MaxEvidence
    BY <1>1, Constants DEF TypeOK, MainHolds
  <1>5. /\ observed' = [observed EXCEPT ![i] = @ + 1]
        /\ trail' = trail \/ trail' = [trail EXCEPT ![i] = @ \cup {observed[i] + 1}]
    BY DEF AppendEvidence, Observations
  <1>6. m' \in MainRecord /\ m'.pc = "register" /\ m'.cur = i
    BY <1>1 DEF AppendEvidence, MainGoes, TypeOK, MainRecord, MainPcs
  <1>7. MainHolds'
    BY <1>1, <1>4, <1>6 DEF MainHolds, LockHeld
  <1> HIDE DEF i
  <1>8. observed' \in [Incidents -> 0 .. MaxEvidence]
    BY <1>1, <1>4, <1>5, Constants DEF TypeOK
  <1>9. /\ trail' \in [Incidents -> SUBSET Evidence]
        /\ \A j \in Incidents : trail'[j] \subseteq 1 .. observed'[j]
    <2>1. /\ trail \in [Incidents -> SUBSET Evidence]
          /\ \A j \in Incidents : trail[j] \subseteq 1 .. observed[j]
          /\ observed[i] + 1 \in Evidence
      BY <1>1, <1>4, Constants DEF TypeOK, Evidence
    <2>2. \A j \in Incidents : observed'[j] \in Nat /\ observed[j] \in Nat /\ observed[j] <= observed'[j]
      BY <1>1, <1>4, <1>5, Constants DEF TypeOK
    <2>3. \A j \in Incidents : trail'[j] \subseteq trail[j] \cup (IF j = i THEN {observed[i] + 1} ELSE {})
      BY <1>5, <2>1
    <2>4. observed'[i] = observed[i] + 1
      BY <1>1, <1>4, <1>5 DEF TypeOK
    <2>5. ASSUME NEW j \in Incidents PROVE trail'[j] \subseteq 1 .. observed'[j]
      <3>1. 1 .. observed[j] \subseteq 1 .. observed'[j]
        BY <2>2
      <3>2. j = i => observed[i] + 1 \in 1 .. observed'[j]
        BY <1>4, <2>4
      <3> QED
        BY <2>1, <2>3, <3>1, <3>2
    <2> QED
      BY <1>5, <2>1, <2>5
  <1>10. OpenedIsObserved'
    <2>1. \A j \in Incidents : observed'[j] = 0 => observed[j] = 0
      BY <1>1, <1>4, <1>5, Constants DEF TypeOK
    <2> QED
      BY <1>1, <1>2, <2>1 DEF OpenedIsObserved
  <1> QED
    BY <1>1, <1>2, <1>3, <1>6, <1>7, <1>8, <1>9, <1>10, MainKeepsHandoff
    DEF MainGoesOn, TypeOK, LossesAreTyped, coordVars, historyVars

LEMMA MainKeepsItsIncident ==
    ASSUME TypeOK, MainHolds, m.pc # "idle"
    PROVE  m.cur \in Incidents /\ (LockHeld => inv[m.cur] \in Investigation /\ m.rec \in Investigation)
  BY DEF TypeOK, MainHolds

\* Returning from register_incident, normally or not.
LEMMA MainReturns ==
    ASSUME TypeOK, InvestigationsStay, m' = MainIdle
    PROVE  MainGoesOn
  BY IdleTypes DEF MainGoesOn, MainIdle, MainHolds, LockHeld

LEMMA RegisterStepKeepsHandoff ==
    ASSUME HandoffInv, RegisterStep \/ MainSaveFails
    PROVE  HandoffInv'
  <1>1. TypeOK /\ MainHolds
    BY DEF HandoffInv
  <1>2. /\ UNCHANGED <<incidentVars, closed, w, planned, executions, remediations>>
        /\ faults' \in 0 .. MaxFaults /\ LossesAreTyped'
    <2>1. faults \in 0 .. MaxFaults /\ LossesAreTyped
      BY <1>1 DEF TypeOK, LossesAreTyped
    <2>2. LossesAreTyped'
      <3>1. CASE UNCHANGED <<lost, revived>>
        BY <2>1, <3>1 DEF LossesAreTyped
      <3>2. CASE MainWrites /\ m.pc \in {"observeSave", "referSave"}
        BY <1>1, <3>2, MainWritesAre
      <3> QED
        BY <3>1, <3>2 DEF RegisterStep, Register, Observe, Refer, MainSaves, MainSaveFails,
                          historyVars
    <2> QED
      BY <2>1, <2>2, Constants DEF RegisterStep, Register, Observe, Refer, MainSaves,
             MainSaveFails, coordVars, historyVars
  <1>3. m.pc # "idle" /\ m.cur \in Incidents /\ (LockHeld => inv[m.cur] \in Investigation)
    BY <1>1, MainKeepsItsIncident
    DEF RegisterStep, Register, Observe, Refer, MainSaves, MainSaveFails, MainAt
  <1>4. CASE Register
    <2> DEFINE v == IF inv[m.cur] = None THEN NewInvestigation ELSE inv[m.cur]
    <2>1. v \in Investigation /\ v # None /\ v.consumed <= MaxActions
      <3>1. 0 \in 0 .. MaxEvidence /\ 0 \in Nat /\ 0 <= MaxActions
        BY Constants
      <3>2. NewInvestigation \in Investigation /\ NewInvestigation.consumed = 0
        BY <3>1 DEF NewInvestigation, Investigation
      <3>3. NewInvestigation # None
        BY <3>2, Constants
      <3>4. inv[m.cur] # None => inv[m.cur] \in Investigation /\ inv[m.cur].consumed <= MaxActions
        BY <1>1, <1>3 DEF TypeOK
      <3> QED
        BY <3>1, <3>2, <3>3, <3>4
    <2>2. /\ inv' = [inv EXCEPT ![m.cur] = v] /\ registered' = registered \cup {m.cur}
          /\ \/ m' = MainIdle
             \/ m' = [m EXCEPT !.pc = "observe", !.next = 1, !.rec = v]
      BY <1>4 DEF Register
    <2> HIDE DEF v
    <2>3. InvestigationsStay /\ inv'[m.cur] = v /\ registered' \subseteq {i \in Incidents : inv'[i] # None}
      BY <1>1, <1>3, <2>1, <2>2 DEF InvestigationsStay, TypeOK
    <2>4. CASE m' = [m EXCEPT !.pc = "observe", !.next = 1, !.rec = v]
      <3>1. /\ m' \in MainRecord /\ m'.pc = "observe" /\ m'.next = 1 /\ m'.rec = v
            /\ m'.cur = m.cur
        <4>1. m \in MainRecord /\ 1 \in 0 .. MaxEvidence + 1
          BY <1>1, Constants DEF TypeOK, MainRecord
        <4> QED
          BY <2>1, <2>4, <4>1 DEF MainRecord, MainPcs
      <3>2. MainHolds'
        BY <1>1, <1>3, <2>1, <2>3, <3>1, Constants DEF MainHolds, LockHeld
      <3> QED
        BY <1>2, <2>3, <3>1, <3>2, RegisterKeepsHandoff DEF MainGoesOn
    <2>5. CASE m' = MainIdle
      BY <1>1, <1>2, <2>3, <2>5, MainReturns, RegisterKeepsHandoff
    <2> QED
      BY <2>2, <2>4, <2>5
  <1>5. CASE Observe \/ Refer
    <2>1. UNCHANGED <<inv, registered>> /\ LockHeld
      BY <1>5 DEF Observe, Refer, coordVars, LockHeld, MainAt
    <2>2. /\ InvestigationsStay /\ inv[m.cur] \in Investigation /\ inv[m.cur] # None
          /\ inv[m.cur].consumed <= MaxActions
          /\ registered' \subseteq {i \in Incidents : inv'[i] # None}
      BY <1>1, <1>3, <2>1, Constants DEF InvestigationsStay, TypeOK
    <2>3. /\ m \in MainRecord /\ m.rec # None /\ m.rec.consumed <= MaxActions /\ m.cur # None
          /\ observed[m.cur] \in 0 .. MaxEvidence
      BY <1>1, <1>3, <2>1 DEF TypeOK, MainRecord, MainHolds
    <2>4. MainGoesOn
      <3>1. CASE m' = MainIdle
        BY <1>1, <2>2, <3>1, MainReturns
      <3>2. CASE Observe /\ m' # MainIdle
        <4>1. /\ m.next \in Evidence
              /\ \/ m' = [m EXCEPT !.pc = "refer"]
                 \/ m' = [m EXCEPT !.pc = "observeSave", !.rec = inv[m.cur]]
          <5>1. m.next \in 1 .. MaxEvidence + 1
            BY <1>1, <3>2 DEF Observe, MainAt, MainHolds
          <5> QED
            BY <2>3, <3>2, <5>1, Constants DEF Observe, Evidence
        <4>2. /\ m' \in MainRecord /\ m'.pc \in {"refer", "observeSave"}
              /\ m'.cur = m.cur /\ m'.next = m.next /\ m'.rec \in {m.rec, inv[m.cur]}
          BY <2>2, <2>3, <4>1 DEF MainRecord, MainPcs
        <4> QED
          BY <2>1, <2>2, <2>3, <4>1, <4>2 DEF MainGoesOn, MainHolds, LockHeld
      <3>3. CASE Refer /\ m' # MainIdle
        <4>1. m.next \in Evidence
          BY <1>1, <3>3 DEF Refer, MainAt, MainHolds
        <4>2. CASE m' = [m EXCEPT !.pc = "observe", !.next = @ + 1, !.rec = inv[m.cur]]
          <5>1. m.next + 1 \in 0 .. MaxEvidence + 1 /\ m.next + 1 \in 1 .. MaxEvidence + 1
            BY <4>1, Constants DEF Evidence
          <5>2. /\ m' \in MainRecord /\ m'.pc = "observe" /\ m'.cur = m.cur
                /\ m'.next = m.next + 1 /\ m'.rec = inv[m.cur]
            BY <2>2, <2>3, <4>2, <5>1 DEF MainRecord, MainPcs
          <5> QED
            BY <2>1, <2>2, <2>3, <5>1, <5>2 DEF MainGoesOn, MainHolds, LockHeld
        <4>3. CASE m' = [m EXCEPT !.pc = "referSave", !.rec = inv[m.cur]]
          <5>1. /\ m' \in MainRecord /\ m'.pc = "referSave" /\ m'.cur = m.cur
                /\ m'.next = m.next /\ m'.rec = inv[m.cur]
            BY <2>2, <2>3, <4>3 DEF MainRecord, MainPcs
          <5> QED
            BY <2>1, <2>2, <2>3, <4>1, <5>1 DEF MainGoesOn, MainHolds, LockHeld
        <4> QED
          BY <3>3, <4>2, <4>3 DEF Refer
      <3> QED
        BY <1>5, <3>1, <3>2, <3>3
    <2> QED
      BY <1>2, <2>2, <2>4, RegisterKeepsHandoff
  <1>6. CASE MainSaves \/ MainSaveFails
    <2>1. m.pc \in {"observeSave", "referSave"} /\ registered' = registered
      BY <1>6 DEF MainSaves, MainSaveFails, coordVars
    <2>2. MainSaved \in Investigation /\ MainSaved # None /\ MainSaved.consumed <= MaxActions
      BY <1>1, <2>1, MainSavedType
    <2>3. /\ InvestigationsStay
          /\ MainWrites => inv'[m.cur] = MainSaved
          /\ registered' \subseteq {i \in Incidents : inv'[i] # None}
      <3>1. CASE MainWrites
        BY <1>1, <1>3, <2>1, <2>2, <3>1 DEF MainWrites, InvestigationsStay, TypeOK
      <3>2. CASE inv' = inv /\ ~MainWrites
        BY <1>1, <2>1, <3>2 DEF InvestigationsStay, TypeOK
      <3> QED
        BY <1>6, <3>1, <3>2 DEF MainSaves, MainSaveFails
    <2>4. CASE m' = MainIdle
      BY <1>1, <1>2, <2>3, <2>4, MainReturns, RegisterKeepsHandoff
    <2>5. CASE MainSaves
      <3>1. m.next \in Evidence /\ m.next + 1 \in 1 .. MaxEvidence + 1 /\ m \in MainRecord
            /\ m.next + 1 \in 0 .. MaxEvidence + 1
        BY <1>1, <2>1, Constants DEF MainHolds, Evidence, TypeOK, MainRecord
      <3>2. \/ m' = [m EXCEPT !.pc = "refer", !.rec = MainSaved]
            \/ m' = [m EXCEPT !.pc = "observe", !.next = @ + 1, !.rec = MainSaved]
        BY <2>5 DEF MainSaves
      <3>3. /\ m' \in MainRecord /\ m'.cur = m.cur /\ m'.rec = MainSaved
            /\ \/ m'.pc = "refer" /\ m'.next = m.next
               \/ m'.pc = "observe" /\ m'.next = m.next + 1
        BY <2>2, <3>1, <3>2 DEF MainRecord, MainPcs
      <3>4. inv'[m.cur] # None /\ m.cur # None
        BY <1>3, <2>2, <2>3, <2>5, Constants DEF MainSaves
      <3>5. MainGoesOn
        BY <2>2, <2>3, <3>1, <3>3, <3>4 DEF MainGoesOn, MainHolds, LockHeld
      <3> QED
        BY <1>2, <2>3, <3>5, RegisterKeepsHandoff
    <2> QED
      BY <1>6, <2>4, <2>5 DEF MainSaveFails
  <1> QED
    BY <1>4, <1>5, <1>6 DEF RegisterStep

LEMMA CrashKeepsHandoff ==
    ASSUME HandoffInv, Crash
    PROVE  HandoffInv'
  <1>1. TypeOK /\ OpenedIsObserved
    BY DEF HandoffInv
  <1>2. /\ w' = WorkerIdle /\ m' = MainIdle /\ w' \in WorkerRecord /\ m' \in MainRecord
        /\ w'.pc = "idle" /\ m'.pc = "idle" /\ w'.todo = {}
    BY IdleTypes DEF Crash, WorkerIdle, MainIdle
  <1>3. /\ UNCHANGED <<trail, observed, terminal, inv, planned, executions, remediations,
                      lost, revived>>
        /\ \A c \in Components : active'[c] = None
        /\ active' \in [Components -> Incidents \cup {None}]
        /\ registered' = {i \in Incidents : inv[i] # None} /\ closed' = {}
    BY DEF Crash
  <1>4. faults' \in 0 .. MaxFaults
    BY <1>1, Constants DEF Crash, TypeOK
  <1>5. TypeOK'
    BY <1>1, <1>2, <1>3, <1>4 DEF TypeOK, WorkerRecord, MainRecord
  <1>6. WorkerHolds' /\ MainHolds' /\ HandsOffOpen'
    BY <1>2 DEF WorkerHolds, MainHolds, LockHeld, HandsOffOpen
  <1>7. OpenedIsObserved'
    BY <1>1, <1>3, Constants DEF OpenedIsObserved
  <1> QED
    BY <1>5, <1>6, <1>7 DEF HandoffInv

LEMMA HandoffInit == Init => HandoffInv
  <1> SUFFICES ASSUME Init PROVE HandoffInv
    OBVIOUS
  <1>1. /\ w = WorkerIdle /\ m = MainIdle /\ w \in WorkerRecord /\ m \in MainRecord
        /\ w.pc = "idle" /\ m.pc = "idle" /\ w.todo = {}
    BY IdleTypes DEF Init, WorkerIdle, MainIdle
  <1>2. 0 \in 0 .. MaxEvidence /\ 0 \in 0 .. MaxFaults
    BY Constants
  <1>3. TypeOK
    BY <1>1, <1>2 DEF Init, TypeOK, WorkerRecord, MainRecord
  <1>4. WorkerHolds /\ MainHolds /\ HandsOffOpen
    BY <1>1 DEF WorkerHolds, MainHolds, LockHeld, HandsOffOpen
  <1>5. OpenedIsObserved
    BY Constants DEF OpenedIsObserved, Init
  <1> QED
    BY <1>3, <1>4, <1>5 DEF HandoffInv

LEMMA HandoffStep == HandoffInv /\ [Next]_vars => HandoffInv'
  <1> SUFFICES ASSUME HandoffInv, [Next]_vars PROVE HandoffInv'
    OBVIOUS
  <1>1. CASE WorkerStep \/ WorkerSaveFails
    BY <1>1, WorkerKeepsHandoff
  <1>2. CASE AppendEvidence
    BY <1>2, AppendKeepsHandoff
  <1>3. CASE RegisterStep \/ MainSaveFails
    BY <1>3, RegisterStepKeepsHandoff
  <1>4. CASE Sensor
    BY <1>4, SensorKeepsHandoff
  <1>5. CASE Crash
    BY <1>5, CrashKeepsHandoff
  <1>6. CASE UNCHANGED vars
    BY <1>6 DEF vars, incidentVars, coordVars, historyVars, HandoffInv, TypeOK, WorkerHolds,
                MainHolds, LockHeld, OpenedIsObserved, HandsOffOpen
  <1> QED
    BY <1>1, <1>2, <1>3, <1>4, <1>5, <1>6 DEF Next, MainStep, Failure

----------------------------------------------------------------------------
\* Incidents, investigations and the two threads keep the handoff's invariant.
THEOREM HandoffInvariance == Spec => []HandoffInv
  BY HandoffInit, HandoffStep, PTL DEF Spec

\* The handoff remediates and resolves the incident of its diagnosis and no other,
\* and only while it is active and no outcome was recorded for it.
THEOREM OwnIncident == Spec => ActsOnOwnIncident
  <1>1. HandoffInv /\ [Next]_vars =>
           [\A i \in Incidents : remediations'[i] # remediations[i] =>
               /\ i = w.cur /\ i \notin closed \cup terminal
               /\ active[Component[i]] = i]_vars
    <2> SUFFICES ASSUME HandoffInv, Next, NEW i \in Incidents,
                        remediations'[i] # remediations[i]
                 PROVE  /\ i = w.cur /\ i \notin closed \cup terminal
                        /\ active[Component[i]] = i
      OBVIOUS
    <2>1. Remediate
      BY DEF Next, WorkerStep, BeginCycle, Visit, EndCycle, WorkerLoads, WorkerSaves, Execute,
             Refresh, Recheck, Handoff, Resolve, Record, MainStep, AppendEvidence, RegisterStep,
             Register, Observe, Refer, MainSaves, Sensor, OpenIncident, FindIncident, Failure,
             WorkerSaveFails, MainSaveFails, Crash, historyVars
    <2>2. TypeOK /\ WorkerHolds /\ OpenedIsObserved /\ HandsOffOpen /\ w.pc = "remediate"
      BY <2>1 DEF HandoffInv, Remediate, WorkerAt
    <2>3. Lookup(w.cur) = w.cur /\ w.cur \in Incidents
      BY <2>2, WorkerCopy DEF HandsOffOpen, Lookup
    <2>4. i = w.cur
      BY <2>1, <2>2, <2>3 DEF Remediate, TypeOK
    <2> QED
      BY <2>2, <2>4 DEF HandsOffOpen, OpenedIsObserved
  <1>2. HandoffInv /\ [Next]_vars => [terminal' \subseteq terminal \cup {w.cur}]_vars
    <2> SUFFICES ASSUME HandoffInv, Next
                 PROVE  terminal' \subseteq terminal \cup {w.cur}
      OBVIOUS
    <2>1. CASE Resolve
      BY <2>1 DEF Resolve, WorkerAt, HandoffInv, HandsOffOpen
    <2>2. CASE ~Resolve
      BY <2>2 DEF Next, WorkerStep, BeginCycle, Visit, EndCycle, WorkerLoads, WorkerSaves, Execute,
             Refresh, Recheck, Handoff, Remediate, Record, MainStep, AppendEvidence, RegisterStep,
             Register, Observe, Refer, MainSaves, Sensor, OpenIncident, FindIncident, Failure,
             WorkerSaveFails, MainSaveFails, Crash, incidentVars
    <2> QED
      BY <2>1, <2>2
  <1>3. Spec => RemediatesOpenIncident
    BY <1>1, HandoffInvariance, PTL DEF Spec, RemediatesOpenIncident
  <1>4. Spec => ResolvesOwnIncident
    BY <1>2, HandoffInvariance, PTL DEF Spec, ResolvesOwnIncident
  <1> QED
    BY <1>3, <1>4 DEF ActsOnOwnIncident

----------------------------------------------------------------------------
(***************************************************************************)
(* What each step makes of the two threads and of the records.             *)
(***************************************************************************)

\* The worker is about to make the change that the engine decided on a record v.
Prepared(i, v) ==
    /\ w'.pc = "load" /\ w'.cur = i
    /\ w'.op \in {"hypothesis", "action", "diagnosis", "exhaust"}
    /\ w'.op = "hypothesis" => w'.arg \in trail[i]
    /\ w'.op = "action" => w'.budget = v.consumed + 1 /\ WithinBudgets(v.consumed + 1)
    /\ w'.op = "diagnosis" => Established(v)

LEMMA PreparedBy ==
    ASSUME TypeOK, NEW i \in Incidents, NEW v \in Investigation,
           NEW op \in {"hypothesis", "action", "diagnosis", "exhaust"},
           op = "hypothesis" => Candidate(i, v) \in Evidence /\ Candidate(i, v) \in trail[i],
           op = "action" => WithinBudgets(v.consumed + 1),
           op = "diagnosis" => Established(v),
           w' = Prepare(op, i, v)
    PROVE  Prepared(i, v)
  <1>1. op \in Ops
    BY DEF Ops
  <1>2. /\ w'.pc = "load" /\ w'.op = op /\ w'.cur = i /\ w'.budget = v.consumed + 1
        /\ op = "hypothesis" => w'.arg = Candidate(i, v)
    BY <1>1, PrepareIs
  <1> QED
    BY <1>2 DEF Prepared

\* A step of the worker that changes only its own state.
LEMMA QuietWorkerIs ==
    ASSUME HandoffInv, QuietWorker
    PROVE  \/ w'.pc \in {"idle", "visit", "recheck", "resolve"}
           \/ w.pc = "handoff" /\ w'.pc = "remediate" /\ w'.cur = w.cur
           \/ /\ w.pc = "load" /\ w'.pc = "save" /\ w'.cur = w.cur /\ w'.op = w.op
              /\ w'.arg = w.arg /\ w'.budget = w.budget
              /\ w'.rec = inv[w.cur] /\ inv[w.cur].state = "ACTIVE"
           \/ \E i \in Incidents : inv[i] # None /\ Prepared(i, inv[i])
  <1> USE DEF WorkerAt
  <1>1. TypeOK /\ WorkerHolds /\ w \in WorkerRecord
    BY DEF HandoffInv, TypeOK, WorkerRecord
  <1>2. CASE BeginCycle \/ EndCycle
    <2>1. CASE BeginCycle
      BY <2>1 DEF BeginCycle, WorkerIdle
    <2>2. CASE EndCycle
      BY <2>2 DEF EndCycle, WorkerIdle
    <2> QED
      BY <1>2, <2>1, <2>2
  <1>3. CASE Continue
    BY <1>1, <1>3, ContinueIs
  <1>4. ASSUME NEW i \in Incidents, Visit(i)
        PROVE  w'.pc = "visit" \/ (inv[i] # None /\ Prepared(i, inv[i]))
    <2>1. i \in w.todo /\ inv[i] # None /\ inv[i] \in Investigation /\ w.pc = "visit"
      BY <1>1, <1>4 DEF Visit, WorkerHolds, TypeOK
    <2>2. CASE w' = [w EXCEPT !.todo = @ \ {i}]
      BY <1>1, <2>1, <2>2 DEF WorkerRecord
    <2>3. ASSUME NEW op \in FirstOps(i, inv[i]), w' = Prepare(op, i, inv[i])
          PROVE  Prepared(i, inv[i])
      BY <1>1, <2>1, <2>3, FirstOpsAre, PreparedBy
    <2> QED
      BY <1>4, <2>1, <2>2, <2>3 DEF Visit
  <1>5. CASE WorkerLoads /\ ~Continue
    BY <1>1, <1>5 DEF WorkerLoads, WorkerRecord, Accepts
  <1>6. CASE (Refresh \/ Recheck) /\ ~Continue
    <2>1. /\ w.cur \in Incidents /\ inv[w.cur] \in Investigation /\ inv[w.cur] # None
      BY <1>1, <1>6, WorkerCopy DEF Refresh, Recheck, WorkerHolds
    <2>2. CASE w' = Prepare("diagnosis", w.cur, inv[w.cur]) /\ Established(inv[w.cur])
      BY <1>1, <2>1, <2>2, PreparedBy
    <2>3. CASE w' = Prepare("exhaust", w.cur, inv[w.cur])
      BY <1>1, <2>1, <2>3, PreparedBy
    <2>4. CASE Go("recheck")
      BY <1>1, <2>4, GoIs DEF WorkerPcs
    <2> QED
      BY <1>6, <2>1, <2>2, <2>3, <2>4 DEF Refresh, Recheck
  <1>7. CASE Handoff /\ ~Continue
    <2>1. w.pc = "handoff" /\ (Go("resolve") \/ Go("remediate"))
      BY <1>7 DEF Handoff
    <2> QED
      BY <1>1, <2>1, GoIs DEF WorkerPcs
  <1> QED
    BY <1>2, <1>3, <1>4, <1>5, <1>6, <1>7 DEF QuietWorker

\* What the worker goes on to after it has saved its copy.
LEMMA WorkerSavesIs ==
    ASSUME HandoffInv, WorkerSaves
    PROVE  \/ w.op = "hypothesis" /\ Prepared(w.cur, Saved)
           \/ w.op = "action" /\ w'.pc = "execute" /\ w'.cur = w.cur
           \/ /\ w.op \in {"update", "observation"} /\ w'.op \in {"observation", "reference"}
              /\ w'.pc = "load" /\ w'.cur = w.cur /\ w'.arg = w.arg
           \/ w.op = "diagnosis" /\ w'.pc = "load" /\ w'.cur = w.cur /\ w'.op = "complete"
           \/ w.op = "complete" /\ w'.pc = "handoff" /\ w'.cur = w.cur
           \/ w.op \in {"reference", "exhaust"} /\ w'.pc \in {"refresh", "visit"}
  <1>1. /\ TypeOK /\ WorkerHolds /\ w.pc = "save" /\ w.op \in Ops /\ w.cur \in Incidents
        /\ Saved \in Investigation
    BY WorkerCopy, WorkerSaved DEF HandoffInv, WorkerSaves, WorkerAt
  <1>2. CASE w.op = "hypothesis"
    <2>1. PICK op \in Decisions(Saved) : w' = Prepare(op, w.cur, Saved)
      BY <1>2 DEF WorkerSaves
    <2> QED
      BY <1>1, <1>2, <2>1, DecisionsAre, PreparedBy
  <1>3. CASE w.op \in {"update", "observation", "diagnosis"}
    <2>1. PICK op \in {"observation", "reference", "complete"} :
             /\ w' = Prepare(op, w.cur, Saved)
             /\ op = "complete" <=> w.op = "diagnosis"
      BY <1>3 DEF WorkerSaves
    <2> QED
      BY <1>1, <1>3, <2>1, PrepareIs DEF Ops
  <1>4. CASE w.op \in {"action", "reference", "complete"}
    <2>1. PICK l \in {"execute", "refresh", "handoff"} :
             /\ Go(l)
             /\ l = "execute" <=> w.op = "action"
             /\ l = "handoff" <=> w.op = "complete"
      BY <1>4 DEF WorkerSaves
    <2> QED
      BY <1>1, <1>4, <2>1, GoIs DEF WorkerPcs
  <1>5. CASE w.op = "exhaust"
    BY <1>1, <1>5, ContinueIs DEF WorkerSaves
  <1> QED
    BY <1>1, <1>2, <1>3, <1>4, <1>5 DEF Ops

\* The effects of the worker, and what it goes on to.
LEMMA EffectsAre ==
    ASSUME HandoffInv, Execute \/ Remediate \/ Resolve \/ Record
    PROVE  /\ w.cur \in Incidents /\ inv[w.cur] # None
           /\ UNCHANGED <<trail, observed, inv, m, lost, revived>>
           /\ \/ /\ w.pc = "execute" /\ executions' = [executions EXCEPT ![w.cur] = @ + 1]
                 /\ remediations' = remediations
                 /\ w'.pc = "load" /\ w'.op = "update" /\ w'.cur = w.cur /\ w'.arg = w.arg
              \/ /\ w.pc = "remediate" /\ executions' = executions
                 /\ remediations' = [remediations EXCEPT ![w.cur] = @ + 1]
                 /\ w'.pc \in {"visit", "resolve"}
              \/ /\ w.pc \in {"resolve", "record"} /\ executions' = executions
                 /\ remediations' = remediations /\ w'.pc \in {"visit", "record"}
  <1>1. /\ TypeOK /\ WorkerHolds /\ HandsOffOpen
        /\ w.pc \in {"execute", "remediate", "resolve", "record"}
    BY DEF HandoffInv, Execute, Remediate, Resolve, Record, WorkerAt
  <1>2. w.cur \in Incidents /\ inv[w.cur] # None
    BY <1>1, WorkerCopy DEF WorkerHolds
  <1>3. UNCHANGED <<trail, observed, inv, m, lost, revived>>
    BY DEF Execute, Remediate, Resolve, Record, incidentVars, historyVars
  <1>4. CASE Execute
    <2>1. w.rec \in Investigation /\ "update" \in Ops /\ w.pc = "execute"
      BY <1>1, <1>4, WorkerCopy DEF Ops, Execute, WorkerAt
    <2>2. w' = Prepare("update", w.cur, w.rec)
      BY <1>4 DEF Execute
    <2>3. w'.pc = "load" /\ w'.op = "update" /\ w'.cur = w.cur /\ w'.arg = w.arg
      BY <1>1, <1>2, <2>1, <2>2, PrepareIs
    <2> QED
      BY <1>2, <1>3, <1>4, <2>1, <2>3 DEF Execute
  <1>5. CASE Remediate \/ Resolve \/ Record
    <2>1. CASE Continue
      BY <1>1, <1>2, <1>3, <1>5, <2>1, ContinueIs
      DEF Remediate, Resolve, Record, WorkerAt, HandsOffOpen, Lookup, historyVars
    <2>2. CASE Remediate /\ Go("resolve")
      <3>1. w'.pc = "resolve"
        BY <1>1, <2>2, GoIs DEF WorkerPcs
      <3> QED
        BY <1>1, <1>2, <1>3, <2>2, <3>1 DEF Remediate, WorkerAt, HandsOffOpen, Lookup
    <2>3. CASE Resolve /\ Go("record")
      <3>1. w'.pc = "record"
        BY <1>1, <2>3, GoIs DEF WorkerPcs
      <3> QED
        BY <1>2, <1>3, <2>3, <3>1 DEF Resolve, WorkerAt, historyVars
    <2> QED
      BY <1>5, <2>1, <2>2, <2>3 DEF Remediate, Resolve, Record
  <1> QED
    BY <1>4, <1>5

\* The main thread in register_incident: what it writes, and the copy it goes on
\* with, which is the record as it loaded or wrote it, or the copy it had.
LEMMA RegisterIs ==
    ASSUME HandoffInv, RegisterStep \/ MainSaveFails
    PROVE  /\ m.pc # "idle" /\ m.cur \in Incidents
           /\ UNCHANGED <<trail, observed, w, executions, remediations>>
           /\ \/ UNCHANGED <<inv, lost, revived>>
              \/ /\ inv[m.cur] = None /\ inv' = [inv EXCEPT ![m.cur] = NewInvestigation]
                 /\ UNCHANGED <<lost, revived>>
              \/ m.pc \in {"observeSave", "referSave"} /\ MainWrites
           /\ LockHeld' => /\ m'.cur = m.cur
                           /\ m'.rec = inv'[m.cur] \/ (LockHeld /\ m'.rec = m.rec)
           /\ m'.pc \in {"observeSave", "referSave"} =>
                 m'.rec = inv[m.cur] /\ inv[m.cur].state = "ACTIVE"
           /\ m'.pc \in {"observeSave", "refer", "referSave"} =>
                 /\ m'.cur = m.cur /\ m'.next = m.next
                 /\ m.pc \in {"observeSave", "refer"} \/ ~(m.next > observed[m.cur])
  <1> USE DEF MainAt
  <1>1. TypeOK /\ MainHolds /\ m \in MainRecord
    BY DEF HandoffInv, TypeOK, MainRecord
  <1>2. m.pc # "idle" /\ m.cur \in Incidents
    BY <1>1, MainKeepsItsIncident
    DEF RegisterStep, Register, Observe, Refer, MainSaves, MainSaveFails
  <1>3. UNCHANGED <<trail, observed, w, executions, remediations>>
    BY DEF RegisterStep, Register, Observe, Refer, MainSaves, MainSaveFails, incidentVars,
           historyVars
  <1>4. CASE Register
    <2> DEFINE v == IF inv[m.cur] = None THEN NewInvestigation ELSE inv[m.cur]
    <2>1. /\ inv' = [inv EXCEPT ![m.cur] = v] /\ UNCHANGED <<lost, revived>>
          /\ \/ m' = MainIdle
             \/ m' = [m EXCEPT !.pc = "observe", !.next = 1, !.rec = v]
      BY <1>4 DEF Register, historyVars
    <2>2. inv'[m.cur] = v /\ (inv[m.cur] # None => inv' = inv)
      BY <1>1, <1>2, <2>1 DEF TypeOK
    <2>3. \/ m'.pc = "idle"
          \/ m'.pc = "observe" /\ m'.cur = m.cur /\ m'.rec = v
      <3>1. CASE m' = MainIdle
        BY <3>1 DEF MainIdle
      <3>2. CASE m' = [m EXCEPT !.pc = "observe", !.next = 1, !.rec = v]
        <4> HIDE DEF v
        <4> QED
          BY <1>1, <3>2 DEF MainRecord
      <3> QED
        BY <2>1, <3>1, <3>2
    <2> QED
      BY <1>2, <1>3, <2>1, <2>2, <2>3 DEF LockHeld
  <1>5. CASE Observe
    <2>1. UNCHANGED <<inv, lost, revived>> /\ LockHeld
      BY <1>5 DEF Observe, historyVars, LockHeld
    <2>2. \/ m'.pc = "idle"
          \/ /\ m'.pc = "refer" /\ m'.cur = m.cur /\ m'.rec = m.rec /\ m'.next = m.next
             /\ ~(m.next > observed[m.cur])
          \/ /\ m'.pc = "observeSave" /\ m'.cur = m.cur /\ m'.rec = inv[m.cur]
             /\ m'.next = m.next /\ inv[m.cur].state = "ACTIVE"
             /\ ~(m.next > observed[m.cur])
      BY <1>1, <1>5 DEF Observe, MainRecord, MainIdle
    <2> QED
      BY <1>2, <1>3, <2>1, <2>2 DEF LockHeld
  <1>6. CASE Refer
    <2>1. UNCHANGED <<inv, lost, revived>> /\ LockHeld /\ m.pc = "refer"
      BY <1>6 DEF Refer, historyVars, LockHeld
    <2>2. \/ m'.pc = "idle"
          \/ m'.pc = "observe" /\ m'.cur = m.cur /\ m'.rec = inv[m.cur]
          \/ /\ m'.pc = "referSave" /\ m'.cur = m.cur /\ m'.rec = inv[m.cur]
             /\ m'.next = m.next /\ inv[m.cur].state = "ACTIVE"
      BY <1>1, <1>6 DEF Refer, MainRecord, MainIdle
    <2> QED
      BY <1>2, <1>3, <2>1, <2>2 DEF LockHeld
  <1>7. CASE MainSaves
    <2>1. MainWrites /\ m.pc \in {"observeSave", "referSave"}
      BY <1>7 DEF MainSaves
    <2>2. inv'[m.cur] = MainSaved
      BY <1>1, <2>1, MainWritesAre
    <2>3. \/ /\ m.pc = "observeSave" /\ m'.pc = "refer" /\ m'.cur = m.cur
             /\ m'.rec = MainSaved /\ m'.next = m.next
          \/ m'.pc = "observe" /\ m'.cur = m.cur /\ m'.rec = MainSaved
      BY <1>1, <1>7 DEF MainSaves, MainRecord
    <2> QED
      BY <1>2, <1>3, <2>1, <2>2, <2>3 DEF LockHeld
  <1>8. CASE MainSaveFails
    <2>1. /\ m.pc \in {"observeSave", "referSave"} /\ m'.pc = "idle"
          /\ MainWrites \/ UNCHANGED <<inv, lost, revived>>
      BY <1>8 DEF MainSaveFails, MainIdle
    <2> QED
      BY <1>2, <1>3, <2>1 DEF LockHeld
  <1> QED
    BY <1>4, <1>5, <1>6, <1>7, <1>8 DEF RegisterStep

\* The other steps leave the records alone, and no copy or change is held after them.
LEMMA OthersAre ==
    ASSUME HandoffInv, AppendEvidence \/ Sensor \/ Crash
    PROVE  /\ UNCHANGED <<inv, executions, remediations, lost, revived>>
           /\ m'.pc \in {"idle", "append", "register"}
           /\ w' = w \/ w'.pc = "idle"
           /\ \A i \in Incidents : /\ trail[i] \subseteq trail'[i]
                                   /\ observed[i] \in Nat /\ observed'[i] \in Nat
                                   /\ observed[i] <= observed'[i]
  <1>1. TypeOK /\ m \in MainRecord
    BY DEF HandoffInv, TypeOK, MainRecord
  <1>2. /\ trail \in [Incidents -> SUBSET Evidence] /\ observed \in [Incidents -> 0 .. MaxEvidence]
    BY <1>1 DEF TypeOK
  <1>3. UNCHANGED <<inv, executions, remediations, lost, revived>>
    BY DEF AppendEvidence, Sensor, OpenIncident, FindIncident, Crash, historyVars
  <1>4. CASE AppendEvidence
    <2>1. m'.pc = "register" /\ w' = w
      BY <1>1, <1>4 DEF AppendEvidence, MainGoes, MainRecord
    <2>2. m.cur \in Incidents
      BY <1>4 DEF HandoffInv, TypeOK, MainHolds, AppendEvidence, MainAt
    <2> QED
      BY <1>2, <1>3, <1>4, <2>1, <2>2, Constants DEF AppendEvidence, Observations
  <1>5. ASSUME NEW i \in Incidents, OpenIncident(i)
        PROVE  /\ m'.pc = "register" /\ w' = w
               /\ \A j \in Incidents : /\ trail[j] \subseteq trail'[j]
                                       /\ observed[j] \in Nat /\ observed'[j] \in Nat
                                       /\ observed[j] <= observed'[j]
    BY <1>2, <1>5, Constants DEF OpenIncident, Observations, MainIdle
  <1>6. CASE (\E c \in Components : FindIncident(c)) \/ Crash
    <2>1. m'.pc \in {"idle", "append"} /\ (w' = w \/ w'.pc = "idle") /\ UNCHANGED <<trail, observed>>
      <3>1. CASE \E c \in Components : FindIncident(c)
        BY <3>1 DEF FindIncident, MainIdle, incidentVars
      <3>2. CASE Crash
        BY <3>2 DEF Crash, MainIdle, WorkerIdle
      <3> QED
        BY <1>6, <3>1, <3>2
    <2> QED
      BY <1>2, <1>3, <2>1, Constants
  <1> QED
    BY <1>3, <1>4, <1>5, <1>6 DEF Sensor

----------------------------------------------------------------------------
(***************************************************************************)
(* Every step keeps the account of the reservations.                       *)
(***************************************************************************)

LEMMA Counted ==
    ASSUME TypeOK, NEW i \in Incidents
    PROVE  /\ executions[i] \in Nat /\ remediations[i] \in Nat
           /\ lost[i] \in Nat /\ revived[i] \in Nat
           /\ inv[i] # None => inv[i] \in Investigation /\ inv[i].consumed \in Nat
  BY DEF TypeOK, Investigation

LEMMA NewIsTyped == NewInvestigation \in Investigation /\ NewInvestigation # None
  <1>1. 0 \in 0 .. MaxEvidence /\ 0 \in Nat
    BY Constants
  <1>2. NewInvestigation \in Investigation
    BY <1>1 DEF NewInvestigation, Investigation
  <1> QED
    BY <1>2, Constants

\* The record the main thread saves, field by field.
LEMMA MainSavedIs ==
    ASSUME TypeOK, MainHolds, m.pc \in {"observeSave", "referSave"}
    PROVE  /\ MainSaved \in Investigation
           /\ MainSaved.consumed = m.rec.consumed /\ MainSaved.state = m.rec.state
           /\ MainSaved.hyp = m.rec.hyp /\ MainSaved.diagnosed = m.rec.diagnosed
           /\ MainSaved.results = m.rec.results
           /\ MainSaved.refs = m.rec.refs \/ MainSaved.refs = m.rec.refs \cup {m.next}
  <1>1. MainSaved \in Investigation
    BY MainSavedType
  <1>2. m.rec \in Investigation
    BY DEF TypeOK, MainHolds, LockHeld
  <1>3. CASE m.pc = "observeSave"
    BY <1>1, <1>2, <1>3 DEF MainSaved, MainAt, Investigation
  <1>4. CASE m.pc = "referSave"
    BY <1>1, <1>2, <1>4 DEF MainSaved, MainAt, Investigation
  <1> QED
    BY <1>3, <1>4

\* The investigation of the incident being registered exists once it was loaded.
LEMMA RegisterKeepsRecord ==
    ASSUME HandoffInv, RegisterStep \/ MainSaveFails, LockHeld'
    PROVE  inv'[m.cur] # None
  <1>1. HandoffInv' /\ m'.cur = m.cur
    BY RegisterStepKeepsHandoff, RegisterIs
  <1> QED
    BY <1>1 DEF HandoffInv, MainHolds

LEMMA QuietWorkerKeepsReservations ==
    ASSUME HandoffInv, ReservationInv, QuietWorker
    PROVE  ReservationInv'
  <1>1. UNCHANGED <<incidentVars, inv, coordVars, m, historyVars>> /\ TypeOK /\ WorkerHolds
    BY QuietWorkerGoesOn DEF HandoffInv
  <1>2. UNCHANGED <<inv, m, executions, lost>>
    BY <1>1 DEF historyVars
  <1>3. CASE w'.pc \in {"idle", "visit", "recheck", "resolve", "remediate"}
    BY <1>2, <1>3 DEF ReservationInv, LockHeld
  <1>4. CASE /\ w.pc = "load" /\ w'.pc = "save" /\ w'.cur = w.cur /\ w'.op = w.op
             /\ w'.budget = w.budget /\ w'.rec = inv[w.cur]
    <2>1. w.cur \in Incidents /\ inv[w.cur] # None
      BY <1>1, <1>4, WorkerCopy DEF WorkerHolds
    <2> QED
      BY <1>2, <1>4, <2>1 DEF ReservationInv, LockHeld
  <1>5. ASSUME NEW i \in Incidents, inv[i] # None, Prepared(i, inv[i])
        PROVE  ReservationInv'
    <2>1. Accounts(inv[i], executions[i], lost[i])
      BY <1>5 DEF ReservationInv
    <2>2. w'.op = "action" =>
             WithinBudgets(w'.budget) /\ executions[i] < w'.budget + lost[i]
      BY <1>1, <1>5, <2>1, Counted DEF Prepared, Accounts
    <2>3. w'.pc = "load" /\ w'.cur = i
      BY <1>5 DEF Prepared
    <2> QED
      BY <1>2, <2>2, <2>3 DEF ReservationInv, LockHeld
  <1> QED
    BY <1>3, <1>4, <1>5, QuietWorkerIs

\* The worker's save carries a reservation at least as large as its copy's.
LEMMA WorkerSavesKeepReservations ==
    ASSUME HandoffInv, ReservationInv, WorkerSaves \/ WorkerSaveFails
    PROVE  ReservationInv'
  <1>1. TypeOK /\ WorkerHolds /\ w.pc = "save" /\ w.cur \in Incidents /\ w.op \in Ops
    BY WorkerCopy DEF HandoffInv, WorkerSaves, WorkerSaveFails, WorkerAt
  <1>2. UNCHANGED <<m, executions, lost>>
    BY DEF WorkerSaves, WorkerSaveFails
  <1>3. /\ Saved \in Investigation
        /\ Saved.consumed = IF w.op = "action" THEN w.budget ELSE w.rec.consumed
    BY <1>1, WorkerSaved
  <1>4. Accounts(Saved, executions[w.cur], lost[w.cur])
    BY <1>1, <1>3, Counted, WorkerCopy DEF ReservationInv, Accounts, Investigation
  <1>5. /\ inv' = inv \/ inv' = [inv EXCEPT ![w.cur] = Saved]
        /\ inv \in [Incidents -> Investigation \cup {None}]
    BY <1>1 DEF WorkerSaves, WorkerSaveFails, WorkerWrites, TypeOK
  <1>6. \A i \in Incidents : /\ inv'[i] = None => executions'[i] = 0
                             /\ inv'[i] # None => Accounts(inv'[i], executions'[i], lost'[i])
    BY <1>1, <1>2, <1>3, <1>4, <1>5, Constants DEF ReservationInv
  <1>7. CASE w'.pc \notin {"load", "save", "execute"}
    BY <1>2, <1>6, <1>7 DEF ReservationInv, LockHeld
  <1>8. CASE w'.pc \in {"load", "save", "execute"}
    <2>1. WorkerSaves
      BY <1>1, <1>8, ContinueIs DEF WorkerSaveFails
    <2>2. inv'[w.cur] = Saved
      BY <1>1, <2>1, WorkerWritesType DEF WorkerSaves
    <2>3. CASE w.op = "hypothesis" /\ Prepared(w.cur, Saved)
      <3>1. /\ w'.pc = "load" /\ w'.cur = w.cur
            /\ w'.op = "action" => /\ w'.budget = Saved.consumed + 1
                                   /\ WithinBudgets(Saved.consumed + 1)
        BY <2>3 DEF Prepared
      <3>2. w'.op = "action" =>
               WithinBudgets(w'.budget) /\ executions[w.cur] < w'.budget + lost[w.cur]
        BY <1>1, <1>3, <1>4, <3>1, Counted DEF Accounts, Investigation
      <3> QED
        BY <1>2, <1>6, <3>1, <3>2 DEF ReservationInv, LockHeld
    <2>4. CASE w.op = "action" /\ w'.pc = "execute" /\ w'.cur = w.cur
      <3>1. executions[w.cur] < Saved.consumed + lost[w.cur]
        BY <1>1, <1>3, <2>4 DEF ReservationInv
      <3> QED
        BY <1>2, <1>6, <2>2, <2>4, <3>1 DEF ReservationInv, LockHeld
    <2>5. CASE w'.pc = "load" /\ w'.op \in {"observation", "reference", "complete"}
      BY <1>2, <1>6, <2>5 DEF ReservationInv, LockHeld
    <2> QED
      BY <1>8, <2>1, <2>3, <2>4, <2>5, WorkerSavesIs
  <1> QED
    BY <1>7, <1>8

LEMMA EffectsKeepReservations ==
    ASSUME HandoffInv, ReservationInv, Execute \/ Remediate \/ Resolve \/ Record
    PROVE  ReservationInv'
  <1>1. /\ TypeOK /\ w.cur \in Incidents /\ inv[w.cur] # None
        /\ UNCHANGED <<inv, m, lost>>
    BY EffectsAre DEF HandoffInv
  <1>2. executions \in [Incidents -> Nat]
    BY <1>1 DEF TypeOK
  <1>3. CASE /\ w.pc = "execute" /\ executions' = [executions EXCEPT ![w.cur] = @ + 1]
             /\ w'.pc = "load" /\ w'.op = "update"
    <2>1. executions[w.cur] + 1 <= inv[w.cur].consumed + lost[w.cur]
      BY <1>1, <1>3, Counted DEF ReservationInv
    <2>2. \A i \in Incidents :
             /\ inv[i] = None => executions'[i] = 0
             /\ inv[i] # None => Accounts(inv[i], executions'[i], lost[i])
      BY <1>1, <1>2, <1>3, <2>1 DEF ReservationInv, Accounts
    <2> QED
      BY <1>1, <1>3, <2>2 DEF ReservationInv, LockHeld
  <1>4. CASE executions' = executions /\ w'.pc \in {"visit", "resolve", "record"}
    BY <1>1, <1>4 DEF ReservationInv, LockHeld
  <1> QED
    BY <1>3, <1>4, EffectsAre

\* The save of a stale copy adds to the losses what it takes off the counter.
LEMMA RegisterKeepsReservations ==
    ASSUME HandoffInv, ReservationInv, RegisterStep \/ MainSaveFails
    PROVE  ReservationInv'
  <1>1. /\ TypeOK /\ MainHolds /\ WorkerHolds /\ m.cur \in Incidents
        /\ UNCHANGED <<w, executions>>
        /\ inv \in [Incidents -> Investigation \cup {None}]
    BY RegisterIs DEF HandoffInv, TypeOK
  <1>2. w.pc \notin {"idle", "visit"} => w.cur \in Incidents /\ inv[w.cur] # None
    BY <1>1, WorkerCopy DEF WorkerHolds
  <1>3. /\ \A i \in Incidents :
              /\ inv'[i] = None => executions[i] = 0
              /\ inv'[i] # None => Accounts(inv'[i], executions[i], lost'[i])
        /\ \A i \in Incidents :
              /\ lost[i] \in Nat /\ lost'[i] \in Nat /\ lost[i] <= lost'[i]
              /\ inv[i] # None =>
                    /\ inv'[i].consumed \in Nat /\ inv[i].consumed \in Nat
                    /\ inv[i].consumed + lost[i] <= inv'[i].consumed + lost'[i]
    <2>1. CASE UNCHANGED <<inv, lost>>
      BY <1>1, <2>1, Counted DEF ReservationInv
    <2>2. CASE /\ inv[m.cur] = None /\ inv' = [inv EXCEPT ![m.cur] = NewInvestigation]
               /\ lost' = lost
      <3>1. executions[m.cur] = 0 /\ inv'[m.cur] = NewInvestigation
        BY <1>1, <2>2 DEF ReservationInv
      <3>2. NewInvestigation.consumed = 0
        BY DEF NewInvestigation
      <3>3. CatalogSize * MaxRepeated \in Nat /\ MaxActions \in Nat /\ MaxRisk \in Nat
        BY Constants
      <3>4. Accounts(NewInvestigation, 0, lost[m.cur])
        BY <1>1, <3>2, <3>3, Counted DEF Accounts, WithinBudgets
      <3>5. \A i \in Incidents : i # m.cur => inv'[i] = inv[i]
        BY <1>1, <2>2
      <3>6. NewInvestigation # None
        BY NewIsTyped
      <3>7. \A i \in Incidents : /\ inv'[i] = None => executions[i] = 0
                                 /\ inv'[i] # None => Accounts(inv'[i], executions[i], lost[i])
        BY <3>1, <3>4, <3>5, <3>6 DEF ReservationInv
      <3>8. \A i \in Incidents : inv[i] # None => inv'[i] = inv[i]
        BY <2>2, <3>5
      <3> QED
        BY <1>1, <2>2, <3>7, <3>8, Counted
    <2>3. CASE m.pc \in {"observeSave", "referSave"} /\ MainWrites
      <3>1. /\ inv[m.cur] # None /\ WithinBudgets(m.rec.consumed)
        BY <1>1, <2>3 DEF MainHolds, LockHeld, ReservationInv
      <3>2. /\ inv'[m.cur] = MainSaved /\ MainSaved \in Investigation
            /\ MainSaved.consumed = m.rec.consumed
            /\ inv[m.cur].consumed + lost[m.cur] <= MainSaved.consumed + lost'[m.cur]
        BY <1>1, <2>3, MainWritesAre, MainSavedIs
      <3>3. \A i \in Incidents :
               /\ lost[i] \in Nat /\ lost'[i] \in Nat /\ lost[i] <= lost'[i]
               /\ i # m.cur => inv'[i] = inv[i]
        BY <1>1, <2>3, MainWritesAre
      <3>4. Accounts(inv'[m.cur], executions[m.cur], lost'[m.cur])
        BY <1>1, <3>1, <3>2, <3>3, Counted DEF ReservationInv, Accounts, Investigation
      <3>5. inv'[m.cur] # None
        BY <3>2, Constants
      <3>6. ASSUME NEW i \in Incidents
            PROVE  /\ inv'[i] = None => executions[i] = 0
                   /\ inv'[i] # None => Accounts(inv'[i], executions[i], lost'[i])
        <4>1. CASE i = m.cur
          BY <3>4, <3>5, <4>1
        <4>2. CASE i # m.cur
          BY <1>1, <3>3, <4>2, Counted DEF ReservationInv, Accounts
        <4> QED
          BY <4>1, <4>2
      <3>7. ASSUME NEW i \in Incidents, inv[i] # None
            PROVE  /\ inv'[i].consumed \in Nat /\ inv[i].consumed \in Nat
                   /\ inv[i].consumed + lost[i] <= inv'[i].consumed + lost'[i]
        BY <1>1, <3>2, <3>3, <3>7, Counted DEF Investigation
      <3> QED
        BY <3>3, <3>6, <3>7
    <2> QED
      BY <2>1, <2>2, <2>3, RegisterIs
  <1>4. w.pc = "save" => Accounts(w.rec, executions[w.cur], lost'[w.cur])
    BY <1>1, <1>2, <1>3, Counted, WorkerCopy DEF ReservationInv, Accounts, Investigation
  <1>5. w.pc \in {"load", "save"} /\ w.op = "action" =>
           WithinBudgets(w.budget) /\ executions[w.cur] < w.budget + lost'[w.cur]
    BY <1>1, <1>2, <1>3, Counted, WorkerCopy DEF ReservationInv
  <1>6. w.pc = "execute" => executions[w.cur] < inv'[w.cur].consumed + lost'[w.cur]
    BY <1>1, <1>2, <1>3, Counted DEF ReservationInv
  <1>7. LockHeld' => WithinBudgets(m'.rec.consumed)
    <2> SUFFICES ASSUME LockHeld' PROVE WithinBudgets(m'.rec.consumed)
      OBVIOUS
    <2>2. CASE m'.rec = inv'[m.cur]
      <3>1. inv'[m.cur] # None
        BY RegisterKeepsRecord
      <3> QED
        BY <1>1, <1>3, <2>2, <3>1 DEF Accounts
    <2>3. CASE LockHeld /\ m'.rec = m.rec
      BY <2>3 DEF ReservationInv
    <2> QED
      BY <2>2, <2>3, RegisterIs
  <1> QED
    BY <1>1, <1>3, <1>4, <1>5, <1>6, <1>7 DEF ReservationInv

LEMMA ReservationStep == HandoffInv /\ ReservationInv /\ [Next]_vars => ReservationInv'
  <1> SUFFICES ASSUME HandoffInv, ReservationInv, [Next]_vars PROVE ReservationInv'
    OBVIOUS
  <1>1. CASE QuietWorker
    BY <1>1, QuietWorkerKeepsReservations
  <1>2. CASE WorkerSaves \/ WorkerSaveFails
    BY <1>2, WorkerSavesKeepReservations
  <1>3. CASE Execute \/ Remediate \/ Resolve \/ Record
    BY <1>3, EffectsKeepReservations
  <1>4. CASE RegisterStep \/ MainSaveFails
    BY <1>4, RegisterKeepsReservations
  <1>5. CASE AppendEvidence \/ Sensor \/ Crash
    <2>1. /\ UNCHANGED <<inv, executions, lost>> /\ m'.pc \in {"idle", "append", "register"}
          /\ w' = w \/ w'.pc = "idle"
      BY <1>5, OthersAre
    <2> QED
      BY <2>1 DEF ReservationInv, LockHeld
  <1>6. CASE UNCHANGED vars
    BY <1>6 DEF vars, historyVars, ReservationInv, LockHeld
  <1> QED
    BY <1>1, <1>2, <1>3, <1>4, <1>5, <1>6
    DEF Next, WorkerStep, QuietWorker, MainStep, Failure

----------------------------------------------------------------------------
(***************************************************************************)
(* Every step keeps the account of the chances of a remediation.           *)
(***************************************************************************)

\* A step that makes no investigation active, lets no further worker reach a
\* remediation and does none gives no chance.
LEMMA NoChanceGained ==
    ASSUME TypeOK, RemediationInv, NEW i \in Incidents,
           inv'[i] # None /\ inv'[i].state = "ACTIVE" => inv[i] # None /\ inv[i].state = "ACTIVE",
           HandsOver(i)' => HandsOver(i),
           remediations' = remediations, revived' = revived
    PROVE  remediations'[i] + Chances(i)' <= 1 + revived'[i]
  <1>1. remediations[i] \in Nat /\ revived[i] \in Nat /\ remediations[i] + Chances(i) <= 1 + revived[i]
    BY Counted DEF RemediationInv
  <1> QED
    BY <1>1 DEF Chances

LEMMA QuietWorkerKeepsRemediations ==
    ASSUME HandoffInv, RemediationInv, QuietWorker
    PROVE  RemediationInv'
  <1>1. /\ UNCHANGED <<inv, m, remediations, revived>> /\ TypeOK /\ WorkerHolds
    BY QuietWorkerGoesOn DEF HandoffInv, historyVars
  <1>2. /\ \A i \in Incidents : HandsOver(i)' => HandsOver(i)
        /\ w'.pc = "save" => w'.rec = inv[w.cur] /\ w'.cur = w.cur /\ inv[w.cur].state = "ACTIVE"
    BY QuietWorkerIs DEF HandsOver, Prepared
  <1>3. ASSUME NEW i \in Incidents
        PROVE  remediations'[i] + Chances(i)' <= 1 + revived'[i]
    BY <1>1, <1>2, NoChanceGained
  <1> QED
    BY <1>1, <1>2, <1>3 DEF RemediationInv

\* The completion of an investigation passes its chance on to the handoff.
LEMMA WorkerSavesKeepRemediations ==
    ASSUME HandoffInv, RemediationInv, WorkerSaves \/ WorkerSaveFails
    PROVE  RemediationInv'
  <1>1. /\ TypeOK /\ WorkerHolds /\ w.pc = "save" /\ w.cur \in Incidents /\ w.op \in Ops
        /\ inv[w.cur] # None /\ inv[w.cur].state = "ACTIVE"
    BY WorkerCopy DEF HandoffInv, WorkerHolds, WorkerSaves, WorkerSaveFails, WorkerAt,
                      RemediationInv
  <1>2. UNCHANGED <<m, remediations, revived>>
    BY DEF WorkerSaves, WorkerSaveFails
  <1>3. /\ inv' = inv \/ inv' = [inv EXCEPT ![w.cur] = Saved]
        /\ inv \in [Incidents -> Investigation \cup {None}]
    BY <1>1 DEF WorkerSaves, WorkerSaveFails, WorkerWrites, TypeOK
  <1>4. /\ Saved # None
        /\ w.op = "complete" => Saved.state # "ACTIVE"
    BY <1>1, WorkerSaved
  <1>5. /\ w'.pc \notin {"save", "remediate"}
        /\ w'.pc = "handoff" => WorkerSaves /\ w.op = "complete" /\ w'.cur = w.cur
    <2>1. CASE WorkerSaveFails
      BY <1>1, <2>1, ContinueIs DEF WorkerSaveFails
    <2>2. CASE WorkerSaves
      BY <2>2, WorkerSavesIs DEF Prepared
    <2> QED
      BY <2>1, <2>2
  <1>6. ASSUME NEW i \in Incidents
        PROVE  remediations'[i] + Chances(i)' <= 1 + revived'[i]
    <2>1. CASE HandsOver(i)'
      <3>1. i = w.cur /\ WorkerSaves /\ w.op = "complete"
        BY <1>5, <2>1 DEF HandsOver
      <3>2. inv'[i] = Saved
        BY <1>1, <3>1, WorkerWritesType DEF WorkerSaves
      <3>3. Chances(i)' = 1
        BY <1>4, <2>1, <3>1, <3>2 DEF Chances
      <3>4. Chances(i) = 1
        BY <1>1, <3>1 DEF Chances, HandsOver
      <3> QED
        BY <1>2, <3>3, <3>4 DEF RemediationInv
    <2>2. CASE ~HandsOver(i)'
      BY <1>1, <1>2, <1>3, <2>2, NoChanceGained
    <2> QED
      BY <2>1, <2>2
  <1>7. \A i \in Incidents : inv'[i] = None => inv[i] = None
    BY <1>1, <1>3, <1>4
  <1> QED
    BY <1>2, <1>5, <1>6, <1>7 DEF RemediationInv

\* A remediation uses up its chance, whether it returns or raises.
LEMMA EffectsKeepRemediations ==
    ASSUME HandoffInv, RemediationInv, Execute \/ Remediate \/ Resolve \/ Record
    PROVE  RemediationInv'
  <1>1. /\ TypeOK /\ w.cur \in Incidents /\ inv[w.cur] # None
        /\ UNCHANGED <<inv, m, revived>>
    BY EffectsAre DEF HandoffInv
  <1>2. w'.pc \in {"load", "visit", "resolve", "record"} /\ ~(\E i \in Incidents : HandsOver(i)')
    BY EffectsAre DEF HandsOver
  <1>3. CASE remediations' = remediations
    <2>1. ASSUME NEW i \in Incidents
          PROVE  remediations'[i] + Chances(i)' <= 1 + revived'[i]
      BY <1>1, <1>2, <1>3, NoChanceGained
    <2> QED
      BY <1>1, <1>2, <1>3, <2>1 DEF RemediationInv
  <1>4. CASE w.pc = "remediate" /\ remediations' = [remediations EXCEPT ![w.cur] = @ + 1]
    <2>0. remediations \in [Incidents -> Nat]
      BY <1>1 DEF TypeOK
    <2>1. ASSUME NEW i \in Incidents
          PROVE  remediations'[i] + Chances(i)' <= 1 + revived'[i]
      <3>1. /\ remediations[i] \in Nat /\ revived[i] \in Nat
            /\ remediations[i] + Chances(i) <= 1 + revived[i]
        BY <1>1, Counted DEF RemediationInv
      <3>2. ~HandsOver(i)'
        BY <1>2
      <3>3. Chances(i)' = IF inv[i] # None /\ inv[i].state = "ACTIVE" THEN 1 ELSE 0
        BY <1>1, <3>2 DEF Chances
      <3>4. CASE i = w.cur
        <4>1. HandsOver(i)
          BY <1>4, <3>4 DEF HandsOver
        <4> QED
          BY <1>1, <1>4, <2>0, <3>1, <3>3, <3>4, <4>1 DEF Chances
      <3>5. CASE i # w.cur
        BY <1>1, <1>4, <2>0, <3>1, <3>3, <3>5 DEF Chances
      <3> QED
        BY <3>4, <3>5
    <2>2. \A i \in Incidents : inv'[i] = None => remediations'[i] = 0
      BY <1>1, <1>4, <2>0 DEF RemediationInv
    <2> QED
      BY <1>1, <1>2, <2>1, <2>2 DEF RemediationInv
  <1> QED
    BY <1>3, <1>4, EffectsAre

\* A save of the main thread makes an ended investigation active only as a revival.
LEMMA RegisterKeepsRemediations ==
    ASSUME HandoffInv, RemediationInv, RegisterStep \/ MainSaveFails
    PROVE  RemediationInv'
  <1>1. /\ TypeOK /\ MainHolds /\ WorkerHolds /\ m.cur \in Incidents
        /\ UNCHANGED <<w, remediations>>
        /\ inv \in [Incidents -> Investigation \cup {None}]
    BY RegisterIs DEF HandoffInv, TypeOK
  <1>2. \A i \in Incidents : HandsOver(i)' <=> HandsOver(i)
    BY <1>1 DEF HandsOver
  <1>3. w.pc = "save" => w.cur \in Incidents /\ inv[w.cur] # None
    BY <1>1, WorkerCopy DEF WorkerHolds
  <1>4. /\ \A i \in Incidents : inv'[i] = None => remediations'[i] = 0
        /\ \A i \in Incidents : remediations'[i] + Chances(i)' <= 1 + revived'[i]
        /\ w.pc = "save" => inv'[w.cur].state = "ACTIVE"
    <2>1. CASE UNCHANGED <<inv, revived>>
      BY <1>1, <2>1 DEF RemediationInv, Chances, HandsOver
    <2>2. CASE /\ inv[m.cur] = None /\ inv' = [inv EXCEPT ![m.cur] = NewInvestigation]
               /\ revived' = revived
      <3>1. ~HandsOver(m.cur)
        BY <1>1, <2>2 DEF HandsOver, HandoffInv, WorkerHolds
      <3>2. remediations[m.cur] = 0 /\ revived[m.cur] \in Nat
        BY <1>1, <2>2, Counted DEF RemediationInv
      <3>3. /\ inv'[m.cur] # None
            /\ \A i \in Incidents : i # m.cur => inv'[i] = inv[i]
        BY <1>1, <2>2, NewIsTyped
      <3>4. ASSUME NEW i \in Incidents
            PROVE  remediations'[i] + Chances(i)' <= 1 + revived'[i]
        <4>1. CASE i = m.cur
          <5>1. Chances(i)' \in {0, 1}
            BY <1>2, <3>1, <4>1 DEF Chances
          <5> QED
            BY <1>1, <2>2, <3>2, <4>1, <5>1
        <4>2. CASE i # m.cur
          BY <1>1, <1>2, <2>2, <3>3, <4>2, NoChanceGained
        <4> QED
          BY <4>1, <4>2
      <3> QED
        BY <1>1, <1>3, <2>2, <3>3, <3>4 DEF RemediationInv
    <2>3. CASE m.pc \in {"observeSave", "referSave"} /\ MainWrites
      <3>1. /\ inv[m.cur] # None
            /\ inv'[m.cur] = MainSaved /\ MainSaved \in Investigation
            /\ MainSaved.state = "ACTIVE"
            /\ revived'[m.cur] = IF inv[m.cur].state # "ACTIVE" THEN revived[m.cur] + 1
                                 ELSE revived[m.cur]
        BY <1>1, <2>3, MainWritesAre, MainSavedIs DEF RemediationInv, MainHolds, LockHeld
      <3>2. /\ MainSaved # None
            /\ \A i \in Incidents :
                  /\ revived[i] \in Nat /\ revived'[i] \in Nat
                  /\ i # m.cur => inv'[i] = inv[i] /\ revived'[i] = revived[i]
        BY <1>1, <2>3, MainWritesAre, MainSavedType
      <3>3. ASSUME NEW i \in Incidents
            PROVE  remediations'[i] + Chances(i)' <= 1 + revived'[i]
        <4>1. remediations[i] \in Nat /\ remediations[i] + Chances(i) <= 1 + revived[i]
          BY <1>1, Counted DEF RemediationInv
        <4>2. CASE i = m.cur
          <5>1. CASE inv[i].state = "ACTIVE"
            <6>1. Chances(i)' = Chances(i)
              BY <1>2, <3>1, <3>2, <4>2, <5>1 DEF Chances
            <6> QED
              BY <1>1, <3>1, <4>1, <4>2, <5>1, <6>1
          <5>2. CASE inv[i].state # "ACTIVE"
            <6>1. Chances(i)' = 1 + Chances(i) /\ Chances(i) \in Nat
              BY <1>2, <3>1, <3>2, <4>2, <5>2 DEF Chances
            <6> QED
              BY <1>1, <3>1, <3>2, <4>1, <4>2, <5>2, <6>1
          <5> QED
            BY <5>1, <5>2
        <4>3. CASE i # m.cur
          <5>1. Chances(i)' = Chances(i)
            BY <1>2, <3>2, <4>3 DEF Chances
          <5> QED
            BY <1>1, <3>2, <4>1, <4>3, <5>1
        <4> QED
          BY <4>2, <4>3
      <3> QED
        BY <1>1, <1>3, <3>1, <3>2, <3>3 DEF RemediationInv
    <2> QED
      BY <2>1, <2>2, <2>3, RegisterIs
  <1>5. m'.pc \in {"observeSave", "referSave"} => m'.rec.state = "ACTIVE"
    BY RegisterIs
  <1> QED
    BY <1>1, <1>4, <1>5 DEF RemediationInv

LEMMA RemediationStep == HandoffInv /\ RemediationInv /\ [Next]_vars => RemediationInv'
  <1> SUFFICES ASSUME HandoffInv, RemediationInv, [Next]_vars PROVE RemediationInv'
    OBVIOUS
  <1>1. CASE QuietWorker
    BY <1>1, QuietWorkerKeepsRemediations
  <1>2. CASE WorkerSaves \/ WorkerSaveFails
    BY <1>2, WorkerSavesKeepRemediations
  <1>3. CASE Execute \/ Remediate \/ Resolve \/ Record
    BY <1>3, EffectsKeepRemediations
  <1>4. CASE RegisterStep \/ MainSaveFails
    BY <1>4, RegisterKeepsRemediations
  <1>5. CASE AppendEvidence \/ Sensor \/ Crash
    <2>1. /\ UNCHANGED <<inv, remediations, revived>> /\ m'.pc \in {"idle", "append", "register"}
          /\ w' = w \/ w'.pc = "idle"
      BY <1>5, OthersAre
    <2>2. \A i \in Incidents : HandsOver(i)' => HandsOver(i)
      BY <2>1 DEF HandsOver
    <2>3. ASSUME NEW i \in Incidents
          PROVE  remediations'[i] + Chances(i)' <= 1 + revived'[i]
      BY <2>1, <2>2, NoChanceGained DEF HandoffInv
    <2> QED
      BY <2>1, <2>3 DEF RemediationInv
  <1>6. CASE UNCHANGED vars
    BY <1>6 DEF vars, historyVars, RemediationInv, Chances, HandsOver
  <1> QED
    BY <1>1, <1>2, <1>3, <1>4, <1>5, <1>6
    DEF Next, WorkerStep, QuietWorker, MainStep, Failure

----------------------------------------------------------------------------
(***************************************************************************)
(* Every step keeps the records resting on observations and commands.      *)
(***************************************************************************)

Settled(v) == v.diagnosed \/ v.state = "COMPLETED"

\* A record may be replaced by one that refers to no more than it did.
LEMMA RestsOn ==
    ASSUME NEW v, NEW u, NEW d, NEW n \in Nat, NEW r \in Nat, NEW g, IsFiniteSet(g),
           NEW d2, NEW n2 \in Nat, NEW r2 \in Nat, NEW g2,
           Rests(v, d, n, r, g), r <= r2,
           u.results \cup g2 \subseteq v.results \cup g,
           u.hyp # 0 => u.hyp \in d2,
           u.refs \subseteq 1 .. n2,
           Settled(u) => Grounds(d2, n2, r2)
    PROVE  Rests(u, d2, n2, r2, g2)
  <1>1. IsFiniteSet(v.results \cup g) /\ Cardinality(v.results \cup g) <= r
    BY FS_Union DEF Rests
  <1>2. /\ IsFiniteSet(u.results \cup g2)
        /\ Cardinality(u.results \cup g2) <= Cardinality(v.results \cup g)
    BY <1>1, FS_Subset
  <1>3. IsFiniteSet(u.results)
    BY <1>2, FS_Subset
  <1>4. Cardinality(u.results \cup g2) \in Nat /\ Cardinality(v.results \cup g) \in Nat
    BY <1>1, <1>2, FS_CardinalityType
  <1>5. Cardinality(u.results \cup g2) <= r2
    BY <1>1, <1>2, <1>4
  <1> QED
    BY <1>3, <1>5 DEF Rests, Settled

\* A command adds at most one result.
LEMMA OneMoreResult ==
    ASSUME NEW v, NEW d, NEW n, NEW r \in Nat, NEW a, Rests(v, d, n, r, {}),
           n \in Nat, MinimumEvidence \in Nat
    PROVE  Rests(v, d, n, r + 1, {a}) /\ Rests(v, d, n, r + 1, {})
  <1>1. IsFiniteSet(v.results) /\ Cardinality(v.results) <= r
    <2>1. v.results \cup {} = v.results
      OBVIOUS
    <2> QED
      BY <2>1 DEF Rests
  <1>2. /\ Cardinality(v.results) \in Nat
        /\ Cardinality(v.results \cup {a}) \in Nat
        /\ Cardinality(v.results \cup {a}) <= Cardinality(v.results) + 1
    <2>1. /\ IsFiniteSet(v.results \cup {a})
          /\ Cardinality(v.results \cup {a}) =
                IF a \in v.results THEN Cardinality(v.results) ELSE Cardinality(v.results) + 1
      BY <1>1, FS_AddElement
    <2>2. Cardinality(v.results) \in Nat
      BY <1>1, FS_CardinalityType
    <2> QED
      BY <2>1, <2>2
  <1>3. Cardinality(v.results \cup {a}) <= r + 1 /\ Cardinality(v.results \cup {}) <= r + 1
    <2>1. v.results \cup {} = v.results
      OBVIOUS
    <2> QED
      BY <1>1, <1>2, <2>1
  <1>4. Settled(v) => Grounds(d, n, r + 1)
    BY DEF Rests, Grounds, Settled
  <1> QED
    BY <1>1, <1>3, <1>4 DEF Rests, Settled

\* An established diagnosis has its minimum of evidence.
LEMMA EstablishedIsGrounded ==
    ASSUME NEW v, NEW d, NEW n \in Nat, NEW r \in Nat, NEW g, IsFiniteSet(g),
           Rests(v, d, n, r, g), Established(v)
    PROVE  Grounds(d, n, r)
  <1>1. d # {}
    BY DEF Rests, Established
  <1>2. Cardinality(v.refs) \in Nat /\ Cardinality(v.refs) <= n
    <2>1. IsFiniteSet(1 .. n) /\ Cardinality(1 .. n) = n
      BY FS_Interval
    <2>2. IsFiniteSet(v.refs) /\ Cardinality(v.refs) <= Cardinality(1 .. n)
      BY <2>1, FS_Subset DEF Rests
    <2> QED
      BY <2>1, <2>2, FS_CardinalityType
  <1>3. Cardinality(v.results) \in Nat /\ Cardinality(v.results) <= r
    <2>1. IsFiniteSet(v.results \cup g) /\ Cardinality(v.results \cup g) <= r
      BY FS_Union DEF Rests
    <2>2. IsFiniteSet(v.results) /\ Cardinality(v.results) <= Cardinality(v.results \cup g)
      BY <2>1, FS_Subset
    <2> QED
      BY <2>1, <2>2, FS_CardinalityType
  <1>4. MinimumEvidence \in Nat /\ Cardinality(v.refs) + Cardinality(v.results) >= MinimumEvidence
    BY Constants DEF Established, EvidenceCount
  <1> QED
    BY <1>1, <1>2, <1>3, <1>4 DEF Grounds

LEMMA GainedIsFinite == ASSUME NEW x, NEW i PROVE IsFiniteSet(Gained(x, i))
  BY FS_EmptySet, FS_Singleton DEF Gained

\* What the record v of incident i rests on after the step.
SoundNext(i, v) == Rests(v, trail'[i], observed'[i], executions'[i], Gained(w', i))
GroundedNext(i) == Grounds(trail'[i], observed'[i], executions'[i])

LEMMA EvidenceNext ==
    ASSUME \A i \in Incidents : inv'[i] # None => SoundNext(i, inv'[i]),
           \A i \in Incidents : remediations'[i] > 0 => GroundedNext(i),
           w'.pc = "save" => SoundNext(w'.cur, w'.rec),
           w'.pc \in {"load", "save"} /\ w'.op = "hypothesis" => w'.arg \in trail'[w'.cur],
           w'.pc \in {"load", "save"} /\ w'.op \in {"diagnosis", "complete"} =>
              GroundedNext(w'.cur),
           w'.pc \in {"handoff", "remediate"} => GroundedNext(w'.cur),
           LockHeld' => SoundNext(m'.cur, m'.rec),
           m'.pc \in {"observeSave", "refer", "referSave"} => m'.next <= observed'[m'.cur]
    PROVE  EvidenceInv'
  BY DEF EvidenceInv, Sound, SoundNext, Grounded, GroundedNext, Rests, Gained, Grounds

\* Observations and commands only grow, and what was sound stays so.
LEMMA SoundStays ==
    ASSUME TypeOK, TypeOK', NEW i \in Incidents, NEW v, Sound(i, v),
           trail[i] \subseteq trail'[i], observed[i] <= observed'[i],
           executions'[i] = executions[i], Gained(w', i) \subseteq Gained(w, i)
    PROVE  SoundNext(i, v)
  <1>1. /\ observed[i] \in Nat /\ observed'[i] \in Nat /\ executions[i] \in Nat
        /\ MinimumEvidence \in Nat
    BY Constants DEF TypeOK
  <1>2. Rests(v, trail[i], observed[i], executions[i], Gained(w, i))
    BY DEF Sound
  <1>3. 1 .. observed[i] \subseteq 1 .. observed'[i]
    BY <1>1
  <1>4. /\ v.hyp # 0 => v.hyp \in trail'[i]
        /\ v.refs \subseteq 1 .. observed'[i]
    BY <1>2, <1>3 DEF Rests
  <1>5. Settled(v) => Grounds(trail'[i], observed'[i], executions[i])
    BY <1>1, <1>2 DEF Rests, Grounds, Settled
  <1>6. v.results \cup Gained(w', i) \subseteq v.results \cup Gained(w, i)
    OBVIOUS
  <1>7. IsFiniteSet(Gained(w, i))
    BY GainedIsFinite
  <1>8. Rests(v, trail'[i], observed'[i], executions[i], Gained(w', i))
    BY <1>1, <1>2, <1>4, <1>5, <1>6, <1>7, RestsOn
  <1> QED
    BY <1>8 DEF SoundNext

LEMMA GroundedStays ==
    ASSUME TypeOK, TypeOK', NEW i \in Incidents, Grounded(i),
           trail[i] \subseteq trail'[i], observed[i] <= observed'[i],
           executions[i] <= executions'[i]
    PROVE  GroundedNext(i)
  <1>1. /\ observed[i] \in Nat /\ observed'[i] \in Nat /\ executions[i] \in Nat
        /\ executions'[i] \in Nat /\ MinimumEvidence \in Nat
    BY Constants DEF TypeOK
  <1> QED
    BY <1>1 DEF Grounded, GroundedNext, Grounds

\* Where no incident, command or worker's result is touched, all of it stays.
LEMMA AllSoundStays ==
    ASSUME HandoffInv, EvidenceInv, HandoffInv',
           \A i \in Incidents : trail[i] \subseteq trail'[i] /\ observed[i] <= observed'[i],
           executions' = executions, remediations' = remediations,
           \A i \in Incidents : Gained(w', i) \subseteq Gained(w, i)
    PROVE  /\ \A i \in Incidents : \A v : Sound(i, v) => SoundNext(i, v)
           /\ \A i \in Incidents : Grounded(i) => GroundedNext(i)
           /\ \A i \in Incidents : remediations'[i] > 0 => GroundedNext(i)
  <1>1. TypeOK /\ TypeOK'
    BY DEF HandoffInv
  <1>2. ASSUME NEW i \in Incidents, NEW v, Sound(i, v) PROVE SoundNext(i, v)
    BY <1>1, <1>2, SoundStays
  <1>3. ASSUME NEW i \in Incidents, Grounded(i) PROVE GroundedNext(i)
    <2>1. executions[i] <= executions'[i]
      BY <1>1, Counted
    <2> QED
      BY <1>1, <1>3, <2>1, GroundedStays
  <1>4. \A i \in Incidents : remediations[i] > 0 => Grounded(i)
    BY DEF EvidenceInv
  <1> QED
    BY <1>2, <1>3, <1>4

LEMMA QuietWorkerKeepsEvidence ==
    ASSUME HandoffInv, EvidenceInv, QuietWorker
    PROVE  EvidenceInv'
  <1>1. /\ UNCHANGED <<trail, observed, inv, m, executions, remediations>>
        /\ TypeOK /\ WorkerHolds /\ MainHolds
    BY QuietWorkerGoesOn DEF HandoffInv, incidentVars, historyVars
  <1>2. HandoffInv'
    BY WorkerKeepsHandoff DEF QuietWorker, WorkerStep
  <1>3. \A i \in Incidents : Gained(w', i) \subseteq Gained(w, i)
    BY QuietWorkerIs DEF Gained, Prepared
  <1>4. \A i \in Incidents : observed[i] <= observed'[i]
    BY <1>1, Constants DEF TypeOK
  <1>5. /\ \A i \in Incidents : \A v : Sound(i, v) => SoundNext(i, v)
        /\ \A i \in Incidents : Grounded(i) => GroundedNext(i)
        /\ \A i \in Incidents : remediations'[i] > 0 => GroundedNext(i)
    BY <1>1, <1>2, <1>3, <1>4, AllSoundStays
  <1>6. \A i \in Incidents : inv'[i] # None => SoundNext(i, inv'[i])
    BY <1>1, <1>5 DEF EvidenceInv
  <1>7. /\ LockHeld' => SoundNext(m'.cur, m'.rec)
        /\ m'.pc \in {"observeSave", "refer", "referSave"} => m'.next <= observed'[m'.cur]
    <2>1. LockHeld => m.cur \in Incidents
      BY <1>1, MainKeepsItsIncident DEF LockHeld
    <2> QED
      BY <1>1, <1>5, <2>1 DEF EvidenceInv, LockHeld
  <1>8. CASE w'.pc \in {"idle", "visit", "recheck", "resolve"}
    BY <1>5, <1>6, <1>7, <1>8, EvidenceNext
  <1>9. CASE w.pc = "handoff" /\ w'.pc = "remediate" /\ w'.cur = w.cur
    <2>1. w.cur \in Incidents /\ Grounded(w.cur)
      BY <1>1, <1>9, WorkerCopy DEF EvidenceInv
    <2> QED
      BY <1>5, <1>6, <1>7, <1>9, <2>1, EvidenceNext
  <1>10. CASE /\ w.pc = "load" /\ w'.pc = "save" /\ w'.cur = w.cur /\ w'.op = w.op
              /\ w'.arg = w.arg /\ w'.rec = inv[w.cur]
    <2>1. /\ w.cur \in Incidents /\ Sound(w.cur, inv[w.cur])
          /\ w.op = "hypothesis" => w.arg \in trail[w.cur]
          /\ w.op \in {"diagnosis", "complete"} => Grounded(w.cur)
      BY <1>1, <1>10, WorkerCopy DEF EvidenceInv, WorkerHolds
    <2> QED
      BY <1>1, <1>5, <1>6, <1>7, <1>10, <2>1, EvidenceNext
  <1>11. ASSUME NEW i \in Incidents, inv[i] # None, Prepared(i, inv[i])
         PROVE  EvidenceInv'
    <2>1. /\ w'.pc = "load" /\ w'.cur = i
          /\ w'.op \in {"hypothesis", "action", "diagnosis", "exhaust"}
          /\ w'.op = "hypothesis" => w'.arg \in trail[i]
          /\ w'.op = "diagnosis" => Established(inv[i])
      BY <1>11 DEF Prepared
    <2>2. ASSUME Established(inv[i]) PROVE GroundedNext(i)
      <3>1. Sound(i, inv[i])
        BY <1>11 DEF EvidenceInv
      <3>2. observed[i] \in Nat /\ executions[i] \in Nat /\ IsFiniteSet(Gained(w, i))
        BY <1>1, Constants, GainedIsFinite DEF TypeOK
      <3>3. Grounds(trail[i], observed[i], executions[i])
        BY <2>2, <3>1, <3>2, EstablishedIsGrounded DEF Sound
      <3> QED
        BY <1>1, <3>3 DEF GroundedNext
    <2> QED
      BY <1>1, <1>5, <1>6, <1>7, <2>1, <2>2, EvidenceNext
  <1> QED
    BY <1>8, <1>9, <1>10, <1>11, QuietWorkerIs

\* The worker's save moves a gained result into the record and no other.
LEMMA WorkerSavesKeepEvidence ==
    ASSUME HandoffInv, EvidenceInv, WorkerSaves \/ WorkerSaveFails
    PROVE  EvidenceInv'
  <1>1. /\ TypeOK /\ WorkerHolds /\ MainHolds /\ w.pc = "save"
        /\ w.cur \in Incidents /\ w.op \in Ops
    BY WorkerCopy DEF HandoffInv, WorkerSaves, WorkerSaveFails, WorkerAt
  <1>2. UNCHANGED <<trail, observed, m, executions, remediations>>
    BY DEF WorkerSaves, WorkerSaveFails, incidentVars
  <1>3. HandoffInv'
    BY WorkerKeepsHandoff DEF WorkerStep
  <1>4. /\ WorkerSaveFails => w'.pc = "visit"
        /\ \/ w'.pc \in {"visit", "execute", "refresh"}
           \/ w.op = "hypothesis" /\ WorkerSaves /\ Prepared(w.cur, Saved)
           \/ /\ w.op \in {"update", "observation"} /\ w'.op \in {"observation", "reference"}
              /\ w'.pc = "load" /\ w'.cur = w.cur /\ w'.arg = w.arg
           \/ w.op = "diagnosis" /\ w'.pc = "load" /\ w'.cur = w.cur /\ w'.op = "complete"
           \/ w.op = "complete" /\ w'.pc = "handoff" /\ w'.cur = w.cur
    <2>1. WorkerSaveFails => w'.pc = "visit"
      BY <1>1, ContinueIs DEF WorkerSaveFails
    <2> QED
      BY <2>1, WorkerSavesIs
  <1>5. /\ \A i \in Incidents : Gained(w', i) \subseteq Gained(w, i)
        /\ w.op = "reference" => Gained(w', w.cur) = {} /\ Gained(w, w.cur) = {w.arg}
    <2>1. CASE w'.pc \in {"visit", "execute", "refresh", "handoff"}
      BY <1>1, <2>1 DEF Gained
    <2>2. CASE w.op = "hypothesis" /\ Prepared(w.cur, Saved)
      BY <2>2 DEF Prepared, Gained
    <2>3. CASE /\ w.op \in {"update", "observation"} /\ w'.op \in {"observation", "reference"}
               /\ w'.pc = "load" /\ w'.cur = w.cur /\ w'.arg = w.arg
      BY <1>1, <2>3 DEF Gained
    <2>4. CASE w.op = "diagnosis" /\ w'.pc = "load" /\ w'.cur = w.cur /\ w'.op = "complete"
      BY <2>4 DEF Gained
    <2> QED
      BY <1>4, <2>1, <2>2, <2>3, <2>4
  <1>6. \A i \in Incidents : observed[i] <= observed'[i]
    BY <1>1, <1>2, Constants DEF TypeOK
  <1>7. /\ \A i \in Incidents : \A v : Sound(i, v) => SoundNext(i, v)
        /\ \A i \in Incidents : Grounded(i) => GroundedNext(i)
        /\ \A i \in Incidents : remediations'[i] > 0 => GroundedNext(i)
    BY <1>2, <1>3, <1>5, <1>6, AllSoundStays
  <1>8. SoundNext(w.cur, Saved)
    <2> DEFINE i == w.cur
               g == Gained(w, i)
               g2 == Gained(w', i)
    <2>1. Rests(w.rec, trail[i], observed[i], executions[i], g)
      BY <1>1 DEF EvidenceInv, Sound
    <2>2. observed[i] \in Nat /\ executions[i] \in Nat /\ IsFiniteSet(g)
      BY <1>1, Constants, GainedIsFinite DEF TypeOK
    <2>3. Saved.results \cup g2 \subseteq w.rec.results \cup g
      BY <1>1, <1>5, WorkerSaved
    <2>4. Saved.hyp # 0 => Saved.hyp \in trail[i]
      <3>1. Saved.hyp = IF w.op = "hypothesis" THEN w.arg ELSE w.rec.hyp
        BY <1>1, WorkerSaved
      <3>2. w.op = "hypothesis" => w.arg \in trail[i]
        BY <1>1 DEF EvidenceInv
      <3> QED
        BY <2>1, <3>1, <3>2 DEF Rests
    <2>5. Saved.refs \subseteq 1 .. observed[i]
      BY <1>1, <2>1, WorkerSaved DEF Rests
    <2>6. Settled(Saved) => Grounds(trail[i], observed[i], executions[i])
      <3>1. Settled(Saved) => Settled(w.rec) \/ w.op \in {"diagnosis", "complete"}
        <4>1. Saved.diagnosed => w.rec.diagnosed \/ w.op = "diagnosis"
          BY <1>1, WorkerSaved
        <4>2. Saved.state = "COMPLETED" => w.rec.state = "COMPLETED" \/ w.op = "complete"
          BY <1>1, WorkerSaved
        <4> QED
          BY <4>1, <4>2 DEF Settled
      <3>2. Settled(w.rec) => Grounds(trail[i], observed[i], executions[i])
        BY <2>1 DEF Rests, Settled
      <3>3. w.op \in {"diagnosis", "complete"} => Grounds(trail[i], observed[i], executions[i])
        BY <1>1 DEF EvidenceInv, Grounded, Grounds
      <3> QED
        BY <3>1, <3>2, <3>3
    <2> HIDE DEF g, g2, i
    <2>7. executions[i] <= executions[i]
      BY <2>2
    <2>8. Rests(Saved, trail[i], observed[i], executions[i], g2)
      BY <2>1, <2>2, <2>3, <2>4, <2>5, <2>6, <2>7, RestsOn
    <2> QED
      BY <1>2, <2>8 DEF SoundNext, i, g2
  <1>9. \A i \in Incidents : inv'[i] # None => SoundNext(i, inv'[i])
    <2>1. /\ inv' = inv \/ inv' = [inv EXCEPT ![w.cur] = Saved]
          /\ inv \in [Incidents -> Investigation \cup {None}]
      BY <1>1 DEF WorkerSaves, WorkerSaveFails, WorkerWrites, TypeOK
    <2>2. \A i \in Incidents : inv[i] # None => SoundNext(i, inv[i])
      BY <1>7 DEF EvidenceInv
    <2>3. CASE inv' = inv
      BY <2>2, <2>3
    <2>4. CASE inv' = [inv EXCEPT ![w.cur] = Saved]
      <3>1. \A i \in Incidents : inv'[i] = IF i = w.cur THEN Saved ELSE inv[i]
        BY <2>1, <2>4
      <3> QED
        BY <1>8, <2>2, <3>1
    <2> QED
      BY <2>1, <2>3, <2>4
  <1>10. /\ LockHeld' => SoundNext(m'.cur, m'.rec)
         /\ m'.pc \in {"observeSave", "refer", "referSave"} => m'.next <= observed'[m'.cur]
    <2>1. LockHeld => m.cur \in Incidents
      BY <1>1, MainKeepsItsIncident DEF LockHeld
    <2> QED
      BY <1>2, <1>7, <2>1 DEF EvidenceInv, LockHeld
  <1>11. w.op \in {"diagnosis", "complete"} => GroundedNext(w.cur)
    BY <1>1, <1>7 DEF EvidenceInv
  <1>12. CASE w'.pc \in {"visit", "execute", "refresh"}
    BY <1>7, <1>9, <1>10, <1>12, EvidenceNext
  <1>13. CASE w.op = "hypothesis" /\ WorkerSaves /\ Prepared(w.cur, Saved)
    <2>1. /\ w'.pc = "load" /\ w'.cur = w.cur
          /\ w'.op \in {"hypothesis", "action", "diagnosis", "exhaust"}
          /\ w'.op = "hypothesis" => w'.arg \in trail[w.cur]
          /\ w'.op = "diagnosis" => Established(Saved)
      BY <1>13 DEF Prepared
    <2>2. ASSUME Established(Saved) PROVE GroundedNext(w.cur)
      <3>1. observed'[w.cur] \in Nat /\ executions'[w.cur] \in Nat
        BY <1>1, <1>2, Constants DEF TypeOK
      <3>2. IsFiniteSet(Gained(w', w.cur))
        BY GainedIsFinite
      <3> QED
        BY <1>8, <2>2, <3>1, <3>2, EstablishedIsGrounded DEF SoundNext, GroundedNext
    <2> QED
      BY <1>2, <1>7, <1>9, <1>10, <2>1, <2>2, EvidenceNext
  <1>14. CASE w'.pc = "load" /\ w'.op \in {"observation", "reference"}
    BY <1>7, <1>9, <1>10, <1>14, EvidenceNext
  <1>15. CASE w.op = "diagnosis" /\ w'.pc = "load" /\ w'.cur = w.cur /\ w'.op = "complete"
    BY <1>7, <1>9, <1>10, <1>11, <1>15, EvidenceNext
  <1>16. CASE w.op = "complete" /\ w'.pc = "handoff" /\ w'.cur = w.cur
    BY <1>7, <1>9, <1>10, <1>11, <1>16, EvidenceNext
  <1> QED
    BY <1>4, <1>12, <1>13, <1>14, <1>15, <1>16

LEMMA EffectsKeepEvidence ==
    ASSUME HandoffInv, EvidenceInv, Execute \/ Remediate \/ Resolve \/ Record
    PROVE  EvidenceInv'
  <1>1. /\ TypeOK /\ MainHolds /\ w.cur \in Incidents
        /\ UNCHANGED <<trail, observed, inv, m>>
    BY EffectsAre DEF HandoffInv
  <1>2. HandoffInv'
    BY WorkerKeepsHandoff DEF WorkerStep
  <1>3. \A i \in Incidents : observed[i] \in Nat /\ observed[i] <= observed'[i]
    BY <1>1, Constants DEF TypeOK
  <1>4. LockHeld => m.cur \in Incidents
    BY <1>1, MainKeepsItsIncident DEF LockHeld
  <1>5. CASE /\ w.pc \in {"remediate", "resolve", "record"} /\ executions' = executions
             /\ w'.pc \in {"visit", "resolve", "record"}
             /\ \/ remediations' = remediations
                \/ /\ w.pc = "remediate"
                   /\ remediations' = [remediations EXCEPT ![w.cur] = @ + 1]
    <2>1. /\ \A i \in Incidents : \A v : Sound(i, v) => SoundNext(i, v)
          /\ \A i \in Incidents : Grounded(i) => GroundedNext(i)
      <3>1. \A i \in Incidents : Gained(w', i) \subseteq Gained(w, i)
        BY <1>5 DEF Gained
      <3>2. TypeOK'
        BY <1>2 DEF HandoffInv
      <3>3. ASSUME NEW i \in Incidents, NEW v, Sound(i, v) PROVE SoundNext(i, v)
        BY <1>1, <1>3, <1>5, <3>1, <3>2, <3>3, SoundStays
      <3>4. ASSUME NEW i \in Incidents, Grounded(i) PROVE GroundedNext(i)
        BY <1>1, <1>5, <3>4 DEF Grounded, GroundedNext, Grounds
      <3> QED
        BY <3>3, <3>4
    <2>2. \A i \in Incidents : remediations'[i] > 0 => GroundedNext(i)
      <3>1. \A i \in Incidents : remediations[i] > 0 => Grounded(i)
        BY DEF EvidenceInv
      <3>2. w.pc = "remediate" => Grounded(w.cur)
        BY DEF EvidenceInv
      <3>3. remediations \in [Incidents -> Nat]
        BY <1>1 DEF TypeOK
      <3> QED
        BY <1>5, <2>1, <3>1, <3>2, <3>3
    <2> QED
      BY <1>1, <1>4, <1>5, <2>1, <2>2, EvidenceNext DEF EvidenceInv, LockHeld
  <1>6. CASE /\ w.pc = "execute" /\ executions' = [executions EXCEPT ![w.cur] = @ + 1]
             /\ remediations' = remediations
             /\ w'.pc = "load" /\ w'.op = "update" /\ w'.cur = w.cur /\ w'.arg = w.arg
    <2>1. \A i \in Incidents :
             /\ executions[i] \in Nat
             /\ executions'[i] = IF i = w.cur THEN executions[i] + 1 ELSE executions[i]
      BY <1>1, <1>6 DEF TypeOK
    <2>2. \A i \in Incidents :
             /\ Gained(w, i) = {}
             /\ Gained(w', i) = IF i = w.cur THEN {w.arg} ELSE {}
      BY <1>6 DEF Gained
    <2>3. ASSUME NEW i \in Incidents, NEW v, Sound(i, v) PROVE SoundNext(i, v)
      <3>1. Rests(v, trail[i], observed[i], executions[i], {})
        BY <2>2, <2>3 DEF Sound
      <3>2. CASE i = w.cur
        <4>1. Rests(v, trail[i], observed[i], executions[i] + 1, {w.arg})
          BY <1>3, <2>1, <3>1, Constants, OneMoreResult
        <4> QED
          BY <1>1, <2>1, <2>2, <3>2, <4>1 DEF SoundNext
      <3>3. CASE i # w.cur
        BY <1>1, <2>1, <2>2, <3>1, <3>3 DEF SoundNext
      <3> QED
        BY <3>2, <3>3
    <2>4. ASSUME NEW i \in Incidents, Grounded(i) PROVE GroundedNext(i)
      BY <1>1, <1>3, <2>1, <2>4, Constants DEF Grounded, GroundedNext, Grounds
    <2>5. \A i \in Incidents : remediations'[i] > 0 => GroundedNext(i)
      BY <1>6, <2>4 DEF EvidenceInv
    <2> QED
      BY <1>1, <1>4, <1>6, <2>3, <2>4, <2>5, EvidenceNext DEF EvidenceInv, LockHeld
  <1> QED
    BY <1>5, <1>6, EffectsAre

\* A stale save may drop references, and adds only an observation there was.
LEMMA RegisterKeepsEvidence ==
    ASSUME HandoffInv, EvidenceInv, RegisterStep \/ MainSaveFails
    PROVE  EvidenceInv'
  <1>1. /\ TypeOK /\ MainHolds /\ WorkerHolds /\ m.cur \in Incidents
        /\ UNCHANGED <<trail, observed, w, executions, remediations>>
        /\ inv \in [Incidents -> Investigation \cup {None}]
        /\ observed[m.cur] \in Nat /\ executions[m.cur] \in Nat
    BY RegisterIs, Constants DEF HandoffInv, TypeOK
  <1>2. HandoffInv'
    BY RegisterStepKeepsHandoff
  <1>3. \A i \in Incidents : observed[i] <= observed'[i] /\ Gained(w', i) = Gained(w, i)
    BY <1>1, Constants DEF TypeOK
  <1>4. /\ \A i \in Incidents : \A v : Sound(i, v) => SoundNext(i, v)
        /\ \A i \in Incidents : Grounded(i) => GroundedNext(i)
        /\ \A i \in Incidents : remediations'[i] > 0 => GroundedNext(i)
    BY <1>1, <1>2, <1>3, AllSoundStays
  <1>5. \A i \in Incidents : inv[i] # None => SoundNext(i, inv[i])
    BY <1>4 DEF EvidenceInv
  <1>6. \A i \in Incidents : inv'[i] # None => SoundNext(i, inv'[i])
    <2>1. CASE inv' = inv
      BY <1>5, <2>1
    <2>2. CASE inv[m.cur] = None /\ inv' = [inv EXCEPT ![m.cur] = NewInvestigation]
      <3>1. Gained(w', m.cur) = {}
        BY <1>1, <2>2 DEF Gained, WorkerHolds
      <3>2. SoundNext(m.cur, NewInvestigation)
        BY <1>1, <3>1, FS_EmptySet DEF SoundNext, Rests, NewInvestigation
      <3>3. \A i \in Incidents : inv'[i] = IF i = m.cur THEN NewInvestigation ELSE inv[i]
        BY <1>1, <2>2
      <3> QED
        BY <1>5, <3>2, <3>3
    <2>3. CASE m.pc \in {"observeSave", "referSave"} /\ MainWrites
      <3> DEFINE i == m.cur
                 g == Gained(w', i)
      <3>1. Rests(m.rec, trail'[i], observed'[i], executions'[i], g)
        BY <1>1, <1>4, <2>3 DEF EvidenceInv, LockHeld, SoundNext
      <3>2. /\ MainSaved.hyp = m.rec.hyp /\ MainSaved.results = m.rec.results
            /\ MainSaved.refs \subseteq m.rec.refs \cup {m.next}
            /\ MainSaved.diagnosed = m.rec.diagnosed /\ MainSaved.state = m.rec.state
        BY <1>1, <2>3, MainSavedIs
      <3>3. m.next \in 1 .. observed'[i]
        BY <1>1, <2>3, Constants DEF EvidenceInv, MainHolds, Evidence
      <3>4. MainSaved.refs \subseteq 1 .. observed'[i]
        BY <3>1, <3>2, <3>3 DEF Rests
      <3>5. SoundNext(i, MainSaved)
        BY <3>1, <3>2, <3>4 DEF Rests, SoundNext
      <3>6. \A j \in Incidents : inv'[j] = IF j = i THEN MainSaved ELSE inv[j]
        BY <1>1, <2>3 DEF MainWrites
      <3> QED
        BY <1>5, <3>5, <3>6
    <2> QED
      BY <2>1, <2>2, <2>3, RegisterIs
  <1>7. LockHeld' => SoundNext(m'.cur, m'.rec)
    <2> SUFFICES ASSUME LockHeld' PROVE SoundNext(m'.cur, m'.rec)
      OBVIOUS
    <2>1. m'.cur = m.cur /\ inv'[m.cur] # None
      BY RegisterIs, RegisterKeepsRecord
    <2>2. CASE m'.rec = inv'[m.cur]
      BY <1>1, <1>6, <2>1, <2>2
    <2>3. CASE LockHeld /\ m'.rec = m.rec
      BY <1>1, <1>4, <2>1, <2>3 DEF EvidenceInv
    <2> QED
      BY <2>2, <2>3, RegisterIs
  <1>8. m'.pc \in {"observeSave", "refer", "referSave"} => m'.next <= observed'[m'.cur]
    <2> SUFFICES ASSUME m'.pc \in {"observeSave", "refer", "referSave"}
                 PROVE  m'.next <= observed'[m'.cur]
      OBVIOUS
    <2>1. m'.cur = m.cur /\ m'.next = m.next
      BY RegisterIs
    <2>2. CASE m.pc \in {"observeSave", "refer"}
      BY <1>1, <2>1, <2>2 DEF EvidenceInv
    <2>3. CASE ~(m.next > observed[m.cur])
      <3>1. m.next \in Nat
        BY <1>1, Constants DEF TypeOK
      <3> QED
        BY <1>1, <2>1, <2>3, <3>1
    <2> QED
      BY <2>2, <2>3, RegisterIs
  <1>9. w.pc \notin {"idle", "visit"} => w.cur \in Incidents
    BY <1>1, WorkerCopy
  <1>10. /\ w'.pc = "save" => SoundNext(w'.cur, w'.rec)
         /\ w'.pc \in {"load", "save"} /\ w'.op = "hypothesis" => w'.arg \in trail'[w'.cur]
         /\ w'.pc \in {"load", "save"} /\ w'.op \in {"diagnosis", "complete"} =>
               GroundedNext(w'.cur)
         /\ w'.pc \in {"handoff", "remediate"} => GroundedNext(w'.cur)
    BY <1>1, <1>4, <1>9 DEF EvidenceInv
  <1> QED
    BY <1>4, <1>6, <1>7, <1>8, <1>10, EvidenceNext

LEMMA OthersKeepEvidence ==
    ASSUME HandoffInv, EvidenceInv, AppendEvidence \/ Sensor \/ Crash
    PROVE  EvidenceInv'
  <1>1. /\ UNCHANGED <<inv, executions, remediations>>
        /\ m'.pc \in {"idle", "append", "register"}
        /\ w' = w \/ w'.pc = "idle"
        /\ \A i \in Incidents : trail[i] \subseteq trail'[i] /\ observed[i] <= observed'[i]
    BY OthersAre
  <1>2. HandoffInv' /\ TypeOK /\ WorkerHolds
    BY AppendKeepsHandoff, SensorKeepsHandoff, CrashKeepsHandoff DEF HandoffInv
  <1>3. \A i \in Incidents : Gained(w', i) \subseteq Gained(w, i)
    BY <1>1 DEF Gained
  <1>4. /\ \A i \in Incidents : \A v : Sound(i, v) => SoundNext(i, v)
        /\ \A i \in Incidents : Grounded(i) => GroundedNext(i)
        /\ \A i \in Incidents : remediations'[i] > 0 => GroundedNext(i)
    BY <1>1, <1>2, <1>3, AllSoundStays
  <1>5. \A i \in Incidents : inv'[i] # None => SoundNext(i, inv'[i])
    BY <1>1, <1>4 DEF EvidenceInv
  <1>6. w.pc \notin {"idle", "visit"} => w.cur \in Incidents
    BY <1>2, WorkerCopy
  <1>7. CASE w'.pc = "idle"
    BY <1>1, <1>4, <1>5, <1>7, EvidenceNext DEF LockHeld
  <1>8. CASE w' = w
    <2>1. /\ w'.pc = "save" => SoundNext(w'.cur, w'.rec)
          /\ w'.pc \in {"load", "save"} /\ w'.op = "hypothesis" => w'.arg \in trail'[w'.cur]
          /\ w'.pc \in {"load", "save"} /\ w'.op \in {"diagnosis", "complete"} =>
                GroundedNext(w'.cur)
          /\ w'.pc \in {"handoff", "remediate"} => GroundedNext(w'.cur)
      BY <1>1, <1>4, <1>6, <1>8 DEF EvidenceInv
    <2> QED
      BY <1>1, <1>4, <1>5, <2>1, EvidenceNext DEF LockHeld
  <1> QED
    BY <1>1, <1>7, <1>8

LEMMA EvidenceStep == HandoffInv /\ EvidenceInv /\ [Next]_vars => EvidenceInv'
  <1> SUFFICES ASSUME HandoffInv, EvidenceInv, [Next]_vars PROVE EvidenceInv'
    OBVIOUS
  <1>1. CASE QuietWorker
    BY <1>1, QuietWorkerKeepsEvidence
  <1>2. CASE WorkerSaves \/ WorkerSaveFails
    BY <1>2, WorkerSavesKeepEvidence
  <1>3. CASE Execute \/ Remediate \/ Resolve \/ Record
    BY <1>3, EffectsKeepEvidence
  <1>4. CASE RegisterStep \/ MainSaveFails
    BY <1>4, RegisterKeepsEvidence
  <1>5. CASE AppendEvidence \/ Sensor \/ Crash
    BY <1>5, OthersKeepEvidence
  <1>6. CASE UNCHANGED vars
    BY <1>6 DEF vars, incidentVars, historyVars, EvidenceInv, Sound, Grounded, LockHeld, Rests,
                Gained, Grounds
  <1> QED
    BY <1>1, <1>2, <1>3, <1>4, <1>5, <1>6
    DEF Next, WorkerStep, QuietWorker, MainStep, Failure

----------------------------------------------------------------------------
(***************************************************************************)
(* The invariants of the two threads, and what they imply.                 *)
(***************************************************************************)
LEMMA AccountsInit == Init => ReservationInv /\ RemediationInv /\ EvidenceInv
  <1> SUFFICES ASSUME Init PROVE ReservationInv /\ RemediationInv /\ EvidenceInv
    OBVIOUS
  <1>1. /\ \A i \in Incidents : /\ inv[i] = None /\ executions[i] = 0
                                /\ remediations[i] = 0 /\ revived[i] = 0
        /\ w.pc = "idle" /\ m.pc = "idle"
    BY DEF Init, WorkerIdle, MainIdle
  <1>2. ReservationInv
    BY <1>1 DEF ReservationInv, LockHeld
  <1>3. RemediationInv
    BY <1>1 DEF RemediationInv, Chances, HandsOver
  <1>4. EvidenceInv
    BY <1>1 DEF EvidenceInv, LockHeld
  <1> QED
    BY <1>2, <1>3, <1>4

\* Whichever copy a save takes back, the account of the reservations is kept.
THEOREM ReservationInvariance == Spec => []ReservationInv
  BY HandoffInvariance, AccountsInit, ReservationStep, PTL DEF Spec

\* However the threads overwrite each other's saves, an investigation has one
\* chance of a remediation and one more for each time its end was undone.
THEOREM RemediationInvariance == Spec => []RemediationInv
  BY HandoffInvariance, AccountsInit, RemediationStep, PTL DEF Spec

\* No copy, stale or not, refers to an observation or a command there was not.
THEOREM EvidenceInvariance == Spec => []EvidenceInv
  BY HandoffInvariance, AccountsInit, EvidenceStep, PTL DEF Spec

\* Every command that ran is accounted for by the durable counters or by a
\* reservation that a stale save of register_incident took back, whatever
\* interleaves, crashes or fails.
THEOREM AccountedReservation == Spec => []ReservationIsAccounted
  <1>1. ReservationInv => ReservationIsAccounted
    BY DEF ReservationInv, Accounts, ReservationIsAccounted
  <1> QED
    BY <1>1, ReservationInvariance, PTL

\* No budget of actions, risk or repetitions is overrun by more commands than
\* stale saves took reservations back, for every value of the budgets.
THEOREM HardBudgets == Spec => []DiagnosticsOK
  <1>1. HandoffInv /\ ReservationInv => DiagnosticsOK
    <2> SUFFICES ASSUME HandoffInv, ReservationInv PROVE DiagnosticsOK
      OBVIOUS
    <2>1. TypeOK /\ CatalogSize * MaxRepeated \in Nat
      BY Constants DEF HandoffInv
    <2>2. ASSUME NEW i \in Incidents
          PROVE  /\ executions[i] <= MaxActions + lost[i]
                 /\ executions[i] <= MaxRisk + lost[i]
                 /\ executions[i] <= CatalogSize * MaxRepeated + lost[i]
      <3>1. CASE inv[i] = None
        BY <2>1, <3>1, Counted, Constants DEF ReservationInv
      <3>2. CASE inv[i] # None
        BY <2>1, <3>2, Counted, Constants DEF ReservationInv, Accounts, WithinBudgets
      <3> QED
        BY <3>1, <3>2
    <2> QED
      BY <2>1, <2>2 DEF DiagnosticsOK, BudgetIsHard
  <1> QED
    BY <1>1, HandoffInvariance, ReservationInvariance, PTL

\* An investigation leads to one remediation and to no other one unless a stale
\* save made it active again after its end, whatever crashes, raises or fails.
THEOREM OneRemediationPerEnd == Spec => []RemediatedOncePerEnd
  <1>1. HandoffInv /\ RemediationInv => RemediatedOncePerEnd
    <2> SUFFICES ASSUME HandoffInv, RemediationInv, NEW i \in Incidents
                 PROVE  remediations[i] <= 1 + revived[i]
      BY DEF RemediatedOncePerEnd
    <2>1. /\ remediations[i] \in Nat /\ revived[i] \in Nat
          /\ remediations[i] + Chances(i) <= 1 + revived[i]
      BY Counted DEF HandoffInv, RemediationInv
    <2>2. Chances(i) \in Nat
      BY DEF Chances
    <2> QED
      BY <2>1, <2>2
  <1> QED
    BY <1>1, HandoffInvariance, RemediationInvariance, PTL

\* A diagnosis is recorded, completed or acted upon only with an observation of
\* the dead pane and the minimum of evidence really collected, although the
\* threads overwrite each other's references.
THEOREM SupportedDiagnosis == Spec => []DiagnosisIsSupported
  <1>1. EvidenceInv => DiagnosisIsSupported
    BY DEF EvidenceInv, Sound, Rests, Grounded, Grounds, DiagnosisIsSupported
  <1> QED
    BY <1>1, EvidenceInvariance, PTL

=============================================================================
