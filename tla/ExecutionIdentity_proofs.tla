----------------------- MODULE ExecutionIdentity_proofs -----------------------
(***************************************************************************)
(* At most one effect per execution identity and per live run, for any     *)
(* callers, identities, runs and requests, with crashes, power losses and  *)
(* a recovery that may run at any time.                                    *)
(***************************************************************************)
EXTENDS ExecutionIdentity, TLAPS

----------------------------------------------------------------------------
(***************************************************************************)
(* Facts about one state.                                                  *)
(***************************************************************************)

\* A caller inside a call has a request, with an identity and contents.
LEMMA ActiveRequest ==
    ASSUME TypeOK, NEW p \in Callers, pc[p] # "idle"
    PROVE  /\ req[p] \in Requests
           /\ req[p] \in Request
           /\ Id(p) \in Ids
           /\ req[p].body \in Bodies
           /\ req[p].body # None
           /\ IsBound(p) => req[p].run \in Runs
  BY ConstantsAreTyped DEF TypeOK, Request, Id, IsBound

\* What a call returns is an answer when its identity has a record.
LEMMA AnswerType ==
    ASSUME TypeOK, NEW p \in Callers, pc[p] # "idle", state[Id(p)] # "ABSENT",
           NEW b \in BOOLEAN
    PROVE  AnswerOf(p, b) \in Answer
  <1>1. req[p] \in Requests /\ Id(p) \in Ids
    BY ActiveRequest
  <1>2. state[Id(p)] \in RecordState /\ bodyOf[Id(p)] \in Bodies
    BY <1>1 DEF TypeOK
  <1> QED
    BY <1>1, <1>2 DEF AnswerOf, Answer

----------------------------------------------------------------------------
(***************************************************************************)
(* Type correctness.                                                       *)
(***************************************************************************)

\* The calls' own variables stay typed when a call goes on or returns.
LEMMA GotoType ==
    ASSUME TypeOK, NEW p \in Callers, NEW l \in Pcs, pc[p] # "idle", Goto(p, l)
    PROVE  /\ pc' \in [Callers -> Pcs]
           /\ req' \in [Callers -> Requests \cup {None}]
           /\ \A q \in Callers : pc'[q] # "idle" => req'[q] # None
           /\ target' \in [Callers -> Terminal]
           /\ answer' \in [Callers -> Answer \cup {None}]
  BY DEF TypeOK, Goto

\* ... and when it returns.
LEMMA ReturnType ==
    ASSUME TypeOK, NEW p \in Callers, NEW a \in Answer \cup {None}, Return(p, a)
    PROVE  /\ pc' \in [Callers -> Pcs]
           /\ req' \in [Callers -> Requests \cup {None}]
           /\ \A q \in Callers : pc'[q] # "idle" => req'[q] # None
           /\ target' \in [Callers -> Terminal]
           /\ answer' \in [Callers -> Answer \cup {None}]
  BY DEF TypeOK, Return, Pcs, Terminal

(***************************************************************************)
(* A step preserves the type invariant; the ownership invariants are what  *)
(* makes the records that a call returns or a recovery replaces exist.     *)
(***************************************************************************)
LEMMA TypeStep ==
    ASSUME TypeOK, OwnerIsUnique, OwnerIsDurable, [Next]_vars
    PROVE  TypeOK'
  <1> USE DEF journalVars, permitVars, callerVars, effectVars
  <1>1. ASSUME NEW p \in Callers, Submit(p) PROVE TypeOK'
    BY <1>1, ConstantsAreTyped DEF TypeOK, Submit, Pcs, Request
  <1>2. ASSUME NEW p \in Callers, LinkPermit(p) PROVE TypeOK'
    <2>1. pc[p] # "idle" /\ Goto(p, "permitSync") /\ "permitSync" \in Pcs
      BY <1>2 DEF LinkPermit, Pcs, Owning, BeforeEffect, AfterEffect
    <2>2. /\ req[p] \in Requests /\ Id(p) \in Ids
          /\ req[p].body \in Bodies /\ req[p].body # None
          /\ IsBound(p) => req[p].run \in Runs
      BY <2>1, ActiveRequest
    <2> QED
      BY <1>2, <2>1, <2>2, GotoType DEF TypeOK, LinkPermit
  <1>3. ASSUME NEW p \in Callers, PermitExists(p) PROVE TypeOK'
    <2>1. pc[p] # "idle" /\ "replay" \in Pcs
      BY <1>3 DEF PermitExists, Pcs
    <2>2. CASE Goto(p, "replay")
      BY <1>3, <2>1, <2>2, GotoType DEF TypeOK, PermitExists
    <2>3. CASE Return(p, None)
      BY <1>3, <2>1, <2>3, ReturnType DEF TypeOK, PermitExists
    <2> QED
      BY <1>3, <2>2, <2>3 DEF PermitExists, Raised
  <1>4. ASSUME NEW p \in Callers, SyncPermit(p) PROVE TypeOK'
    <2>1. pc[p] # "idle" /\ Goto(p, "stage") /\ "stage" \in Pcs
      BY <1>4 DEF SyncPermit, Pcs, Owning, BeforeEffect, AfterEffect
    <2>2. /\ req[p] \in Requests /\ Id(p) \in Ids
          /\ req[p].body \in Bodies /\ req[p].body # None
          /\ IsBound(p) => req[p].run \in Runs
      BY <2>1, ActiveRequest
    <2> QED
      BY <1>4, <2>1, <2>2, GotoType DEF TypeOK, SyncPermit
  <1>5. ASSUME NEW p \in Callers, ReplayPermit(p) PROVE TypeOK'
    <2>1. pc[p] # "idle"
      BY <1>5 DEF ReplayPermit
    <2>2. /\ req[p] \in Requests /\ Id(p) \in Ids
          /\ req[p].body \in Bodies /\ req[p].body # None
          /\ IsBound(p) => req[p].run \in Runs
      BY <2>1, ActiveRequest
    <2>3. PICK a \in Answer \cup {None} : Return(p, a)
      BY <1>5, <2>1, AnswerType DEF ReplayPermit, Raised
    <2> QED
      BY <1>5, <2>2, <2>3, ReturnType DEF TypeOK, ReplayPermit
  <1>6. ASSUME NEW p \in Callers, Stage(p) PROVE TypeOK'
    <2>1. pc[p] # "idle" /\ Goto(p, "publish") /\ "publish" \in Pcs
      BY <1>6 DEF Stage, Pcs, Owning, BeforeEffect, AfterEffect
    <2>2. /\ req[p] \in Requests /\ Id(p) \in Ids
          /\ req[p].body \in Bodies /\ req[p].body # None
          /\ IsBound(p) => req[p].run \in Runs
      BY <2>1, ActiveRequest
    <2> QED
      BY <1>6, <2>1, <2>2, GotoType DEF TypeOK, Stage
  <1>7. ASSUME NEW p \in Callers, Publish(p) PROVE TypeOK'
    <2>1. pc[p] # "idle" /\ Goto(p, "rootSync") /\ "rootSync" \in Pcs
      BY <1>7 DEF Publish, Pcs, Owning, BeforeEffect, AfterEffect
    <2>2. /\ req[p] \in Requests /\ Id(p) \in Ids
          /\ req[p].body \in Bodies /\ req[p].body # None
          /\ IsBound(p) => req[p].run \in Runs
      BY <2>1, ActiveRequest
    <2> QED
      BY <1>7, <2>1, <2>2, GotoType DEF TypeOK, Publish, RecordState
  <1>8. ASSUME NEW p \in Callers, LosePublication(p) PROVE TypeOK'
    <2>1. pc[p] # "idle" /\ Goto(p, "poll") /\ "poll" \in Pcs
      BY <1>8 DEF LosePublication, Pcs, Owning, BeforeEffect, AfterEffect
    <2>2. /\ req[p] \in Requests /\ Id(p) \in Ids
          /\ req[p].body \in Bodies /\ req[p].body # None
          /\ IsBound(p) => req[p].run \in Runs
      BY <2>1, ActiveRequest
    <2> QED
      BY <1>8, <2>1, <2>2, GotoType DEF TypeOK, LosePublication
  <1>9. ASSUME NEW p \in Callers, PollReplay(p) PROVE TypeOK'
    <2>1. pc[p] # "idle"
      BY <1>9 DEF PollReplay
    <2>2. /\ req[p] \in Requests /\ Id(p) \in Ids
          /\ req[p].body \in Bodies /\ req[p].body # None
          /\ IsBound(p) => req[p].run \in Runs
      BY <2>1, ActiveRequest
    <2>3. PICK a \in Answer \cup {None} : Return(p, a)
      BY <1>9, <2>1, AnswerType DEF PollReplay, Raised, Terminal
    <2> QED
      BY <1>9, <2>2, <2>3, ReturnType DEF TypeOK, PollReplay
  <1>10. ASSUME NEW p \in Callers, PollTimeout(p) PROVE TypeOK'
    <2>1. pc[p] # "idle"
      BY <1>10 DEF PollTimeout
    <2>2. /\ req[p] \in Requests /\ Id(p) \in Ids
          /\ req[p].body \in Bodies /\ req[p].body # None
          /\ IsBound(p) => req[p].run \in Runs
      BY <2>1, ActiveRequest
    <2>3. PICK a \in Answer \cup {None} : Return(p, a)
      BY <1>10, <2>1, AnswerType DEF PollTimeout, Raised
    <2> QED
      BY <1>10, <2>2, <2>3, ReturnType DEF TypeOK, PollTimeout
  <1>11. ASSUME NEW p \in Callers, SyncRoot(p) PROVE TypeOK'
    <2>1. pc[p] # "idle" /\ Goto(p, "start") /\ "start" \in Pcs
      BY <1>11 DEF SyncRoot, Pcs, Owning, BeforeEffect, AfterEffect
    <2>2. /\ req[p] \in Requests /\ Id(p) \in Ids
          /\ req[p].body \in Bodies /\ req[p].body # None
          /\ IsBound(p) => req[p].run \in Runs
      BY <2>1, ActiveRequest
    <2> QED
      BY <1>11, <2>1, <2>2, GotoType DEF TypeOK, SyncRoot
  <1>12. ASSUME NEW p \in Callers, StartRead(p) PROVE TypeOK'
    <2>1. pc[p] # "idle" /\ "startWrite" \in Pcs
      BY <1>12 DEF StartRead, Pcs, Owning, BeforeEffect
    <2>2. CASE Goto(p, "startWrite")
      BY <1>12, <2>1, <2>2, GotoType DEF TypeOK, StartRead
    <2>3. CASE Return(p, None)
      BY <1>12, <2>1, <2>3, ReturnType DEF TypeOK, StartRead
    <2> QED
      BY <1>12, <2>2, <2>3 DEF StartRead, Raised
  <1>13. ASSUME NEW p \in Callers, StartWrite(p) PROVE TypeOK'
    <2>1. pc[p] # "idle" /\ Goto(p, "startSync") /\ "startSync" \in Pcs
      BY <1>13 DEF StartWrite, Pcs, Owning, BeforeEffect, AfterEffect
    <2>2. /\ req[p] \in Requests /\ Id(p) \in Ids
          /\ req[p].body \in Bodies /\ req[p].body # None
          /\ IsBound(p) => req[p].run \in Runs
      BY <2>1, ActiveRequest
    <2>3. state[Id(p)] # "ABSENT"
      BY <1>13 DEF StartWrite, OwnerIsUnique, Owning, BeforeEffect, AfterEffect
    <2> QED
      BY <1>13, <2>1, <2>2, <2>3, GotoType DEF TypeOK, StartWrite, RecordState
  <1>14. ASSUME NEW p \in Callers, StartSync(p) PROVE TypeOK'
    <2>1. pc[p] # "idle" /\ Goto(p, "effect") /\ "effect" \in Pcs
      BY <1>14 DEF StartSync, Pcs, Owning, BeforeEffect, AfterEffect
    <2>2. /\ req[p] \in Requests /\ Id(p) \in Ids
          /\ req[p].body \in Bodies /\ req[p].body # None
          /\ IsBound(p) => req[p].run \in Runs
      BY <2>1, ActiveRequest
    <2> QED
      BY <1>14, <2>1, <2>2, GotoType DEF TypeOK, StartSync
  <1>15. ASSUME NEW p \in Callers, BeginEffect(p) PROVE TypeOK'
    <2>1. pc[p] # "idle" /\ Goto(p, "executing") /\ "executing" \in Pcs
      BY <1>15 DEF BeginEffect, Pcs, Owning, BeforeEffect, AfterEffect
    <2>4. Id(p) \in Ids /\ (IsBound(p) => req[p].run \in Runs)
      BY <2>1, ActiveRequest
    <2>2. effects' \in [Ids -> Nat]
      BY <1>15, <2>4 DEF BeginEffect, TypeOK
    <2>3. runEffects' \in [Runs -> Nat]
      BY <1>15, <2>4 DEF BeginEffect, TypeOK
    <2> QED
      BY <1>15, <2>1, <2>2, <2>3, GotoType DEF TypeOK, BeginEffect
  <1>16. ASSUME NEW p \in Callers, EndEffect(p) PROVE TypeOK'
    BY <1>16 DEF TypeOK, EndEffect, Pcs, Owning, AfterEffect
  <1>17. ASSUME NEW p \in Callers, FinishRead(p) PROVE TypeOK'
    <2>1. pc[p] # "idle" /\ "finishWrite" \in Pcs /\ "finish" \in Pcs /\ state[Id(p)] # "ABSENT"
      BY <1>17 DEF FinishRead, Pcs, OwnerIsUnique, Owning, BeforeEffect, AfterEffect
    <2>2. CASE Goto(p, "finishWrite")
      BY <1>17, <2>1, <2>2, GotoType DEF TypeOK, FinishRead
    <2>3. CASE Return(p, FinishedAnswer(p))
      <3>1. FinishedAnswer(p) \in Answer \cup {None}
        BY <2>1, AnswerType DEF FinishedAnswer, Raised
      <3> QED
        BY <1>17, <2>3, <3>1, ReturnType DEF TypeOK, FinishRead
    <2>4. CASE HandleException(p)
      BY <1>17, <2>1, <2>4 DEF TypeOK, FinishRead, HandleException, Terminal
    <2> QED
      BY <1>17, <2>2, <2>3, <2>4 DEF FinishRead
  <1>18. ASSUME NEW p \in Callers, FinishWrite(p) PROVE TypeOK'
    <2>1. pc[p] # "idle" /\ Goto(p, "finishSync") /\ "finishSync" \in Pcs
      BY <1>18 DEF FinishWrite, Pcs, Owning, BeforeEffect, AfterEffect
    <2>2. /\ req[p] \in Requests /\ Id(p) \in Ids
          /\ req[p].body \in Bodies /\ req[p].body # None
          /\ IsBound(p) => req[p].run \in Runs
      BY <2>1, ActiveRequest
    <2>3. state[Id(p)] # "ABSENT"
      BY <1>18 DEF FinishWrite, OwnerIsUnique, Owning, BeforeEffect, AfterEffect
    <2> QED
      BY <1>18, <2>1, <2>2, <2>3, GotoType DEF TypeOK, FinishWrite, RecordState, Terminal
  <1>19. ASSUME NEW p \in Callers, FinishSync(p) PROVE TypeOK'
    <2>1. pc[p] # "idle" /\ state[Id(p)] # "ABSENT"
      BY <1>19 DEF FinishSync, OwnerIsUnique, Owning, BeforeEffect, AfterEffect
    <2>2. Id(p) \in Ids
      BY <2>1, ActiveRequest
    <2>3. FinishedAnswer(p) \in Answer \cup {None}
      BY <2>1, AnswerType DEF FinishedAnswer, Raised
    <2> QED
      BY <1>19, <2>2, <2>3, ReturnType DEF TypeOK, FinishSync
  <1>20. ASSUME NEW p \in Callers, FailBeforeEffect(p) PROVE TypeOK'
    <2>1. Return(p, None)
      BY <1>20 DEF FailBeforeEffect, Raised
    <2> QED
      BY <1>20, <2>1, ReturnType DEF TypeOK, FailBeforeEffect
  <1>21. ASSUME NEW p \in Callers, FailAfterEffect(p) PROVE TypeOK'
    <2>1. CASE Return(p, None)
      BY <1>21, <2>1, ReturnType DEF TypeOK, FailAfterEffect
    <2>2. CASE HandleException(p)
      BY <1>21, <2>2 DEF TypeOK, FailAfterEffect, HandleException, Terminal,
                       Pcs, Owning, AfterEffect
    <2> QED
      BY <1>21, <2>1, <2>2 DEF FailAfterEffect, Raised
  <1>22. ASSUME NEW p \in Callers, Crash(p) PROVE TypeOK'
    <2>1. pc[p] # "idle" /\ Return(p, None)
      BY <1>22 DEF Crash
    <2>2. Id(p) \in Ids
      BY <2>1, ActiveRequest
    <2> QED
      BY <1>22, <2>1, <2>2, ReturnType DEF TypeOK, Crash
  <1>23. ASSUME PowerLoss PROVE TypeOK'
    <2>1. LiveTemps \subseteq Ids
      BY ActiveRequest DEF LiveTemps
    <2>2. /\ bodyOf' \in [Ids -> Bodies \cup {None}]
          /\ \A i \in Ids : state'[i] = "ABSENT" <=> bodyOf'[i] = None
      BY <1>23 DEF PowerLoss, TypeOK, Survivors, OwnerIsDurable
    <2>3. pc' \in [Callers -> Pcs] /\ target' \in [Callers -> Terminal]
      BY <1>23 DEF PowerLoss, Pcs, Terminal
    <2>4. recovery' \in [pc : {"off", "scan", "read", "write", "sync"},
                        todo : SUBSET Entry, cur : Ids \cup {None}]
      BY <1>23 DEF PowerLoss, RecoveryOff
    <2> QED
      BY <1>23, <2>1, <2>2, <2>3, <2>4 DEF TypeOK, PowerLoss, RecoveryOff
  <1>24. ASSUME RecoverBegin PROVE TypeOK'
    <2>1. LiveTemps \subseteq Ids
      BY ActiveRequest DEF LiveTemps
    <2> QED
      BY <1>24, <2>1 DEF TypeOK, RecoverBegin, Entry
  <1>25. ASSUME RecoverVisit PROVE TypeOK'
    BY <1>25, ConstantsAreTyped DEF TypeOK, RecoverVisit, Entry
  <1>26. ASSUME RecoverRead PROVE TypeOK'
    BY <1>26 DEF TypeOK, RecoverRead
  <1>27. ASSUME RecoverAbort PROVE TypeOK'
    BY <1>27 DEF TypeOK, RecoverAbort, RecoveryOff
  <1>28. ASSUME RecoverWrite PROVE TypeOK'
    BY <1>28 DEF TypeOK, RecoverWrite, RecordState, Terminal, OwnerIsDurable
  <1>29. ASSUME RecoverSync PROVE TypeOK'
    BY <1>29 DEF TypeOK, RecoverSync
  <1>30. ASSUME RecoverEnd PROVE TypeOK'
    BY <1>30 DEF TypeOK, RecoverEnd, RecoveryOff
  <1>31. ASSUME RecoverCrash PROVE TypeOK'
    BY <1>31 DEF TypeOK, RecoverCrash, RecoveryOff
  <1>32. ASSUME UNCHANGED vars PROVE TypeOK'
    BY <1>32 DEF TypeOK, vars
  <1> QED
    BY <1>1, <1>2, <1>3, <1>4, <1>5, <1>6, <1>7, <1>8, <1>9, <1>10, <1>11, <1>12, <1>13, <1>14, <1>15, <1>16, <1>17, <1>18, <1>19, <1>20, <1>21, <1>22, <1>23, <1>24, <1>25, <1>26, <1>27, <1>28, <1>29, <1>30, <1>31, <1>32
    DEF Next, Step, Fault, Recover

----------------------------------------------------------------------------
(***************************************************************************)
(* Ownership of an identity.                                               *)
(***************************************************************************)
OwnerInv ==
    /\ OwnerIsUnique
    /\ OwnerIsDurable
    /\ EffectIsFirst
    /\ AnnouncedBeforeEffect
    /\ EffectAtMostOncePerIdentity

\* Only the call of p changes.
OnlyCall(p) == \A q \in Callers \ {p} : pc'[q] = pc[q] /\ req'[q] = req[q]

\* Moving one call on leaves the other calls where they are.
LEMMA GotoFrame ==
    ASSUME TypeOK, NEW p \in Callers, NEW l, Goto(p, l)
    PROVE  OnlyCall(p) /\ req' = req /\ pc'[p] = l
  BY DEF TypeOK, Goto, OnlyCall

\* Returning from one call leaves the other calls where they are.
LEMMA ReturnFrame ==
    ASSUME TypeOK, NEW p \in Callers, NEW a, Return(p, a)
    PROVE  OnlyCall(p) /\ pc'[p] = "idle"
  BY DEF TypeOK, Return, OnlyCall

\* A step of one call that leaves the identities alone, and takes the call
\* either out of ownership or to a point where no more is required of it.
LEMMA QuietStep ==
    ASSUME TypeOK, OwnerInv, NEW p \in Callers, OnlyCall(p),
           UNCHANGED <<state, diskState, linked, effects, recovery>>,
           \/ pc'[p] \notin Owning
           \/ /\ req'[p] = req[p]
              /\ \/ pc[p] = "start" /\ pc'[p] = "startWrite"
                 \/ pc[p] \in AfterEffect /\ pc'[p] \in AfterEffect
    PROVE  OwnerInv'
  <1> USE DEF Owning, BeforeEffect, AfterEffect
  <1>1. OwnerIsUnique'
    BY DEF OwnerInv, OwnerIsUnique, OnlyCall, Id
  <1>2. OwnerIsDurable'
    BY DEF OwnerInv, OwnerIsDurable, OnlyCall, Id
  <1>3. EffectIsFirst'
    BY DEF OwnerInv, EffectIsFirst, OnlyCall, Id
  <1>4. AnnouncedBeforeEffect' /\ EffectAtMostOncePerIdentity'
    BY DEF OwnerInv, AnnouncedBeforeEffect, EffectAtMostOncePerIdentity
  <1> QED
    BY <1>1, <1>2, <1>3, <1>4 DEF OwnerInv

\* A step of the recovery that only moves on.
LEMMA QuietRecovery ==
    ASSUME TypeOK, OwnerInv, UNCHANGED <<journalVars, callerVars, effectVars>>,
           recovery'.pc \in {"write", "sync"} => state[recovery'.cur] # "ABSENT"
    PROVE  OwnerInv'
  BY DEF OwnerInv, OwnerIsUnique, OwnerIsDurable, EffectIsFirst, Id,
         AnnouncedBeforeEffect, EffectAtMostOncePerIdentity, journalVars,
         callerVars, effectVars

\* The publication makes its caller the only owner of the identity (claim).
LEMMA PublishOwns ==
    ASSUME TypeOK, OwnerInv, NEW p \in Callers, Publish(p)
    PROVE  OwnerInv'
  <1> USE DEF Owning, BeforeEffect, AfterEffect, journalVars, permitVars, effectVars
  <1>1. pc[p] = "publish" /\ pc'[p] = "rootSync" /\ req' = req /\ OnlyCall(p)
    BY GotoFrame DEF Publish
  <1>2. Id(p) \in Ids /\ \A q \in Callers : Id(q)' = Id(q)
    BY <1>1, ActiveRequest DEF Id
  <1>3. OwnerIsUnique'
    BY <1>1, <1>2 DEF Publish, OwnerInv, OwnerIsUnique, OnlyCall, TypeOK
  <1>4. OwnerIsDurable'
    BY <1>1, <1>2 DEF Publish, OwnerInv, OwnerIsDurable, OwnerIsUnique, OnlyCall, TypeOK
  <1>5. EffectIsFirst'
    BY <1>1, <1>2 DEF Publish, OwnerInv, OwnerIsUnique, EffectIsFirst, OnlyCall, TypeOK, AnnouncedBeforeEffect
  <1>6. AnnouncedBeforeEffect' /\ EffectAtMostOncePerIdentity'
    BY <1>1, <1>2 DEF Publish, OwnerInv, OwnerIsUnique, OwnerIsDurable, EffectIsFirst, AnnouncedBeforeEffect,
                      EffectAtMostOncePerIdentity, TypeOK
  <1> QED
    BY <1>3, <1>4, <1>5, <1>6 DEF OwnerInv

\* The fsync of the journal root makes every published identity durable (claim).
LEMMA SyncRootOwns ==
    ASSUME TypeOK, OwnerInv, NEW p \in Callers, SyncRoot(p)
    PROVE  OwnerInv'
  <1> USE DEF Owning, BeforeEffect, AfterEffect, journalVars, permitVars, effectVars
  <1>1. pc[p] = "rootSync" /\ pc'[p] = "start" /\ req' = req /\ OnlyCall(p)
    BY GotoFrame DEF SyncRoot
  <1>2. Id(p) \in Ids /\ \A q \in Callers : Id(q)' = Id(q)
    BY <1>1, ActiveRequest DEF Id
  <1>3. OwnerIsUnique'
    BY <1>1, <1>2 DEF SyncRoot, OwnerInv, OwnerIsUnique, OnlyCall, TypeOK
  <1>4. OwnerIsDurable'
    BY <1>1, <1>2 DEF SyncRoot, OwnerInv, OwnerIsDurable, OwnerIsUnique, OnlyCall, TypeOK
  <1>5. EffectIsFirst'
    BY <1>1, <1>2 DEF SyncRoot, OwnerInv, OwnerIsUnique, EffectIsFirst, OnlyCall, TypeOK, AnnouncedBeforeEffect
  <1>6. AnnouncedBeforeEffect' /\ EffectAtMostOncePerIdentity'
    BY <1>1, <1>2 DEF SyncRoot, OwnerInv, OwnerIsUnique, OwnerIsDurable, EffectIsFirst, AnnouncedBeforeEffect,
                      EffectAtMostOncePerIdentity, TypeOK
  <1> QED
    BY <1>3, <1>4, <1>5, <1>6 DEF OwnerInv

\* The RUNNING record is visible before it is durable (transition).
LEMMA StartWriteOwns ==
    ASSUME TypeOK, OwnerInv, NEW p \in Callers, StartWrite(p)
    PROVE  OwnerInv'
  <1> USE DEF Owning, BeforeEffect, AfterEffect, journalVars, permitVars, effectVars
  <1>1. pc[p] = "startWrite" /\ pc'[p] = "startSync" /\ req' = req /\ OnlyCall(p)
    BY GotoFrame DEF StartWrite
  <1>2. Id(p) \in Ids /\ \A q \in Callers : Id(q)' = Id(q)
    BY <1>1, ActiveRequest DEF Id
  <1>3. OwnerIsUnique'
    BY <1>1, <1>2 DEF StartWrite, OwnerInv, OwnerIsUnique, OnlyCall, TypeOK
  <1>4. OwnerIsDurable'
    BY <1>1, <1>2 DEF StartWrite, OwnerInv, OwnerIsDurable, OwnerIsUnique, OnlyCall, TypeOK
  <1>5. EffectIsFirst'
    BY <1>1, <1>2 DEF StartWrite, OwnerInv, OwnerIsUnique, EffectIsFirst, OnlyCall, TypeOK, AnnouncedBeforeEffect
  <1>6. AnnouncedBeforeEffect' /\ EffectAtMostOncePerIdentity'
    BY <1>1, <1>2 DEF StartWrite, OwnerInv, OwnerIsUnique, OwnerIsDurable, EffectIsFirst, AnnouncedBeforeEffect,
                      EffectAtMostOncePerIdentity, TypeOK
  <1> QED
    BY <1>3, <1>4, <1>5, <1>6 DEF OwnerInv

\* The RUNNING record is durable when its transition returns (transition).
LEMMA StartSyncOwns ==
    ASSUME TypeOK, OwnerInv, NEW p \in Callers, StartSync(p)
    PROVE  OwnerInv'
  <1> USE DEF Owning, BeforeEffect, AfterEffect, journalVars, permitVars, effectVars
  <1>1. pc[p] = "startSync" /\ pc'[p] = "effect" /\ req' = req /\ OnlyCall(p)
    BY GotoFrame DEF StartSync
  <1>2. Id(p) \in Ids /\ \A q \in Callers : Id(q)' = Id(q)
    BY <1>1, ActiveRequest DEF Id
  <1>3. OwnerIsUnique'
    BY <1>1, <1>2 DEF StartSync, OwnerInv, OwnerIsUnique, OnlyCall, TypeOK
  <1>4. OwnerIsDurable'
    BY <1>1, <1>2 DEF StartSync, OwnerInv, OwnerIsDurable, OwnerIsUnique, OnlyCall, TypeOK
  <1>5. EffectIsFirst'
    BY <1>1, <1>2 DEF StartSync, OwnerInv, OwnerIsUnique, EffectIsFirst, OnlyCall, TypeOK, AnnouncedBeforeEffect
  <1>6. AnnouncedBeforeEffect' /\ EffectAtMostOncePerIdentity'
    BY <1>1, <1>2 DEF StartSync, OwnerInv, OwnerIsUnique, OwnerIsDurable, EffectIsFirst, AnnouncedBeforeEffect,
                      EffectAtMostOncePerIdentity, TypeOK
  <1> QED
    BY <1>3, <1>4, <1>5, <1>6 DEF OwnerInv

\* The effect of an owner is the first one of its identity (execute).
LEMMA BeginEffectOwns ==
    ASSUME TypeOK, OwnerInv, NEW p \in Callers, BeginEffect(p)
    PROVE  OwnerInv'
  <1> USE DEF Owning, BeforeEffect, AfterEffect, journalVars, permitVars, effectVars
  <1>1. pc[p] = "effect" /\ pc'[p] = "executing" /\ req' = req /\ OnlyCall(p)
    BY GotoFrame DEF BeginEffect
  <1>2. Id(p) \in Ids /\ \A q \in Callers : Id(q)' = Id(q)
    BY <1>1, ActiveRequest DEF Id
  <1>3. OwnerIsUnique'
    BY <1>1, <1>2 DEF BeginEffect, OwnerInv, OwnerIsUnique, OnlyCall, TypeOK
  <1>4. OwnerIsDurable'
    BY <1>1, <1>2 DEF BeginEffect, OwnerInv, OwnerIsDurable, OwnerIsUnique, OnlyCall, TypeOK
  <1>5. EffectIsFirst'
    BY <1>1, <1>2 DEF BeginEffect, OwnerInv, OwnerIsUnique, EffectIsFirst, OnlyCall, TypeOK, AnnouncedBeforeEffect
  <1>6. AnnouncedBeforeEffect' /\ EffectAtMostOncePerIdentity'
    BY <1>1, <1>2 DEF BeginEffect, OwnerInv, OwnerIsUnique, OwnerIsDurable, EffectIsFirst, AnnouncedBeforeEffect,
                      EffectAtMostOncePerIdentity, TypeOK
  <1> QED
    BY <1>3, <1>4, <1>5, <1>6 DEF OwnerInv

\* The outcome replaces a RUNNING record (transition).
LEMMA FinishWriteOwns ==
    ASSUME TypeOK, OwnerInv, NEW p \in Callers, FinishWrite(p)
    PROVE  OwnerInv'
  <1> USE DEF Owning, BeforeEffect, AfterEffect, journalVars, permitVars, effectVars
  <1>1. pc[p] = "finishWrite" /\ pc'[p] = "finishSync" /\ req' = req /\ OnlyCall(p)
    BY GotoFrame DEF FinishWrite
  <1>2. Id(p) \in Ids /\ \A q \in Callers : Id(q)' = Id(q)
    BY <1>1, ActiveRequest DEF Id
  <1>3. OwnerIsUnique'
    BY <1>1, <1>2 DEF FinishWrite, OwnerInv, OwnerIsUnique, OnlyCall, TypeOK, Terminal, RecordState
  <1>4. OwnerIsDurable'
    BY <1>1, <1>2 DEF FinishWrite, OwnerInv, OwnerIsDurable, OwnerIsUnique, OnlyCall, TypeOK, Terminal, RecordState
  <1>5. EffectIsFirst'
    BY <1>1, <1>2 DEF FinishWrite, OwnerInv, OwnerIsUnique, EffectIsFirst, OnlyCall, TypeOK, AnnouncedBeforeEffect, Terminal, RecordState
  <1>6. AnnouncedBeforeEffect' /\ EffectAtMostOncePerIdentity'
    BY <1>1, <1>2 DEF FinishWrite, OwnerInv, OwnerIsUnique, OwnerIsDurable, EffectIsFirst, AnnouncedBeforeEffect,
                      EffectAtMostOncePerIdentity, TypeOK, Terminal, RecordState
  <1> QED
    BY <1>3, <1>4, <1>5, <1>6 DEF OwnerInv

\* The outcome is durable when its transition returns (transition).
LEMMA FinishSyncOwns ==
    ASSUME TypeOK, OwnerInv, NEW p \in Callers, FinishSync(p)
    PROVE  OwnerInv'
  <1> USE DEF Owning, BeforeEffect, AfterEffect, journalVars, permitVars, effectVars
  <1>1. pc[p] = "finishSync" /\ pc'[p] = "idle" /\ OnlyCall(p)
    BY ReturnFrame DEF FinishSync
  <1>2. Id(p) \in Ids /\ state[Id(p)] \notin {"ABSENT", "CLAIMED"}
    BY <1>1, ActiveRequest DEF OwnerInv, OwnerIsUnique, OwnerIsDurable
  <1>3. OwnerIsUnique'
    BY <1>1, <1>2 DEF FinishSync, OwnerInv, OwnerIsUnique, OnlyCall, TypeOK, Id
  <1>4. OwnerIsDurable'
    BY <1>1, <1>2 DEF FinishSync, OwnerInv, OwnerIsDurable, OwnerIsUnique, OnlyCall, TypeOK, Id
  <1>5. EffectIsFirst'
    BY <1>1, <1>2 DEF FinishSync, OwnerInv, EffectIsFirst, OnlyCall, TypeOK, Id
  <1>6. AnnouncedBeforeEffect' /\ EffectAtMostOncePerIdentity'
    BY <1>1, <1>2 DEF FinishSync, OwnerInv, AnnouncedBeforeEffect,
                      EffectAtMostOncePerIdentity, TypeOK
  <1> QED
    BY <1>3, <1>4, <1>5, <1>6 DEF OwnerInv

\* A power loss forgets no identity whose effect may have happened.
LEMMA PowerLossOwns ==
    ASSUME TypeOK, OwnerInv, PowerLoss
    PROVE  OwnerInv'
  <1> USE DEF Owning, BeforeEffect, AfterEffect
  <1>1. \A p \in Callers : pc'[p] = "idle"
    BY DEF PowerLoss
  <1>2. recovery'.pc = "off"
    BY DEF PowerLoss, RecoveryOff
  <1>3. \A i \in Ids : effects[i] > 0 =>
            i \in linked' /\ state'[i] \notin {"ABSENT", "CLAIMED"}
    BY DEF PowerLoss, Survivors, OwnerInv, AnnouncedBeforeEffect
  <1>4. OwnerIsUnique' /\ OwnerIsDurable' /\ EffectIsFirst'
    BY <1>1, <1>2 DEF OwnerIsUnique, OwnerIsDurable, EffectIsFirst, PowerLoss
  <1>5. AnnouncedBeforeEffect' /\ EffectAtMostOncePerIdentity'
    BY <1>3 DEF AnnouncedBeforeEffect, EffectAtMostOncePerIdentity, OwnerInv,
                PowerLoss, effectVars
  <1> QED
    BY <1>4, <1>5 DEF OwnerInv

\* No step of the recovery reopens an identity (recover_interrupted).
LEMMA RecoveryOwns ==
    ASSUME TypeOK, OwnerInv, RecoverBegin \/ Recover \/ RecoverCrash
    PROVE  OwnerInv'
  <1> USE DEF journalVars, permitVars, callerVars, effectVars
  <1>1. CASE RecoverBegin
    BY <1>1, QuietRecovery DEF RecoverBegin
  <1>2. CASE RecoverVisit
    BY <1>2, QuietRecovery DEF RecoverVisit
  <1>3. CASE RecoverRead
    BY <1>3, QuietRecovery DEF RecoverRead, TypeOK
  <1>4. CASE RecoverAbort
    BY <1>4, QuietRecovery DEF RecoverAbort, RecoveryOff
  <1>5. CASE RecoverWrite
    <2>1. /\ recovery.cur \in Ids /\ recovery'.cur = recovery.cur
          /\ recovery'.pc = "sync" /\ state[recovery.cur] # "ABSENT"
      BY <1>5 DEF RecoverWrite, TypeOK, OwnerInv, OwnerIsDurable
    <2>2. /\ \A i \in Ids : state'[i] = IF i = recovery.cur THEN "UNKNOWN" ELSE state[i]
          /\ UNCHANGED <<diskState, linked, pc, req, effects>>
      BY <1>5, <2>1 DEF RecoverWrite, TypeOK
    <2>3. \A p \in Callers : pc[p] \in Owning => Id(p) \in Ids
      BY ActiveRequest DEF Owning, BeforeEffect, AfterEffect
    <2>4. OwnerIsUnique'
      BY <2>2, <2>3 DEF OwnerInv, OwnerIsUnique, Id
    <2>5. OwnerIsDurable'
      BY <2>1, <2>2, <2>3 DEF OwnerInv, OwnerIsDurable, Id, TypeOK, Owning,
                              BeforeEffect, AfterEffect
    <2>6. EffectIsFirst' /\ AnnouncedBeforeEffect' /\ EffectAtMostOncePerIdentity'
      BY <2>2 DEF OwnerInv, EffectIsFirst, AnnouncedBeforeEffect, Id,
                  EffectAtMostOncePerIdentity
    <2> QED
      BY <2>4, <2>5, <2>6 DEF OwnerInv
  <1>6. CASE RecoverSync
    <2>1. /\ recovery.cur \in Ids /\ recovery'.pc = "scan"
          /\ state[recovery.cur] # "ABSENT"
      BY <1>6 DEF RecoverSync, TypeOK, OwnerInv, OwnerIsDurable
    <2>2. /\ \A i \in Ids : diskState'[i] = IF i = recovery.cur THEN state[i] ELSE diskState[i]
          /\ UNCHANGED <<state, linked, pc, req, effects>>
      BY <1>6, <2>1 DEF RecoverSync, TypeOK
    <2>3. \A p \in Callers : pc[p] \in Owning => Id(p) \in Ids
      BY ActiveRequest DEF Owning, BeforeEffect, AfterEffect
    <2>4. OwnerIsUnique' /\ EffectIsFirst' /\ EffectAtMostOncePerIdentity'
      BY <2>2 DEF OwnerInv, OwnerIsUnique, EffectIsFirst, EffectAtMostOncePerIdentity, Id
    <2>5. OwnerIsDurable'
      BY <2>1, <2>2, <2>3 DEF OwnerInv, OwnerIsDurable, Id, TypeOK, Owning,
                              BeforeEffect, AfterEffect
    <2>6. AnnouncedBeforeEffect'
      BY <2>2 DEF OwnerInv, AnnouncedBeforeEffect
    <2> QED
      BY <2>4, <2>5, <2>6 DEF OwnerInv
  <1>7. CASE RecoverEnd
    BY <1>7, QuietRecovery DEF RecoverEnd, RecoveryOff
  <1>8. CASE RecoverCrash
    BY <1>8, QuietRecovery DEF RecoverCrash, RecoveryOff
  <1> QED
    BY <1>1, <1>2, <1>3, <1>4, <1>5, <1>6, <1>7, <1>8 DEF Recover

\* The identity invariant is inductive.
LEMMA OwnerStep ==
    ASSUME TypeOK, OwnerInv, [Next]_vars
    PROVE  OwnerInv'
  <1> USE DEF journalVars, permitVars, callerVars, effectVars
  <1>1. ASSUME NEW p \in Callers, LinkPermit(p) PROVE OwnerInv'
    <2>1. OnlyCall(p) /\ pc'[p] \notin Owning
      BY <1>1, GotoFrame DEF LinkPermit, Owning, BeforeEffect, AfterEffect
    <2> QED
      BY <1>1, <2>1, QuietStep DEF LinkPermit
  <1>2. ASSUME NEW p \in Callers, SyncPermit(p) PROVE OwnerInv'
    <2>1. OnlyCall(p) /\ pc'[p] \notin Owning
      BY <1>2, GotoFrame DEF SyncPermit, Owning, BeforeEffect, AfterEffect
    <2> QED
      BY <1>2, <2>1, QuietStep DEF SyncPermit
  <1>3. ASSUME NEW p \in Callers, Stage(p) PROVE OwnerInv'
    <2>1. OnlyCall(p) /\ pc'[p] \notin Owning
      BY <1>3, GotoFrame DEF Stage, Owning, BeforeEffect, AfterEffect
    <2> QED
      BY <1>3, <2>1, QuietStep DEF Stage
  <1>4. ASSUME NEW p \in Callers, LosePublication(p) PROVE OwnerInv'
    <2>1. OnlyCall(p) /\ pc'[p] \notin Owning
      BY <1>4, GotoFrame DEF LosePublication, Owning, BeforeEffect, AfterEffect
    <2> QED
      BY <1>4, <2>1, QuietStep DEF LosePublication
  <1>5. ASSUME NEW p \in Callers, ReplayPermit(p) PROVE OwnerInv'
    <2>1. OnlyCall(p) /\ pc'[p] \notin Owning
      BY <1>5, ReturnFrame DEF ReplayPermit, Owning, BeforeEffect, AfterEffect
    <2> QED
      BY <1>5, <2>1, QuietStep DEF ReplayPermit
  <1>6. ASSUME NEW p \in Callers, PollReplay(p) PROVE OwnerInv'
    <2>1. OnlyCall(p) /\ pc'[p] \notin Owning
      BY <1>6, ReturnFrame DEF PollReplay, Owning, BeforeEffect, AfterEffect
    <2> QED
      BY <1>6, <2>1, QuietStep DEF PollReplay
  <1>7. ASSUME NEW p \in Callers, PollTimeout(p) PROVE OwnerInv'
    <2>1. OnlyCall(p) /\ pc'[p] \notin Owning
      BY <1>7, ReturnFrame DEF PollTimeout, Owning, BeforeEffect, AfterEffect
    <2> QED
      BY <1>7, <2>1, QuietStep DEF PollTimeout
  <1>8. ASSUME NEW p \in Callers, FailBeforeEffect(p) PROVE OwnerInv'
    <2>1. OnlyCall(p) /\ pc'[p] \notin Owning
      BY <1>8, ReturnFrame DEF FailBeforeEffect, Owning, BeforeEffect, AfterEffect
    <2> QED
      BY <1>8, <2>1, QuietStep DEF FailBeforeEffect
  <1>9. ASSUME NEW p \in Callers, Crash(p) PROVE OwnerInv'
    <2>1. OnlyCall(p) /\ pc'[p] \notin Owning
      BY <1>9, ReturnFrame DEF Crash, Owning, BeforeEffect, AfterEffect
    <2> QED
      BY <1>9, <2>1, QuietStep DEF Crash
  <1>10. ASSUME NEW p \in Callers, Submit(p) PROVE OwnerInv'
    <2>1. OnlyCall(p) /\ pc'[p] \notin Owning
      BY <1>10 DEF Submit, OnlyCall, TypeOK, Owning, BeforeEffect, AfterEffect
    <2> QED
      BY <1>10, <2>1, QuietStep DEF Submit
  <1>11. ASSUME NEW p \in Callers, PermitExists(p) PROVE OwnerInv'
    <2>1. OnlyCall(p) /\ pc'[p] \notin Owning
      BY <1>11, GotoFrame, ReturnFrame DEF PermitExists, Owning, BeforeEffect, AfterEffect
    <2> QED
      BY <1>11, <2>1, QuietStep DEF PermitExists
  <1>12. ASSUME NEW p \in Callers, StartRead(p) PROVE OwnerInv'
    <2>1. /\ OnlyCall(p)
          /\ pc'[p] = "idle" \/ (req'[p] = req[p] /\ pc[p] = "start" /\ pc'[p] = "startWrite")
      BY <1>12, GotoFrame, ReturnFrame DEF StartRead
    <2> QED
      BY <1>12, <2>1, QuietStep DEF StartRead, Owning, BeforeEffect, AfterEffect
  <1>13. ASSUME NEW p \in Callers, EndEffect(p) PROVE OwnerInv'
    <2>1. /\ OnlyCall(p)
          /\ \/ pc'[p] = "idle"
             \/ req'[p] = req[p] /\ pc[p] \in AfterEffect /\ pc'[p] \in AfterEffect
      BY <1>13 DEF EndEffect, OnlyCall, TypeOK, HandleException, AfterEffect
    <2> QED
      BY <1>13, <2>1, QuietStep DEF EndEffect, Owning, BeforeEffect, AfterEffect
  <1>14. ASSUME NEW p \in Callers, FinishRead(p) PROVE OwnerInv'
    <2>1. /\ OnlyCall(p)
          /\ \/ pc'[p] = "idle"
             \/ req'[p] = req[p] /\ pc[p] \in AfterEffect /\ pc'[p] \in AfterEffect
      BY <1>14, GotoFrame, ReturnFrame DEF FinishRead, OnlyCall, TypeOK, HandleException, AfterEffect
    <2> QED
      BY <1>14, <2>1, QuietStep DEF FinishRead, Owning, BeforeEffect, AfterEffect
  <1>15. ASSUME NEW p \in Callers, FailAfterEffect(p) PROVE OwnerInv'
    <2>1. /\ OnlyCall(p)
          /\ \/ pc'[p] = "idle"
             \/ req'[p] = req[p] /\ pc[p] \in AfterEffect /\ pc'[p] \in AfterEffect
      BY <1>15, ReturnFrame DEF FailAfterEffect, OnlyCall, TypeOK, HandleException, AfterEffect
    <2> QED
      BY <1>15, <2>1, QuietStep DEF FailAfterEffect, Owning, BeforeEffect, AfterEffect
  <1>16. ASSUME UNCHANGED vars PROVE OwnerInv'
    BY <1>16 DEF vars, OwnerInv, OwnerIsUnique, OwnerIsDurable, EffectIsFirst, Id,
               AnnouncedBeforeEffect, EffectAtMostOncePerIdentity
  <1> QED
    BY <1>1, <1>2, <1>3, <1>4, <1>5, <1>6, <1>7, <1>8, <1>9, <1>10, <1>11, <1>12, <1>13, <1>14, <1>15, <1>16,
       PublishOwns, SyncRootOwns, StartWriteOwns, StartSyncOwns, BeginEffectOwns,
       FinishWriteOwns, FinishSyncOwns, PowerLossOwns, RecoveryOwns
    DEF Next, Step, Fault

----------------------------------------------------------------------------
(***************************************************************************)
(* Holding the permit of a run.                                            *)
(***************************************************************************)
HolderPcs == {"permitSync", "stage", "publish", "poll"} \cup Owning

\* A step of one call that leaves permits and effects alone, and takes the
\* call either out of holding or to a point where no more is required of it.
LEMMA QuietPermitStep ==
    ASSUME TypeOK, RunInv, NEW p \in Callers, OnlyCall(p),
           UNCHANGED <<permit, flushed, permitDirLinked, runEffects>>,
           \/ /\ pc'[p] \notin HolderPcs \/ req'[p].run = None
              /\ pc'[p] \in {"permit", "permitSync", "replay"} => req'[p].run # None
           \/ /\ req'[p] = req[p]
              /\ pc[p] \in HolderPcs \ {"permitSync"}
              /\ pc'[p] \in HolderPcs \ {"permitSync"}
              /\ pc'[p] \in Owning \ {"rootSync"} => pc[p] \in Owning \ {"rootSync"}
              /\ pc[p] \in AfterEffect => pc'[p] \in AfterEffect
    PROVE  RunInv'
  <1> USE DEF Owning, BeforeEffect, AfterEffect, HolderPcs
  <1>1. HolderIsUnique'
    BY DEF RunInv, HolderIsUnique, HoldsPermit, OnlyCall, IsBound
  <1>2. PermitIsDurable'
    BY DEF RunInv, PermitIsDurable, HoldsPermit, OnlyCall, IsBound
  <1>3. RunIsFirst' /\ EffectAtMostOncePerRun'
    BY DEF RunInv, RunIsFirst, HoldsPermit, OnlyCall, IsBound, EffectAtMostOncePerRun
  <1> QED
    BY <1>1, <1>2, <1>3 DEF RunInv

\* The hard link makes its caller the only holder of the run (claim_live_run_permit).
LEMMA LinkPermitHolds ==
    ASSUME TypeOK, RunInv, NEW p \in Callers, LinkPermit(p)
    PROVE  RunInv'
  <1> USE DEF Owning, BeforeEffect, AfterEffect, journalVars, permitVars, effectVars
  <1>1. pc[p] = "permit" /\ pc'[p] = "permitSync" /\ req' = req /\ OnlyCall(p)
    BY GotoFrame DEF LinkPermit
  <1>2. /\ IsBound(p) => req[p].run \in Runs
        /\ \A q \in Callers : pc[q] # "idle" /\ IsBound(q) => req[q].run \in Runs
        /\ \A q \in Callers : IsBound(q)' = IsBound(q)
    BY <1>1, ActiveRequest DEF IsBound
  <1>3. HolderIsUnique'
    BY <1>1, <1>2 DEF LinkPermit, RunInv, HolderIsUnique, PermitIsDurable, HoldsPermit, OnlyCall, TypeOK
  <1>4. PermitIsDurable'
    BY <1>1, <1>2 DEF LinkPermit, RunInv, HolderIsUnique, PermitIsDurable, HoldsPermit, OnlyCall, TypeOK
  <1>5. RunIsFirst'
    BY <1>1, <1>2 DEF LinkPermit, RunInv, HolderIsUnique, PermitIsDurable, RunIsFirst, HoldsPermit,
                      OnlyCall, TypeOK
  <1>6. EffectAtMostOncePerRun'
    BY <1>1, <1>2 DEF LinkPermit, RunInv, RunIsFirst, HoldsPermit, EffectAtMostOncePerRun, TypeOK
  <1> QED
    BY <1>3, <1>4, <1>5, <1>6 DEF RunInv

\* The fsync of the permit directory makes every permit in it durable.
LEMMA SyncPermitHolds ==
    ASSUME TypeOK, RunInv, NEW p \in Callers, SyncPermit(p)
    PROVE  RunInv'
  <1> USE DEF Owning, BeforeEffect, AfterEffect, journalVars, permitVars, effectVars
  <1>1. pc[p] = "permitSync" /\ pc'[p] = "stage" /\ req' = req /\ OnlyCall(p)
    BY GotoFrame DEF SyncPermit
  <1>2. /\ IsBound(p) => req[p].run \in Runs
        /\ \A q \in Callers : pc[q] # "idle" /\ IsBound(q) => req[q].run \in Runs
        /\ \A q \in Callers : IsBound(q)' = IsBound(q)
    BY <1>1, ActiveRequest DEF IsBound
  <1>3. HolderIsUnique'
    BY <1>1, <1>2 DEF SyncPermit, RunInv, HolderIsUnique, PermitIsDurable, HoldsPermit, OnlyCall, TypeOK
  <1>4. PermitIsDurable'
    BY <1>1, <1>2 DEF SyncPermit, RunInv, HolderIsUnique, PermitIsDurable, HoldsPermit, OnlyCall, TypeOK
  <1>5. RunIsFirst'
    BY <1>1, <1>2 DEF SyncPermit, RunInv, HolderIsUnique, PermitIsDurable, RunIsFirst, HoldsPermit,
                      OnlyCall, TypeOK
  <1>6. EffectAtMostOncePerRun'
    BY <1>1, <1>2 DEF SyncPermit, RunInv, RunIsFirst, HoldsPermit, EffectAtMostOncePerRun, TypeOK
  <1> QED
    BY <1>3, <1>4, <1>5, <1>6 DEF RunInv

\* The fsync of the journal root makes the permit directory itself durable.
LEMMA SyncRootHolds ==
    ASSUME TypeOK, RunInv, NEW p \in Callers, SyncRoot(p)
    PROVE  RunInv'
  <1> USE DEF Owning, BeforeEffect, AfterEffect, journalVars, permitVars, effectVars
  <1>1. pc[p] = "rootSync" /\ pc'[p] = "start" /\ req' = req /\ OnlyCall(p)
    BY GotoFrame DEF SyncRoot
  <1>2. /\ IsBound(p) => req[p].run \in Runs
        /\ \A q \in Callers : pc[q] # "idle" /\ IsBound(q) => req[q].run \in Runs
        /\ \A q \in Callers : IsBound(q)' = IsBound(q)
    BY <1>1, ActiveRequest DEF IsBound
  <1>3. HolderIsUnique'
    BY <1>1, <1>2 DEF SyncRoot, RunInv, HolderIsUnique, PermitIsDurable, HoldsPermit, OnlyCall, TypeOK
  <1>4. PermitIsDurable'
    BY <1>1, <1>2 DEF SyncRoot, RunInv, HolderIsUnique, PermitIsDurable, HoldsPermit, OnlyCall, TypeOK
  <1>5. RunIsFirst'
    BY <1>1, <1>2 DEF SyncRoot, RunInv, HolderIsUnique, PermitIsDurable, RunIsFirst, HoldsPermit,
                      OnlyCall, TypeOK
  <1>6. EffectAtMostOncePerRun'
    BY <1>1, <1>2 DEF SyncRoot, RunInv, RunIsFirst, HoldsPermit, EffectAtMostOncePerRun, TypeOK
  <1> QED
    BY <1>3, <1>4, <1>5, <1>6 DEF RunInv

\* The effect of a holder is the first one of its run (execute_bound).
LEMMA BeginEffectHolds ==
    ASSUME TypeOK, RunInv, NEW p \in Callers, BeginEffect(p)
    PROVE  RunInv'
  <1> USE DEF Owning, BeforeEffect, AfterEffect, journalVars, permitVars, effectVars
  <1>1. pc[p] = "effect" /\ pc'[p] = "executing" /\ req' = req /\ OnlyCall(p)
    BY GotoFrame DEF BeginEffect
  <1>2. /\ IsBound(p) => req[p].run \in Runs
        /\ \A q \in Callers : pc[q] # "idle" /\ IsBound(q) => req[q].run \in Runs
        /\ \A q \in Callers : IsBound(q)' = IsBound(q)
    BY <1>1, ActiveRequest DEF IsBound
  <1>3. HolderIsUnique'
    BY <1>1, <1>2 DEF BeginEffect, RunInv, HolderIsUnique, PermitIsDurable, HoldsPermit, OnlyCall, TypeOK
  <1>4. PermitIsDurable'
    BY <1>1, <1>2 DEF BeginEffect, RunInv, HolderIsUnique, PermitIsDurable, HoldsPermit, OnlyCall, TypeOK
  <1>5. RunIsFirst'
    BY <1>1, <1>2 DEF BeginEffect, RunInv, HolderIsUnique, PermitIsDurable, RunIsFirst, HoldsPermit,
                      OnlyCall, TypeOK
  <1>6. EffectAtMostOncePerRun'
    BY <1>1, <1>2 DEF BeginEffect, RunInv, RunIsFirst, HoldsPermit, EffectAtMostOncePerRun, TypeOK
  <1> QED
    BY <1>3, <1>4, <1>5, <1>6 DEF RunInv

\* A power loss forgets no permit whose effect may have happened.
LEMMA PowerLossHolds ==
    ASSUME TypeOK, RunInv, PowerLoss
    PROVE  RunInv'
  <1> USE DEF Owning, BeforeEffect, AfterEffect
  <1>1. \A p \in Callers : pc'[p] = "idle"
    BY DEF PowerLoss
  <1>2. \A r \in Runs : runEffects[r] > 0 => r \in flushed' /\ permitDirLinked'
    BY DEF PowerLoss, PermitSurvivors, RunInv, PermitIsDurable
  <1>3. HolderIsUnique' /\ RunIsFirst'
    BY <1>1 DEF HolderIsUnique, RunIsFirst, HoldsPermit
  <1>4. PermitIsDurable'
    BY <1>1, <1>2 DEF PermitIsDurable, HoldsPermit, PowerLoss, effectVars
  <1>5. EffectAtMostOncePerRun'
    BY DEF RunInv, EffectAtMostOncePerRun, PowerLoss, effectVars
  <1> QED
    BY <1>3, <1>4, <1>5 DEF RunInv

\* A step that leaves the calls, the permits and the effects alone.
LEMMA RecoveryHolds ==
    ASSUME RunInv, UNCHANGED <<permit, flushed, permitDirLinked, pc, req, runEffects>>
    PROVE  RunInv'
  BY DEF RunInv, HolderIsUnique, PermitIsDurable, RunIsFirst, HoldsPermit, IsBound,
         EffectAtMostOncePerRun

\* The permit invariant is inductive.
LEMMA RunStep ==
    ASSUME TypeOK, RunInv, [Next]_vars
    PROVE  RunInv'
  <1> USE DEF journalVars, permitVars, callerVars, effectVars
  <1>1. ASSUME NEW p \in Callers, ReplayPermit(p) PROVE RunInv'
    <2>1. OnlyCall(p) /\ pc'[p] = "idle"
      BY <1>1, ReturnFrame DEF ReplayPermit
    <2> QED
      BY <1>1, <2>1, QuietPermitStep DEF ReplayPermit, HolderPcs, Owning, BeforeEffect, AfterEffect
  <1>2. ASSUME NEW p \in Callers, PollReplay(p) PROVE RunInv'
    <2>1. OnlyCall(p) /\ pc'[p] = "idle"
      BY <1>2, ReturnFrame DEF PollReplay
    <2> QED
      BY <1>2, <2>1, QuietPermitStep DEF PollReplay, HolderPcs, Owning, BeforeEffect, AfterEffect
  <1>3. ASSUME NEW p \in Callers, PollTimeout(p) PROVE RunInv'
    <2>1. OnlyCall(p) /\ pc'[p] = "idle"
      BY <1>3, ReturnFrame DEF PollTimeout
    <2> QED
      BY <1>3, <2>1, QuietPermitStep DEF PollTimeout, HolderPcs, Owning, BeforeEffect, AfterEffect
  <1>4. ASSUME NEW p \in Callers, FinishSync(p) PROVE RunInv'
    <2>1. OnlyCall(p) /\ pc'[p] = "idle"
      BY <1>4, ReturnFrame DEF FinishSync
    <2> QED
      BY <1>4, <2>1, QuietPermitStep DEF FinishSync, HolderPcs, Owning, BeforeEffect, AfterEffect
  <1>5. ASSUME NEW p \in Callers, FailBeforeEffect(p) PROVE RunInv'
    <2>1. OnlyCall(p) /\ pc'[p] = "idle"
      BY <1>5, ReturnFrame DEF FailBeforeEffect
    <2> QED
      BY <1>5, <2>1, QuietPermitStep DEF FailBeforeEffect, HolderPcs, Owning, BeforeEffect, AfterEffect
  <1>6. ASSUME NEW p \in Callers, Crash(p) PROVE RunInv'
    <2>1. OnlyCall(p) /\ pc'[p] = "idle"
      BY <1>6, ReturnFrame DEF Crash
    <2> QED
      BY <1>6, <2>1, QuietPermitStep DEF Crash, HolderPcs, Owning, BeforeEffect, AfterEffect
  <1>7. ASSUME NEW p \in Callers, Submit(p) PROVE RunInv'
    <2>1. PICK r \in Requests : /\ req' = [req EXCEPT ![p] = r]
                                /\ pc' = [pc EXCEPT ![p] = IF r.run = None THEN "stage" ELSE "permit"]
      BY <1>7 DEF Submit
    <2>2. OnlyCall(p) /\ req'[p] = r /\ pc'[p] = IF r.run = None THEN "stage" ELSE "permit"
      BY <2>1 DEF OnlyCall, TypeOK
    <2> QED
      BY <1>7, <2>2, QuietPermitStep DEF Submit, HolderPcs, Owning, BeforeEffect, AfterEffect
  <1>8. ASSUME NEW p \in Callers, PermitExists(p) PROVE RunInv'
    <2>1. OnlyCall(p) /\ (pc'[p] = "idle" \/ (pc'[p] = "replay" /\ req' = req))
      BY <1>8, GotoFrame, ReturnFrame DEF PermitExists
    <2>2. req[p].run # None
      BY <1>8 DEF PermitExists, RunInv, PermitIsDurable, IsBound
    <2> QED
      BY <1>8, <2>1, <2>2, QuietPermitStep DEF PermitExists, HolderPcs, Owning, BeforeEffect, AfterEffect
  <1>9. ASSUME NEW p \in Callers, Stage(p) PROVE RunInv'
    <2>1. OnlyCall(p) /\ req' = req /\ pc[p] = "stage" /\ pc'[p] = "publish"
      BY <1>9, GotoFrame DEF Stage
    <2> QED
      BY <1>9, <2>1, QuietPermitStep DEF Stage, HolderPcs, Owning, BeforeEffect, AfterEffect
  <1>10. ASSUME NEW p \in Callers, Publish(p) PROVE RunInv'
    <2>1. OnlyCall(p) /\ req' = req /\ pc[p] = "publish" /\ pc'[p] = "rootSync"
      BY <1>10, GotoFrame DEF Publish
    <2> QED
      BY <1>10, <2>1, QuietPermitStep DEF Publish, HolderPcs, Owning, BeforeEffect, AfterEffect
  <1>11. ASSUME NEW p \in Callers, LosePublication(p) PROVE RunInv'
    <2>1. OnlyCall(p) /\ req' = req /\ pc[p] = "publish" /\ pc'[p] = "poll"
      BY <1>11, GotoFrame DEF LosePublication
    <2> QED
      BY <1>11, <2>1, QuietPermitStep DEF LosePublication, HolderPcs, Owning, BeforeEffect, AfterEffect
  <1>12. ASSUME NEW p \in Callers, StartWrite(p) PROVE RunInv'
    <2>1. OnlyCall(p) /\ req' = req /\ pc[p] = "startWrite" /\ pc'[p] = "startSync"
      BY <1>12, GotoFrame DEF StartWrite
    <2> QED
      BY <1>12, <2>1, QuietPermitStep DEF StartWrite, HolderPcs, Owning, BeforeEffect, AfterEffect
  <1>13. ASSUME NEW p \in Callers, StartSync(p) PROVE RunInv'
    <2>1. OnlyCall(p) /\ req' = req /\ pc[p] = "startSync" /\ pc'[p] = "effect"
      BY <1>13, GotoFrame DEF StartSync
    <2> QED
      BY <1>13, <2>1, QuietPermitStep DEF StartSync, HolderPcs, Owning, BeforeEffect, AfterEffect
  <1>14. ASSUME NEW p \in Callers, FinishWrite(p) PROVE RunInv'
    <2>1. OnlyCall(p) /\ req' = req /\ pc[p] = "finishWrite" /\ pc'[p] = "finishSync"
      BY <1>14, GotoFrame DEF FinishWrite
    <2> QED
      BY <1>14, <2>1, QuietPermitStep DEF FinishWrite, HolderPcs, Owning, BeforeEffect, AfterEffect
  <1>15. ASSUME NEW p \in Callers, StartRead(p) PROVE RunInv'
    <2>1. /\ OnlyCall(p)
          /\ pc'[p] = "idle" \/ (req' = req /\ pc[p] = "start" /\ pc'[p] = "startWrite")
      BY <1>15, GotoFrame, ReturnFrame DEF StartRead
    <2> QED
      BY <1>15, <2>1, QuietPermitStep DEF StartRead, HolderPcs, Owning, BeforeEffect, AfterEffect
  <1>16. ASSUME NEW p \in Callers, EndEffect(p) PROVE RunInv'
    <2>1. /\ OnlyCall(p)
          /\ \/ pc'[p] = "idle"
             \/ req'[p] = req[p] /\ pc[p] \in AfterEffect /\ pc'[p] \in AfterEffect
      BY <1>16 DEF EndEffect, OnlyCall, TypeOK, HandleException, AfterEffect
    <2> QED
      BY <1>16, <2>1, QuietPermitStep DEF EndEffect, HolderPcs, Owning, BeforeEffect, AfterEffect
  <1>17. ASSUME NEW p \in Callers, FinishRead(p) PROVE RunInv'
    <2>1. /\ OnlyCall(p)
          /\ \/ pc'[p] = "idle"
             \/ req'[p] = req[p] /\ pc[p] \in AfterEffect /\ pc'[p] \in AfterEffect
      BY <1>17, GotoFrame, ReturnFrame DEF FinishRead, OnlyCall, TypeOK, HandleException, AfterEffect
    <2> QED
      BY <1>17, <2>1, QuietPermitStep DEF FinishRead, HolderPcs, Owning, BeforeEffect, AfterEffect
  <1>18. ASSUME NEW p \in Callers, FailAfterEffect(p) PROVE RunInv'
    <2>1. /\ OnlyCall(p)
          /\ \/ pc'[p] = "idle"
             \/ req'[p] = req[p] /\ pc[p] \in AfterEffect /\ pc'[p] \in AfterEffect
      BY <1>18, ReturnFrame DEF FailAfterEffect, OnlyCall, TypeOK, HandleException, AfterEffect
    <2> QED
      BY <1>18, <2>1, QuietPermitStep DEF FailAfterEffect, HolderPcs, Owning, BeforeEffect, AfterEffect
  <1>19. ASSUME RecoverBegin \/ Recover \/ RecoverCrash \/ UNCHANGED vars PROVE RunInv'
    BY <1>19, RecoveryHolds DEF vars, RecoverBegin, Recover, RecoverCrash, RecoverVisit,
       RecoverRead, RecoverAbort, RecoverWrite, RecoverSync, RecoverEnd
  <1> QED
    BY <1>1, <1>2, <1>3, <1>4, <1>5, <1>6, <1>7, <1>8, <1>9, <1>10, <1>11, <1>12, <1>13, <1>14, <1>15, <1>16, <1>17, <1>18, <1>19,
       LinkPermitHolds, SyncPermitHolds, SyncRootHolds, BeginEffectHolds, PowerLossHolds
    DEF Next, Step, Fault

----------------------------------------------------------------------------
(***************************************************************************)
(* The theorems.                                                           *)
(***************************************************************************)

\* An empty journal satisfies both invariants.
LEMMA InitInv == Init => IdentityInv /\ RunInv
  <1> SUFFICES ASSUME Init PROVE IdentityInv /\ RunInv
    OBVIOUS
  <1> USE DEF Init, Owning, BeforeEffect, AfterEffect
  <1>1. TypeOK
    BY DEF TypeOK, Pcs, Terminal, RecoveryOff
  <1>2. OwnerIsUnique /\ OwnerIsDurable /\ EffectIsFirst
    BY DEF OwnerIsUnique, OwnerIsDurable, EffectIsFirst, RecoveryOff
  <1>3. AnnouncedBeforeEffect /\ EffectAtMostOncePerIdentity /\ EffectAtMostOncePerRun
    BY DEF AnnouncedBeforeEffect, EffectAtMostOncePerIdentity, EffectAtMostOncePerRun
  <1>4. HolderIsUnique /\ PermitIsDurable /\ RunIsFirst
    BY DEF HolderIsUnique, PermitIsDurable, RunIsFirst, HoldsPermit
  <1> QED
    BY <1>1, <1>2, <1>3, <1>4 DEF IdentityInv, RunInv

\* The identity invariant and the permit invariant hold in every reachable
\* state of the journal and the boundary.
THEOREM Invariance == Spec => [](IdentityInv /\ RunInv)
  <1>1. Init => IdentityInv /\ RunInv
    BY InitInv
  <1>2. IdentityInv /\ RunInv /\ [Next]_vars => (IdentityInv /\ RunInv)'
    <2> SUFFICES ASSUME IdentityInv, RunInv, [Next]_vars
                 PROVE  IdentityInv' /\ RunInv'
      OBVIOUS
    <2>1. TypeOK /\ OwnerInv
      BY DEF IdentityInv, OwnerInv
    <2>2. TypeOK'
      BY <2>1, TypeStep DEF OwnerInv
    <2>3. OwnerInv'
      BY <2>1, OwnerStep
    <2>4. RunInv'
      BY <2>1, RunStep
    <2> QED
      BY <2>2, <2>3, <2>4 DEF IdentityInv, OwnerInv
  <1> QED
    BY <1>1, <1>2, PTL DEF Spec

\* Type correctness of the journal, the calls and the recovery.
THEOREM TypeCorrect == Spec => []TypeOK
  <1>1. IdentityInv => TypeOK
    BY DEF IdentityInv
  <1> QED
    BY <1>1, Invariance, PTL

\* An execution identity reaches the execution boundary at most once, whatever
\* is submitted, killed, recovered or lost with the power.
COROLLARY OncePerIdentity == Spec => []EffectAtMostOncePerIdentity
  <1>1. IdentityInv => EffectAtMostOncePerIdentity
    BY DEF IdentityInv
  <1> QED
    BY <1>1, Invariance, PTL

\* A live run identity reaches the execution boundary at most once.
COROLLARY OncePerRun == Spec => []EffectAtMostOncePerRun
  <1>1. RunInv => EffectAtMostOncePerRun
    BY DEF RunInv
  <1> QED
    BY <1>1, Invariance, PTL

\* Neither an execution identity nor a live run reaches the execution boundary
\* twice.
THEOREM AtMostOnce == Spec => []EffectAtMostOnce
  <1>1. EffectAtMostOncePerIdentity /\ EffectAtMostOncePerRun => EffectAtMostOnce
    BY DEF EffectAtMostOnce
  <1> QED
    BY <1>1, OncePerIdentity, OncePerRun, PTL

\* An effect is announced in the durable journal before it may happen.
THEOREM WriteAhead == Spec => []AnnouncedBeforeEffect
  <1>1. IdentityInv => AnnouncedBeforeEffect
    BY DEF IdentityInv
  <1> QED
    BY <1>1, Invariance, PTL

----------------------------------------------------------------------------
(***************************************************************************)
(* Answers and outcomes, where recover_interrupted runs before any caller: *)
(* then no record is written under the hands of its owner, what is durable *)
(* as an outcome is what can be read, and an outcome stays.                *)
(***************************************************************************)
RecoveryIsAlone == Recovering => \A p \in Callers : pc[p] = "idle"

\* The record of an owner has no outcome until the owner writes one.
Open == BeforeEffect \cup {"executing", "finishWrite"}

OwnedIsOpen == \A p \in Callers : pc[p] \in Open => state[Id(p)] \notin Terminal

EffectIsDone == \A p \in Callers : pc[p] \in AfterEffect => effects[Id(p)] > 0

OutcomeIsReal ==
    \A i \in Ids :
       {state[i], diskState[i]} \cap {"SUCCEEDED", "FAILED"} # {} => effects[i] > 0

DiskIsBehind == \A i \in Ids : diskState[i] \in Terminal => state[i] = diskState[i]

\* Whatever is interrupted is still on the list of the recovery, or in its hands.
RecoveryListsAll ==
    Recovering => \A i \in Ids : state[i] \in {"CLAIMED", "RUNNING"} =>
       \/ [temp |-> FALSE, id |-> i] \in recovery.todo
       \/ recovery.pc \in {"read", "write"} /\ recovery.cur = i

RecoveryHoldsOne ==
    /\ recovery.pc = "write" => state[recovery.cur] \in {"CLAIMED", "RUNNING"}
    /\ recovery.pc = "sync" => state[recovery.cur] = "UNKNOWN"

\* A replay without a run is told an outcome.
RepliesAreFinal ==
    \A p \in Callers :
       answer[p] # None /\ answer[p].replayed /\ answer[p].request.run = None =>
          answer[p].state \in Terminal

OutcomeInv ==
    /\ RecoveryIsAlone
    /\ OwnedIsOpen
    /\ EffectIsDone
    /\ OutcomeIsReal
    /\ DiskIsBehind
    /\ RecoveryListsAll
    /\ RecoveryHoldsOne
    /\ RepliesAreFinal
    /\ AnswersAreTrue

CallerStep(p) == Submit(p) \/ Step(p) \/ EndEffect(p) \/ Fault(p)

\* What a step of a call does to its identity.
Leaves(p) ==
    /\ UNCHANGED <<state, diskState, effects>>
    /\ pc'[p] \notin Owning

GoesOn(p) ==
    /\ UNCHANGED <<state, diskState, effects>>
    /\ req'[p] = req[p]
    /\ \/ pc[p] \in Open /\ pc'[p] \in Open /\ (pc'[p] \in AfterEffect => pc[p] \in AfterEffect)
       \/ pc[p] \in AfterEffect /\ pc'[p] = "finish"
       \/ pc[p] = "finish" /\ pc'[p] = "finishWrite" /\ state[Id(p)] \notin Terminal

Publishes(p) ==
    /\ pc[p] = "publish" /\ state[Id(p)] = "ABSENT"
    /\ state' = [state EXCEPT ![Id(p)] = "CLAIMED"]
    /\ diskState' = [diskState EXCEPT ![Id(p)] = "CLAIMED"]
    /\ effects' = effects /\ linked' = linked
    /\ req'[p] = req[p] /\ pc'[p] = "rootSync"

Writes(p) ==
    /\ \E s \in {"RUNNING"} \cup Terminal :
          /\ state' = [state EXCEPT ![Id(p)] = s]
          /\ \/ s = "RUNNING" /\ pc'[p] = "startSync"
             \/ pc'[p] = "finishSync" /\ pc[p] \in AfterEffect
    /\ pc[p] \in Open
    /\ UNCHANGED <<diskState, effects, linked>>
    /\ req'[p] = req[p]

Syncs(p) ==
    /\ diskState' = [diskState EXCEPT ![Id(p)] = state[Id(p)]]
    /\ UNCHANGED <<state, effects, linked>>
    /\ \/ pc[p] \in Open /\ req'[p] = req[p] /\ pc'[p] = "effect"
       \/ pc'[p] = "idle"
    /\ pc[p] \in Owning

Performs(p) ==
    /\ effects' = [effects EXCEPT ![Id(p)] = @ + 1]
    /\ UNCHANGED <<state, diskState, linked>>
    /\ pc[p] = "effect" /\ pc'[p] = "executing" /\ req'[p] = req[p]

\* What a step of a call tells its caller.
Tells(p) ==
    \/ answer'[p] \in {None, answer[p]}
    \/ /\ UNCHANGED <<state, effects, bodyOf>>
       /\ pc[p] # "idle" /\ state[Id(p)] # "ABSENT"
       /\ \/ answer'[p] = AnswerOf(p, FALSE)
          \/ /\ answer'[p] = AnswerOf(p, TRUE)
             /\ IsBound(p) => bodyOf[Id(p)] = req[p].body
             /\ ~IsBound(p) => state[Id(p)] \in Terminal

CallActs(p) ==
    /\ OnlyCall(p)
    /\ recovery' = recovery
    /\ linked \subseteq linked'
    /\ Leaves(p) \/ GoesOn(p) \/ Publishes(p) \/ Writes(p) \/ Syncs(p) \/ Performs(p)
    /\ \A q \in Callers \ {p} : answer'[q] = answer[q]
    /\ Tells(p)

LEMMA GotoActs ==
    ASSUME TypeOK, NEW p \in Callers, NEW l, Goto(p, l)
    PROVE  /\ OnlyCall(p) /\ req'[p] = req[p] /\ pc'[p] = l
           /\ \A q \in Callers : answer'[q] = answer[q]
  BY GotoFrame DEF TypeOK, Goto

LEMMA ReturnActs ==
    ASSUME TypeOK, NEW p \in Callers, NEW a, Return(p, a)
    PROVE  /\ OnlyCall(p) /\ pc'[p] = "idle" /\ answer'[p] = a
           /\ \A q \in Callers \ {p} : answer'[q] = answer[q]
  BY ReturnFrame DEF TypeOK, Return

LEMMA CallerActs ==
    ASSUME TypeOK, OwnerInv, PermitIsDurable, OwnedIsOpen, NEW p \in Callers, CallerStep(p)
    PROVE  CallActs(p)
  <1> USE GotoActs, ReturnActs DEF journalVars, permitVars, effectVars, Owning, BeforeEffect,
          AfterEffect, Open
  <1>1. CASE Submit(p)
    <2>1. OnlyCall(p) /\ pc'[p] \notin Owning /\ answer'[p] = None
          /\ \A q \in Callers \ {p} : answer'[q] = answer[q]
      BY <1>1 DEF Submit, TypeOK, OnlyCall
    <2> QED
      BY <1>1, <2>1 DEF Submit, CallActs, Leaves, Tells
  <1>2. CASE LinkPermit(p) \/ SyncPermit(p) \/ Stage(p) \/ LosePublication(p)
    <2>1. UNCHANGED <<state, diskState, linked, effects, recovery>>
      BY <1>2 DEF LinkPermit, SyncPermit, Stage, LosePublication
    <2>2. \E l \in {"permitSync", "stage", "publish", "poll"} : Goto(p, l)
      BY <1>2 DEF LinkPermit, SyncPermit, Stage, LosePublication
    <2> QED
      BY <2>1, <2>2 DEF CallActs, Leaves, Tells
  <1>3. CASE PermitExists(p)
    <2>1. UNCHANGED <<state, diskState, linked, effects, recovery>>
      BY <1>3 DEF PermitExists
    <2>2. CASE Goto(p, "replay")
      <3>1. OnlyCall(p) /\ pc'[p] = "replay" /\ answer'[p] = answer[p]
            /\ \A q \in Callers \ {p} : answer'[q] = answer[q]
        BY <2>2
      <3>2. Leaves(p) /\ Tells(p)
        BY <2>1, <3>1 DEF Leaves, Tells
      <3> QED
        BY <2>1, <3>1, <3>2 DEF CallActs
    <2>3. CASE Return(p, None)
      BY <2>1, <2>3 DEF CallActs, Leaves, Tells
    <2> QED
      BY <1>3, <2>2, <2>3 DEF PermitExists, Raised
  <1>4. CASE ReplayPermit(p)
    <2>1. IsBound(p)
      BY <1>4 DEF ReplayPermit, PermitIsDurable
    <2> QED
      BY <1>4, <2>1 DEF ReplayPermit, CallActs, Leaves, Tells, Raised
  <1>5. CASE PollReplay(p)
    <2>1. state[Id(p)] \in Terminal /\ state[Id(p)] # "ABSENT"
      BY <1>5 DEF PollReplay, Terminal
    <2> QED
      BY <1>5, <2>1 DEF PollReplay, CallActs, Leaves, Tells, Raised
  <1>6. CASE PollTimeout(p)
    BY <1>6 DEF PollTimeout, CallActs, Leaves, Tells, Raised
  <1>7. CASE Publish(p)
    BY <1>7 DEF Publish, CallActs, Publishes, Tells
  <1>8. CASE SyncRoot(p)
    <2>1. linked \subseteq linked'
      BY <1>8 DEF SyncRoot, OwnerInv, OwnerIsDurable, TypeOK
    <2> QED
      <3>1. UNCHANGED <<state, diskState, effects, recovery>> /\ Goto(p, "start")
            /\ pc[p] = "rootSync"
        BY <1>8 DEF SyncRoot
      <3>2. OnlyCall(p) /\ req'[p] = req[p] /\ pc'[p] = "start" /\ answer'[p] = answer[p]
            /\ \A q \in Callers \ {p} : answer'[q] = answer[q]
        BY <3>1
      <3>3. GoesOn(p)
        BY <3>1, <3>2 DEF GoesOn
      <3> QED
        BY <2>1, <3>1, <3>2, <3>3 DEF CallActs, Tells
  <1>9. CASE StartRead(p)
    <2>1. UNCHANGED <<state, diskState, linked, effects, recovery>> /\ pc[p] = "start"
      BY <1>9 DEF StartRead
    <2>2. Goto(p, "startWrite") \/ Return(p, None)
      BY <1>9 DEF StartRead, Raised
    <2>3. CASE Goto(p, "startWrite")
      <3>1. OnlyCall(p) /\ req'[p] = req[p] /\ pc'[p] = "startWrite" /\ answer'[p] = answer[p]
            /\ \A q \in Callers \ {p} : answer'[q] = answer[q]
        BY <2>3
      <3>2. GoesOn(p)
        BY <2>1, <3>1 DEF GoesOn
      <3> QED
        BY <2>1, <3>1, <3>2 DEF CallActs, Tells
    <2>4. CASE Return(p, None)
      BY <2>1, <2>4 DEF CallActs, Leaves, Tells
    <2> QED
      BY <2>2, <2>3, <2>4
  <1>10. CASE StartWrite(p)
    BY <1>10 DEF StartWrite, CallActs, Writes, Tells
  <1>11. CASE StartSync(p)
    BY <1>11 DEF StartSync, CallActs, Syncs, Tells
  <1>12. CASE BeginEffect(p)
    BY <1>12 DEF BeginEffect, CallActs, Performs, Tells
  <1>13. CASE EndEffect(p)
    <2>1. OnlyCall(p) /\ pc'[p] = "finish" /\ answer' = answer /\ req' = req
      BY <1>13 DEF EndEffect, TypeOK, OnlyCall
    <2> QED
      BY <1>13, <2>1 DEF EndEffect, CallActs, GoesOn, Tells
  <1>14. ASSUME HandleException(p)
         PROVE  OnlyCall(p) /\ pc'[p] = "finish" /\ answer' = answer /\ req' = req
    BY <1>14 DEF HandleException, TypeOK, OnlyCall
  <1>15. pc[p] \in Owning => state[Id(p)] # "ABSENT" /\ pc[p] # "idle"
    BY DEF OwnerInv, OwnerIsUnique
  <1>16. CASE FinishRead(p)
    <2>1. CASE state[Id(p)] \notin Terminal /\ Goto(p, "finishWrite")
      BY <1>16, <2>1 DEF FinishRead, CallActs, GoesOn, Tells
    <2>2. CASE Return(p, FinishedAnswer(p))
      BY <1>15, <1>16, <2>2 DEF FinishRead, CallActs, Leaves, Tells, FinishedAnswer, Raised
    <2>3. CASE HandleException(p)
      BY <1>14, <1>16, <2>3 DEF FinishRead, CallActs, GoesOn, Tells
    <2> QED
      BY <1>16, <2>1, <2>2, <2>3 DEF FinishRead
  <1>17. CASE FinishWrite(p)
    <2>1. target[p] \in Terminal
      BY DEF TypeOK
    <2> QED
      BY <1>17, <2>1 DEF FinishWrite, CallActs, Writes, Tells
  <1>18. CASE FinishSync(p)
    BY <1>15, <1>18 DEF FinishSync, CallActs, Syncs, Tells, FinishedAnswer, Raised
  <1>19. CASE FailBeforeEffect(p) \/ Crash(p)
    BY <1>19 DEF FailBeforeEffect, Crash, CallActs, Leaves, Tells, Raised
  <1>20. CASE FailAfterEffect(p)
    BY <1>14, <1>20 DEF FailAfterEffect, CallActs, Leaves, GoesOn, Tells, Raised
  <1> QED
    BY <1>1, <1>2, <1>3, <1>4, <1>5, <1>6, <1>7, <1>8, <1>9, <1>10, <1>11, <1>12, <1>13,
       <1>16, <1>17, <1>18, <1>19, <1>20 DEF CallerStep, Step, Fault

\* The identity of another owner is out of reach of a step of p.
LEMMA OthersKeepTheirs ==
    ASSUME TypeOK, OwnerInv, NEW p \in Callers, CallActs(p),
           NEW q \in Callers \ {p}, pc[q] \in Owning
    PROVE  /\ pc'[q] = pc[q] /\ req'[q] = req[q] /\ Id(q) \in Ids
           /\ state'[Id(q)] = state[Id(q)]
           /\ diskState'[Id(q)] = diskState[Id(q)]
           /\ effects'[Id(q)] = effects[Id(q)]
  <1>1. pc'[q] = pc[q] /\ req'[q] = req[q]
    BY DEF CallActs, OnlyCall
  <1>2. pc[q] # "idle"
    BY DEF Owning, BeforeEffect, AfterEffect
  <1>3. Id(q) \in Ids
    BY <1>2, ActiveRequest
  <1>4. state[Id(q)] # "ABSENT"
    BY DEF OwnerInv, OwnerIsUnique
  <1>5. pc[p] \in Owning => Id(p) # Id(q)
    BY DEF OwnerInv, OwnerIsUnique
  <1>6. CASE Leaves(p) \/ GoesOn(p)
    BY <1>1, <1>3, <1>6 DEF Leaves, GoesOn
  <1>7. CASE Publishes(p)
    BY <1>1, <1>3, <1>4, <1>7 DEF Publishes, TypeOK
  <1>8. CASE Writes(p)
    BY <1>1, <1>3, <1>5, <1>8 DEF Writes, TypeOK, Open, Owning, AfterEffect
  <1>9. CASE Syncs(p)
    BY <1>1, <1>3, <1>5, <1>9 DEF Syncs, TypeOK
  <1>10. CASE Performs(p)
    BY <1>1, <1>3, <1>5, <1>10 DEF Performs, TypeOK, Owning, BeforeEffect
  <1> QED
    BY <1>6, <1>7, <1>8, <1>9, <1>10 DEF CallActs

\* What a step of p does to an identity, seen from the identity.
LEMMA IdentityActs ==
    ASSUME TypeOK, OwnedIsOpen, EffectIsDone, DiskIsBehind, OutcomeIsReal,
           NEW p \in Callers, CallActs(p), NEW i \in Ids
    PROVE  /\ state[i] \in Terminal => state'[i] = state[i]
           /\ state[i] # "ABSENT" => state'[i] # "ABSENT"
           /\ diskState[i] \in Terminal => diskState'[i] = diskState[i]
           /\ diskState'[i] \in Terminal => state'[i] = diskState'[i]
           /\ effects'[i] >= effects[i]
           /\ {state'[i], diskState'[i]} \cap {"SUCCEEDED", "FAILED"} # {}
                 => effects'[i] > 0
  <1>1. /\ effects[i] \in Nat
        /\ diskState[i] \in Terminal => state[i] = diskState[i]
        /\ {state[i], diskState[i]} \cap {"SUCCEEDED", "FAILED"} # {} => effects[i] > 0
    BY DEF TypeOK, DiskIsBehind, OutcomeIsReal
  <1>2. pc[p] \in Open => state[Id(p)] \notin Terminal
    BY DEF OwnedIsOpen
  <1>3. pc[p] \in AfterEffect => effects[Id(p)] > 0
    BY DEF EffectIsDone
  <1>4. CASE Leaves(p) \/ GoesOn(p)
    BY <1>1, <1>4 DEF Leaves, GoesOn
  <1>5. CASE Publishes(p)
    BY <1>1, <1>5 DEF Publishes, TypeOK, Terminal
  <1>6. CASE Writes(p)
    BY <1>1, <1>2, <1>3, <1>6 DEF Writes, TypeOK, Terminal
  <1>7. CASE Syncs(p)
    BY <1>1, <1>7 DEF Syncs, TypeOK
  <1>8. CASE Performs(p)
    BY <1>1, <1>8 DEF Performs, TypeOK
  <1> QED
    BY <1>4, <1>5, <1>6, <1>7, <1>8 DEF CallActs

\* A call keeps the state of its own record and of its effect in step with pc.
LEMMA CallKeepsOpen ==
    ASSUME TypeOK, OwnerInv, OwnedIsOpen, EffectIsDone, NEW p \in Callers, CallActs(p)
    PROVE  OwnedIsOpen' /\ EffectIsDone'
  <1>1. ASSUME NEW q \in Callers \ {p}, pc'[q] \in Owning
        PROVE  /\ pc'[q] \in Open => state'[Id(q)'] \notin Terminal
               /\ pc'[q] \in AfterEffect => effects'[Id(q)'] > 0
    <2>1. pc'[q] = pc[q]
      BY DEF CallActs, OnlyCall
    <2> QED
      BY <1>1, <2>1, OthersKeepTheirs DEF OwnedIsOpen, EffectIsDone, Id
  <1>2. ASSUME pc'[p] \in Owning
        PROVE  /\ pc'[p] \in Open => state'[Id(p)'] \notin Terminal
               /\ pc'[p] \in AfterEffect => effects'[Id(p)'] > 0
    <2> USE DEF Open, Owning, BeforeEffect, AfterEffect
    <2>1. pc[p] \in Owning \/ pc[p] = "publish" => Id(p) \in Ids /\ effects[Id(p)] \in Nat
      BY ActiveRequest DEF TypeOK
    <2>2. CASE Leaves(p)
      BY <1>2, <2>2 DEF Leaves
    <2>3. CASE GoesOn(p)
      BY <2>3 DEF GoesOn, OwnedIsOpen, EffectIsDone, Id
    <2>4. CASE Publishes(p)
      BY <2>4 DEF Publishes, TypeOK, Terminal, Id
    <2>5. CASE Writes(p)
      BY <2>1, <2>5 DEF Writes, TypeOK, Terminal, OwnedIsOpen, EffectIsDone, Id
    <2>6. CASE Syncs(p)
      BY <1>2, <2>6 DEF Syncs, OwnedIsOpen, EffectIsDone, Id
    <2>7. CASE Performs(p)
      BY <2>1, <2>7 DEF Performs, TypeOK, OwnedIsOpen, Id
    <2> QED
      BY <2>2, <2>3, <2>4, <2>5, <2>6, <2>7 DEF CallActs
  <1>3. \A q \in Callers : pc'[q] \in Owning =>
           /\ pc'[q] \in Open => state'[Id(q)'] \notin Terminal
           /\ pc'[q] \in AfterEffect => effects'[Id(q)'] > 0
    BY <1>1, <1>2
  <1>4. Open \subseteq Owning /\ AfterEffect \subseteq Owning
    BY DEF Open, Owning, AfterEffect
  <1> QED
    BY <1>3, <1>4 DEF OwnedIsOpen, EffectIsDone

\* What one caller was told is true and, without a run, final.
AnswerIsTrue(q) ==
    answer[q] # None =>
       /\ answer[q].state \in {"SUCCEEDED", "FAILED"} => effects[answer[q].request.id] = 1
       /\ answer[q].replayed =>
             /\ answer[q].request.run # None => answer[q].body = answer[q].request.body
             /\ answer[q].request.run = None =>
                   /\ answer[q].state = state[answer[q].request.id]
                   /\ answer[q].state \in Terminal

LEMMA AnswersOneByOne ==
    RepliesAreFinal /\ AnswersAreTrue <=> \A q \in Callers : AnswerIsTrue(q)
  BY DEF RepliesAreFinal, AnswersAreTrue, ReportedOutcomeIsReal, ReplayAnswersHold, AnswerIsTrue

\* An answer stays true while outcomes stay and effects are not undone.
LEMMA KeptAnswer ==
    ASSUME TypeOK, effects' \in [Ids -> Nat], EffectAtMostOncePerIdentity',
           \A i \in Ids : /\ state[i] \in Terminal => state'[i] = state[i]
                          /\ effects'[i] >= effects[i],
           NEW q \in Callers, AnswerIsTrue(q), answer'[q] \in {None, answer[q]}
    PROVE  AnswerIsTrue(q)'
  <1> SUFFICES ASSUME answer'[q] # None
               PROVE  AnswerIsTrue(q)'
    BY DEF AnswerIsTrue
  <1>1. answer'[q] = answer[q] /\ answer[q] \in Answer
    BY DEF TypeOK
  <1> DEFINE i == answer[q].request.id
  <1>2. i \in Ids
    BY <1>1, ConstantsAreTyped DEF Answer, Request
  <1>3. state[i] \in Terminal => state'[i] = state[i]
    BY <1>2
  <1>4. effects[i] = 1 => effects'[i] = 1
    <2>1. effects'[i] >= effects[i] /\ effects'[i] <= 1 /\ effects'[i] \in Nat
      BY <1>2 DEF EffectAtMostOncePerIdentity
    <2> QED
      BY <2>1
  <1> HIDE DEF i
  <1> QED
    BY <1>1, <1>3, <1>4 DEF AnswerIsTrue, i

LEMMA CallKeepsAnswers ==
    ASSUME TypeOK, OutcomeIsReal, RepliesAreFinal, AnswersAreTrue,
           OwnedIsOpen, EffectIsDone, DiskIsBehind,
           effects' \in [Ids -> Nat], EffectAtMostOncePerIdentity',
           NEW p \in Callers, CallActs(p)
    PROVE  RepliesAreFinal' /\ AnswersAreTrue'
  <1>1. \A i \in Ids : /\ state[i] \in Terminal => state'[i] = state[i]
                       /\ effects'[i] >= effects[i]
    BY IdentityActs
  <1>2. \A q \in Callers : AnswerIsTrue(q)
    BY AnswersOneByOne
  <1>3. ASSUME NEW q \in Callers, answer'[q] \in {None, answer[q]}
        PROVE  AnswerIsTrue(q)'
    BY <1>1, <1>2, <1>3, KeptAnswer
  <1>5. ASSUME NEW b \in BOOLEAN, answer'[p] = AnswerOf(p, b), pc[p] # "idle",
               UNCHANGED <<state, effects, bodyOf>>,
               b => /\ IsBound(p) => bodyOf[Id(p)] = req[p].body
                    /\ ~IsBound(p) => state[Id(p)] \in Terminal
        PROVE  AnswerIsTrue(p)'
    <2>1. Id(p) \in Ids /\ Id(p) = req[p].id
      BY <1>5, ActiveRequest DEF Id
    <2>2. state[Id(p)] \in {"SUCCEEDED", "FAILED"} => effects'[Id(p)] = 1
      <3>1. state[Id(p)] \in {"SUCCEEDED", "FAILED"} => effects[Id(p)] > 0
        BY <2>1 DEF OutcomeIsReal
      <3>2. effects'[Id(p)] \in Nat /\ effects'[Id(p)] <= 1 /\ effects' = effects
        BY <1>5, <2>1 DEF EffectAtMostOncePerIdentity
      <3> QED
        BY <3>1, <3>2
    <2>3. /\ answer'[p].state = state'[Id(p)] /\ answer'[p].request = req[p]
          /\ answer'[p].body = bodyOf[Id(p)] /\ answer'[p].replayed = b
      BY <1>5 DEF AnswerOf
    <2> QED
      BY <1>5, <2>1, <2>2, <2>3 DEF AnswerIsTrue, IsBound
  <1>6. AnswerIsTrue(p)'
    BY <1>3, <1>5 DEF CallActs, Tells
  <1>7. \A q \in Callers : AnswerIsTrue(q)'
    BY <1>3, <1>6 DEF CallActs
  <1> QED
    BY <1>7 DEF RepliesAreFinal, AnswersAreTrue, ReportedOutcomeIsReal, ReplayAnswersHold,
                AnswerIsTrue

\* With the recovery before any caller, a call preserves the whole invariant.
LEMMA CallKeepsOutcomes ==
    ASSUME RecoveryAtStartupOnly, TypeOK, OwnerInv, PermitIsDurable, OutcomeInv,
           TypeOK', OwnerInv', NEW p \in Callers, CallerStep(p)
    PROVE  OutcomeInv'
  <1> USE DEF OutcomeInv
  <1>1. CallActs(p)
    BY CallerActs
  <1>2. ~Recovering
    <2>1. Submit(p) \/ pc[p] # "idle"
      BY DEF CallerStep, Step, Fault, LinkPermit, PermitExists, SyncPermit, ReplayPermit,
             Stage, Publish, LosePublication, PollReplay, PollTimeout, SyncRoot, StartRead,
             StartWrite, StartSync, BeginEffect, EndEffect, FinishRead, FinishWrite,
             FinishSync, FailBeforeEffect, FailAfterEffect, Crash
    <2> QED
      BY <2>1 DEF Submit, RecoveryIsAlone
  <1>3. RecoveryIsAlone' /\ RecoveryListsAll' /\ RecoveryHoldsOne'
    BY <1>1, <1>2 DEF CallActs, Recovering, RecoveryIsAlone, RecoveryListsAll, RecoveryHoldsOne
  <1>4. OwnedIsOpen' /\ EffectIsDone'
    BY <1>1, CallKeepsOpen
  <1>5. OutcomeIsReal' /\ DiskIsBehind'
    BY <1>1, IdentityActs DEF OutcomeIsReal, DiskIsBehind
  <1>6. RepliesAreFinal' /\ AnswersAreTrue'
    <2>1. effects' \in [Ids -> Nat] /\ EffectAtMostOncePerIdentity'
      BY DEF TypeOK, OwnerInv
    <2> QED
      BY <1>1, <2>1, CallKeepsAnswers
  <1> QED
    BY <1>3, <1>4, <1>5, <1>6

RecoveryStep == RecoverBegin \/ Recover \/ RecoverCrash

\* A recovery changes records only where no caller runs, closes the ones it
\* writes, and leaves outcomes alone.
LEMMA RecoveryActs ==
    ASSUME RecoveryAtStartupOnly, TypeOK, OutcomeInv, RecoveryStep
    PROVE  /\ UNCHANGED <<callerVars, effectVars, linked, bodyOf>>
           /\ \A p \in Callers : pc[p] = "idle"
           /\ \A i \in Ids :
                 /\ state[i] \in Terminal => state'[i] = state[i]
                 /\ \/ state'[i] = state[i]
                    \/ state[i] \in {"CLAIMED", "RUNNING"} /\ state'[i] = "UNKNOWN"
                 /\ diskState'[i] \in {diskState[i], state[i]}
                 /\ diskState[i] \in Terminal => diskState'[i] = diskState[i]
                 /\ diskState'[i] \in Terminal => state'[i] = diskState'[i]
  <1> USE DEF OutcomeInv, journalVars
  <1>1. UNCHANGED <<callerVars, effectVars, linked, bodyOf>>
    BY DEF RecoveryStep, RecoverBegin, Recover, RecoverCrash, RecoverVisit, RecoverRead,
           RecoverAbort, RecoverWrite, RecoverSync, RecoverEnd
  <1>2. \A p \in Callers : pc[p] = "idle"
    <2>1. RecoverBegin \/ Recovering
      BY DEF RecoveryStep, Recover, RecoverCrash, Recovering, RecoverVisit, RecoverRead,
             RecoverAbort, RecoverWrite, RecoverSync, RecoverEnd
    <2> QED
      BY <2>1 DEF RecoverBegin, RecoveryIsAlone
  <1>3. CASE RecoverWrite
    BY <1>1, <1>2, <1>3 DEF RecoverWrite, TypeOK, RecoveryHoldsOne, DiskIsBehind, Terminal
  <1>4. CASE RecoverSync
    BY <1>1, <1>2, <1>4 DEF RecoverSync, TypeOK, DiskIsBehind
  <1>5. CASE UNCHANGED <<state, diskState>>
    BY <1>1, <1>2, <1>5 DEF DiskIsBehind
  <1> QED
    BY <1>3, <1>4, <1>5
    DEF RecoveryStep, RecoverBegin, Recover, RecoverCrash, RecoverVisit, RecoverRead,
        RecoverAbort, RecoverEnd

\* The list of the recovery shrinks only as the records on it are closed.
LEMMA RecoveryKeepsList ==
    ASSUME TypeOK, OutcomeInv, RecoveryStep
    PROVE  RecoveryListsAll' /\ RecoveryHoldsOne'
  <1> USE DEF OutcomeInv, journalVars, Recovering
  <1>1. CASE RecoverBegin
    BY <1>1 DEF RecoverBegin, RecoveryListsAll, RecoveryHoldsOne
  <1>2. CASE RecoverVisit
    <2>1. PICK e \in recovery.todo :
             recovery' = [pc |-> IF Interrupted(e) THEN "read" ELSE "scan",
                          todo |-> recovery.todo \ {e},
                          cur |-> IF Interrupted(e) THEN e.id ELSE None]
      BY <1>2 DEF RecoverVisit
    <2>2. e \in Entry /\ recovery.pc = "scan" /\ state' = state
      BY <1>2 DEF RecoverVisit, TypeOK
    <2>3. ASSUME NEW i \in Ids, state[i] \in {"CLAIMED", "RUNNING"}, e = [temp |-> FALSE, id |-> i]
          PROVE  recovery'.pc = "read" /\ recovery'.cur = i
      BY <2>1, <2>3 DEF Interrupted
    <2>4. RecoveryListsAll'
      BY <2>1, <2>2, <2>3 DEF RecoveryListsAll
    <2> QED
      BY <2>1, <2>4 DEF RecoveryHoldsOne
  <1>3. CASE RecoverRead
    <2>1. state' = state /\ recovery.pc = "read"
      BY <1>3 DEF RecoverRead
    <2>2. CASE state[recovery.cur] \in {"CLAIMED", "RUNNING"}
               /\ recovery' = [recovery EXCEPT !.pc = "write"]
      BY <2>1, <2>2 DEF TypeOK, RecoveryListsAll, RecoveryHoldsOne
    <2>3. CASE state[recovery.cur] = "UNKNOWN"
               /\ recovery' = [recovery EXCEPT !.pc = "scan", !.cur = None]
      BY <2>1, <2>3 DEF TypeOK, RecoveryListsAll, RecoveryHoldsOne
    <2> QED
      BY <1>3, <2>2, <2>3 DEF RecoverRead
  <1>4. CASE RecoverWrite
    BY <1>4 DEF RecoverWrite, TypeOK, RecoveryListsAll, RecoveryHoldsOne
  <1>5. CASE RecoverSync
    BY <1>5 DEF RecoverSync, TypeOK, RecoveryListsAll, RecoveryHoldsOne
  <1>6. CASE RecoverAbort \/ RecoverEnd \/ RecoverCrash
    BY <1>6 DEF RecoverAbort, RecoverEnd, RecoverCrash, RecoveryOff, RecoveryListsAll,
                RecoveryHoldsOne
  <1> QED
    BY <1>1, <1>2, <1>3, <1>4, <1>5, <1>6 DEF RecoveryStep, Recover

LEMMA RecoveryKeepsOutcomes ==
    ASSUME RecoveryAtStartupOnly, TypeOK, OutcomeInv, TypeOK', OwnerInv', RecoveryStep
    PROVE  OutcomeInv'
  <1>1. /\ UNCHANGED <<callerVars, effectVars, linked, bodyOf>>
        /\ \A p \in Callers : pc[p] = "idle"
    BY RecoveryActs
  <1>2. \A i \in Ids :
           /\ state[i] \in Terminal => state'[i] = state[i]
           /\ state'[i] \in {state[i], "UNKNOWN"}
           /\ diskState'[i] \in {diskState[i], state[i]}
           /\ diskState'[i] \in Terminal => state'[i] = diskState'[i]
    BY RecoveryActs
  <1>3. pc' = pc /\ answer' = answer /\ effects' = effects
    BY <1>1 DEF callerVars, effectVars
  <1>4. RecoveryIsAlone' /\ OwnedIsOpen' /\ EffectIsDone'
    BY <1>1, <1>3 DEF RecoveryIsAlone, OwnedIsOpen, EffectIsDone, Open, BeforeEffect,
                      AfterEffect
  <1>5. OutcomeIsReal' /\ DiskIsBehind'
    BY <1>2, <1>3 DEF OutcomeInv, OutcomeIsReal, DiskIsBehind
  <1>6. RecoveryListsAll' /\ RecoveryHoldsOne'
    BY RecoveryKeepsList
  <1>7. RepliesAreFinal' /\ AnswersAreTrue'
    <2>1. effects' \in [Ids -> Nat] /\ EffectAtMostOncePerIdentity'
      BY DEF TypeOK, OwnerInv
    <2>2. \A i \in Ids : effects'[i] >= effects[i]
      BY <1>3, <2>1
    <2>3. \A q \in Callers : AnswerIsTrue(q)
      BY AnswersOneByOne DEF OutcomeInv
    <2>4. \A q \in Callers : AnswerIsTrue(q)'
      BY <1>2, <1>3, <2>1, <2>2, <2>3, KeptAnswer
    <2> QED
      BY <2>4 DEF RepliesAreFinal, AnswersAreTrue, ReportedOutcomeIsReal, ReplayAnswersHold,
                  AnswerIsTrue
  <1> QED
    BY <1>4, <1>5, <1>6, <1>7 DEF OutcomeInv

\* After a power loss every call is gone, and every record is one of the two
\* versions it had.
LEMMA PowerLossKeepsOutcomes ==
    ASSUME TypeOK, OutcomeInv, PowerLoss
    PROVE  OutcomeInv'
  <1>1. /\ \A p \in Callers : pc'[p] = "idle" /\ answer'[p] = None
        /\ ~Recovering' /\ recovery'.pc = "off"
    BY DEF PowerLoss, Recovering, RecoveryOff
  <1>2. /\ diskState' = state' /\ effects' = effects
        /\ \A i \in Ids : state'[i] \in {state[i], diskState[i], "ABSENT"}
    BY DEF PowerLoss, Survivors, effectVars
  <1>3. OutcomeIsReal' /\ DiskIsBehind'
    BY <1>2 DEF OutcomeInv, OutcomeIsReal, DiskIsBehind
  <1>4. RecoveryIsAlone' /\ RecoveryListsAll' /\ RecoveryHoldsOne'
    BY <1>1 DEF RecoveryIsAlone, RecoveryListsAll, RecoveryHoldsOne
  <1>5. OwnedIsOpen' /\ EffectIsDone'
    BY <1>1 DEF OwnedIsOpen, EffectIsDone, Open, BeforeEffect, AfterEffect
  <1>6. RepliesAreFinal' /\ AnswersAreTrue'
    BY <1>1 DEF RepliesAreFinal, AnswersAreTrue, ReportedOutcomeIsReal, ReplayAnswersHold
  <1> QED
    BY <1>3, <1>4, <1>5, <1>6 DEF OutcomeInv

LEMMA OutcomeInit == Init => OutcomeInv
  BY DEF Init, RecoveryOff, Recovering, OutcomeInv, RecoveryIsAlone, OwnedIsOpen, EffectIsDone,
         Open, BeforeEffect, AfterEffect, OutcomeIsReal, DiskIsBehind, Terminal,
         RecoveryListsAll, RecoveryHoldsOne, RepliesAreFinal, AnswersAreTrue,
         ReportedOutcomeIsReal, ReplayAnswersHold

LEMMA OutcomeStep ==
    ASSUME RecoveryAtStartupOnly, IdentityInv, RunInv, OutcomeInv, IdentityInv', [Next]_vars
    PROVE  OutcomeInv'
  <1>1. TypeOK /\ OwnerInv /\ PermitIsDurable /\ TypeOK' /\ OwnerInv'
    BY DEF IdentityInv, RunInv, OwnerInv
  <1>2. CASE UNCHANGED vars
    BY <1>2 DEF vars, journalVars, permitVars, callerVars, effectVars, Recovering, OutcomeInv,
         RecoveryIsAlone, OwnedIsOpen, EffectIsDone, OutcomeIsReal, DiskIsBehind,
         RecoveryListsAll, RecoveryHoldsOne, RepliesAreFinal, AnswersAreTrue,
         ReportedOutcomeIsReal, ReplayAnswersHold, Id
  <1>3. CASE \E p \in Callers : CallerStep(p)
    BY <1>1, <1>3, CallKeepsOutcomes
  <1>4. CASE PowerLoss
    BY <1>1, <1>4, PowerLossKeepsOutcomes
  <1>5. CASE RecoveryStep
    BY <1>1, <1>5, RecoveryKeepsOutcomes
  <1> QED
    BY <1>2, <1>3, <1>4, <1>5 DEF Next, CallerStep, RecoveryStep

----------------------------------------------------------------------------
\* Where recover_interrupted runs before any caller, the outcomes and the answers
\* keep their invariant.
THEOREM OutcomeInvariance ==
    ASSUME RecoveryAtStartupOnly
    PROVE  Spec => []OutcomeInv
  <1>1. Init => OutcomeInv
    BY OutcomeInit
  <1>2. IdentityInv /\ RunInv /\ OutcomeInv /\ IdentityInv' /\ [Next]_vars => OutcomeInv'
    BY OutcomeStep
  <1> QED
    BY <1>1, <1>2, Invariance, PTL DEF Spec

\* What a caller is told, as a result of its own or as a replay, is what happened
\* and what the journal says.
THEOREM TrueAnswers ==
    ASSUME RecoveryAtStartupOnly
    PROVE  Spec => []AnswersAreTrue
  <1>1. OutcomeInv => AnswersAreTrue
    BY DEF OutcomeInv
  <1> QED
    BY <1>1, OutcomeInvariance, PTL

\* A durable outcome is never replaced by another one.
THEOREM FinalOutcome ==
    ASSUME RecoveryAtStartupOnly
    PROVE  Spec => TerminalIsFinal
  <1>1. ASSUME IdentityInv, RunInv, OutcomeInv, [Next]_vars, NEW i \in linked,
               diskState[i] \in Terminal
        PROVE  i \in linked' /\ diskState'[i] = diskState[i]
    <2>1. TypeOK /\ OwnerInv /\ PermitIsDurable /\ i \in Ids
      BY <1>1 DEF IdentityInv, RunInv, OwnerInv, TypeOK
    <2>2. CASE UNCHANGED vars
      BY <1>1, <2>2 DEF vars, journalVars
    <2>3. ASSUME NEW p \in Callers, CallerStep(p)
          PROVE  i \in linked' /\ diskState'[i] = diskState[i]
      BY <1>1, <2>1, <2>3, CallerActs, IdentityActs DEF OutcomeInv, CallActs
    <2>4. CASE PowerLoss
      BY <1>1, <2>1, <2>4 DEF PowerLoss, Survivors, OutcomeInv, DiskIsBehind, Terminal
    <2>5. CASE RecoveryStep
      BY <1>1, <2>1, <2>5, RecoveryActs
    <2> QED
      BY <1>1, <2>2, <2>3, <2>4, <2>5 DEF Next, CallerStep, RecoveryStep
  <1>2. IdentityInv /\ RunInv /\ OutcomeInv /\ [Next]_vars =>
           [\A i \in linked : diskState[i] \in Terminal =>
               i \in linked' /\ diskState'[i] = diskState[i]]_vars
    BY <1>1
  <1> QED
    BY <1>2, Invariance, OutcomeInvariance, PTL DEF Spec, TerminalIsFinal

\* A recovery that ends normally leaves no identity CLAIMED or RUNNING.
THEOREM ClosedRecovery ==
    ASSUME RecoveryAtStartupOnly
    PROVE  Spec => RecoveryClosesInterrupted
  <1>1. OutcomeInv /\ [Next]_vars =>
           [RecoverEnd => \A i \in Ids : state[i] \notin {"CLAIMED", "RUNNING"}]_vars
    BY DEF OutcomeInv, RecoveryListsAll, RecoverEnd, Recovering
  <1> QED
    BY <1>1, OutcomeInvariance, PTL DEF Spec, RecoveryClosesInterrupted

----------------------------------------------------------------------------
(***************************************************************************)
(* The journal and the boundary implement OnceOnlyEffect.                  *)
(***************************************************************************)
ConsumedIds == {i \in Ids : state[i] # "ABSENT"}
ExecutedIds == {i \in Ids : effects[i] > 0}
ClosedIds   == {i \in linked : diskState[i] \in Terminal}

\* A step that performs no effect, forgets nothing performed or closed, and
\* closes only what stays consumed, settles.
LEMMA Settles ==
    ASSUME ExecutedIds' = ExecutedIds,
           ConsumedIds' \subseteq ConsumedIds,
           ClosedIds \subseteq ClosedIds',
           ClosedIds' \subseteq ConsumedIds',
           ExecutedIds \cap ConsumedIds \subseteq ConsumedIds'
    PROVE  Abstract!Settle
  <1> DEFINE Lost == ConsumedIds \ ConsumedIds'
  <1>1. Lost \in SUBSET (ConsumedIds \ (ExecutedIds \cup ClosedIds))
    OBVIOUS
  <1>2. ClosedIds' \in SUBSET (ConsumedIds \ Lost)
    OBVIOUS
  <1>3. ConsumedIds' = ConsumedIds \ Lost /\ ClosedIds' = ClosedIds \cup ClosedIds'
    OBVIOUS
  <1>4. \E lost \in SUBSET (ConsumedIds \ (ExecutedIds \cup ClosedIds)) :
        \E outcome \in SUBSET (ConsumedIds \ lost) :
            /\ ConsumedIds' = ConsumedIds \ lost
            /\ ClosedIds' = ClosedIds \cup outcome
            /\ ExecutedIds' = ExecutedIds
    BY <1>1, <1>2, <1>3
  <1> QED
    BY <1>4 DEF Abstract!Settle, ConsumedIds, ExecutedIds, ClosedIds

\* A durable outcome stays one, and is that of a consumed identity.
LEMMA ClosedStays ==
    ASSUME RecoveryAtStartupOnly, TypeOK, OwnerInv, PermitIsDurable, OutcomeInv, TypeOK',
           OwnerInv', [Next]_vars
    PROVE  ClosedIds \subseteq ClosedIds' /\ ClosedIds' \subseteq ConsumedIds'
  <1>1. ClosedIds' \subseteq ConsumedIds'
    BY DEF ClosedIds, ConsumedIds, OwnerInv, OwnerIsDurable, TypeOK
  <1>2. linked \subseteq Ids
    BY DEF TypeOK
  <1>3. CASE UNCHANGED vars
    BY <1>1, <1>3 DEF vars, journalVars, ClosedIds
  <1>4. ASSUME NEW p \in Callers, CallerStep(p)
        PROVE  ClosedIds \subseteq ClosedIds'
    BY <1>2, <1>4, CallerActs, IdentityActs DEF OutcomeInv, CallActs, ClosedIds
  <1>5. CASE PowerLoss
    BY <1>1, <1>2, <1>5 DEF PowerLoss, Survivors, OutcomeInv, DiskIsBehind, Terminal, ClosedIds
  <1>6. CASE RecoveryStep
    BY <1>1, <1>2, <1>6, RecoveryActs DEF ClosedIds
  <1> QED
    BY <1>1, <1>3, <1>4, <1>5, <1>6 DEF Next, CallerStep, RecoveryStep

\* A step of a call consumes its identity, executes it, or settles.
LEMMA CallRefines ==
    ASSUME TypeOK, OwnerInv, OutcomeInv, NEW p \in Callers, CallActs(p),
           ClosedIds \subseteq ClosedIds', ClosedIds' \subseteq ConsumedIds'
    PROVE  Abstract!Next
  <1>1. CASE Leaves(p) \/ GoesOn(p) \/ Writes(p) \/ Syncs(p)
    <2>1. effects' = effects
      BY <1>1 DEF Leaves, GoesOn, Writes, Syncs
    <2>2. \A i \in Ids : state'[i] = "ABSENT" <=> state[i] = "ABSENT"
      <3>1. CASE Writes(p)
        <4>1. state[Id(p)] # "ABSENT"
          BY <3>1 DEF Writes, OwnerInv, OwnerIsUnique, Open, Owning, AfterEffect
        <4> QED
          BY <3>1, <4>1 DEF Writes, TypeOK, Terminal
      <3> QED
        BY <1>1, <3>1 DEF Leaves, GoesOn, Syncs
    <2>3. ExecutedIds' = ExecutedIds /\ ConsumedIds' = ConsumedIds
      BY <2>1, <2>2 DEF ExecutedIds, ConsumedIds
    <2> QED
      BY <2>3, Settles DEF Abstract!Next
  <1>2. CASE Publishes(p)
    <2>1. Id(p) \in Ids /\ Id(p) \notin linked
      BY <1>2, ActiveRequest DEF Publishes, OwnerInv, OwnerIsDurable
    <2>2. Id(p) \notin ConsumedIds /\ ConsumedIds' = ConsumedIds \cup {Id(p)}
      BY <1>2, <2>1 DEF Publishes, ConsumedIds, TypeOK
    <2>3. ExecutedIds' = ExecutedIds /\ ClosedIds' = ClosedIds
      BY <1>2, <2>1 DEF Publishes, ExecutedIds, ClosedIds, TypeOK
    <2>4. ASSUME NEW i \in Ids, i = Id(p) PROVE Abstract!Consume(i)
      BY <2>4, <2>2, <2>3 DEF Abstract!Consume, ConsumedIds, ExecutedIds, ClosedIds
    <2> QED
      BY <2>1, <2>4 DEF Abstract!Next
  <1>3. CASE Performs(p)
    <2>1. Id(p) \in Ids /\ effects[Id(p)] = 0 /\ state[Id(p)] \notin Terminal \cup {"ABSENT"}
      BY <1>3, ActiveRequest
      DEF Performs, OwnerInv, OwnerIsUnique, EffectIsFirst, OutcomeInv, OwnedIsOpen, Open,
          Owning, BeforeEffect
    <2>2. Id(p) \in ConsumedIds \ (ExecutedIds \cup ClosedIds)
      BY <2>1 DEF ConsumedIds, ExecutedIds, ClosedIds, OutcomeInv, DiskIsBehind
    <2>3. ExecutedIds' = ExecutedIds \cup {Id(p)}
      BY <1>3, <2>1 DEF Performs, ExecutedIds, TypeOK
    <2>4. ConsumedIds' = ConsumedIds /\ ClosedIds' = ClosedIds
      BY <1>3 DEF Performs, ConsumedIds, ClosedIds
    <2>5. ASSUME NEW i \in Ids, i = Id(p) PROVE Abstract!Execute(i)
      BY <2>5, <2>2, <2>3, <2>4 DEF Abstract!Execute, ConsumedIds, ExecutedIds, ClosedIds
    <2> QED
      BY <2>1, <2>5 DEF Abstract!Next
  <1> QED
    BY <1>1, <1>2, <1>3 DEF CallActs

LEMMA StepRefines ==
    ASSUME RecoveryAtStartupOnly, IdentityInv, RunInv, OutcomeInv, IdentityInv', [Next]_vars
    PROVE  [Abstract!Next]_<<ConsumedIds, ExecutedIds, ClosedIds>>
  <1>1. TypeOK /\ OwnerInv /\ PermitIsDurable /\ TypeOK' /\ OwnerInv'
    BY DEF IdentityInv, RunInv, OwnerInv
  <1>2. ClosedIds \subseteq ClosedIds' /\ ClosedIds' \subseteq ConsumedIds'
    BY <1>1, ClosedStays
  <1>3. CASE UNCHANGED vars
    BY <1>3 DEF vars, journalVars, effectVars, ConsumedIds, ExecutedIds, ClosedIds
  <1>4. ASSUME NEW p \in Callers, CallerStep(p)
        PROVE  Abstract!Next
    BY <1>1, <1>2, <1>4, CallerActs, CallRefines DEF OutcomeInv
  <1>5. CASE PowerLoss
    <2>1. ExecutedIds' = ExecutedIds
      BY <1>5 DEF PowerLoss, effectVars, ExecutedIds
    <2>2. ConsumedIds' \subseteq ConsumedIds
      BY <1>1, <1>5 DEF PowerLoss, Survivors, ConsumedIds, OwnerInv, OwnerIsDurable
    <2>3. ExecutedIds \cap ConsumedIds \subseteq ConsumedIds'
      BY <1>1, <1>5 DEF PowerLoss, Survivors, ConsumedIds, ExecutedIds, OwnerInv,
                        OwnerIsDurable, AnnouncedBeforeEffect
    <2> QED
      BY <1>2, <2>1, <2>2, <2>3, Settles DEF Abstract!Next
  <1>6. CASE RecoveryStep
    <2>1. ExecutedIds' = ExecutedIds /\ ConsumedIds' = ConsumedIds
      BY <1>1, <1>6, RecoveryActs DEF effectVars, ExecutedIds, ConsumedIds
    <2> QED
      BY <1>2, <2>1, Settles DEF Abstract!Next
  <1> QED
    BY <1>3, <1>4, <1>5, <1>6 DEF Next, CallerStep, RecoveryStep

\* The journal and the boundary implement the once-only effect: an identity is
\* consumed before its effect, performed only while it is open, and neither an
\* effect nor a durable outcome is forgotten.
THEOREM OnceOnly ==
    ASSUME RecoveryAtStartupOnly
    PROVE  Spec => ImplementsOnceOnly
  <1>1. Init => Abstract!Init
    BY DEF Init, Abstract!Init
  <1>2. IdentityInv /\ RunInv /\ OutcomeInv /\ IdentityInv' /\ [Next]_vars
           => [Abstract!Next]_<<ConsumedIds, ExecutedIds, ClosedIds>>
    BY StepRefines
  <1> USE DEF ConsumedIds, ExecutedIds, ClosedIds
  <1> QED
    BY <1>1, <1>2, Invariance, OutcomeInvariance, PTL
    DEF Spec, ImplementsOnceOnly, Abstract!Spec
=============================================================================
