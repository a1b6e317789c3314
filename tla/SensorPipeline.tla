--------------------------- MODULE SensorPipeline ---------------------------
(***************************************************************************)
(* What one sensor tick makes of one tmux pane: the observation the parser *)
(* can make of it, its activity, the contract violations in it and the     *)
(* lifecycle state the pane's state machine moves to.                      *)
(***************************************************************************)
LOCAL INSTANCE Sequences

\* WAITING and COMPLETED need evidence that no sensor of this program gives.
MachineStates == {"IDLE", "OBSERVING", "TASK_ACTIVE", "STUCK", "FAILED"}

AnomalyStates == {"STUCK", "FAILED"}

\* inspect_panes: a pane that is alive or dead, with or without a baseline from
\* an earlier capture of the same server generation.  When the generation is not
\* the same at the end of the batch (~trusted), whatever relates the observation
\* to earlier ones is unknown; every reader of first and changed counts an
\* unknown one as false.
Observations(isAlive, hasBaseline) ==
    {o \in [dead : {~isAlive}, captured : BOOLEAN, trusted : BOOLEAN,
            first : BOOLEAN, changed : BOOLEAN] :
        /\ o.first = (o.trusted /\ ~hasBaseline)
        /\ o.changed => o.trusted /\ o.captured /\ hasBaseline}

\* ActivityDetector.classify_activity; a changed command counts as changed output.
Activity(o) ==
    CASE o.dead            -> "PANE_DEAD"
      [] ~o.dead /\ ~o.captured                       -> "CAPTURE_FAILED"
      [] ~o.dead /\ o.captured /\ o.first      -> "INITIALIZED"
      [] ~o.dead /\ o.captured /\ ~o.first /\ o.changed -> "OUTPUT_CHANGED"
      [] OTHER             -> "OUTPUT_SILENT"

\* ContractVerifier.verify, of observations the parser makes, in its order.
Violations(o) ==
    LET Reports(v) == \/ v = "CAPTURE_FAILED" /\ ~o.captured
                      \/ v = "PANE_DEAD" /\ o.dead
    IN SelectSeq(<<"CAPTURE_FAILED", "PANE_DEAD">>, Reports)

\* StateMachine.update_state.  overdue: silent for longer than the threshold of
\* its job.  Only completion evidence leads out of FAILED.
Updated(state, o, overdue) ==
    LET activity == Activity(o) IN
    CASE activity = "PANE_DEAD" -> "FAILED"
      [] activity = "INITIALIZED" /\ state = "IDLE" -> "OBSERVING"
      [] activity = "OUTPUT_CHANGED" /\ state \in {"IDLE", "OBSERVING", "STUCK"} -> "TASK_ACTIVE"
      [] activity = "OUTPUT_SILENT" /\ state = "TASK_ACTIVE" /\ overdue -> "STUCK"
      [] OTHER -> state

\* What the tick has for the incident manager: every violation, or else the
\* state of the machine when it is anomalous.
Signals(o, state) ==
    LET violations == Violations(o) IN
    IF violations # <<>> THEN violations
    ELSE SelectSeq(<<state>>, LAMBDA q : q \in AnomalyStates)

\* What a tick can report of a pane that is dead or alive, after any history of
\* its baseline, its state machine and its silence.
PossibleSignals(isAlive) ==
    UNION {{Signals(o, Updated(state, o, overdue)) :
                o \in Observations(isAlive, hasBaseline)} :
           state \in MachineStates, hasBaseline \in BOOLEAN, overdue \in BOOLEAN}
=============================================================================
