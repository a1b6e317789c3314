-------------------------- MODULE BoundChanges_proofs --------------------------
(* Proofs about the two changes of a host that are bound to what was approved:  *)
(* the live validation (LiveValidation) and the installers (HostBootstrap).     *)
(*                                                                              *)
(* LiveValidation rests on who may change the directory: from the mkdir on, at  *)
(* most one process, until the marker is gone again; after a death, only a      *)
(* process of the run that the marker names.  So the server behind the socket   *)
(* is that run's, the plan and the permit name it, and wherever a server may be *)
(* alive, the marker stays until kill-server was tried.                         *)
(*                                                                              *)
(* An installer may say what it says because of what it has done to get there:  *)
(* every file before its step is exact while nobody else writes, nothing of its *)
(* own is there before it has begun, and after the restart was tested nobody    *)
(* else restarts the Sentinel.                                                  *)
EXTENDS LiveValidation, HostBootstrap, SequenceTheorems, TLAPS

-----------------------------------------------------------------------------
(* The live validation.                                                      *)

Pcs ==
    {"away", "root", "mark", "start", "option", "abort", "observe", "remove", "removeRest",
     "raised", "permit", "identity", "respawn", "record", "recordFailure", "generation",
     "pane"}

Servers == [run : Runs, alive : BOOLEAN, pane : {"running", "dead"}, keep : BOOLEAN]

Processes == [pc : Pcs, server : Nat \cup {Nothing}]

\* The servers that no kill-server has failed to end.
Living == {g \in DOMAIN servers \ unkilled : servers[g].alive}

Holding == Pcs \ {"away", "root"}

Unmarked == {"mark", "removeRest"}

TypesOK ==
    /\ marker \in Runs \cup {Nothing, "unmarked"}
    /\ servers \in Seq(Servers)
    /\ socket \in DOMAIN servers \cup {Nothing}
    /\ run \in [Runs -> Processes]
    /\ runPermits \in [Runs -> Nat \cup {Nothing}]
    /\ respawns \in Seq(Runs \X Nat)
    /\ verified \in [Runs -> Nat \cup {Nothing}]

\* A process between mkdir and rmdir holds the directory alone; the marker names its run
\* but for the first and the last moment.
OneHolder ==
    /\ \A r \in Runs : run[r].pc \in Holding =>
          marker = IF run[r].pc \in Unmarked THEN "unmarked" ELSE r
    /\ \A r, q \in Runs : run[r].pc \in Unmarked /\ run[q].pc \in Unmarked => r = q

\* A socket is in a directory, and the server behind it is that of the run it belongs to.
SocketIsHolders ==
    /\ marker = Nothing => socket = Nothing
    /\ socket # Nothing => marker \in {"unmarked", servers[socket].run}
    /\ \A r \in Runs : run[r].pc \in {"mark", "start"} => socket = Nothing
    /\ \A r \in Runs : run[r].pc = "removeRest" /\ socket # Nothing => servers[socket].run = r

\* Nobody starts a server beside another, or removes a marker before kill-server.
EmptyWhenTaken == \A r \in Runs : run[r].pc \in {"start", "remove"} => Living = {}

\* From its observation to its verification a process and its permit name the server
\* behind the socket.
PlanIsBound ==
    \A r \in Runs :
       /\ run[r].pc \in {"permit", "identity", "respawn", "record", "generation", "pane"} =>
             run[r].server = socket /\ socket # Nothing
       /\ run[r].pc \in {"identity", "respawn", "record", "generation", "pane"} =>
             runPermits[r] = socket

\* The respawn is done once the process has passed it, and not before.
RespawnIsPassed ==
    \A r \in Runs :
       /\ run[r].pc \in {"identity", "respawn"} =>
             \A i \in DOMAIN respawns : respawns[i][1] # r
       /\ run[r].pc \in {"record", "generation", "pane"} =>
             \E i \in DOMAIN respawns : respawns[i] = <<r, socket>>

LiveInv ==
    /\ TypesOK
    /\ OneHolder
    /\ SocketIsHolders
    /\ EmptyWhenTaken
    /\ NoServerIsLost
    /\ PlanIsBound
    /\ RespawnIsPassed
    /\ EffectIsBound

-----------------------------------------------------------------------------
\* A record of servers that is changed in place keeps its type and its length.
LEMMA ChangedInPlace ==
    ASSUME NEW s \in Seq(Servers), NEW t, t \in [DOMAIN s -> Servers]
    PROVE  t \in Seq(Servers) /\ Len(t) = Len(s) /\ DOMAIN t = DOMAIN s
  <1>1. DOMAIN s = 1 .. Len(s) /\ Len(s) \in Nat
    BY LenProperties
  <1>2. t \in Seq(Servers)
    BY <1>1, SeqDef
  <1> QED
    BY <1>1, <1>2, LenProperties

LEMMA ServersAreIndexed ==
    ASSUME TypesOK
    PROVE  /\ Len(servers) \in Nat
           /\ DOMAIN servers = 1 .. Len(servers)
           /\ \A g \in DOMAIN servers : servers[g] \in Servers
           /\ Reachable \subseteq DOMAIN servers \ {Nothing}
  BY LenProperties, ElementOfSeq DEF TypesOK, Reachable

\* What a process of a run does to its own place.
LEMMA GotoIs ==
    ASSUME TypesOK, NEW r \in Runs, NEW l \in Pcs, RunGoto(r, l)
    PROVE  /\ run' \in [Runs -> Processes]
           /\ run'[r].pc = l /\ run'[r].server = run[r].server
           /\ \A q \in Runs \ {r} : run'[q] = run[q]
  BY DEF TypesOK, RunGoto, Processes

LEMMA AwayIs ==
    ASSUME TypesOK, NEW r \in Runs, run' = [run EXCEPT ![r] = Away]
    PROVE  /\ run' \in [Runs -> Processes]
           /\ run'[r].pc = "away"
           /\ \A q \in Runs \ {r} : run'[q] = run[q]
  BY DEF TypesOK, Away, Processes, Pcs

LEMMA RaisedIs ==
    ASSUME TypesOK, NEW r \in Runs, Raised(r)
    PROVE  /\ run' \in [Runs -> Processes]
           /\ run'[r].pc = "raised"
           /\ \A q \in Runs \ {r} : run'[q] = run[q]
  BY DEF TypesOK, Raised, Processes, Pcs

LEMMA PlannedIs ==
    ASSUME LiveConstants, TypesOK, NEW r \in Runs, NEW g \in DOMAIN servers, SeenDead(g),
           run' = Planned(r, g)
    PROVE  /\ run' \in [Runs -> Processes]
           /\ run'[r].pc = "permit" /\ run'[r].server = socket /\ socket # Nothing
           /\ \A q \in Runs \ {r} : run'[q] = run[q]
  <1>1. g = socket /\ socket # Nothing /\ g \in Nat
    BY ServersAreIndexed DEF SeenDead, Reachable
  <1> QED
    BY <1>1 DEF TypesOK, Planned, Processes, Pcs
-----------------------------------------------------------------------------
\* No server changes its run or comes back to life, and a process only reaches the one
\* behind the socket.
ServersFollow ==
    /\ servers' \in Seq(Servers)
    /\ \A g \in DOMAIN servers :
          /\ g \in DOMAIN servers'
          /\ servers'[g].run = servers[g].run
          /\ servers'[g].alive => servers[g].alive

LEMMA ServersAreKept ==
    ASSUME TypesOK, servers' = servers
    PROVE  ServersFollow /\ DOMAIN servers' = DOMAIN servers
  BY DEF ServersFollow, TypesOK

\* What Start does to the servers.
LEMMA StartIs ==
    ASSUME TypesOK, NEW r \in Runs, Start(r)
    PROVE  /\ ServersFollow
           /\ socket' = Len(servers) + 1 /\ socket' \notin DOMAIN servers
           /\ DOMAIN servers' = DOMAIN servers \cup {socket'}
           /\ servers'[socket'].run = r
           /\ \A g \in DOMAIN servers : servers'[g] = servers[g]
  <1>1. servers \in Seq(Servers) /\ ServerOf(r) \in Servers
    BY DEF TypesOK, ServerOf, Servers
  <1>2. servers' \in Seq(Servers) /\ Len(servers') = Len(servers) + 1
    BY <1>1, AppendProperties DEF Start
  <1>3. /\ \A g \in 1 .. Len(servers) : servers'[g] = servers[g]
        /\ servers'[Len(servers) + 1] = ServerOf(r)
    BY <1>1, AppendProperties DEF Start
  <1>4. DOMAIN servers' = 1 .. Len(servers') /\ DOMAIN servers = 1 .. Len(servers)
        /\ Len(servers) \in Nat
    BY <1>1, <1>2, LenProperties
  <1>5. socket' = Len(servers) + 1
    BY <1>2 DEF Start
  <1>6. socket' \notin DOMAIN servers /\ DOMAIN servers' = DOMAIN servers \cup {socket'}
    BY <1>2, <1>4, <1>5
  <1> QED
    BY <1>2, <1>3, <1>4, <1>5, <1>6 DEF ServersFollow, ServerOf

\* What the other steps of a process do to the servers.
LEMMA ReachedIs ==
    ASSUME LiveConstants, TypesOK, NEW r \in Runs, RunStep(r), ~Start(r)
    PROVE  /\ ServersFollow
           /\ DOMAIN servers' = DOMAIN servers
           /\ \A g \in DOMAIN servers : g # socket => servers'[g] = servers[g]
  <1> USE ServersAreIndexed
  <1>1. CASE servers' = servers
    BY <1>1, ServersAreKept
  <1>2. ASSUME servers' # servers
        PROVE  /\ servers' \in [DOMAIN servers -> Servers]
               /\ \A g \in DOMAIN servers :
                     /\ servers'[g].run = servers[g].run
                     /\ servers'[g].alive => servers[g].alive
                     /\ g # socket => servers'[g] = servers[g]
    <2>1. ASSUME SetOption(r) \/ Respawn(r), NEW h \in Reachable,
                 \/ servers' = [servers EXCEPT ![h].keep = TRUE]
                 \/ servers' = [servers EXCEPT ![h].pane = "running"]
          PROVE  /\ servers' \in [DOMAIN servers -> Servers]
                 /\ \A g \in DOMAIN servers :
                       /\ servers'[g].run = servers[g].run
                       /\ servers'[g].alive => servers[g].alive
                       /\ g # socket => servers'[g] = servers[g]
      <3>1. h = socket /\ h \in DOMAIN servers
        BY <2>1 DEF Reachable
      <3>2. servers \in [DOMAIN servers -> Servers]
        BY LenProperties DEF TypesOK
      <3>3. \A g \in DOMAIN servers : g # h => servers'[g] = servers[g]
        BY <2>1, <3>1, <3>2
      <3>4. CASE servers' = [servers EXCEPT ![h].keep = TRUE]
        BY <3>1, <3>2, <3>3, <3>4 DEF Servers
      <3>5. CASE servers' = [servers EXCEPT ![h].pane = "running"]
        BY <3>1, <3>2, <3>3, <3>5 DEF Servers
      <3> QED
        BY <2>1, <3>4, <3>5
    <2>2. CASE servers' = Killed
      BY <2>2 DEF Killed, Reachable, Servers
    <2>3. CASE SetOption(r) \/ Respawn(r)
      BY <2>1, <2>3 DEF SetOption, Respawn
    <2> QED
      BY <1>2, <2>2, <2>3
      DEF RunStep, Preflight, MakeRoot, Mark, MarkFails, StartFails, OptionFails, Abort,
          Teardown, KillServer, RemoveMarker, RemoveRest, Observe, DryRunRaises, ClaimRunPermit,
          PermitSpent, ClaimRunIdentity, RespawnFails, RecordRun, RecordFailure, VerifyGeneration,
          VerifyPane, Crash, runHistory
  <1>3. servers' \in Seq(Servers) /\ DOMAIN servers' = DOMAIN servers
    BY <1>1, <1>2, ChangedInPlace, ServersAreKept DEF TypesOK, ServersFollow
  <1> QED
    BY <1>1, <1>2, <1>3 DEF ServersFollow

LEMMA EnvironmentIs ==
    ASSUME LiveConstants, TypesOK, NEW g \in DOMAIN servers, WorkloadEnds(g) \/
           ServerDies(g)
    PROVE  ServersFollow /\ DOMAIN servers' = DOMAIN servers
  <1> USE ServersAreIndexed
  <1>1. /\ servers' \in [DOMAIN servers -> Servers]
        /\ \A h \in DOMAIN servers :
              /\ servers'[h].run = servers[h].run
              /\ servers'[h].alive => servers[h].alive
    <2>1. CASE WorkloadEnds(g)
      BY <2>1 DEF WorkloadEnds, Servers
    <2>2. CASE ServerDies(g)
      BY <2>2 DEF ServerDies, Servers
    <2> QED
      BY <2>1, <2>2
  <1>2. servers' \in Seq(Servers) /\ DOMAIN servers' = DOMAIN servers
    BY <1>1, ChangedInPlace DEF TypesOK
  <1> QED
    BY <1>1, <1>2 DEF ServersFollow
-----------------------------------------------------------------------------
LEMMA PlaceIs ==
    ASSUME LiveConstants, TypesOK, NEW r \in Runs, RunStep(r)
    PROVE  run' \in [Runs -> Processes] /\ \A q \in Runs \ {r} : run'[q] = run[q]
  <1>1. CASE \E l \in Pcs : RunGoto(r, l)
    BY <1>1, GotoIs
  <1>2. CASE run' = [run EXCEPT ![r] = Away]
    BY <1>2, AwayIs
  <1>3. CASE Raised(r)
    BY <1>3, RaisedIs
  <1>4. CASE Observe(r)
    BY <1>4, PlannedIs DEF Observe
  <1> QED
    BY <1>1, <1>2, <1>3, <1>4
    DEF RunStep, Preflight, MakeRoot, Mark, MarkFails, Start, StartFails, SetOption,
        OptionFails, Abort, Teardown, RemoveMarker, RemoveRest, DryRunRaises, ClaimRunPermit,
        PermitSpent, ClaimRunIdentity, Respawn, RespawnFails, RecordRun, RecordFailure,
        VerifyGeneration, VerifyPane, Crash, Pcs

\* What a step of a process does to the directory.
Holds == Holding \ (Unmarked \cup {"start"})

Stays(r) ==
    /\ UNCHANGED dirVars
    /\ run[r].pc \in Holding \ Unmarked
    /\ run'[r].pc \in Holds
    /\ run'[r].pc = "remove" => KillServer

Ends(r) == UNCHANGED dirVars /\ run'[r].pc \in {"away", "root"}

ComesBack(r) ==
    /\ UNCHANGED dirVars
    /\ marker = r
    /\ run[r].pc = "away"
    /\ run'[r].pc = "remove"
    /\ KillServer

Makes(r) ==
    /\ marker = Nothing /\ marker' = "unmarked" /\ socket' = socket
    /\ run[r].pc = "root" /\ run'[r].pc = "mark"

Marks(r) ==
    /\ run[r].pc = "mark" /\ socket' = socket
    /\ \/ marker' = r /\ run'[r].pc = "start"
       \/ marker' \in {"unmarked", Nothing} /\ run'[r].pc = "away"

Starts(r) == Start(r) /\ marker' = marker /\ run[r].pc = "start" /\ run'[r].pc \in {"option", "abort"}

Unmarks(r) ==
    /\ marker' = "unmarked" /\ socket' = socket
    /\ run[r].pc = "remove" /\ run'[r].pc = "removeRest"

Removes(r) ==
    /\ marker' = Nothing /\ socket' = Nothing
    /\ run[r].pc = "removeRest" /\ run'[r].pc = "away"

Moves(r) ==
    \/ Stays(r) \/ Ends(r) \/ ComesBack(r) \/ Makes(r) \/ Marks(r) \/ Starts(r) \/ Unmarks(r)
    \/ Removes(r)

LEMMA DirectoryIs ==
    ASSUME LiveConstants, TypesOK, OneHolder, NEW r \in Runs, RunStep(r)
    PROVE  Moves(r) /\ unkilled \subseteq unkilled'
  <1> USE GotoIs, AwayIs, RaisedIs DEF Holding, Unmarked, Holds, Pcs, RunAt
  <1>1. marker # Nothing \/ run[r].pc # "remove"
    BY DEF OneHolder, LiveConstants
  <1>2. run[r].pc = "abort" => marker = r
    BY DEF OneHolder
  <1>3. CASE Preflight(r) \/ MakeRoot(r)
    BY <1>3 DEF Preflight, MakeRoot, Moves, Ends, Makes, runHistory, dirVars
  <1>4. CASE Mark(r) \/ MarkFails(r)
    BY <1>4 DEF Mark, MarkFails, Moves, Marks, runHistory
  <1>5. CASE Start(r)
    BY <1>5 DEF Start, Moves, Starts, runHistory
  <1>6. CASE StartFails(r) \/ SetOption(r) \/ OptionFails(r)
    BY <1>6 DEF StartFails, SetOption, OptionFails, Moves, Stays, runHistory
  <1>7. CASE Abort(r)
    BY <1>2, <1>7 DEF Abort, KillServer, Owned, Moves, Stays
  <1>8. CASE Teardown(r)
    BY <1>8 DEF Teardown, KillServer, Owned, Moves, Stays, Ends, ComesBack
  <1>9. CASE RemoveMarker(r) \/ RemoveRest(r)
    BY <1>1, <1>9 DEF RemoveMarker, RemoveRest, Moves, Unmarks, Removes, runHistory
  <1>10. CASE Observe(r)
    BY <1>10, PlannedIs DEF Observe, Moves, Stays, runHistory
  <1>11. CASE DryRunRaises(r) \/ ClaimRunPermit(r) \/ PermitSpent(r) \/ ClaimRunIdentity(r)
    BY <1>11
    DEF DryRunRaises, ClaimRunPermit, PermitSpent, ClaimRunIdentity, Moves, Stays,
        runHistory
  <1>12. CASE Respawn(r) \/ RespawnFails(r) \/ RecordRun(r) \/ RecordFailure(r)
    BY <1>12 DEF Respawn, RespawnFails, RecordRun, RecordFailure, Moves, Stays, runHistory
  <1>13. CASE VerifyGeneration(r) \/ VerifyPane(r) \/ Crash(r)
    BY <1>13 DEF VerifyGeneration, VerifyPane, Crash, Moves, Stays, Ends, runHistory
  <1> QED
    BY <1>3, <1>4, <1>5, <1>6, <1>7, <1>8, <1>9, <1>10, <1>11, <1>12, <1>13 DEF RunStep
-----------------------------------------------------------------------------
\* A step of a process, as the lemmas above describe it.
Acts(r) ==
    /\ run' \in [Runs -> Processes] /\ \A q \in Runs \ {r} : run'[q] = run[q]
    /\ Moves(r)
    /\ unkilled \subseteq unkilled'
    /\ ServersFollow
    /\ ~Starts(r) => DOMAIN servers' = DOMAIN servers

LEMMA StepActs ==
    ASSUME LiveConstants, TypesOK, OneHolder, NEW r \in Runs, RunStep(r)
    PROVE  Acts(r)
  <1>1. Start(r) => Starts(r)
    BY GotoIs DEF Start, Starts, RunAt, Pcs
  <1> QED
    BY <1>1, PlaceIs, DirectoryIs, ReachedIs, StartIs DEF Acts

LEMMA HolderStep ==
    ASSUME LiveConstants, TypesOK, OneHolder, NEW r \in Runs, Acts(r)
    PROVE  OneHolder'
  <1>1. /\ \A q \in Runs : run[q] \in Processes /\ run'[q] \in Processes
        /\ Nothing \notin Runs /\ "unmarked" \notin Runs /\ Nothing # "unmarked"
    BY DEF TypesOK, Acts, LiveConstants
  <1> USE <1>1 DEF Acts, OneHolder, Holding, Unmarked, Holds, dirVars, Pcs, Processes
  <1>2. CASE Stays(r) \/ Ends(r)
    BY <1>2 DEF Stays, Ends
  <1>3. CASE ComesBack(r) \/ Makes(r)
    BY <1>3 DEF ComesBack, Makes
  <1>4. CASE Marks(r)
    BY <1>4 DEF Marks
  <1>5. CASE Starts(r)
    BY <1>5 DEF Starts
  <1>6. CASE Unmarks(r) \/ Removes(r)
    BY <1>6 DEF Unmarks, Removes
  <1> QED
    BY <1>2, <1>3, <1>4, <1>5, <1>6 DEF Moves

LEMMA SocketStep ==
    ASSUME LiveConstants, TypesOK, OneHolder, SocketIsHolders, NEW r \in Runs, Acts(r)
    PROVE  SocketIsHolders'
  <1>1. /\ \A q \in Runs : run[q] \in Processes /\ run'[q] \in Processes
        /\ Nothing \notin Runs /\ "unmarked" \notin Runs /\ Nothing # "unmarked"
        /\ socket \in DOMAIN servers \cup {Nothing}
        /\ \A g \in DOMAIN servers : servers'[g].run = servers[g].run
    BY DEF TypesOK, Acts, LiveConstants, ServersFollow
  <1>2. \A q \in Runs \ {r} : run'[q] = run[q]
    BY DEF Acts
  <1> USE <1>1, <1>2 DEF OneHolder, SocketIsHolders, Holding, Unmarked, Holds, dirVars, Pcs, Processes
  <1>3. CASE Stays(r)
    BY <1>3 DEF Stays
  <1>4. CASE Ends(r) \/ ComesBack(r)
    BY <1>4 DEF Ends, ComesBack
  <1>5. CASE Makes(r)
    BY <1>5 DEF Makes
  <1>6. CASE Marks(r)
    BY <1>6 DEF Marks
  <1>7. CASE Starts(r)
    BY <1>7, StartIs DEF Starts
  <1>8. CASE Unmarks(r)
    BY <1>8 DEF Unmarks
  <1>9. CASE Removes(r)
    BY <1>9 DEF Removes
  <1> QED
    BY <1>3, <1>4, <1>5, <1>6, <1>7, <1>8, <1>9 DEF Acts, Moves

\* Among the servers that were there, only those are alive that were.
LEMMA LivingShrinks ==
    ASSUME TypesOK, unkilled \subseteq unkilled', ServersFollow
    PROVE  Living' \cap DOMAIN servers \subseteq Living
  BY DEF Living, ServersFollow

\* A kill-server leaves no server but one that it has failed to end.
LEMMA KillEmpties ==
    ASSUME LiveConstants, TypesOK, NoServerIsLost, KillServer
    PROVE  Living' = {}
  <1>1. Living \subseteq Reachable
    BY ServersAreIndexed DEF NoServerIsLost, Living, Reachable, LiveConstants
  <1>2. CASE servers' = Killed /\ unkilled' = unkilled
    BY <1>1, <1>2, ServersAreIndexed DEF Living, Killed, Servers
  <1>3. CASE unkilled' = unkilled \cup Reachable /\ servers' = servers
    BY <1>1, <1>3 DEF Living
  <1> QED
    BY <1>2, <1>3 DEF KillServer

\* While the directory has no marker of a run, no server is alive.
LEMMA UnmarkedIsEmpty ==
    ASSUME LiveConstants, TypesOK, NoServerIsLost, marker \notin Runs
    PROVE  Living = {}
  BY ServersAreIndexed DEF NoServerIsLost, Living, Servers

LEMMA EmptyStep ==
    ASSUME LiveConstants, TypesOK, OneHolder, EmptyWhenTaken, NoServerIsLost,
           NEW r \in Runs, Acts(r)
    PROVE  EmptyWhenTaken'
  <1>1. /\ \A q \in Runs : run[q] \in Processes /\ run'[q] \in Processes
        /\ Nothing \notin Runs /\ "unmarked" \notin Runs
        /\ \A q \in Runs \ {r} : run'[q] = run[q]
    BY DEF TypesOK, Acts, LiveConstants
  <1>2. ~Starts(r) => Living' \subseteq Living
    BY LivingShrinks DEF Acts, Living
  <1>3. SUFFICES ASSUME NEW q \in Runs, run'[q].pc \in {"start", "remove"}
                 PROVE  Living' = {}
    BY DEF EmptyWhenTaken
  <1>4. CASE Starts(r)
    <2>1. q # r /\ run[q].pc \in {"start", "remove"} /\ run[r].pc = "start"
      BY <1>1, <1>3, <1>4 DEF Starts
    <2> QED
      BY <1>1, <2>1 DEF OneHolder, Holding, Unmarked, Pcs
  <1>5. CASE ~Starts(r) /\ q # r
    BY <1>1, <1>2, <1>3, <1>5 DEF EmptyWhenTaken
  <1>6. CASE ~Starts(r) /\ q = r
    <2>1. CASE Stays(r) \/ ComesBack(r)
      BY <1>3, <1>6, <2>1, KillEmpties DEF Stays, ComesBack, Holds
    <2>2. CASE Marks(r)
      <3>1. marker = "unmarked"
        BY <2>2 DEF Marks, OneHolder, Holding, Unmarked, Pcs
      <3> QED
        BY <1>1, <1>2, <1>6, <3>1, UnmarkedIsEmpty
    <2> QED
      BY <1>3, <1>6, <2>1, <2>2 DEF Acts, Moves, Ends, Makes, Unmarks, Removes
  <1> QED
    BY <1>4, <1>5, <1>6

LEMMA LostStep ==
    ASSUME LiveConstants, TypesOK, OneHolder, EmptyWhenTaken, NoServerIsLost,
           NEW r \in Runs, Acts(r)
    PROVE  NoServerIsLost'
  <1>1. /\ run[r] \in Processes /\ Nothing \notin Runs /\ "unmarked" \notin Runs
    BY DEF TypesOK, LiveConstants
  <1>2. ~Starts(r) => Living' \subseteq Living
    BY LivingShrinks DEF Acts, Living
  <1>3. SUFFICES ASSUME NEW g \in Living'
                 PROVE  socket' = g /\ marker' = servers'[g].run
    BY DEF NoServerIsLost, Living
  <1>4. CASE Starts(r)
    <2>1. Living = {} /\ marker = r
      BY <1>4 DEF Starts, EmptyWhenTaken, OneHolder, Holding, Unmarked, Pcs
    <2>2. g = socket'
      BY <1>4, <2>1, StartIs, LivingShrinks DEF Starts, Acts, Living
    <2> QED
      BY <1>4, <2>1, <2>2, StartIs DEF Starts
  <1>5. CASE UNCHANGED dirVars /\ ~Starts(r)
    BY <1>2, <1>5 DEF dirVars, NoServerIsLost, Living, Acts, ServersFollow
  <1>6. CASE Makes(r) \/ Marks(r) \/ Removes(r)
    <2>1. marker \notin Runs
      BY <1>1, <1>6 DEF Makes, Marks, Removes, OneHolder, Holding, Unmarked, Pcs
    <2>2. ~Starts(r)
      BY <1>6 DEF Makes, Marks, Removes, Starts
    <2> QED
      BY <1>2, <2>1, <2>2, UnmarkedIsEmpty
  <1>7. CASE Unmarks(r)
    BY <1>2, <1>7 DEF Unmarks, Starts, EmptyWhenTaken
  <1> QED
    BY <1>4, <1>5, <1>6, <1>7 DEF Acts, Moves, Stays, Ends, ComesBack
-----------------------------------------------------------------------------
\* What a step of a process does to its plan, its permit and its effect.
Keeps(r) ==
    /\ runPermits' = runPermits
    /\ respawns' = respawns
    /\ verified' = verified
    /\ run'[r].pc \notin {"permit", "identity", "respawn", "record", "generation", "pane"}

Plans(r) ==
    /\ UNCHANGED <<socket, runPermits, respawns, verified>>
    /\ run'[r].pc = "permit" /\ run'[r].server = socket /\ socket # Nothing

Claims(r) ==
    /\ UNCHANGED <<socket, respawns, verified>>
    /\ runPermits[r] = Nothing
    /\ runPermits' = [runPermits EXCEPT ![r] = run[r].server]
    /\ run[r].pc = "permit" /\ run'[r].pc = "identity" /\ run'[r].server = run[r].server

GoesOn(r) ==
    /\ UNCHANGED <<socket, runPermits, respawns, verified>>
    /\ run'[r].server = run[r].server
    /\ \/ run[r].pc = "identity" /\ run'[r].pc = "respawn"
       \/ run[r].pc = "record" /\ run'[r].pc = "generation"
       \/ run[r].pc = "generation" /\ run'[r].pc = "pane"

Respawns(r) ==
    /\ UNCHANGED <<socket, runPermits, verified>>
    /\ socket \in Reachable /\ respawns' = Append(respawns, <<r, socket>>)
    /\ run[r].pc = "respawn" /\ run'[r].server = run[r].server
    /\ run'[r].pc \in {"record", "recordFailure"}

Verifies(r) ==
    /\ UNCHANGED <<socket, runPermits, respawns>>
    /\ run[r].pc = "pane" /\ run'[r].pc = "observe"
    /\ \E v \in {socket, Nothing} : verified' = [verified EXCEPT ![r] = v]

Remediates(r) ==
    Keeps(r) \/ Plans(r) \/ Claims(r) \/ GoesOn(r) \/ Respawns(r) \/ Verifies(r)

LEMMA RemediationIs ==
    ASSUME LiveConstants, TypesOK, NEW r \in Runs, RunStep(r)
    PROVE  Remediates(r)
  <1> USE GotoIs, AwayIs, RaisedIs DEF Pcs, RunAt, runHistory, runJournal, dirVars
  <1>1. CASE \/ Preflight(r) \/ MakeRoot(r) \/ Mark(r) \/ MarkFails(r) \/ Start(r)
             \/ StartFails(r) \/ SetOption(r) \/ OptionFails(r)
    BY <1>1 DEF Remediates, Keeps, Preflight, MakeRoot, Mark, MarkFails, Start, StartFails,
                SetOption, OptionFails
  <1>2. CASE Abort(r) \/ Teardown(r) \/ RemoveMarker(r) \/ RemoveRest(r) \/ Crash(r)
    BY <1>2 DEF Remediates, Keeps, Abort, Teardown, RemoveMarker, RemoveRest, Crash
  <1>3. CASE Observe(r)
    BY <1>3, PlannedIs DEF Observe, Remediates, Plans
  <1>4. CASE ClaimRunPermit(r)
    BY <1>4 DEF ClaimRunPermit, Remediates, Claims
  <1>5. CASE ClaimRunIdentity(r) \/ RecordRun(r) \/ VerifyGeneration(r)
    BY <1>5 DEF ClaimRunIdentity, RecordRun, VerifyGeneration, Remediates, GoesOn, Keeps
  <1>6. CASE Respawn(r)
    BY <1>6 DEF Respawn, Reachable, Remediates, Respawns
  <1>7. CASE VerifyPane(r)
    BY <1>7 DEF VerifyPane, Remediates, Verifies
  <1>8. CASE DryRunRaises(r) \/ PermitSpent(r) \/ RespawnFails(r) \/ RecordFailure(r)
    BY <1>8 DEF DryRunRaises, PermitSpent, RespawnFails, RecordFailure, Remediates, Keeps
  <1> QED
    BY <1>1, <1>2, <1>3, <1>4, <1>5, <1>6, <1>7, <1>8 DEF RunStep

\* What the other processes are bound to stays where it is.
LEMMA OthersStay ==
    ASSUME LiveConstants, TypesOK, OneHolder, NEW r \in Runs, Acts(r),
           NEW q \in Runs \ {r}, run[q].pc \in Holding \ Unmarked
    PROVE  UNCHANGED dirVars
  BY DEF Acts, Moves, Stays, Ends, ComesBack, Makes, Marks, Starts, Unmarks, Removes,
         OneHolder, Holding, Unmarked, Holds, Pcs, TypesOK, Processes, LiveConstants

LEMMA PermitsAre ==
    ASSUME TypesOK, NEW r \in Runs, Remediates(r), run[r] \in Processes
    PROVE  \A q \in Runs :
              /\ runPermits'[q] # runPermits[q] => runPermits[q] = Nothing /\ q = r
              /\ q # r => runPermits'[q] = runPermits[q]
  BY DEF Remediates, Keeps, Plans, Claims, GoesOn, Respawns, Verifies, TypesOK

LEMMA RespawnsAre ==
    ASSUME TypesOK, NEW r \in Runs, Respawns(r), socket \in Nat
    PROVE  /\ respawns' \in Seq(Runs \X Nat)
           /\ Len(respawns) \in Nat
           /\ DOMAIN respawns = 1 .. Len(respawns)
           /\ DOMAIN respawns' = 1 .. Len(respawns) + 1
           /\ \A i \in DOMAIN respawns : respawns'[i] = respawns[i]
           /\ respawns'[Len(respawns) + 1] = <<r, socket>>
  <1>1. respawns \in Seq(Runs \X Nat) /\ <<r, socket>> \in Runs \X Nat
    BY DEF TypesOK
  <1> QED
    BY <1>1, AppendProperties, LenProperties DEF Respawns

LEMMA PlanStep ==
    ASSUME LiveConstants, TypesOK, OneHolder, PlanIsBound, NEW r \in Runs, Acts(r),
           Remediates(r)
    PROVE  PlanIsBound'
  <1> DEFINE Bound(q) ==
         /\ run[q].pc \in {"permit", "identity", "respawn", "record", "generation", "pane"} =>
               run[q].server = socket /\ socket # Nothing
         /\ run[q].pc \in {"identity", "respawn", "record", "generation", "pane"} =>
               runPermits[q] = socket
  <1>1. ASSUME NEW q \in Runs \ {r}
        PROVE  Bound(q)'
    <2>1. run'[q] = run[q] /\ Bound(q) /\ run[q] \in Processes
      BY DEF Acts, PlanIsBound, TypesOK
    <2>2. runPermits'[q] = runPermits[q]
      BY PermitsAre DEF TypesOK
    <2>3. CASE run[q].pc \in Holding \ Unmarked
      BY <2>1, <2>2, <2>3, OthersStay DEF dirVars
    <2> QED
      BY <2>1, <2>3 DEF Processes, Holding, Unmarked, Pcs
  <1>2. Bound(r)'
    <2>1. Bound(r) /\ runPermits \in [Runs -> Nat \cup {Nothing}]
      BY DEF PlanIsBound, TypesOK
    <2> QED
      BY <2>1 DEF Remediates, Keeps, Plans, Claims, GoesOn, Respawns, Verifies
  <1> QED
    BY <1>1, <1>2 DEF PlanIsBound

LEMMA TypesStep ==
    ASSUME LiveConstants, TypesOK, NEW r \in Runs, Acts(r), Remediates(r)
    PROVE  TypesOK'
  <1>1. run' \in [Runs -> Processes] /\ servers' \in Seq(Servers)
    BY DEF Acts, ServersFollow
  <1>2. socket \in Nat \cup {Nothing} /\ run[r] \in Processes
    BY ServersAreIndexed DEF TypesOK
  <1>3. marker' \in Runs \cup {Nothing, "unmarked"}
    BY
    DEF TypesOK, Acts, Moves, Stays, Ends, ComesBack, Makes, Marks, Starts, Unmarks,
        Removes,
           dirVars
  <1>4. socket' \in DOMAIN servers' \cup {Nothing}
    <2>1. CASE Starts(r)
      BY <2>1, StartIs DEF Starts
    <2>2. CASE ~Starts(r)
      BY <2>2
      DEF TypesOK, Acts, Moves, Stays, Ends, ComesBack, Makes, Marks, Unmarks,
          Removes,
                  dirVars
    <2> QED
      BY <2>1, <2>2
  <1>5. runPermits' \in [Runs -> Nat \cup {Nothing}]
    BY <1>2
    DEF TypesOK, Remediates, Keeps, Plans, Claims, GoesOn, Respawns, Verifies, Processes
  <1>6. verified' \in [Runs -> Nat \cup {Nothing}]
    BY <1>2 DEF TypesOK, Remediates, Keeps, Plans, Claims, GoesOn, Respawns, Verifies
  <1>7. respawns' \in Seq(Runs \X Nat)
    <2>1. CASE Respawns(r)
      <3>1. socket \in Nat
        BY <1>2, <2>1, ServersAreIndexed DEF Respawns
      <3> QED
        BY <2>1, <3>1, RespawnsAre
    <2> QED
      BY <2>1 DEF TypesOK, Remediates, Keeps, Plans, Claims, GoesOn, Verifies
  <1> QED
    BY <1>1, <1>3, <1>4, <1>5, <1>6, <1>7 DEF TypesOK

LEMMA PassedStep ==
    ASSUME LiveConstants, TypesOK, OneHolder, PlanIsBound, RespawnIsPassed, EffectIsBound,
           NEW r \in Runs, Acts(r), Remediates(r)
    PROVE  RespawnIsPassed'
  <1> DEFINE Passed(q) ==
         /\ run[q].pc \in {"identity", "respawn"} =>
               \A i \in DOMAIN respawns : respawns[i][1] # q
         /\ run[q].pc \in {"record", "generation", "pane"} =>
               \E i \in DOMAIN respawns : respawns[i] = <<q, socket>>
  <1>1. \A q \in Runs : Passed(q) /\ run[q] \in Processes
    BY DEF RespawnIsPassed, TypesOK
  <1>2. CASE Respawns(r)
    <2>1. socket \in Nat
      BY <1>2, ServersAreIndexed DEF Respawns
    <2>2. /\ DOMAIN respawns = 1 .. Len(respawns) /\ Len(respawns) \in Nat
          /\ DOMAIN respawns' = 1 .. Len(respawns) + 1
          /\ \A i \in DOMAIN respawns : respawns'[i] = respawns[i]
          /\ respawns'[Len(respawns) + 1] = <<r, socket>>
      BY <1>2, <2>1, RespawnsAre
    <2>3. socket' = socket
      BY <1>2 DEF Respawns
    <2>4. ASSUME NEW q \in Runs \ {r}
          PROVE  Passed(q)'
      <3>1. run'[q] = run[q] /\ Passed(q)
        BY <1>1 DEF Acts
      <3>2. respawns'[Len(respawns) + 1][1] # q
        BY <2>2
      <3> QED
        BY <2>2, <2>3, <3>1, <3>2
    <2>5. Passed(r)'
      <3>1. Len(respawns) + 1 \in DOMAIN respawns'
        BY <2>2
      <3> QED
        BY <1>2, <2>2, <2>3, <3>1 DEF Respawns
    <2> QED
      BY <2>4, <2>5 DEF RespawnIsPassed
  <1>3. CASE ~Respawns(r)
    <2>1. respawns' = respawns
      BY <1>3 DEF Remediates, Keeps, Plans, Claims, GoesOn, Verifies
    <2>2. ASSUME NEW q \in Runs \ {r}
          PROVE  Passed(q)'
      <3>1. run'[q] = run[q] /\ Passed(q) /\ run[q] \in Processes
        BY <1>1 DEF Acts
      <3>2. CASE run[q].pc \in Holding \ Unmarked
        BY <2>1, <3>1, <3>2, OthersStay DEF dirVars
      <3> QED
        BY <2>1, <3>1, <3>2 DEF Processes, Holding, Unmarked, Pcs
    <2>3. Passed(r)'
      <3>1. CASE Claims(r)
        <4>1. \A i \in DOMAIN respawns : respawns[i][1] = r => respawns[i][2] = Nothing
          BY <3>1 DEF Claims, EffectIsBound
        <4>2. \A i \in DOMAIN respawns : respawns[i] \in Runs \X Nat
          BY LenProperties, ElementOfSeq DEF TypesOK
        <4> QED
          BY <2>1, <3>1, <4>1, <4>2 DEF Claims, LiveConstants
      <3>2. CASE Keeps(r) \/ Plans(r) \/ Verifies(r)
        BY <2>1, <3>2 DEF Keeps, Plans, Verifies
      <3>3. CASE GoesOn(r)
        BY <1>1, <2>1, <3>3 DEF GoesOn
      <3> QED
        BY <1>3, <3>1, <3>2, <3>3 DEF Remediates
    <2> QED
      BY <2>2, <2>3 DEF RespawnIsPassed
  <1> QED
    BY <1>2, <1>3

LEMMA EffectStep ==
    ASSUME LiveConstants, TypesOK, PlanIsBound, RespawnIsPassed, EffectIsBound,
           NEW r \in Runs, Acts(r), Remediates(r)
    PROVE  EffectIsBound'
  <1>1. \A i \in DOMAIN respawns : respawns[i] \in Runs \X Nat
    BY LenProperties, ElementOfSeq DEF TypesOK
  <1>2. runPermits \in [Runs -> Nat \cup {Nothing}] /\ verified \in [Runs -> Nat \cup {Nothing}]
        /\ run[r] \in Processes /\ Nothing \notin Nat
    BY DEF TypesOK, LiveConstants
  <1>3. \A i \in DOMAIN respawns : runPermits'[respawns[i][1]] = respawns[i][2]
    BY <1>1, <1>2, PermitsAre DEF EffectIsBound
  <1>4. CASE Respawns(r)
    <2>1. socket \in Nat /\ runPermits[r] = socket /\ runPermits' = runPermits /\ verified' = verified
      BY <1>4, ServersAreIndexed DEF Respawns, PlanIsBound
    <2>2. /\ DOMAIN respawns = 1 .. Len(respawns) /\ Len(respawns) \in Nat
          /\ DOMAIN respawns' = 1 .. Len(respawns) + 1
          /\ \A i \in DOMAIN respawns : respawns'[i] = respawns[i]
          /\ respawns'[Len(respawns) + 1] = <<r, socket>>
      BY <1>4, <2>1, RespawnsAre
    <2>3. \A i \in DOMAIN respawns : respawns[i][1] # r
      BY <1>4 DEF Respawns, RespawnIsPassed
    <2>4. \A i \in DOMAIN respawns' : i \in DOMAIN respawns \/ i = Len(respawns) + 1
      BY <2>2
    <2>5. \A i \in DOMAIN respawns' : respawns'[i][2] = runPermits'[respawns'[i][1]]
      BY <1>3, <2>1, <2>2, <2>4
    <2>6. \A i, j \in DOMAIN respawns' : i # j => respawns'[i][1] # respawns'[j][1]
      BY <2>2, <2>3, <2>4 DEF EffectIsBound
    <2>7. \A q \in Runs : verified'[q] # Nothing =>
             /\ verified'[q] = runPermits'[q]
             /\ \E i \in DOMAIN respawns' : respawns'[i] = <<q, verified'[q]>>
      <3>1. TAKE q \in Runs
      <3>2. HAVE verified'[q] # Nothing
      <3>3. verified[q] # Nothing /\ verified[q] = verified'[q] /\ runPermits[q] = runPermits'[q]
        BY <2>1, <3>2
      <3>4. PICK i \in DOMAIN respawns : respawns[i] = <<q, verified[q]>>
        BY <3>3 DEF EffectIsBound
      <3>5. i \in DOMAIN respawns' /\ respawns'[i] = respawns[i]
        BY <2>2
      <3> QED
        BY <3>3, <3>4, <3>5 DEF EffectIsBound
    <2> QED
      BY <2>5, <2>6, <2>7 DEF EffectIsBound
  <1>5. CASE ~Respawns(r)
    <2>1. respawns' = respawns
      BY <1>5 DEF Remediates, Keeps, Plans, Claims, GoesOn, Verifies
    <2>2. ASSUME NEW q \in Runs, verified'[q] # Nothing
          PROVE  /\ verified'[q] = runPermits'[q]
                 /\ \E i \in DOMAIN respawns : respawns[i] = <<q, verified'[q]>>
      <3>1. CASE verified'[q] = verified[q]
        BY <1>2, <2>2, <3>1, PermitsAre DEF EffectIsBound
      <3>2. CASE Verifies(r) /\ q = r /\ verified'[r] = socket
        BY <1>2, <3>2 DEF Verifies, PlanIsBound, RespawnIsPassed
      <3> QED
        BY <1>2, <1>5, <2>2, <3>1, <3>2
        DEF Remediates, Keeps, Plans, Claims, GoesOn, Verifies
    <2> QED
      BY <1>3, <2>1, <2>2 DEF EffectIsBound
  <1> QED
    BY <1>4, <1>5

-----------------------------------------------------------------------------
\* What happens to the servers by themselves disturbs nothing of this.
LEMMA EnvironmentStep ==
    ASSUME LiveConstants, LiveInv, NEW g \in DOMAIN servers,
           WorkloadEnds(g) \/ ServerDies(g)
    PROVE  LiveInv'
  <1>1. UNCHANGED <<dirVars, run, runJournal, runHistory>>
    BY DEF WorkloadEnds, ServerDies
  <1> USE <1>1 DEF LiveInv, dirVars, runJournal, runHistory
  <1>2. ServersFollow /\ DOMAIN servers' = DOMAIN servers
    BY EnvironmentIs
  <1>3. TypesOK'
    BY <1>2 DEF TypesOK, ServersFollow
  <1>4. OneHolder' /\ PlanIsBound' /\ RespawnIsPassed' /\ EffectIsBound'
    BY DEF OneHolder, PlanIsBound, RespawnIsPassed, EffectIsBound
  <1>5. SocketIsHolders'
    BY <1>2 DEF SocketIsHolders, ServersFollow, TypesOK
  <1>6. Living' \subseteq Living
    BY <1>2, LivingShrinks DEF Living
  <1>7. EmptyWhenTaken'
    BY <1>6 DEF EmptyWhenTaken
  <1>8. NoServerIsLost'
    BY <1>2, <1>6 DEF NoServerIsLost, Living, ServersFollow
  <1> QED
    BY <1>3, <1>4, <1>5, <1>7, <1>8

LEMMA LiveStep ==
    ASSUME LiveConstants, LiveInv, [LiveNext]_liveVars
    PROVE  LiveInv'
  <1>1. ASSUME NEW r \in Runs, RunStep(r)
        PROVE  LiveInv'
    <2>1. Acts(r) /\ Remediates(r)
      BY <1>1, StepActs, RemediationIs DEF LiveInv
    <2> QED
      BY <2>1, TypesStep, HolderStep, SocketStep, EmptyStep, LostStep, PlanStep, PassedStep,
         EffectStep DEF LiveInv
  <1>2. CASE UNCHANGED liveVars
    BY <1>2 DEF liveVars, dirVars, runJournal, runHistory, LiveInv, TypesOK, OneHolder,
                SocketIsHolders, EmptyWhenTaken, NoServerIsLost, PlanIsBound, RespawnIsPassed,
                EffectIsBound, Living
  <1> QED
    BY <1>1, <1>2, EnvironmentStep DEF LiveNext

LEMMA LiveStart ==
    ASSUME LiveConstants, LiveInit
    PROVE  LiveInv
  <1>1. servers = <<>> /\ respawns = <<>> /\ DOMAIN servers = {} /\ DOMAIN respawns = {}
    BY DEF LiveInit
  <1>2. \A r \in Runs : run[r].pc = "away" /\ verified[r] = Nothing
    BY DEF LiveInit, Away
  <1>3. TypesOK
    <2>1. run \in [Runs -> Processes]
      BY DEF LiveInit, Away, Processes, Pcs
    <2> QED
      BY <1>1, <2>1 DEF LiveInit, TypesOK
  <1>4. socket = Nothing
    BY DEF LiveInit
  <1> QED
    BY <1>1, <1>2, <1>3, <1>4
    DEF LiveInv, OneHolder, SocketIsHolders, EmptyWhenTaken, NoServerIsLost, PlanIsBound,
        RespawnIsPassed, EffectIsBound, Holding, Unmarked

\* The invariant on which the theorems below rest.
THEOREM LiveInvariance == LiveSpec => []LiveInv
  <1> USE LiveConstantsAreTyped
  <1>1. LiveInit => LiveInv
    BY LiveStart
  <1>2. LiveInv /\ [LiveNext]_liveVars => LiveInv'
    BY LiveStep
  <1> QED
    BY <1>1, <1>2, PTL DEF LiveSpec

\* Wherever the process of a run dies, a server it has started is behind the socket of a
\* directory that is marked as that run's, unless a kill-server has failed to end it; and
\* a run respawns one pane once, of the server its permit is bound to, and verifies that
\* (activate, teardown, execute_prepared_bound_tmux_remediation).
THEOREM Containment == LiveSpec => []LiveRunIsContained
  <1> USE LiveConstantsAreTyped
  <1>1. LiveInv => LiveRunIsContained
    BY DEF LiveInv, LiveRunIsContained
  <1> QED
    BY <1>1, LiveInvariance, PTL

\* A step of a run that reaches a server reaches one of its own.
LEMMA OwnServers ==
    ASSUME LiveConstants, LiveInv, NEW r \in Runs, RunStep(r),
           NEW g \in DOMAIN servers, servers[g].run # r
    PROVE  servers'[g] = servers[g] /\ (socket = g => socket' = g /\ marker' = marker)
  <1>1. Acts(r) /\ run[r] \in Processes /\ g # Nothing
    BY StepActs, ServersAreIndexed DEF LiveInv, TypesOK, LiveConstants
  <1> USE <1>1 DEF LiveInv
  <1>2. socket = g => UNCHANGED dirVars /\ run[r].pc # "start"
    BY DEF Acts, Moves, Stays, Ends, ComesBack, Makes, Marks, Starts, Unmarks, Removes,
           OneHolder, SocketIsHolders, Holding, Unmarked, Holds, Pcs, dirVars,
           LiveConstants
  <1>3. CASE Start(r)
    BY <1>2, <1>3, StartIs DEF Start, RunAt, dirVars
  <1>4. CASE ~Start(r) /\ socket # g
    BY <1>4, ReachedIs
  <1>5. CASE ~Start(r) /\ socket = g
    <2>1. marker # r
      BY <1>5 DEF SocketIsHolders, LiveConstants
    <2>2. run[r].pc \notin Holding \ Unmarked
      BY <2>1 DEF OneHolder
    <2>3. servers' = servers
      BY <1>5, <2>1, <2>2
      DEF RunStep, Preflight, MakeRoot, Mark, MarkFails, StartFails, SetOption, OptionFails,
          Abort, Teardown, Owned, RemoveMarker, RemoveRest, Observe, DryRunRaises,
          ClaimRunPermit, PermitSpent, ClaimRunIdentity, Respawn, RespawnFails, RecordRun,
          RecordFailure, VerifyGeneration, VerifyPane, Crash, RunAt, Holding, Unmarked, Pcs,
          runHistory
    <2> QED
      BY <1>2, <1>5, <2>3 DEF dirVars
  <1> QED
    BY <1>3, <1>4, <1>5

\* No step of a run ends, respawns or hides the server of another run
\* (_validate_ownership, the marker and the exclusive mkdir).
THEOREM OwnOnly == LiveSpec => OwnServersOnly
  <1> USE LiveConstantsAreTyped
  <1> DEFINE OwnStep ==
         \A r \in Runs : run'[r] # run[r] =>
            \A g \in DOMAIN servers :
               servers[g].run # r /\ servers[g].alive =>
                  servers'[g] = servers[g] /\ (socket = g => socket' = g /\ marker' = marker)
  <1>1. ASSUME LiveInv, [LiveNext]_liveVars
        PROVE  [OwnStep]_liveVars
    <2>1. ASSUME NEW r \in Runs, run'[r] # run[r], NEW q \in Runs, RunStep(q)
          PROVE  q = r
      BY <1>1, <2>1, PlaceIs DEF LiveInv
    <2>2. ASSUME NEW r \in Runs, run'[r] # run[r], LiveNext
          PROVE  RunStep(r)
      BY <2>1, <2>2 DEF LiveNext, WorkloadEnds, ServerDies
    <2>3. LiveNext => OwnStep
      BY <1>1, <2>2, OwnServers
    <2> QED
      BY <1>1, <2>3
  <1> QED
    BY <1>1, LiveInvariance, PTL DEF LiveSpec, OwnServersOnly

-----------------------------------------------------------------------------
(* The installers.                                                           *)

InstallerPcs ==
    {"idle", "check", "install", "verify", "apply", "test", "probe", "rollback", "remove",
     "undo", "prove"}

Places ==
    [pc : InstallerPcs, step : 1 .. 4, began : BOOLEAN, before : Nat, errors : BOOLEAN,
     result : Results \cup {"none"}, runs : Nat]

InstallersTyped ==
    /\ file \in [Roles -> {"absent", "exact", "damaged", "foreign"}]
    /\ loaded \subseteq {"dropin", "unit"}
    /\ sentinel \in [active : BOOLEAN, nnp : BOOLEAN, invocation : Nat]
    /\ canary \in {"inactive", "starting", "active"}
    /\ setup \in [Installers -> Places]
    /\ tampers \in Nat

\* A step is one of the list that is gone through.
StepsExist ==
    \A i \in Installers :
       /\ setup[i].pc \in {"check", "rollback"} => setup[i].step = 1
       /\ setup[i].pc \in {"install", "verify", "remove"} => setup[i].step \in DOMAIN Artifacts(i)
       /\ setup[i].pc \in {"apply", "test"} => setup[i].step \in DOMAIN ApplyCommands(i)
       /\ setup[i].pc = "undo" => setup[i].step \in DOMAIN RollbackCommands(i)

\* An installer that has not begun has none of its files on the host.
BegunIsMarked ==
    \A i \in Installers :
       /\ setup[i].pc \in {"verify", "apply", "test", "probe"} => setup[i].began
       /\ setup[i].pc = "install" /\ ~setup[i].began =>
             setup[i].step = 1 /\ \A r \in RolesOf(i) : file[r] \in {"absent", "foreign"}

\* What it has gone past is as the manifest says, unless somebody else has written.
InstalledIsExact ==
    tampers = 0 => \A i \in Installers :
       /\ setup[i].pc \in {"install", "verify"} =>
             \A k \in DOMAIN Artifacts(i) : k < setup[i].step => file[Artifacts(i)[k]] = "exact"
       /\ setup[i].pc \in {"apply", "test", "probe"} => \A r \in RolesOf(i) : file[r] = "exact"

\* What the tests of the canary's commands have seen stays so.
RestartIsTested ==
    "canary" \in Installers =>
       /\ \/ setup["canary"].pc \in {"apply", "test"} /\ setup["canary"].step = 3
          \/ setup["canary"].pc = "probe"
          => Passes("canary", "restart")
       /\ setup["canary"].pc = "probe" => Passes("canary", "start")

BootInv ==
    /\ InstallersTyped
    /\ StepsExist
    /\ BegunIsMarked
    /\ InstalledIsExact
    /\ RestartIsTested

-----------------------------------------------------------------------------
\* The lists of the manifests: each file is in one of them, once.
LEMMA ListsAre ==
    ASSUME BootstrapConstants, NEW i \in Installers
    PROVE  /\ Len(Artifacts(i)) \in 2 .. 3
           /\ DOMAIN Artifacts(i) = 1 .. Len(Artifacts(i))
           /\ DOMAIN ApplyCommands(i) = 1 .. Len(ApplyCommands(i))
           /\ Len(ApplyCommands(i)) \in 1 .. 3
           /\ DOMAIN RollbackCommands(i) = 1 .. Len(RollbackCommands(i))
           /\ Len(RollbackCommands(i)) \in 1 .. 3
           /\ i = "canary" =>
                /\ ApplyCommands(i)[1] = "reload" /\ ApplyCommands(i)[2] = "restart"
                /\ ApplyCommands(i)[3] = "start" /\ Len(ApplyCommands(i)) = 3
           /\ i = "pilot" =>
                /\ ApplyCommands(i)[1] = "reload" /\ RollbackCommands(i)[1] = "reload"
                /\ Len(ApplyCommands(i)) = 1 /\ Len(RollbackCommands(i)) = 1
  <1>1. CASE i = "canary"
    BY <1>1 DEF Artifacts, ApplyCommands, RollbackCommands
  <1>2. CASE i = "pilot"
    BY <1>2 DEF Artifacts, ApplyCommands, RollbackCommands
  <1> QED
    BY <1>1, <1>2 DEF BootstrapConstants

LEMMA RolesAre ==
    ASSUME BootstrapConstants, NEW i \in Installers
    PROVE  /\ RolesOf(i) \subseteq Roles
           /\ \A k \in DOMAIN Artifacts(i) : Artifacts(i)[k] \in RolesOf(i)
           /\ \A r \in RolesOf(i) : \E k \in DOMAIN Artifacts(i) : r = Artifacts(i)[k]
           /\ \A j, k \in DOMAIN Artifacts(i) : Artifacts(i)[j] = Artifacts(i)[k] => j = k
           /\ \A j \in Installers \ {i} : RolesOf(i) \cap RolesOf(j) = {}
  <1>1. RolesOf("canary") = {"dropin", "unit", "rule"}
    <2>1. DOMAIN Artifacts("canary") = {1, 2, 3}
      BY DEF Artifacts
    <2> QED
      BY <2>1 DEF RolesOf, Artifacts
  <1>2. RolesOf("pilot") = {"helper", "pilotRule"}
    <2>1. DOMAIN Artifacts("pilot") = {1, 2}
      BY DEF Artifacts
    <2> QED
      BY <2>1 DEF RolesOf, Artifacts
  <1>3. \A j, k \in DOMAIN Artifacts(i) : Artifacts(i)[j] = Artifacts(i)[k] => j = k
    BY ListsAre DEF Artifacts, BootstrapConstants
  <1>4. RolesOf(i) \subseteq Roles
    BY DEF Roles, BootstrapConstants
  <1>5. /\ \A k \in DOMAIN Artifacts(i) : Artifacts(i)[k] \in RolesOf(i)
        /\ \A r \in RolesOf(i) : \E k \in DOMAIN Artifacts(i) : r = Artifacts(i)[k]
    BY DEF RolesOf
  <1>6. \A j \in Installers \ {i} : RolesOf(i) \cap RolesOf(j) = {}
    BY <1>1, <1>2 DEF BootstrapConstants
  <1> QED
    BY <1>3, <1>4, <1>5, <1>6

\* No command writes a file, and only a restart changes the Sentinel.
LEMMA EffectIs ==
    ASSUME InstallersTyped, NEW command, CommandEffect(command) \/ UNCHANGED hostVars
    PROVE  /\ file' = file
           /\ loaded' \subseteq {"dropin", "unit"}
           /\ sentinel' \in [active : BOOLEAN, nnp : BOOLEAN, invocation : Nat]
           /\ canary' \in {"inactive", "starting", "active"}
           /\ command # "restart" => sentinel' = sentinel
           /\ command \notin {"start", "stop"} => canary' = canary
  <1>1. sentinel' \in [active : BOOLEAN, nnp : BOOLEAN, invocation : Nat]
    <2>1. sentinel \in [active : BOOLEAN, nnp : BOOLEAN, invocation : Nat]
      BY DEF InstallersTyped
    <2>2. ASSUME NEW alive \in BOOLEAN
          PROVE  [active |-> alive, nnp |-> "dropin" \in loaded,
                  invocation |-> sentinel.invocation + 1]
                   \in [active : BOOLEAN, nnp : BOOLEAN, invocation : Nat]
      <3>1. ("dropin" \in loaded) \in BOOLEAN /\ sentinel.invocation + 1 \in Nat
        BY <2>1
      <3> QED
        BY <3>1
    <2> QED
      BY <2>1, <2>2 DEF CommandEffect, hostVars
  <1>2. file' = file /\ loaded' \subseteq {"dropin", "unit"}
    BY DEF InstallersTyped, CommandEffect, hostVars
  <1>3. canary' \in {"inactive", "starting", "active"}
    BY DEF InstallersTyped, CommandEffect, hostVars
  <1>4. command # "restart" => sentinel' = sentinel
    BY DEF CommandEffect, hostVars
  <1>5. command \notin {"start", "stop"} => canary' = canary
    BY DEF CommandEffect, hostVars
  <1> QED
    BY <1>1, <1>2, <1>3, <1>4, <1>5

\* Where an installer goes.
LEMMA GotoStepIs ==
    ASSUME InstallersTyped, NEW i \in Installers, NEW l \in InstallerPcs, GotoStep(i, l)
    PROVE  /\ setup' \in [Installers -> Places]
           /\ setup'[i] = [setup[i] EXCEPT !.pc = l, !.step = 1]
           /\ \A j \in Installers \ {i} : setup'[j] = setup[j]
  <1>1. setup[i] \in Places /\ 1 \in 1 .. 4
    BY DEF InstallersTyped
  <1>2. [setup[i] EXCEPT !.pc = l, !.step = 1] \in Places
    BY <1>1 DEF Places
  <1>3. setup' = [setup EXCEPT ![i] = [setup[i] EXCEPT !.pc = l, !.step = 1]]
    BY DEF InstallersTyped, GotoStep
  <1> QED
    BY <1>2, <1>3 DEF InstallersTyped

LEMMA ReportIs ==
    ASSUME InstallersTyped, NEW i \in Installers, NEW result \in Results \cup {"none"},
           Report(i, result)
    PROVE  /\ setup' \in [Installers -> Places]
           /\ setup'[i].pc = "idle" /\ setup'[i].result = result
           /\ \A j \in Installers \ {i} : setup'[j] = setup[j]
  BY DEF InstallersTyped, Report, NotRunning, Places, InstallerPcs

LEMMA CaughtIs ==
    ASSUME InstallersTyped, NEW i \in Installers, setup' = [setup EXCEPT ![i] = Caught(@)]
    PROVE  /\ setup' \in [Installers -> Places]
           /\ \/ setup[i].began /\ setup'[i].pc = "rollback" /\ setup'[i].step = 1
                 /\ setup'[i].result = setup[i].result
              \/ ~setup[i].began /\ setup'[i].pc = "idle" /\ setup'[i].result = "FAILED_NO_MUTATION"
           /\ \A j \in Installers \ {i} : setup'[j] = setup[j]
  <1>1. setup[i] \in Places /\ setup'[i] = Caught(setup[i])
    BY DEF InstallersTyped
  <1>2. Caught(setup[i]) \in Places
    <2>1. [setup[i] EXCEPT !.pc = "rollback", !.step = 1] \in Places
      <3>1. 1 \in 1 .. 4 /\ "rollback" \in InstallerPcs
        BY DEF InstallerPcs
      <3> QED
        BY <1>1, <3>1 DEF Places
    <2>2. NotRunning("FAILED_NO_MUTATION", setup[i].runs) \in Places
      BY <1>1 DEF NotRunning, Places, InstallerPcs, Results
    <2> QED
      BY <2>1, <2>2 DEF Caught
  <1> QED
    BY <1>1, <1>2 DEF InstallersTyped, Caught, NotRunning, Places

\* The steps are few.
LEMMA NextIs ==
    /\ \A s \in 1 .. 4, n \in 1 .. 3 : s < n => s + 1 \in 1 .. 4
    /\ \A n \in 1 .. 3 : \A s \in 1 .. n : s + 1 \in 1 .. 4 /\ (s < n => s + 1 \in 1 .. n)
  OBVIOUS

-----------------------------------------------------------------------------
\* The steps of an installer: where it was, where it is and what it has done to the host.
Begins(i) ==
    /\ UNCHANGED hostVars
    /\ setup[i].pc = "idle" /\ setup'[i].pc = "check" /\ setup'[i].step = 1
    /\ setup'[i].result = "none"

FindsRoom(i) ==
    /\ UNCHANGED hostVars
    /\ ~Collides(i)
    /\ setup[i].pc = "check" /\ setup'[i].pc = "install" /\ setup'[i].step = setup[i].step
    /\ setup'[i].result = setup[i].result

EndsCall(i) ==
    /\ UNCHANGED hostVars
    /\ setup'[i].pc = "idle"
    /\ setup'[i].result \in (Results \cup {"none"}) \ {"FAILED_NO_MUTATION"}
    /\ setup'[i].result = "SUCCEEDED" => setup[i].pc = "probe" /\ Authorizes(i)
    /\ setup'[i].result = "ROLLED_BACK" => Restored(i)

Writes(i) ==
    /\ setup[i].pc = "install" /\ file[Artifact(i)] = "absent"
    /\ \E content \in {"exact", "damaged"} : file' = [file EXCEPT ![Artifact(i)] = content]
    /\ UNCHANGED <<loaded, sentinel, canary>>

Installs(i) ==
    /\ Writes(i)
    /\ setup'[i].pc = "verify" /\ setup'[i].began /\ setup'[i].step = setup[i].step
    /\ setup'[i].result = setup[i].result

Fails(i) ==
    /\ setup[i].pc \in {"install", "verify", "test", "probe", "apply"}
    /\ \/ setup[i].began /\ setup'[i].pc = "rollback" /\ setup'[i].step = 1
          /\ setup'[i].result = setup[i].result
       \/ ~setup[i].began /\ setup'[i].pc = "idle" /\ setup'[i].result = "FAILED_NO_MUTATION"
    /\ \/ UNCHANGED hostVars
       \/ Writes(i) /\ file'[Artifact(i)] = "damaged"
       \/ setup[i].pc = "apply" /\ CommandEffect(ApplyCommands(i)[setup[i].step])

VerifiesFile(i) ==
    /\ UNCHANGED hostVars
    /\ setup[i].pc = "verify" /\ file[Artifact(i)] = "exact"
    /\ setup'[i].began = setup[i].began /\ setup'[i].result = setup[i].result
    /\ IF setup[i].step < Len(Artifacts(i))
         THEN setup'[i].pc = "install" /\ setup'[i].step = setup[i].step + 1
         ELSE setup'[i].pc = "apply" /\ setup'[i].step = 1

Applies(i) ==
    /\ setup[i].pc = "apply" /\ CommandEffect(ApplyCommands(i)[setup[i].step])
    /\ setup'[i].pc = "test" /\ setup'[i].step = setup[i].step /\ setup'[i].before = setup[i].before
    /\ setup'[i].began = setup[i].began /\ setup'[i].result = setup[i].result

Tests(i) ==
    /\ UNCHANGED hostVars
    /\ setup[i].pc = "test" /\ Passes(i, ApplyCommands(i)[setup[i].step])
    /\ setup'[i].began = setup[i].began /\ setup'[i].before = setup[i].before
    /\ setup'[i].result = setup[i].result
    /\ IF setup[i].step < Len(ApplyCommands(i))
         THEN setup'[i].pc = "apply" /\ setup'[i].step = setup[i].step + 1
         ELSE setup'[i].pc = "probe"

RollsBack(i) ==
    /\ setup[i].pc \in {"rollback", "remove", "undo"}
    /\ setup'[i].pc \in {"remove", "undo", "prove"}
    /\ setup'[i].result = setup[i].result
    /\ setup'[i].pc = "remove" => setup'[i].step \in DOMAIN Artifacts(i)
    /\ setup'[i].pc = "undo" => setup'[i].step \in DOMAIN RollbackCommands(i)
    /\ \/ UNCHANGED hostVars
       \/ i = "canary" /\ CommandEffect("stop")
       \/ \E r \in RolesOf(i) : /\ file[r] = "exact" /\ file' = [file EXCEPT ![r] = "absent"]
                                /\ UNCHANGED <<loaded, sentinel, canary>>
       \/ setup[i].pc = "undo" /\ CommandEffect(RollbackCommands(i)[setup[i].step])

InstallerMoves(i) ==
    \/ Begins(i) \/ FindsRoom(i) \/ EndsCall(i) \/ Installs(i) \/ Fails(i) \/ VerifiesFile(i)
    \/ Applies(i) \/ Tests(i) \/ RollsBack(i)

InstallerActs(i) ==
    /\ setup' \in [Installers -> Places]
    /\ \A j \in Installers \ {i} : setup'[j] = setup[j]
    /\ InstallerMoves(i)

LEMMA BeginActs ==
    ASSUME BootstrapConstants, InstallersTyped, StepsExist, NEW i \in Installers,
           Prepare(i) \/ Check(i)
    PROVE  InstallerActs(i)
  <1>1. setup[i] \in Places
    BY DEF InstallersTyped
  <1>2. CASE Prepare(i)
    <2> DEFINE next == [NotRunning("none", setup[i].runs + 1) EXCEPT !.pc = "check"]
    <2>1. setup' = [setup EXCEPT ![i] = next]
      BY <1>2 DEF Prepare, InstallersTyped
    <2>2. next.pc = "check" /\ next.step = 1 /\ next.result = "none"
      BY DEF NotRunning
    <2>3. next \in Places
      <3>1. NotRunning("none", setup[i].runs + 1) \in Places
        BY <1>1 DEF NotRunning, Places, InstallerPcs, Results
      <3> QED
        BY <3>1 DEF Places, InstallerPcs
    <2>4. setup' \in [Installers -> Places] /\ setup'[i] = next
          /\ \A j \in Installers \ {i} : setup'[j] = setup[j]
      BY <2>1, <2>3 DEF InstallersTyped
    <2> QED
      BY <1>2, <2>2, <2>4 DEF Prepare, StepAt, InstallerActs, InstallerMoves, Begins
  <1>3. CASE Check(i) /\ Report(i, "BLOCKED")
    BY <1>3, ReportIs DEF Check, InstallerActs, InstallerMoves, EndsCall, Results
  <1>4. CASE Check(i) /\ ~Report(i, "BLOCKED")
    <2>1. /\ setup' = [setup EXCEPT ![i].pc = "install", ![i].before = sentinel.invocation]
          /\ ~Collides(i) /\ setup[i].pc = "check" /\ UNCHANGED hostVars
      BY <1>4 DEF Check, StepAt
    <2>2. [setup[i] EXCEPT !.pc = "install", !.before = sentinel.invocation] \in Places
      BY <1>1 DEF Places, InstallersTyped, InstallerPcs
    <2>3. setup' = [setup EXCEPT ![i] = [setup[i] EXCEPT !.pc = "install",
                                                   !.before = sentinel.invocation]]
      BY <2>1 DEF InstallersTyped
    <2>4. setup' \in [Installers -> Places] /\ \A j \in Installers \ {i} : setup'[j] = setup[j]
      BY <2>2, <2>3 DEF InstallersTyped
    <2>5. setup'[i].pc = "install" /\ setup'[i].step = setup[i].step
          /\ setup'[i].result = setup[i].result
      BY <1>1, <2>3 DEF InstallersTyped, Places
    <2> QED
      BY <2>1, <2>4, <2>5 DEF InstallerActs, InstallerMoves, FindsRoom
  <1> QED
    BY <1>2, <1>3, <1>4

LEMMA InstallActs ==
    ASSUME BootstrapConstants, InstallersTyped, StepsExist, NEW i \in Installers,
           Install(i) \/ InstallRaises(i) \/ VerifyFiles(i) \/ StepFails(i)
    PROVE  InstallerActs(i)
  <1>1. setup[i] \in Places
    BY DEF InstallersTyped
  <1>2. CASE Install(i)
    <2>1. setup' = [setup EXCEPT ![i] = [setup[i] EXCEPT !.pc = "verify", !.began = TRUE]]
      BY <1>2 DEF Install, InstallersTyped
    <2>2. [setup[i] EXCEPT !.pc = "verify", !.began = TRUE] \in Places
      BY <1>1 DEF Places, InstallerPcs
    <2>3. setup' \in [Installers -> Places] /\ \A j \in Installers \ {i} : setup'[j] = setup[j]
      BY <2>1, <2>2 DEF InstallersTyped
    <2>4. setup'[i].pc = "verify" /\ setup'[i].began /\ setup'[i].step = setup[i].step
          /\ setup'[i].result = setup[i].result
      BY <1>1, <2>1 DEF InstallersTyped, Places
    <2> QED
      BY <1>2, <2>3, <2>4
      DEF Install, StepAt, InstallerActs, InstallerMoves, Installs, Writes
  <1>3. CASE InstallRaises(i)
    <2>1. file[Artifact(i)] = "absent" /\ file' = [file EXCEPT ![Artifact(i)] = "damaged"]
            => file'[Artifact(i)] = "damaged"
      BY <1>1, <1>3, RolesAre
      DEF InstallRaises, StepAt, StepsExist, Artifact, InstallersTyped
    <2> QED
      BY <1>3, <2>1, CaughtIs
      DEF InstallRaises, StepAt, InstallerActs, InstallerMoves, Fails, Writes,
          hostVars
  <1>4. CASE VerifyFiles(i) /\ setup[i].step < Len(Artifacts(i))
    <2>1. setup' = [setup EXCEPT ![i] = [setup[i] EXCEPT !.pc = "install", !.step = @ + 1]]
      BY <1>4 DEF VerifyFiles, InstallersTyped
    <2>2. setup[i].step + 1 \in 1 .. 4
      <3>1. setup[i].step \in 1 .. 4 /\ setup[i].step < Len(Artifacts(i))
        BY <1>1, <1>4 DEF Places
      <3>2. Len(Artifacts(i)) \in 1 .. 3
        BY ListsAre
      <3> QED
        BY <3>1, <3>2, NextIs
    <2>3. [setup[i] EXCEPT !.pc = "install", !.step = @ + 1] \in Places
      BY <1>1, <2>2 DEF Places, InstallerPcs
    <2>4. setup' \in [Installers -> Places] /\ \A j \in Installers \ {i} : setup'[j] = setup[j]
      BY <2>1, <2>3 DEF InstallersTyped
    <2>5. setup'[i].pc = "install" /\ setup'[i].step = setup[i].step + 1
          /\ setup'[i].began = setup[i].began /\ setup'[i].result = setup[i].result
      BY <1>1, <2>1 DEF InstallersTyped, Places
    <2> QED
      BY <1>4, <2>4, <2>5
      DEF VerifyFiles, StepAt, InstallerActs, InstallerMoves, VerifiesFile
  <1>5. CASE VerifyFiles(i) /\ ~(setup[i].step < Len(Artifacts(i)))
    <2>1. GotoStep(i, "apply")
      BY <1>5 DEF VerifyFiles
    <2>2. /\ setup' \in [Installers -> Places] /\ \A j \in Installers \ {i} : setup'[j] = setup[j]
          /\ setup'[i] = [setup[i] EXCEPT !.pc = "apply", !.step = 1]
      BY <2>1, GotoStepIs DEF InstallerPcs
    <2>3. setup'[i].pc = "apply" /\ setup'[i].step = 1
          /\ setup'[i].began = setup[i].began /\ setup'[i].result = setup[i].result
      BY <1>1, <2>2 DEF Places
    <2> QED
      BY <1>5, <2>2, <2>3
      DEF VerifyFiles, StepAt, InstallerActs, InstallerMoves, VerifiesFile
  <1>6. CASE StepFails(i)
    BY <1>6, CaughtIs DEF StepFails, InstallerActs, InstallerMoves, Fails
  <1> QED
    BY <1>2, <1>3, <1>4, <1>5, <1>6

LEMMA ApplyActs ==
    ASSUME BootstrapConstants, InstallersTyped, StepsExist, NEW i \in Installers,
           ApplyCommand(i) \/ ApplyCommandFails(i) \/ TestCommand(i) \/ Succeed(i)
    PROVE  InstallerActs(i)
  <1>1. setup[i] \in Places
    BY DEF InstallersTyped
  <1>2. CASE ApplyCommand(i)
    <2>1. setup' = [setup EXCEPT ![i] = [setup[i] EXCEPT !.pc = "test"]]
      BY <1>2 DEF ApplyCommand, InstallersTyped
    <2>2. [setup[i] EXCEPT !.pc = "test"] \in Places
      BY <1>1 DEF Places, InstallerPcs
    <2>3. setup' \in [Installers -> Places] /\ \A j \in Installers \ {i} : setup'[j] = setup[j]
      BY <2>1, <2>2 DEF InstallersTyped
    <2>4. setup'[i].pc = "test" /\ setup'[i].step = setup[i].step /\ setup'[i].before = setup[i].before
          /\ setup'[i].began = setup[i].began /\ setup'[i].result = setup[i].result
      BY <1>1, <2>1 DEF InstallersTyped, Places
    <2> QED
      BY <1>2, <2>3, <2>4 DEF ApplyCommand, StepAt, InstallerActs, InstallerMoves, Applies
  <1>3. CASE ApplyCommandFails(i)
    BY <1>3, CaughtIs DEF ApplyCommandFails, StepAt, InstallerActs, InstallerMoves, Fails
  <1>4. CASE TestCommand(i) /\ setup[i].step < Len(ApplyCommands(i))
    <2>1. setup' = [setup EXCEPT ![i] = [setup[i] EXCEPT !.pc = "apply", !.step = @ + 1]]
      BY <1>4 DEF TestCommand, InstallersTyped
    <2>2. setup[i].step + 1 \in 1 .. 4
      <3>1. setup[i].step \in 1 .. 4 /\ setup[i].step < Len(ApplyCommands(i))
        BY <1>1, <1>4 DEF Places
      <3>2. Len(ApplyCommands(i)) \in 1 .. 3
        BY ListsAre
      <3> QED
        BY <3>1, <3>2, NextIs
    <2>3. [setup[i] EXCEPT !.pc = "apply", !.step = @ + 1] \in Places
      BY <1>1, <2>2 DEF Places, InstallerPcs
    <2>4. setup' \in [Installers -> Places] /\ \A j \in Installers \ {i} : setup'[j] = setup[j]
      BY <2>1, <2>3 DEF InstallersTyped
    <2>5. setup'[i].pc = "apply" /\ setup'[i].step = setup[i].step + 1
          /\ setup'[i].before = setup[i].before
          /\ setup'[i].began = setup[i].began /\ setup'[i].result = setup[i].result
      BY <1>1, <2>1 DEF InstallersTyped, Places
    <2> QED
      BY <1>4, <2>4, <2>5 DEF TestCommand, StepAt, InstallerActs, InstallerMoves, Tests
  <1>5. CASE TestCommand(i) /\ ~(setup[i].step < Len(ApplyCommands(i)))
    <2>1. GotoStep(i, "probe")
      BY <1>5 DEF TestCommand
    <2>2. /\ setup' \in [Installers -> Places] /\ \A j \in Installers \ {i} : setup'[j] = setup[j]
          /\ setup'[i] = [setup[i] EXCEPT !.pc = "probe", !.step = 1]
      BY <2>1, GotoStepIs DEF InstallerPcs
    <2>3. setup'[i].pc = "probe" /\ setup'[i].before = setup[i].before
          /\ setup'[i].began = setup[i].began /\ setup'[i].result = setup[i].result
      BY <1>1, <2>2 DEF Places
    <2> QED
      BY <1>5, <2>2, <2>3 DEF TestCommand, StepAt, InstallerActs, InstallerMoves, Tests
  <1>6. CASE Succeed(i)
    BY <1>6, ReportIs DEF Succeed, StepAt, InstallerActs, InstallerMoves, EndsCall, Results
  <1> QED
    BY <1>2, <1>3, <1>4, <1>5, <1>6

LEMMA RollbackActs ==
    ASSUME BootstrapConstants, InstallersTyped, StepsExist, NEW i \in Installers,
           \/ RollbackStop(i) \/ Remove(i) \/ RemoveNot(i) \/ Undo(i) \/ Prove(i)
           \/ EndsWithoutResult(i)
    PROVE  InstallerActs(i)
  <1>1. setup[i] \in Places
    BY DEF InstallersTyped
  <1>2. CASE RollbackStop(i)
    <2>1. \/ GotoStep(i, "remove")
          \/ setup' = [setup EXCEPT ![i] = [setup[i] EXCEPT !.pc = "remove", !.errors = TRUE]]
      BY <1>2 DEF RollbackStop, InstallersTyped
    <2>2. setup[i].step = 1
      BY <1>2 DEF StepsExist, RollbackStop, StepAt
    <2>3. [setup[i] EXCEPT !.pc = "remove", !.errors = TRUE] \in Places
      BY <1>1 DEF Places, InstallerPcs
    <2>4. setup' \in [Installers -> Places] /\ \A j \in Installers \ {i} : setup'[j] = setup[j]
      BY <2>1, <2>3, GotoStepIs DEF InstallersTyped, InstallerPcs
    <2>5. setup'[i].pc = "remove" /\ setup'[i].step = 1 /\ setup'[i].result = setup[i].result
      <3>1. CASE GotoStep(i, "remove")
        <4>1. setup'[i] = [setup[i] EXCEPT !.pc = "remove", !.step = 1]
          BY <3>1, GotoStepIs DEF InstallerPcs
        <4> QED
          BY <1>1, <4>1 DEF Places
      <3>2. CASE setup' = [setup EXCEPT ![i] = [setup[i] EXCEPT !.pc = "remove", !.errors = TRUE]]
        BY <1>1, <2>2, <3>2 DEF InstallersTyped, Places
      <3> QED
        BY <2>1, <3>1, <3>2
    <2>6. 1 \in DOMAIN Artifacts(i)
      BY ListsAre
    <2>7. UNCHANGED hostVars \/ (i = "canary" /\ CommandEffect("stop"))
      BY <1>2 DEF RollbackStop
    <2> QED
      BY <1>2, <2>4, <2>5, <2>6, <2>7
      DEF RollbackStop, StepAt, InstallerActs, InstallerMoves, RollsBack
  <1>3. ASSUME NEW failed \in BOOLEAN, StepAt(i, "remove"),
               setup' = [setup EXCEPT ![i] = AfterRemoval(@, i, failed)]
        PROVE  /\ setup' \in [Installers -> Places]
               /\ \A j \in Installers \ {i} : setup'[j] = setup[j]
               /\ setup'[i].pc \in {"remove", "undo"} /\ setup'[i].result = setup[i].result
               /\ setup'[i].pc = "remove" => setup'[i].step \in DOMAIN Artifacts(i)
               /\ setup'[i].pc = "undo" => setup'[i].step \in DOMAIN RollbackCommands(i)
    <2> DEFINE next == AfterRemoval(setup[i], i, failed)
    <2>1. setup[i].step \in 1 .. Len(Artifacts(i)) /\ Len(Artifacts(i)) \in 1 .. 3
      BY <1>3, ListsAre DEF StepsExist, StepAt
    <2>2. /\ next.pc = IF setup[i].step < Len(Artifacts(i)) THEN "remove" ELSE "undo"
          /\ next.step = IF setup[i].step < Len(Artifacts(i)) THEN setup[i].step + 1 ELSE 1
          /\ next.result = setup[i].result
      BY <1>1 DEF AfterRemoval, Places
    <2>3. next.step \in 1 .. 4 /\ next.pc \in InstallerPcs
      <3>1. setup[i].step + 1 \in 1 .. 4
        BY <2>1, NextIs
      <3>3. 1 \in 1 .. 4
        OBVIOUS
      <3> HIDE DEF next
      <3>2. next.step \in {setup[i].step + 1, 1} /\ next.pc \in {"remove", "undo"}
        BY <2>2
      <3> QED
        BY <3>1, <3>2, <3>3 DEF InstallerPcs
    <2>4. next \in Places
      <3>1. (setup[i].errors \/ failed) \in BOOLEAN
        BY <1>1 DEF Places
      <3> QED
        BY <1>1, <2>2, <2>3, <3>1 DEF AfterRemoval, Places
    <2>5. setup' \in [Installers -> Places] /\ setup'[i] = next
          /\ \A j \in Installers \ {i} : setup'[j] = setup[j]
      BY <1>3, <2>4 DEF InstallersTyped
    <2>6. /\ next.pc = "remove" => next.step \in DOMAIN Artifacts(i)
          /\ next.pc = "undo" => next.step \in DOMAIN RollbackCommands(i)
      BY <2>1, <2>2, ListsAre
    <2> QED
      BY <2>2, <2>5, <2>6
  <1>4. CASE Remove(i)
    <2>1. Reversed(i) \in RolesOf(i)
      <3>1. setup[i].step \in 1 .. Len(Artifacts(i)) /\ Len(Artifacts(i)) \in 1 .. 3
        BY <1>4, ListsAre DEF Remove, StepsExist, StepAt
      <3>2. Len(Artifacts(i)) + 1 - setup[i].step \in DOMAIN Artifacts(i)
        BY <3>1, ListsAre
      <3> QED
        BY <3>2, RolesAre DEF Reversed
    <2> QED
      BY <1>3, <1>4, <2>1
      DEF Remove, Removable, StepAt, InstallerActs, InstallerMoves, RollsBack
  <1>5. CASE RemoveNot(i)
    <2>1. (file[Reversed(i)] # "absent") \in BOOLEAN
      OBVIOUS
    <2> QED
      BY <1>3, <1>5, <2>1 DEF RemoveNot, StepAt, InstallerActs, InstallerMoves, RollsBack
  <1>6. CASE Undo(i)
    <2>1. PICK failed \in BOOLEAN :
             /\ CommandEffect(RollbackCommands(i)[setup[i].step]) \/ (failed /\ UNCHANGED hostVars)
             /\ setup' = [setup EXCEPT ![i].errors = @ \/ failed,
                                   ![i].pc = IF setup[i].step < Len(RollbackCommands(i))
                                               THEN "undo" ELSE "prove",
                                   ![i].step = @ + 1]
      BY <1>6 DEF Undo
    <2> DEFINE pc == IF setup[i].step < Len(RollbackCommands(i)) THEN "undo" ELSE "prove"
               next == [setup[i] EXCEPT !.errors = @ \/ failed, !.pc = pc, !.step = @ + 1]
    <2>2. setup[i].step \in 1 .. Len(RollbackCommands(i)) /\ Len(RollbackCommands(i)) \in 1 .. 3
      BY <1>6, ListsAre DEF Undo, StepsExist, StepAt
    <2>3. setup[i].step + 1 \in 1 .. 4 /\ pc \in InstallerPcs /\ (setup[i].errors \/ failed) \in BOOLEAN
      <3>1. setup[i].step + 1 \in 1 .. 4
        BY <2>2, NextIs
      <3>2. (setup[i].errors \/ failed) \in BOOLEAN
        BY <1>1 DEF Places
      <3> QED
        BY <3>1, <3>2 DEF InstallerPcs
    <2>4. next \in Places
      BY <1>1, <2>3 DEF Places
    <2>5. setup' = [setup EXCEPT ![i] = next]
      BY <2>1 DEF InstallersTyped
    <2>6. setup' \in [Installers -> Places] /\ setup'[i] = next
          /\ \A j \in Installers \ {i} : setup'[j] = setup[j]
      BY <2>4, <2>5 DEF InstallersTyped
    <2>7. next.pc = pc /\ next.step = setup[i].step + 1 /\ next.result = setup[i].result
      BY <1>1 DEF Places
    <2>8. pc = "undo" => setup[i].step + 1 \in DOMAIN RollbackCommands(i)
      BY <2>2, ListsAre
    <2>9. pc \in {"undo", "prove"}
      OBVIOUS
    <2> QED
      <3> HIDE DEF pc, next
      <3>1. setup[i].pc = "undo"
        BY <1>6 DEF Undo, StepAt
      <3>2. /\ setup'[i].pc \in {"undo", "prove"} /\ setup'[i].result = setup[i].result
            /\ setup'[i].pc = "undo" => setup'[i].step \in DOMAIN RollbackCommands(i)
        BY <2>6, <2>7, <2>8, <2>9
      <3>3. RollsBack(i)
        BY <2>1, <3>1, <3>2 DEF RollsBack
      <3> QED
        BY <2>6, <3>3 DEF InstallerActs, InstallerMoves
  <1>7. CASE Prove(i)
    <2>1. PICK result \in {"ROLLED_BACK", "ROLLBACK_FAILED"} :
             Report(i, result) /\ (result = "ROLLED_BACK" => Restored(i))
      BY <1>7 DEF Prove
    <2> QED
      BY <1>7, <2>1, ReportIs DEF Prove, InstallerActs, InstallerMoves, EndsCall, Results
  <1>8. CASE EndsWithoutResult(i)
    BY <1>8, ReportIs
    DEF EndsWithoutResult, InstallerActs, InstallerMoves, EndsCall, Results
  <1> QED
    BY <1>2, <1>4, <1>5, <1>6, <1>7, <1>8

LEMMA InstallerStepActs ==
    ASSUME BootstrapConstants, InstallersTyped, StepsExist, NEW i \in Installers,
           InstallerStep(i)
    PROVE  InstallerActs(i) /\ tampers' = tampers
  <1>1. InstallerActs(i)
    BY BeginActs, InstallActs, ApplyActs, RollbackActs DEF InstallerStep
  <1>2. tampers' = tampers
    BY
    DEF InstallerStep, Prepare, Check, Install, InstallRaises, VerifyFiles, StepFails,
        ApplyCommand,
           ApplyCommandFails, TestCommand, Succeed, RollbackStop, Remove, RemoveNot, Undo, Prove,
           EndsWithoutResult
  <1> QED
    BY <1>1, <1>2

-----------------------------------------------------------------------------
\* An installer writes and removes only its own files, and none that is another's.
LEMMA FilesAre ==
    ASSUME BootstrapConstants, InstallersTyped, StepsExist, NEW i \in Installers,
           InstallerActs(i)
    PROVE  /\ file' \in [Roles -> {"absent", "exact", "damaged", "foreign"}]
           /\ \A r \in Roles : file'[r] # file[r] => r \in RolesOf(i) /\ file[r] # "foreign"
           /\ \A r \in Roles : file'[r] = "foreign" => file[r] = "foreign"
           /\ setup[i].pc \in {"idle", "check", "verify", "apply", "test", "probe"} => file' = file
  <1>1. setup[i].pc = "install" => Artifact(i) \in RolesOf(i) /\ Artifact(i) \in Roles
    BY RolesAre DEF StepsExist, Artifact
  <1>2. CASE file' = file
    BY <1>2 DEF InstallersTyped
  <1>3. CASE Writes(i)
    BY <1>1, <1>3 DEF Writes, InstallersTyped
  <1>4. ASSUME NEW r \in RolesOf(i), file[r] = "exact", file' = [file EXCEPT ![r] = "absent"]
        PROVE  /\ file' \in [Roles -> {"absent", "exact", "damaged", "foreign"}]
               /\ \A q \in Roles : file'[q] # file[q] => q \in RolesOf(i) /\ file[q] # "foreign"
               /\ \A q \in Roles : file'[q] = "foreign" => file[q] = "foreign"
    <2>1. r \in Roles
      BY RolesAre
    <2> QED
      BY <1>4, <2>1 DEF InstallersTyped
  <1>5. CASE RollsBack(i) /\ file' # file
    <2>1. \E r \in RolesOf(i) : file[r] = "exact" /\ file' = [file EXCEPT ![r] = "absent"]
      BY <1>5, EffectIs DEF RollsBack, hostVars
    <2> QED
      BY <1>4, <1>5, <2>1 DEF RollsBack
  <1>6. CASE Begins(i) \/ FindsRoom(i) \/ EndsCall(i) \/ VerifiesFile(i) \/ Tests(i)
    BY <1>2, <1>6 DEF Begins, FindsRoom, EndsCall, VerifiesFile, Tests, hostVars
  <1>7. CASE Applies(i)
    BY <1>2, <1>7, EffectIs DEF Applies
  <1>8. CASE Installs(i)
    BY <1>3, <1>8 DEF Installs, Writes
  <1>9. CASE Fails(i)
    <2>1. file' = file \/ Writes(i)
      BY <1>9, EffectIs DEF Fails, hostVars
    <2> QED
      BY <1>2, <1>3, <2>1 DEF Writes
  <1>10. CASE RollsBack(i) /\ file' = file
    BY <1>2, <1>10
  <1> QED
    BY <1>5, <1>6, <1>7, <1>8, <1>9, <1>10 DEF InstallerActs, InstallerMoves

LEMMA InstallerTypesStep ==
    ASSUME BootstrapConstants, InstallersTyped, StepsExist, NEW i \in Installers,
           InstallerActs(i),
           tampers' = tampers
    PROVE  InstallersTyped'
  <1>1. file' \in [Roles -> {"absent", "exact", "damaged", "foreign"}]
    BY FilesAre
  <1>2. setup' \in [Installers -> Places] /\ tampers' \in Nat
    BY DEF InstallerActs, InstallersTyped
  <1>3. CASE UNCHANGED <<loaded, sentinel, canary>>
    BY <1>1, <1>2, <1>3 DEF InstallersTyped
  <1>4. ASSUME NEW command, CommandEffect(command)
        PROVE  InstallersTyped'
    BY <1>1, <1>2, <1>4, EffectIs DEF InstallersTyped
  <1>5. UNCHANGED <<loaded, sentinel, canary>> \/ \E command : CommandEffect(command)
    BY
    DEF InstallerActs, InstallerMoves, Begins, FindsRoom, EndsCall, Installs, Fails,
        VerifiesFile, Applies, Tests,
           RollsBack, Writes, hostVars
  <1> QED
    BY <1>3, <1>4, <1>5

LEMMA StepsStep ==
    ASSUME BootstrapConstants, InstallersTyped, StepsExist, NEW i \in Installers,
           InstallerActs(i)
    PROVE  StepsExist'
  <1> DEFINE Exists(j) ==
         /\ setup[j].pc \in {"check", "rollback"} => setup[j].step = 1
         /\ setup[j].pc \in {"install", "verify", "remove"} => setup[j].step \in DOMAIN Artifacts(j)
         /\ setup[j].pc \in {"apply", "test"} => setup[j].step \in DOMAIN ApplyCommands(j)
         /\ setup[j].pc = "undo" => setup[j].step \in DOMAIN RollbackCommands(j)
  <1>1. Exists(i)
    BY DEF StepsExist
  <1>2. Exists(i)'
    <2>1. 1 \in DOMAIN Artifacts(i) /\ 1 \in DOMAIN ApplyCommands(i)
      BY ListsAre
    <2>2. CASE Begins(i) \/ FindsRoom(i) \/ EndsCall(i)
      BY <1>1, <2>1, <2>2 DEF Begins, FindsRoom, EndsCall
    <2>3. CASE Installs(i) \/ Applies(i)
      BY <1>1, <2>3 DEF Installs, Applies, Writes
    <2>4. CASE Fails(i)
      BY <2>4 DEF Fails
    <2>5. CASE VerifiesFile(i)
      <3>1. setup[i].step < Len(Artifacts(i)) => setup[i].step + 1 \in DOMAIN Artifacts(i)
        <4>1. Len(Artifacts(i)) \in 1 .. 3 /\ setup[i].step \in 1 .. Len(Artifacts(i))
          BY <1>1, <2>5, ListsAre DEF VerifiesFile
        <4> QED
          BY <4>1, NextIs, ListsAre
      <3> QED
        BY <2>1, <2>5, <3>1 DEF VerifiesFile
    <2>6. CASE Tests(i)
      <3>1. setup[i].step < Len(ApplyCommands(i)) => setup[i].step + 1 \in DOMAIN ApplyCommands(i)
        <4>1. Len(ApplyCommands(i)) \in 1 .. 3 /\ setup[i].step \in 1 .. Len(ApplyCommands(i))
          BY <1>1, <2>6, ListsAre DEF Tests
        <4> QED
          BY <4>1, NextIs, ListsAre
      <3> QED
        BY <2>6, <3>1 DEF Tests
    <2>7. CASE RollsBack(i)
      BY <2>7 DEF RollsBack
    <2> QED
      BY <2>2, <2>3, <2>4, <2>5, <2>6, <2>7 DEF InstallerActs, InstallerMoves
  <1>3. \A j \in Installers \ {i} : Exists(j)'
    BY DEF StepsExist, InstallerActs
  <1> QED
    BY <1>2, <1>3 DEF StepsExist

LEMMA BegunStep ==
    ASSUME BootstrapConstants, InstallersTyped, StepsExist, BegunIsMarked, NEW i \in
           Installers, InstallerActs(i)
    PROVE  BegunIsMarked'
  <1> DEFINE Begun(j) ==
         /\ setup[j].pc \in {"verify", "apply", "test", "probe"} => setup[j].began
         /\ setup[j].pc = "install" /\ ~setup[j].began =>
               setup[j].step = 1 /\ \A r \in RolesOf(j) : file[r] \in {"absent", "foreign"}
  <1>1. Begun(i) /\ (setup[i].pc = "check" => setup[i].step = 1)
    BY DEF BegunIsMarked, StepsExist
  <1>2. Begun(i)'
    <2>1. CASE Begins(i) \/ EndsCall(i) \/ Installs(i) \/ Fails(i) \/ RollsBack(i)
      BY <2>1 DEF Begins, EndsCall, Installs, Fails, RollsBack
    <2>2. CASE FindsRoom(i)
      BY <1>1, <2>2 DEF FindsRoom, Collides, hostVars
    <2>3. CASE VerifiesFile(i) \/ Applies(i) \/ Tests(i)
      BY <1>1, <2>3 DEF VerifiesFile, Applies, Tests
    <2> QED
      BY <2>1, <2>2, <2>3 DEF InstallerActs, InstallerMoves
  <1>3. ASSUME NEW j \in Installers \ {i}
        PROVE  Begun(j)'
    <2>1. setup'[j] = setup[j] /\ Begun(j)
      BY DEF InstallerActs, BegunIsMarked
    <2>2. \A r \in RolesOf(j) : file'[r] = file[r]
      BY FilesAre, RolesAre
    <2> QED
      BY <2>1, <2>2
  <1> QED
    BY <1>2, <1>3 DEF BegunIsMarked

LEMMA ExactStep ==
    ASSUME BootstrapConstants, InstallersTyped, StepsExist, InstalledIsExact, NEW i \in
           Installers,
           InstallerActs(i), tampers' = tampers
    PROVE  InstalledIsExact'
  <1> DEFINE Exact(j) ==
         /\ setup[j].pc \in {"install", "verify"} =>
               \A k \in DOMAIN Artifacts(j) : k < setup[j].step => file[Artifacts(j)[k]] = "exact"
         /\ setup[j].pc \in {"apply", "test", "probe"} =>
               \A r \in RolesOf(j) : file[r] = "exact"
  <1>1. SUFFICES ASSUME tampers = 0
                 PROVE  \A j \in Installers : Exact(j)'
    BY DEF InstalledIsExact
  <1>2. \A j \in Installers : Exact(j)
    BY <1>1 DEF InstalledIsExact
  <1>3. ASSUME NEW j \in Installers \ {i}
        PROVE  Exact(j)'
    <2>1. setup'[j] = setup[j] /\ Exact(j)
      BY <1>2 DEF InstallerActs
    <2>2. \A r \in RolesOf(j) : file'[r] = file[r]
      BY FilesAre, RolesAre
    <2>3. \A k \in DOMAIN Artifacts(j) : Artifacts(j)[k] \in RolesOf(j)
      BY RolesAre
    <2> QED
      BY <2>1, <2>2, <2>3
  <1>4. Exact(i)'
    <2>1. \A k \in DOMAIN Artifacts(i) : k \in Nat /\ k >= 1
      BY ListsAre
    <2>2. CASE Begins(i) \/ EndsCall(i) \/ Fails(i) \/ RollsBack(i)
      BY <2>2 DEF Begins, EndsCall, Fails, RollsBack
    <2>3. CASE FindsRoom(i)
      <3>1. setup'[i].pc = "install" /\ setup'[i].step = 1
        BY <2>3 DEF FindsRoom, StepsExist
      <3> QED
        BY <2>1, <3>1
    <2>4. CASE Installs(i)
      <3>1. setup[i].pc = "install" /\ setup'[i].pc = "verify" /\ setup'[i].step = setup[i].step
            /\ setup[i].step \in DOMAIN Artifacts(i)
        BY <2>4 DEF Installs, Writes, StepsExist
      <3>2. \A k \in DOMAIN Artifacts(i) : k < setup[i].step =>
               file'[Artifacts(i)[k]] = file[Artifacts(i)[k]]
        <4>1. \A k \in DOMAIN Artifacts(i) : k < setup[i].step => Artifacts(i)[k] # Artifact(i)
          BY <2>1, <3>1, RolesAre DEF Artifact
        <4>2. \A k \in DOMAIN Artifacts(i) : Artifacts(i)[k] \in Roles
          BY RolesAre
        <4> QED
          BY <2>4, <4>1, <4>2 DEF Installs, Writes, InstallersTyped
      <3> QED
        BY <1>2, <3>1, <3>2
    <2>5. CASE VerifiesFile(i)
      <3>1. \A k \in DOMAIN Artifacts(i) : k < setup[i].step + 1 => file[Artifacts(i)[k]] = "exact"
        <4>1. setup[i].step \in DOMAIN Artifacts(i) /\ file[Artifacts(i)[setup[i].step]] = "exact"
          BY <2>5 DEF VerifiesFile, Artifact, StepsExist
        <4>2. \A k \in DOMAIN Artifacts(i) : k < setup[i].step => file[Artifacts(i)[k]] = "exact"
          BY <1>2, <2>5 DEF VerifiesFile
        <4>3. \A k \in DOMAIN Artifacts(i) : k < setup[i].step + 1 =>
                 k < setup[i].step \/ k = setup[i].step
          BY <2>1, <4>1
        <4> QED
          BY <4>1, <4>2, <4>3
      <3>2. CASE setup[i].step < Len(Artifacts(i))
        BY <2>5, <3>1, <3>2 DEF VerifiesFile, hostVars
      <3>3. CASE ~(setup[i].step < Len(Artifacts(i)))
        <4>1. \A k \in DOMAIN Artifacts(i) : k < setup[i].step + 1
          <5>1. setup[i].step \in 1 .. Len(Artifacts(i)) /\ Len(Artifacts(i)) \in 1 .. 3
                /\ DOMAIN Artifacts(i) = 1 .. Len(Artifacts(i))
            BY <2>5, ListsAre DEF VerifiesFile, StepsExist
          <5> QED
            BY <3>3, <5>1
        <4>2. \A r \in RolesOf(i) : file[r] = "exact"
          BY <3>1, <4>1, RolesAre
        <4> QED
          BY <2>5, <3>3, <4>2 DEF VerifiesFile, hostVars
      <3> QED
        BY <3>2, <3>3
    <2>6. CASE Applies(i)
      <3>1. file' = file
        BY <2>6, EffectIs DEF Applies
      <3> QED
        BY <1>2, <2>6, <3>1 DEF Applies
    <2>7. CASE Tests(i)
      <3>1. setup'[i].pc \in {"apply", "probe"} /\ setup[i].pc = "test" /\ file' = file
        BY <2>7 DEF Tests, hostVars
      <3> QED
        BY <1>2, <3>1
    <2> QED
      BY <2>2, <2>3, <2>4, <2>5, <2>6, <2>7 DEF InstallerActs, InstallerMoves
  <1> QED
    BY <1>3, <1>4

\* Nobody but the installer of the canary restarts the Sentinel, or starts or stops the
\* canary.
LEMMA PilotIs ==
    ASSUME BootstrapConstants, InstallersTyped, StepsExist, NEW i \in Installers \
           {"canary"}, InstallerActs(i)
    PROVE  sentinel' = sentinel /\ canary' = canary
  <1>1. i = "pilot"
    BY DEF BootstrapConstants
  <1>2. setup[i].pc = "apply" => ApplyCommands(i)[setup[i].step] = "reload"
    <2>1. setup[i].pc = "apply" => setup[i].step = 1
      BY <1>1, ListsAre DEF StepsExist
    <2> QED
      BY <1>1, <2>1, ListsAre
  <1>3. setup[i].pc = "undo" => RollbackCommands(i)[setup[i].step] = "reload"
    <2>1. setup[i].pc = "undo" => setup[i].step = 1
      BY <1>1, ListsAre DEF StepsExist
    <2> QED
      BY <1>1, <2>1, ListsAre
  <1>4. CommandEffect("reload") => sentinel' = sentinel /\ canary' = canary
    BY EffectIs
  <1> QED
    BY <1>1, <1>2, <1>3, <1>4
    DEF InstallerActs, InstallerMoves, Begins, FindsRoom, EndsCall, Installs, Fails,
        VerifiesFile, Applies, Tests,
        RollsBack, Writes, hostVars

LEMMA TestedStep ==
    ASSUME BootstrapConstants, InstallersTyped, StepsExist, RestartIsTested, NEW i \in
           Installers, InstallerActs(i)
    PROVE  RestartIsTested'
  <1>1. CASE i # "canary"
    BY <1>1, PilotIs DEF RestartIsTested, Passes, InstallerActs
  <1>2. CASE i = "canary"
    <2> USE <1>2
    <2>1. CASE \/ Begins(i) \/ FindsRoom(i) \/ EndsCall(i) \/ Installs(i) \/ Fails(i) \/ RollsBack(i)
      BY <2>1 DEF RestartIsTested, Begins, FindsRoom, EndsCall, Installs, Fails, RollsBack
    <2>2. CASE VerifiesFile(i)
      BY <2>2 DEF RestartIsTested, VerifiesFile
    <2>3. CASE Applies(i)
      <3>1. setup[i].step = 3 => sentinel' = sentinel
        BY <2>3, ListsAre, EffectIs DEF Applies
      <3> QED
        BY <2>3, <3>1 DEF RestartIsTested, Applies, Passes
    <2>4. CASE Tests(i)
      <3>1. /\ Len(ApplyCommands(i)) = 3 /\ setup[i].step \in 1 .. 3
            /\ ApplyCommands(i)[2] = "restart" /\ ApplyCommands(i)[3] = "start"
        BY <2>4, ListsAre DEF Tests, StepsExist
      <3>2. UNCHANGED hostVars /\ setup'[i].before = setup[i].before /\ setup[i].pc = "test"
            /\ Passes(i, ApplyCommands(i)[setup[i].step])
        BY <2>4 DEF Tests
      <3>3. CASE setup[i].step < 3
        <4>1. setup'[i].pc = "apply" /\ setup'[i].step = setup[i].step + 1
          BY <2>4, <3>1, <3>3 DEF Tests
        <4>2. setup'[i].step = 3 => setup[i].step = 2
          BY <3>1, <4>1
        <4> QED
          BY <3>1, <3>2, <4>1, <4>2 DEF RestartIsTested, Passes, hostVars
      <3>4. CASE setup[i].step = 3
        <4>1. setup'[i].pc = "probe"
          <5>1. ~(setup[i].step < Len(ApplyCommands(i)))
            <6>1. ~(3 < 3)
              OBVIOUS
            <6> QED
              BY <3>1, <3>4, <6>1
          <5> QED
            BY <2>4, <5>1 DEF Tests
        <4> QED
          BY <3>1, <3>2, <3>4, <4>1 DEF RestartIsTested, Passes, hostVars
      <3> QED
        BY <3>1, <3>3, <3>4
    <2> QED
      BY <2>1, <2>2, <2>3, <2>4 DEF InstallerActs, InstallerMoves
  <1> QED
    BY <1>1, <1>2

-----------------------------------------------------------------------------
\* Systemd completes a job, or somebody else writes a file.
LEMMA JobStep ==
    ASSUME BootstrapConstants, BootInv, JobCompletes
    PROVE  BootInv'
  <1> USE DEF BootInv, JobCompletes
  <1>1. InstallersTyped'
    BY DEF InstallersTyped
  <1>2. StepsExist' /\ BegunIsMarked' /\ InstalledIsExact'
    BY DEF StepsExist, BegunIsMarked, InstalledIsExact
  <1>3. RestartIsTested'
    BY DEF RestartIsTested, Passes
  <1> QED
    BY <1>1, <1>2, <1>3

LEMMA TamperStep ==
    ASSUME BootstrapConstants, BootInv, Tamper
    PROVE  BootInv'
  <1> USE DEF BootInv
  <1>1. PICK r \in Roles : file' = [file EXCEPT ![r] = "foreign"]
    BY DEF Tamper
  <1>2. UNCHANGED <<loaded, sentinel, canary, setup>> /\ tampers' = tampers + 1
    BY DEF Tamper
  <1>3. InstallersTyped'
    BY <1>1, <1>2 DEF InstallersTyped
  <1>4. StepsExist' /\ RestartIsTested'
    BY <1>2 DEF StepsExist, RestartIsTested, Passes
  <1>5. BegunIsMarked'
    <2>1. \A q \in Roles : file'[q] = file[q] \/ file'[q] = "foreign"
      BY <1>1 DEF InstallersTyped
    <2>2. \A i \in Installers : \A q \in RolesOf(i) : q \in Roles
      BY RolesAre
    <2> QED
      BY <1>2, <2>1, <2>2 DEF BegunIsMarked
  <1>6. InstalledIsExact'
    BY <1>2 DEF InstalledIsExact, InstallersTyped
  <1> QED
    BY <1>3, <1>4, <1>5, <1>6

LEMMA BootStep ==
    ASSUME BootstrapConstants, BootInv, [BootNext]_bootVars
    PROVE  BootInv'
  <1>1. ASSUME NEW i \in Installers, InstallerStep(i)
        PROVE  BootInv'
    <2>1. InstallerActs(i) /\ tampers' = tampers
      BY <1>1, InstallerStepActs DEF BootInv
    <2> QED
      BY <2>1, InstallerTypesStep, StepsStep, BegunStep, ExactStep, TestedStep DEF BootInv
  <1>2. CASE UNCHANGED bootVars
    BY <1>2 DEF bootVars, hostVars, BootInv, InstallersTyped, StepsExist, BegunIsMarked,
                InstalledIsExact, RestartIsTested, Passes
  <1> QED
    BY <1>1, <1>2, JobStep, TamperStep DEF BootNext

LEMMA BootStart ==
    ASSUME BootstrapConstants, BootInit
    PROVE  BootInv
  <1>1. \A i \in Installers : setup[i].pc = "idle"
    BY DEF BootInit, NotRunning
  <1>2. InstallersTyped
    <2>1. NotRunning("none", 0) \in Places
      BY DEF NotRunning, Places, InstallerPcs
    <2> QED
      BY <2>1 DEF BootInit, InstallersTyped
  <1> QED
    BY <1>1, <1>2 DEF BootInv, StepsExist, BegunIsMarked, InstalledIsExact, RestartIsTested

\* The invariant on which the theorem below rests.
THEOREM BootInvariance == BootSpec => []BootInv
  <1> USE BootstrapConstantsAreTyped
  <1>1. BootInit => BootInv
    BY BootStart
  <1>2. BootInv /\ [BootNext]_bootVars => BootInv'
    BY BootStep
  <1> QED
    BY <1>1, <1>2, PTL DEF BootSpec

\* A result is new only when its installer gives it, and true then.
LEMMA ResultStep ==
    ASSUME BootstrapConstants, BootInv, NEW i \in Installers, InstallerStep(i),
           setup'[i].result # setup[i].result
    PROVE  ResultIsTrue(i)
  <1> USE DEF BootInv
  <1>1. InstallerActs(i)
    BY InstallerStepActs
  <1>2. Begins(i) \/ EndsCall(i) \/ Fails(i)
    BY <1>1
    DEF InstallerActs, InstallerMoves, FindsRoom, Installs, VerifiesFile, Applies,
        Tests, RollsBack
  <1>3. CASE Begins(i)
    BY <1>3 DEF Begins, ResultIsTrue
  <1>4. CASE EndsCall(i)
    <2>1. setup'[i].result # "FAILED_NO_MUTATION"
      BY <1>4 DEF EndsCall
    <2>2. CASE setup'[i].result = "SUCCEEDED"
      <3>1. setup[i].pc = "probe"
        BY <1>4, <2>2 DEF EndsCall
      <3>2. tampers > 0 \/ \A r \in RolesOf(i) : file[r] = "exact"
        BY <3>1 DEF InstalledIsExact, InstallersTyped
      <3>3. i = "canary" => Passes(i, "restart") /\ Passes(i, "start")
        BY <3>1 DEF RestartIsTested
      <3> QED
        BY <2>2, <3>2, <3>3 DEF ResultIsTrue, Passes
    <2>3. CASE setup'[i].result = "ROLLED_BACK"
      BY <1>4, <2>3 DEF EndsCall, ResultIsTrue, Restored, Collides
    <2> QED
      BY <2>1, <2>2, <2>3 DEF ResultIsTrue
  <1>5. CASE Fails(i)
    <2>1. ~setup[i].began /\ setup'[i].result = "FAILED_NO_MUTATION"
      BY <1>5 DEF Fails
    <2>2. setup[i].pc = "install" /\ setup[i].step = 1
          /\ \A r \in RolesOf(i) : file[r] \in {"absent", "foreign"}
      BY <1>5, <2>1 DEF Fails, BegunIsMarked
    <2>3. /\ 1 \in DOMAIN Artifacts(i) /\ Artifact(i) = Artifacts(i)[1]
          /\ Artifacts(i)[1] \in RolesOf(i) /\ RolesOf(i) \subseteq Roles
      BY <2>2, ListsAre, RolesAre DEF Artifact
    <2>4. file' = file \/ (Writes(i) /\ file'[Artifacts(i)[1]] = "damaged")
      BY <1>5, <2>2, <2>3 DEF Fails, hostVars
    <2>5. \A r \in RolesOf(i) \ {Artifacts(i)[1]} : file'[r] = file[r]
      BY <2>3, <2>4 DEF Writes, InstallersTyped
    <2>6. file'[Artifacts(i)[1]] # "exact"
      BY <2>2, <2>3, <2>4
    <2> QED
      BY <2>1, <2>2, <2>5, <2>6 DEF ResultIsTrue
  <1> QED
    BY <1>2, <1>3, <1>4, <1>5

\* An installer that reports success has installed everything, with the Sentinel
\* restarted under its new restrictions and the canary running; one that reports a
\* rollback has put the host back; one that reports that it changed nothing has left at
\* most the file it failed to write; and none removes a file that somebody else wrote
\* (execute and _rollback of both executors).
THEOREM HonestInstallers == BootSpec => InstallersAreHonest
  <1> USE BootstrapConstantsAreTyped
  <1> DEFINE Honest ==
         /\ \A i \in Installers : setup'[i].result # setup[i].result => ResultIsTrue(i)
         /\ \A r \in Roles : file[r] = "foreign" => file'[r] = "foreign"
  <1>1. ASSUME BootInv, [BootNext]_bootVars
        PROVE  [Honest]_bootVars
    <2>1. ASSUME NEW i \in Installers, InstallerStep(i)
          PROVE  Honest
      <3>1. InstallerActs(i)
        BY <1>1, <2>1, InstallerStepActs DEF BootInv
      <3>2. \A j \in Installers : setup'[j].result # setup[j].result => j = i
        BY <3>1 DEF InstallerActs
      <3>3. \A r \in Roles : file[r] = "foreign" => file'[r] = "foreign"
        BY <1>1, <3>1, FilesAre DEF BootInv
      <3>4. setup'[i].result # setup[i].result => ResultIsTrue(i)
        BY <1>1, <2>1, ResultStep
      <3> QED
        BY <3>2, <3>3, <3>4
    <2>2. CASE JobCompletes
      BY <2>2 DEF JobCompletes
    <2>3. CASE Tamper
      BY <1>1, <2>3 DEF Tamper, BootInv, InstallersTyped
    <2> QED
      BY <1>1, <2>1, <2>2, <2>3 DEF BootNext
  <1> QED
    BY <1>1, BootInvariance, PTL DEF BootSpec, InstallersAreHonest
================================================================================
