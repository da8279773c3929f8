--------------------------- MODULE SerialLinkProofs ---------------------------
(***************************************************************************)
(* What holds of a connection's life for any number of pump and task       *)
(* names, of attempts and of departures of the device.                     *)
(*                                                                         *)
(* For any number of supervisors: the types, that one pump reads at a      *)
(* time and none after the close has joined it, that a session at rest     *)
(* stays at rest, and that whoever finds the state Reconnecting finds the  *)
(* task or call that will leave it.  These rest on the slot, which every   *)
(* pump that runs is in until a close takes it (SlotInvariant), and on     *)
(* where a task is known from (Unlisted, AttendedInvariant).               *)
(*                                                                         *)
(* With one supervisor: a connection that reports Open has a handle, and   *)
(* its pump outlives every loss of the device.  OpenHasIo is not           *)
(* inductive.  It rests on three facts: a single supervisor has at most    *)
(* one reconnect task running, a session has at most one pump running, and *)
(* the two take turns: a task that is past its sleep finds no pump that    *)
(* reads, fails or still has the handle to take.  Two supervisors can run  *)
(* two tasks, one of which restarts the pump while the other is in its     *)
(* attempt, and OpenHasIo fails: the theorem is about the server on stdio, *)
(* which has one.                                                          *)
(***************************************************************************)
EXTENDS SerialLink, TLAPS

Attempting == {"check", "checked", "building", "built", "installed"}

(* The close handler has not been called, nor has anything it undoes.      *)
Undisturbed == state # "Closed" /\ closed = FALSE /\ close_token = FALSE /\ stopping = {}

(* A task that runs is the only one, and the registry or the supervisor    *)
(* knows it.                                                               *)
OneTask ==
  /\ \A s \in Supervisors : poll[s] # "idle" => sup[s] = {}
  /\ \A s \in Supervisors : sup[s] # {} => reconnect_task = {}
  /\ \A t \in Tasks : rc[t] # "idle" => t \in reconnect_task \/ \E s \in Supervisors : t \in sup[s]
  /\ \A t, u \in Tasks : rc[t] # "idle" /\ rc[u] # "idle" => t = u

(* A pump that runs is the one in the slot.                                *)
OnePump == \E p \in Pumps : task_slot = {p} /\ \A q \in Pumps \ {p} : pump[q] \in Finished

(* What the place of a pump says about the state.                          *)
PumpTurn ==
  \A p \in Pumps :
    /\ pump[p] \in {"reading", "refused", "failing"} => state = "Open"
    /\ pump[p] = "marking" => state = "Disconnected"

(* What the place of a task says about the state, the pumps and the handle.*)
TaskTurn ==
  \A t \in Tasks :
    /\ rc[t] \in Attempting \cup {"sleeping"} => state # "Open"
    /\ rc[t] \in Attempting => \A p \in Pumps : pump[p] # "marking"
    /\ rc[t] = "built" => stream[t] # "none"
    /\ rc[t] = "installed" => io # "none"
    /\ rc[t] \in {"succeeded", "restart"} =>
         state = "Open" \/ \E p \in Pumps : pump[p] \in {"marking", "pausing"}

Turns ==
  /\ Undisturbed
  /\ OneTask
  /\ OnePump
  /\ PumpTurn
  /\ TaskTurn
  /\ state = "Open" => io # "none"

(* The inductive invariant: before a close and without the reconnect tool. *)
LinkInvariant == close = "idle" /\ Unattended => Turns

-----------------------------------------------------------------------------
(* ensure_pump_running keeps the pump in the slot, or starts a finished one*)
(* and puts it there.                                                      *)
LEMMA PumpRestarts ==
  ASSUME NEW t \in Tasks, EnsurePumpRunning(t)
  PROVE  \/ /\ \E p \in task_slot : pump[p] \notin Finished
            /\ UNCHANGED <<pump, task_slot, stopping>>
         \/ /\ \A p \in task_slot : pump[p] \in Finished
            /\ \E p \in Pumps : /\ pump' = [pump EXCEPT ![p] = ReadBegins]
                                /\ task_slot' = {p}
                                /\ stopping' = stopping \ {p}
<1>1. CASE \E p \in task_slot : pump[p] \notin Finished
  BY <1>1 DEF EnsurePumpRunning
<1>2. CASE ~\E p \in task_slot : pump[p] \notin Finished
  <2> DEFINE p == CHOOSE p \in Pumps : pump[p] \in Finished
  <2>1. /\ \E q \in Pumps : pump[q] \in Finished
        /\ pump' = [pump EXCEPT ![p] = ReadBegins]
        /\ task_slot' = {p}
        /\ stopping' = stopping \ {p}
    BY <1>2 DEF EnsurePumpRunning
  <2>2. p \in Pumps
    BY <2>1
  <2> HIDE DEF p
  <2> QED BY <1>2, <2>1, <2>2
<1> QED BY <1>1, <1>2

(* start_reconnect past its lookup finds an unfinished task, or starts one *)
(* with a free name.                                                       *)
LEMMA SpawnOutcome ==
  ASSUME NEW s \in Supervisors, Spawn(s)
  PROVE  \/ /\ \E t \in reconnect_task : rc[t] # "idle"
            /\ UNCHANGED <<rc, reconnect_task, sup>>
         \/ /\ \A t \in reconnect_task : rc[t] = "idle"
            /\ reconnect_task' = {u \in reconnect_task : rc[u] # "idle"}
            /\ \E t \in Tasks : /\ rc[t] = "idle"
                                /\ rc' = [rc EXCEPT ![t] = "loop"]
                                /\ sup' = [sup EXCEPT ![s] = {t}]
<1>1. CASE \E t \in reconnect_task : rc[t] # "idle"
  BY <1>1 DEF Spawn
<1>2. CASE ~\E t \in reconnect_task : rc[t] # "idle"
  <2> DEFINE t == CHOOSE t \in Free : TRUE
  <2>1. /\ Free # {}
        /\ rc' = [rc EXCEPT ![t] = "loop"]
        /\ sup' = [sup EXCEPT ![s] = {t}]
        /\ reconnect_task' = {u \in reconnect_task : rc[u] # "idle"}
    BY <1>2 DEF Spawn, SpawnTask, RcAt
  <2>2. t \in Free
    BY <2>1
  <2> HIDE DEF t
  <2>3. t \in Tasks /\ rc[t] = "idle"
    BY <2>2 DEF Free
  <2> QED BY <1>2, <2>1, <2>3
<1> QED BY <1>1, <1>2

(* Every access keeps its variable in its type: the closed flag, the token *)
(* and the others of SerialConnection, the pump and the tasks.             *)
THEOREM LinkTyped == Spec => []TypeOK
<1>1. Init => TypeOK
  <2> SUFFICES ASSUME Init PROVE TypeOK
    OBVIOUS
  <2>1. {closed, close_token, plugged, session, registered} \subseteq BOOLEAN
    BY DEF Init
  <2>2. task_slot \subseteq Pumps
    BY LinkAssumption DEF Init
  <2>3. pump \in [Pumps -> {"reading", "refused", "failing", "marking", "pausing", "exited", "broken"}]
    BY DEF Init
  <2> QED BY <2>1, <2>2, <2>3, LinkAssumption DEF Init, TypeOK, Reconnectors
<1>2. TypeOK /\ [Next]_vars => TypeOK'
  <2> SUFFICES ASSUME TypeOK, [Next]_vars PROVE TypeOK'
    OBVIOUS
  <2> USE LinkAssumption DEF TypeOK, Reconnectors
  <2>1. CASE Unplug
    <3>1. unplugs' \in 0..MaxUnplugs
      BY <2>1 DEF Unplug
    <3>2. stream' \in [Reconnectors -> {"none", "good", "dead"}]
      BY <2>1 DEF Unplug
    <3>3. {closed, close_token, plugged, session, registered}' \subseteq BOOLEAN
      BY <2>1 DEF Unplug, rx, reg
    <3>4. io' \in {"none", "good", "dead"}
      BY <2>1 DEF Unplug
    <3> QED BY <2>1, <3>1, <3>2, <3>3, <3>4 DEF Unplug, rx, tally, reg
  <2>2. CASE Plug
    BY <2>2 DEF Plug, conn, device, rx, tally, recon, reg
  <2>3. ASSUME NEW p \in Pumps, PumpEnds(p) PROVE TypeOK'
    BY <2>3 DEF PumpEnds, PumpAt, conn, device, rx, tally, recon, reg
  <2>4. ASSUME NEW p \in Pumps, PumpBreaks(p) PROVE TypeOK'
    BY <2>4 DEF PumpBreaks, PumpAt, conn, device, rx, tally, recon, reg
  <2>5. ASSUME NEW p \in Pumps, PumpFails(p) PROVE TypeOK'
    BY <2>5 DEF PumpFails, PumpAt, conn, device, rx, tally, recon, reg
  <2>6. ASSUME NEW p \in Pumps, MarkDisconnected(p) PROVE TypeOK'
    BY <2>6 DEF MarkDisconnected, PumpAt, conn, device, rx, tally, recon, reg
  <2>7. ASSUME NEW p \in Pumps, TakeDeadIo(p) PROVE TypeOK'
    BY <2>7 DEF TakeDeadIo, PumpAt, conn, device, rx, tally, recon, reg
  <2>8. ASSUME NEW p \in Pumps, PauseEnds(p) PROVE TypeOK'
    BY <2>8 DEF PauseEnds, PumpAt, ReadBegins, conn, device, rx, tally, recon, reg
  <2>9. ASSUME NEW r \in Reconnectors, CheckState(r) PROVE TypeOK'
    BY <2>9 DEF CheckState, RcAt, AfterOk, Err, Exhausted, TaskEnds, conn, device, rx, tally, recon, reg
  <2>10. ASSUME NEW r \in Reconnectors, SetReconnecting(r) PROVE TypeOK'
    BY <2>10 DEF SetReconnecting, RcAt, conn, device, rx, tally, recon, reg
  <2>11. ASSUME NEW r \in Reconnectors, BuildStream(r) PROVE TypeOK'
    BY <2>11 DEF BuildStream, RcAt, conn, device, rx, tally, recon, reg
  <2>12. ASSUME NEW r \in Reconnectors, Install(r) PROVE TypeOK'
    BY <2>12 DEF Install, RcAt, conn, device, rx, tally, recon, reg
  <2>13. ASSUME NEW r \in Reconnectors, BuildFails(r) PROVE TypeOK'
    BY <2>13 DEF BuildFails, Err, Exhausted, TaskEnds, conn, device, rx, tally, recon, reg
  <2>14. ASSUME NEW r \in Reconnectors, SetOpen(r) PROVE TypeOK'
    BY <2>14 DEF SetOpen, RcAt, AfterOk, conn, device, rx, tally, recon, reg
  <2>15. ASSUME NEW m \in Manual, ReconnectTool(m) PROVE TypeOK'
    BY <2>15 DEF ReconnectTool, RcAt, conn, device, rx, tally, recon, reg
  <2>16. ASSUME NEW t \in Tasks, LoopTop(t) PROVE TypeOK'
    BY <2>16 DEF LoopTop, RcAt, TaskEnds, conn, device, rx, tally, recon, reg
  <2>17. ASSUME NEW t \in Tasks, SleepEnds(t) PROVE TypeOK'
    BY <2>17 DEF SleepEnds, RcAt, conn, device, rx, tally, recon, reg
  <2>18. ASSUME NEW t \in Tasks, GetSession(t) PROVE TypeOK'
    BY <2>18 DEF GetSession, RcAt, TaskEnds, conn, device, rx, tally, recon, reg
  <2>19. ASSUME NEW t \in Tasks, EnsurePumpRunning(t) PROVE TypeOK'
    <3>1. CASE UNCHANGED <<pump, task_slot, stopping>>
      BY <2>19, <3>1 DEF EnsurePumpRunning, TaskEnds, conn, device, reg
    <3>2. ASSUME NEW p \in Pumps, pump' = [pump EXCEPT ![p] = ReadBegins],
                 task_slot' = {p}, stopping' = stopping \ {p}
          PROVE  TypeOK'
      <4>1. pump' \in [Pumps -> {"reading", "refused", "failing", "marking", "pausing", "exited",
                                 "broken"}]
        BY <3>2 DEF ReadBegins
      <4>2. {closed, close_token, plugged, session, registered}' \subseteq BOOLEAN
        BY <2>19 DEF EnsurePumpRunning, conn, device, reg
      <4> QED BY <2>19, <3>2, <4>1, <4>2 DEF EnsurePumpRunning, TaskEnds, conn, device, reg
    <3> QED BY <2>19, <3>1, <3>2, PumpRestarts
  <2>20. ASSUME NEW t \in Tasks, AbortTakesEffect(t) PROVE TypeOK'
    BY <2>20 DEF AbortTakesEffect, TaskEnds, conn, device, rx, tally, recon, reg
  <2>21. ASSUME NEW s \in Supervisors, Spawn(s) PROVE TypeOK'
    <3>1. poll' \in [Supervisors -> {"idle", "seen", "got"}]
      BY <2>21 DEF Spawn, PollAt
    <3>2. CASE UNCHANGED <<rc, reconnect_task, sup>>
      BY <2>21, <3>1, <3>2 DEF Spawn, conn, device, rx, tally
    <3>3. ASSUME NEW t \in Tasks, rc' = [rc EXCEPT ![t] = "loop"], sup' = [sup EXCEPT ![s] = {t}],
                 reconnect_task' = {u \in reconnect_task : rc[u] # "idle"}
          PROVE  TypeOK'
      <4>1. /\ rc' \in [Reconnectors -> {"unused", "idle", "loop", "sleeping", "check", "checked",
                              "building", "built", "installed", "succeeded", "restart", "over"}]
            /\ sup' \in [Supervisors -> SUBSET Tasks]
            /\ reconnect_task' \subseteq Tasks
        BY <3>3
      <4> QED BY <2>21, <3>1, <4>1 DEF Spawn, conn, device, rx, tally
    <3> QED BY <2>21, <3>2, <3>3, SpawnOutcome
  <2>22. ASSUME NEW s \in Supervisors, Record(s) PROVE TypeOK'
    BY <2>22 DEF Record, conn, device, rx, tally, recon, reg
  <2>23. CASE CancelReconnect
    BY <2>23 DEF CancelReconnect, CloseAt, Abort, conn, device, rx, tally, recon, reg
  <2>24. CASE Unregister
    BY <2>24 DEF Unregister, CloseAt, conn, device, rx, tally, recon, reg
  <2>25. CASE AbortTask
    BY <2>25 DEF AbortTask, CloseAt, Abort, conn, device, rx, tally, recon, reg
  <2>26. CASE RaiseClosed
    BY <2>26 DEF RaiseClosed, CloseAt, conn, device, rx, tally, recon, reg
  <2>27. CASE SetClosed
    BY <2>27 DEF SetClosed, CloseAt, conn, device, rx, tally, recon, reg
  <2>28. CASE TakeIo
    BY <2>28 DEF TakeIo, CloseAt, conn, device, rx, tally, recon, reg
  <2>29. CASE RemoveSession
    BY <2>29 DEF RemoveSession, CloseAt, conn, device, rx, tally, recon, reg
  <2>30. CASE JoinPump
    BY <2>30 DEF JoinPump, CloseAt, conn, device, rx, tally, recon, reg
  <2>32. ASSUME NEW s \in Supervisors, PollSees(s) \/ GetConnection(s) PROVE TypeOK'
    BY <2>32 DEF PollSees, GetConnection, PollAt, conn, device, rx, tally, recon, reg
  <2>31. CASE UNCHANGED vars
    BY <2>31 DEF vars, conn, device, rx, tally, recon, reg
  <2> QED BY <2>1, <2>2, <2>3, <2>4, <2>5, <2>6, <2>7, <2>8, <2>9, <2>10, <2>11, <2>12, <2>13, <2>14, <2>15, <2>16,
             <2>17, <2>18, <2>19, <2>20, <2>21, <2>22, <2>23, <2>24, <2>25, <2>26, <2>27, <2>28, <2>29, <2>30, <2>31, <2>32
       DEF Next, PumpStep, ReconnectStep, TaskStep, SupervisorStep, CloseStep
<1> QED BY <1>1, <1>2, PTL DEF Spec

(* A step after which there is no close and no use of the reconnect tool   *)
(* began without them.                                                     *)
LEMMA NoneBefore ==
  ASSUME TypeOK, [Next]_vars, close' = "idle", Unattended'
  PROVE  close = "idle" /\ Unattended
<1> USE DEF TypeOK, Reconnectors
<1>1. close = "idle"
  BY DEF Next, PumpStep, PumpEnds, PumpFails, PumpBreaks, MarkDisconnected, TakeDeadIo, PauseEnds,
         ReconnectStep, CheckState, SetReconnecting, BuildStream, BuildFails, Install, SetOpen,
         TaskStep, LoopTop, SleepEnds, GetSession, EnsurePumpRunning, AbortTakesEffect, ReconnectTool,
         SupervisorStep, PollSees, GetConnection, Spawn, Record, CancelReconnect, CloseStep, Unregister,
         AbortTask, RaiseClosed, SetClosed, TakeIo, RemoveSession, JoinPump, CloseAt, Unplug, Plug, vars
<1>2. \A m \in Manual : rc'[m] = "unused"
  BY DEF Unattended
<1>3. ASSUME NEW m \in Manual, rc[m] # "unused" PROVE FALSE
  <2>1. m \notin Tasks
    BY LinkAssumption
  <2>2. CASE rc' = rc
    BY <1>2, <1>3, <2>2
  <2>3. ASSUME NEW r \in Reconnectors, NEW to, to # "unused", rc' = [rc EXCEPT ![r] = to] PROVE FALSE
    BY <1>2, <1>3, <2>3
  <2>4. ASSUME NEW r \in Reconnectors, ReconnectStep(r) PROVE FALSE
    <3>1. CASE CheckState(r) \/ SetReconnecting(r) \/ BuildStream(r)
      BY <2>3, <3>1 DEF CheckState, SetReconnecting, BuildStream, RcAt, AfterOk, TaskEnds, Err
    <3>2. CASE BuildFails(r)
      BY <2>3, <3>2 DEF BuildFails, RcAt, AfterOk, TaskEnds, Err
    <3>3. CASE Install(r) \/ SetOpen(r)
      BY <2>3, <3>3 DEF Install, SetOpen, RcAt, AfterOk, TaskEnds, Err
    <3> QED BY <2>4, <3>1, <3>2, <3>3 DEF ReconnectStep
  <2>5. ASSUME NEW t \in Tasks, TaskStep(t) PROVE FALSE
    <3>1. CASE LoopTop(t)
      <4>1. \E to \in {"idle", "sleeping"} : rc' = [rc EXCEPT ![t] = to]
        BY <3>1 DEF LoopTop, RcAt, TaskEnds
      <4> QED BY <2>3, <4>1 DEF Reconnectors
    <3>4. CASE SleepEnds(t)
      BY <2>3, <3>4 DEF SleepEnds, RcAt, TaskEnds
    <3>2. CASE GetSession(t) \/ EnsurePumpRunning(t)
      BY <2>3, <3>2 DEF GetSession, EnsurePumpRunning, RcAt, TaskEnds
    <3>3. CASE AbortTakesEffect(t)
      BY <2>3, <3>3 DEF AbortTakesEffect, RcAt, TaskEnds
    <3> QED BY <2>5, <3>1, <3>2, <3>3, <3>4 DEF TaskStep
  <2>6. ASSUME NEW n \in Manual, ReconnectTool(n) PROVE FALSE
    BY <2>3, <2>6 DEF ReconnectTool, RcAt
  <2>7. ASSUME NEW s \in Supervisors, Spawn(s) PROVE FALSE
    <3>1. rc' = rc \/ \E t \in Tasks : rc' = [rc EXCEPT ![t] = "loop"]
      BY <2>7, SpawnOutcome
    <3> QED BY <2>2, <2>3, <3>1
  <2>8. CancelReconnect \/ CloseStep => rc' = rc
    BY DEF CancelReconnect, CloseStep, Unregister, AbortTask, RaiseClosed, SetClosed, TakeIo,
       RemoveSession, JoinPump, recon
  <2>9. ASSUME NEW p \in Pumps, PumpStep(p) \/ PumpBreaks(p) PROVE rc' = rc
    BY <2>9 DEF PumpStep, PumpEnds, PumpFails, PumpBreaks, MarkDisconnected, TakeDeadIo, PauseEnds, recon
  <2>10. Unplug \/ Plug \/ UNCHANGED vars \/ (\E s \in Supervisors : PollSees(s) \/ GetConnection(s) \/ Record(s))
         => rc' = rc
    BY DEF Unplug, Plug, vars, recon, PollSees, GetConnection, Record
  <2> QED BY <2>2, <2>4, <2>5, <2>6, <2>7, <2>8, <2>9, <2>10 DEF Next, SupervisorStep
<1> QED BY <1>1, <1>3 DEF Unattended

(* A step that leaves the connection without a close and without the       *)
(* reconnect tool began so, and keeps the turns of pump and task.          *)
LEMMA TurnsKept ==
  ASSUME \A s, u \in Supervisors : s = u,
         TypeOK, LinkInvariant, [Next]_vars, close' = "idle", Unattended'
  PROVE  Turns'
<1> USE DEF TypeOK, Reconnectors
<1>1. close = "idle" /\ Unattended
  BY NoneBefore
<1>2. Turns
  BY <1>1 DEF LinkInvariant
<1> USE DEF conn, device, rx, tally, recon, reg, Turns, Undisturbed, OneTask, OnePump, PumpTurn, TaskTurn,
            Attempting, Finished
<1>3. CASE Unplug
  <2>1. TaskTurn'
    BY <1>2, <1>3 DEF Unplug
  <2> QED BY <1>2, <1>3, <2>1 DEF Unplug
<1>4. CASE Plug
  BY <1>2, <1>4 DEF Plug
<1>5. ASSUME NEW p \in Pumps, PumpEnds(p) PROVE Turns'
  <2>1. OnePump'
    BY <1>2, <1>5 DEF PumpEnds, PumpAt
  <2>2. PumpTurn'
    BY <1>2, <1>5 DEF PumpEnds, PumpAt
  <2>3. TaskTurn'
    BY <1>2, <1>5 DEF PumpEnds, PumpAt
  <2> QED BY <1>2, <1>5, <2>1, <2>2, <2>3 DEF PumpEnds, PumpAt
<1>6. ASSUME NEW p \in Pumps, PumpBreaks(p) PROVE Turns'
  <2>1. OnePump'
    BY <1>2, <1>6 DEF PumpBreaks, PumpAt
  <2>2. PumpTurn'
    BY <1>2, <1>6 DEF PumpBreaks, PumpAt
  <2>3. TaskTurn'
    BY <1>2, <1>6 DEF PumpBreaks, PumpAt
  <2> QED BY <1>2, <1>6, <2>1, <2>2, <2>3 DEF PumpBreaks, PumpAt
<1>7. ASSUME NEW p \in Pumps, PumpFails(p) PROVE Turns'
  <2>1. OnePump'
    BY <1>2, <1>7 DEF PumpFails, PumpAt
  <2>2. PumpTurn'
    BY <1>2, <1>7 DEF PumpFails, PumpAt
  <2>3. TaskTurn'
    BY <1>2, <1>7 DEF PumpFails, PumpAt
  <2> QED BY <1>2, <1>7, <2>1, <2>2, <2>3 DEF PumpFails, PumpAt
<1>8. ASSUME NEW p \in Pumps, MarkDisconnected(p) PROVE Turns'
  <2>1. OnePump'
    BY <1>2, <1>8 DEF MarkDisconnected, PumpAt
  <2>2. PumpTurn'
    BY <1>2, <1>8 DEF MarkDisconnected, PumpAt
  <2>3. TaskTurn'
    BY <1>2, <1>8 DEF MarkDisconnected, PumpAt
  <2> QED BY <1>2, <1>8, <2>1, <2>2, <2>3 DEF MarkDisconnected, PumpAt
<1>9. ASSUME NEW p \in Pumps, TakeDeadIo(p) PROVE Turns'
  <2>1. OnePump'
    BY <1>2, <1>9 DEF TakeDeadIo, PumpAt
  <2>2. PumpTurn'
    BY <1>2, <1>9 DEF TakeDeadIo, PumpAt
  <2>3. TaskTurn'
    BY <1>2, <1>9 DEF TakeDeadIo, PumpAt
  <2> QED BY <1>2, <1>9, <2>1, <2>2, <2>3 DEF TakeDeadIo, PumpAt
<1>10. ASSUME NEW p \in Pumps, PauseEnds(p) PROVE Turns'
  <2>1. OnePump'
    BY <1>2, <1>10 DEF PauseEnds, PumpAt, ReadBegins
  <2>2. PumpTurn'
    BY <1>2, <1>10 DEF PauseEnds, PumpAt, ReadBegins
  <2>3. TaskTurn'
    BY <1>2, <1>10 DEF PauseEnds, PumpAt, ReadBegins
  <2> QED BY <1>2, <1>10, <2>1, <2>2, <2>3 DEF PauseEnds, PumpAt, ReadBegins
<1>11. ASSUME NEW t \in Tasks, CheckState(t) PROVE Turns'
  <2>1. OneTask'
    BY <1>2, <1>11 DEF CheckState, RcAt, AfterOk, Err, TaskEnds
  <2>2. TaskTurn'
    BY <1>2, <1>11 DEF CheckState, RcAt, AfterOk, Err, TaskEnds
  <2> QED BY <1>2, <1>11, <2>1, <2>2 DEF CheckState, RcAt, AfterOk, Err, TaskEnds
<1>12. ASSUME NEW t \in Tasks, SetReconnecting(t) PROVE Turns'
  <2>1. OneTask'
    BY <1>2, <1>12 DEF SetReconnecting, RcAt
  <2>2. PumpTurn'
    BY <1>2, <1>12 DEF SetReconnecting, RcAt
  <2>3. TaskTurn'
    BY <1>2, <1>12 DEF SetReconnecting, RcAt
  <2> QED BY <1>2, <1>12, <2>1, <2>2, <2>3 DEF SetReconnecting, RcAt
<1>13. ASSUME NEW t \in Tasks, BuildStream(t) PROVE Turns'
  <2>1. OneTask'
    BY <1>2, <1>13 DEF BuildStream, RcAt
  <2>2. TaskTurn'
    BY <1>2, <1>13 DEF BuildStream, RcAt
  <2> QED BY <1>2, <1>13, <2>1, <2>2 DEF BuildStream, RcAt
<1>14. ASSUME NEW t \in Tasks, BuildFails(t) PROVE Turns'
  <2>1. OneTask'
    BY <1>2, <1>14 DEF BuildFails, Err, TaskEnds
  <2>2. PumpTurn'
    BY <1>2, <1>14 DEF BuildFails, Err, TaskEnds
  <2>3. TaskTurn'
    BY <1>2, <1>14 DEF BuildFails, Err, TaskEnds
  <2> QED BY <1>2, <1>14, <2>1, <2>2, <2>3 DEF BuildFails, Err, TaskEnds
<1>15. ASSUME NEW t \in Tasks, Install(t) PROVE Turns'
  <2>1. OneTask'
    BY <1>2, <1>15 DEF Install, RcAt
  <2>2. TaskTurn'
    BY <1>2, <1>15 DEF Install, RcAt
  <2> QED BY <1>2, <1>15, <2>1, <2>2 DEF Install, RcAt
<1>16. ASSUME NEW t \in Tasks, SetOpen(t) PROVE Turns'
  <2>1. OneTask'
    BY <1>2, <1>16 DEF SetOpen, RcAt, AfterOk
  <2>2. PumpTurn'
    BY <1>2, <1>16 DEF SetOpen, RcAt, AfterOk
  <2>3. TaskTurn'
    BY <1>2, <1>16 DEF SetOpen, RcAt, AfterOk
  <2> QED BY <1>2, <1>16, <2>1, <2>2, <2>3 DEF SetOpen, RcAt, AfterOk
<1>17. ASSUME NEW t \in Tasks, LoopTop(t) PROVE Turns'
  <2>1. OneTask'
    BY <1>2, <1>17 DEF LoopTop, RcAt, TaskEnds
  <2>2. TaskTurn'
    BY <1>2, <1>17 DEF LoopTop, RcAt, TaskEnds
  <2> QED BY <1>2, <1>17, <2>1, <2>2 DEF LoopTop, RcAt, TaskEnds
<1>18. ASSUME NEW t \in Tasks, SleepEnds(t) PROVE Turns'
  <2>1. OneTask'
    BY <1>2, <1>18 DEF SleepEnds, RcAt
  <2>2. TaskTurn'
    BY <1>2, <1>18 DEF SleepEnds, RcAt
  <2> QED BY <1>2, <1>18, <2>1, <2>2 DEF SleepEnds, RcAt
<1>19. ASSUME NEW t \in Tasks, GetSession(t) PROVE Turns'
  <2>1. OneTask'
    BY <1>2, <1>19 DEF GetSession, RcAt, TaskEnds
  <2>2. TaskTurn'
    BY <1>2, <1>19 DEF GetSession, RcAt, TaskEnds
  <2> QED BY <1>2, <1>19, <2>1, <2>2 DEF GetSession, RcAt, TaskEnds
<1>20. ASSUME NEW t \in Tasks, EnsurePumpRunning(t) PROVE Turns'
  <2>1. OneTask'
    BY <1>2, <1>20 DEF EnsurePumpRunning, TaskEnds, ReadBegins
  <2>2. OnePump' /\ PumpTurn'
    <3>1. CASE UNCHANGED <<pump, task_slot, stopping>>
      BY <1>2, <1>20, <3>1 DEF EnsurePumpRunning, conn, Turns, OnePump, PumpTurn
    <3>2. ASSUME NEW p \in Pumps, pump' = [pump EXCEPT ![p] = ReadBegins], task_slot' = {p},
                 \A q \in task_slot : pump[q] \in Finished
          PROVE  OnePump' /\ PumpTurn'
      <4>1. \A q \in Pumps : pump[q] \in Finished
        BY <1>2, <3>2 DEF Turns, OnePump
      <4>2. state = "Open" /\ state' = "Open" /\ ReadBegins = "reading"
        BY <1>2, <1>20, <4>1 DEF EnsurePumpRunning, conn, ReadBegins, Turns, Undisturbed, TaskTurn, Finished
      <4>3. \A q \in Pumps \ {p} : pump'[q] \in Finished
        BY <3>2, <4>1
      <4>4. OnePump'
        BY <3>2, <4>3 DEF OnePump
      <4>5. PumpTurn'
        BY <3>2, <4>2, <4>3 DEF PumpTurn, Finished
      <4> QED BY <4>4, <4>5
    <3> QED BY <1>20, <3>1, <3>2, PumpRestarts
  <2>3. TaskTurn'
    BY <1>2, <1>20 DEF EnsurePumpRunning, TaskEnds, ReadBegins
  <2> QED BY <1>2, <1>20, <2>1, <2>2, <2>3 DEF EnsurePumpRunning, TaskEnds, ReadBegins
<1>21. ASSUME NEW t \in Tasks, AbortTakesEffect(t) PROVE Turns'
  <2>1. OneTask'
    BY <1>2, <1>21 DEF AbortTakesEffect, TaskEnds
  <2>2. TaskTurn'
    BY <1>2, <1>21 DEF AbortTakesEffect, TaskEnds
  <2> QED BY <1>2, <1>21, <2>1, <2>2 DEF AbortTakesEffect, TaskEnds
<1>22. ASSUME NEW s \in Supervisors, Spawn(s) PROVE Turns'
  <2>1. poll' = [poll EXCEPT ![s] = "idle"] /\ poll[s] = "got" /\ sup[s] = {}
    BY <1>2, <1>22 DEF Spawn, PollAt
  <2>2. CASE UNCHANGED <<rc, reconnect_task, sup>>
    <3>1. OneTask'
      BY <1>2, <2>1, <2>2
    <3> QED BY <1>2, <1>22, <2>2, <3>1 DEF Spawn
  <2>3. ASSUME \A u \in reconnect_task : rc[u] = "idle",
               reconnect_task' = {u \in reconnect_task : rc[u] # "idle"},
               NEW t \in Tasks, rc' = [rc EXCEPT ![t] = "loop"], sup' = [sup EXCEPT ![s] = {t}]
        PROVE  Turns'
    <3>1. \A u \in Tasks : rc[u] = "idle"
      BY <1>2, <2>1, <2>3
    <3>2. reconnect_task' = {}
      BY <2>3
    <3>3. OneTask'
      <4>1. \A v \in Supervisors : v = s
        OBVIOUS
      <4> QED BY <2>1, <2>3, <3>1, <3>2, <4>1 DEF OneTask
    <3>4. TaskTurn'
      BY <1>2, <1>22, <2>3, <3>1 DEF Spawn
    <3> QED BY <1>2, <1>22, <3>3, <3>4 DEF Spawn
  <2> QED BY <1>22, <2>2, <2>3, SpawnOutcome
<1>23. ASSUME NEW s \in Supervisors, Record(s) PROVE Turns'
  <2>1. OneTask'
    BY <1>2, <1>23 DEF Record
  <2> QED BY <1>2, <1>23, <2>1 DEF Record
<1>27. ASSUME NEW s \in Supervisors, PollSees(s) \/ GetConnection(s) PROVE Turns'
  <2>1. OneTask'
    BY <1>2, <1>27 DEF PollSees, GetConnection, PollAt
  <2> QED BY <1>2, <1>27, <2>1 DEF PollSees, GetConnection
<1>24. CASE UNCHANGED vars
  BY <1>2, <1>24 DEF vars
<1>25. ASSUME NEW m \in Manual, ReconnectStep(m) \/ ReconnectTool(m) PROVE FALSE
  BY <1>1, <1>25, LinkAssumption
  DEF Unattended, ReconnectTool, ReconnectStep, CheckState, SetReconnecting, BuildStream, BuildFails,
      Install, SetOpen, RcAt
<1>26. ~CancelReconnect /\ ~CloseStep
  BY <1>1 DEF CancelReconnect, CloseStep, Unregister, AbortTask, RaiseClosed, SetClosed, TakeIo,
      RemoveSession, JoinPump, CloseAt
<1> QED
  BY <1>3, <1>4, <1>5, <1>6, <1>7, <1>8, <1>9, <1>10, <1>11, <1>12, <1>13, <1>14, <1>15, <1>16,
     <1>17, <1>18, <1>19, <1>20, <1>21, <1>22, <1>23, <1>24, <1>25, <1>26, <1>27
  DEF Next, PumpStep, ReconnectStep, TaskStep, SupervisorStep

LEMMA LinkInit == Init => LinkInvariant
BY LinkAssumption
DEF Init, LinkInvariant, Turns, Undisturbed, OneTask, OnePump, PumpTurn, TaskTurn, Attempting,
    Finished, Reconnectors

(* With the one supervisor of the stdio server, a connection that reports  *)
(* Open has a handle until its close (mark_disconnected, reconnect), for   *)
(* any number of departures of the device and of failed attempts.          *)
THEOREM OpenConnectionHasIo ==
  ASSUME \A s, u \in Supervisors : s = u
  PROVE  Spec => []OpenHasIo
<1>1. Init => LinkInvariant
  BY LinkInit
<1>2. TypeOK /\ LinkInvariant /\ [Next]_vars => LinkInvariant'
  BY TurnsKept DEF LinkInvariant
<1>3. LinkInvariant => OpenHasIo
  BY DEF LinkInvariant, Turns, OpenHasIo
<1> QED BY <1>1, <1>2, <1>3, LinkTyped, PTL DEF Spec

-----------------------------------------------------------------------------
(* Who reads the connection, for any number of supervisors, tasks and      *)
(* calls of the reconnect tool, before, during and after its close.        *)
(*                                                                         *)
(* ReadsAlone is not inductive.  A restart looks only at the slot, which a *)
(* close empties while the pump it joins may still read: that pump stays   *)
(* the only reader because the token was cancelled before, and a pump that *)
(* begins after the cancellation is refused.                               *)

SlotInvariant ==
  /\ \A p \in Pumps : Reads(p) => p \in task_slot \cup joined
  /\ ReadsAlone
  /\ close \in {"joining", "done"} => \A p \in task_slot : ~Reads(p)
  /\ close # "joining" => joined = {}
  /\ close \in {"stopped", "released", "failed", "joining", "done"} => close_token

(* A step that leaves the pumps, the slot and the close alone.             *)
LEMMA SlotKept ==
  ASSUME SlotInvariant, UNCHANGED <<pump, task_slot, joined, close, close_token>>
  PROVE  SlotInvariant'
BY DEF SlotInvariant, ReadsAlone, Reads

(* A pump goes on or ends: only one that reads reads afterwards.           *)
LEMMA SlotPumpMoves ==
  ASSUME TypeOK, SlotInvariant, NEW p \in Pumps, NEW to, pump' = [pump EXCEPT ![p] = to],
         Reads(p) \/ to = "exited",
         UNCHANGED <<task_slot, joined, close, close_token>>
  PROVE  SlotInvariant'
<1>1. \A q \in Pumps : Reads(q)' => Reads(q)
  BY DEF TypeOK, Reads
<1> QED BY <1>1 DEF SlotInvariant, ReadsAlone, TypeOK

(* The close handler goes on without touching the slot.                    *)
LEMMA SlotCloseMoves ==
  ASSUME SlotInvariant, UNCHANGED <<pump, task_slot, joined>>,
         close \notin {"joining", "done"}, close' \notin {"joining", "done"},
         close' \in {"stopped", "released", "failed"} => close_token'
  PROVE  SlotInvariant'
BY DEF SlotInvariant, ReadsAlone, Reads

LEMMA SlotStep == TypeOK /\ SlotInvariant /\ [Next]_vars => SlotInvariant'
<1> SUFFICES ASSUME TypeOK, SlotInvariant, [Next]_vars PROVE SlotInvariant'
  OBVIOUS
<1>1. CASE Unplug \/ Plug \/ UNCHANGED vars
  BY <1>1, SlotKept DEF Unplug, Plug, vars, conn, rx
<1>2. ASSUME NEW p \in Pumps, PumpStep(p) \/ PumpBreaks(p) PROVE SlotInvariant'
  <2>1. \E to : /\ pump' = [pump EXCEPT ![p] = to]
                /\ Reads(p) \/ to = "exited"
    BY <1>2 DEF PumpStep, PumpEnds, PumpBreaks, PumpFails, MarkDisconnected, TakeDeadIo, PauseEnds,
                PumpAt, Reads
  <2>2. UNCHANGED <<task_slot, joined, close, close_token>>
    BY <1>2 DEF PumpStep, PumpEnds, PumpBreaks, PumpFails, MarkDisconnected, TakeDeadIo, PauseEnds,
                conn
  <2> QED BY <2>1, <2>2, SlotPumpMoves
<1>3. ASSUME NEW r \in Reconnectors, ReconnectStep(r) PROVE SlotInvariant'
  BY <1>3, SlotKept DEF ReconnectStep, CheckState, SetReconnecting, BuildStream, BuildFails,
     Install, SetOpen, conn, rx
<1>4. ASSUME NEW t \in Tasks, LoopTop(t) \/ SleepEnds(t) \/ GetSession(t) \/ AbortTakesEffect(t)
      PROVE  SlotInvariant'
  BY <1>4, SlotKept DEF LoopTop, SleepEnds, GetSession, AbortTakesEffect, conn, rx
<1>5. ASSUME NEW t \in Tasks, EnsurePumpRunning(t) PROVE SlotInvariant'
  <2>1. UNCHANGED <<joined, close, close_token>>
    BY <1>5 DEF EnsurePumpRunning, conn
  <2>2. CASE UNCHANGED <<pump, task_slot, stopping>>
    BY <2>1, <2>2, SlotKept
  <2>3. ASSUME NEW p \in Pumps, pump' = [pump EXCEPT ![p] = ReadBegins], task_slot' = {p},
               \A q \in task_slot : pump[q] \in Finished
        PROVE  SlotInvariant'
    <3>1. \A q \in Pumps : Reads(q) => q \in joined
      BY <2>3 DEF SlotInvariant, Reads, Finished
    <3>2. \A q \in Pumps \ {p} : Reads(q)' <=> Reads(q)
      BY <2>3 DEF TypeOK, Reads
    <3>3. CASE close_token
      <4>1. ~Reads(p)'
        BY <2>3, <3>3 DEF TypeOK, Reads, ReadBegins
      <4> QED BY <2>1, <2>3, <3>1, <3>2, <3>3, <4>1 DEF SlotInvariant, ReadsAlone
    <3>4. CASE ~close_token
      <4>1. joined = {} /\ close \notin {"joining", "done"}
        BY <3>4 DEF SlotInvariant
      <4>2. \A q \in Pumps : Reads(q)' => q = p
        BY <3>1, <3>2, <4>1
      <4> QED BY <2>1, <2>3, <4>1, <4>2 DEF SlotInvariant, ReadsAlone
    <3> QED BY <3>3, <3>4
  <2> QED BY <1>5, <2>2, <2>3, PumpRestarts
<1>6. ASSUME NEW m \in Manual, ReconnectTool(m) PROVE SlotInvariant'
  BY <1>6, SlotKept DEF ReconnectTool, conn, rx
<1>7. ASSUME NEW s \in Supervisors, SupervisorStep(s) PROVE SlotInvariant'
  BY <1>7, SlotKept DEF SupervisorStep, PollSees, GetConnection, Spawn, Record, conn, rx
<1>8. CASE CancelReconnect \/ Unregister \/ AbortTask \/ RaiseClosed \/ SetClosed
  BY <1>8, SlotCloseMoves
  DEF CancelReconnect, Unregister, AbortTask, RaiseClosed, SetClosed, CloseAt, conn, rx
<1>9. CASE TakeIo
  <2>1. close_token
    BY <1>9 DEF TakeIo, CloseAt, SlotInvariant
  <2> QED BY <1>9, <2>1, SlotCloseMoves DEF TakeIo, CloseAt, rx
<1>10. CASE RemoveSession
  <2>1. close = "released" /\ close' = "joining" /\ joined' = task_slot /\ task_slot' = {}
        /\ UNCHANGED <<pump, close_token>>
    BY <1>10 DEF RemoveSession, CloseAt, conn
  <2> QED BY <2>1 DEF SlotInvariant, ReadsAlone, Reads
<1>11. CASE JoinPump
  <2>1. /\ close = "joining" /\ close' = "done" /\ joined' = {}
        /\ UNCHANGED <<pump, task_slot, close_token>>
        /\ \A p \in joined : pump[p] \in Finished
    BY <1>11 DEF JoinPump, CloseAt, conn
  <2>2. \A p \in joined : ~Reads(p)
    BY <2>1 DEF Reads, Finished
  <2> QED BY <2>1, <2>2 DEF SlotInvariant, ReadsAlone, Reads
<1> QED BY <1>1, <1>2, <1>3, <1>4, <1>5, <1>6, <1>7, <1>8, <1>9, <1>10, <1>11
        DEF Next, TaskStep, CloseStep

LEMMA SlotInit == Init => SlotInvariant
<1> SUFFICES ASSUME Init PROVE SlotInvariant
  OBVIOUS
<1>1. PICK p \in Pumps : task_slot = {p}
  BY LinkAssumption DEF Init
<1>2. \A q \in Pumps : Reads(q) => q = p
  BY <1>1 DEF Init, Reads
<1> QED BY <1>1, <1>2 DEF Init, SlotInvariant, ReadsAlone

(* One pump at a time reads the connection and none after its close        *)
(* (ensure_pump_running, RxSessionManager::remove, close_token in read()), *)
(* however the restarts of reconnection and the close overlap.             *)
THEOREM OnePumpReads == Spec => []OneReader
<1>1. SlotInvariant => OneReader
  BY DEF SlotInvariant, OneReader, ClosedIsUnread
<1> QED BY <1>1, SlotInit, SlotStep, LinkTyped, PTL DEF Spec

(* A close that has come past the registry has taken the connection out.   *)
Unlisted == close \notin {"idle", "cancelled"} => registered = FALSE

LEMMA UnlistedStep == Unlisted /\ [Next]_vars => Unlisted'
<1> SUFFICES ASSUME Unlisted, [Next]_vars PROVE Unlisted'
  OBVIOUS
<1>1. CASE CancelReconnect \/ CloseStep
  BY <1>1 DEF Unlisted, CancelReconnect, CloseStep, Unregister, AbortTask, RaiseClosed, SetClosed,
     TakeIo, RemoveSession, JoinPump, CloseAt, reg
<1>2. CASE ~(CancelReconnect \/ CloseStep)
  <2>1. UNCHANGED <<close, registered>>
    BY <1>2 DEF Next, Unplug, Plug, PumpStep, PumpEnds, PumpBreaks, PumpFails, MarkDisconnected,
       TakeDeadIo, PauseEnds, ReconnectStep, CheckState, SetReconnecting, BuildStream, BuildFails,
       Install, SetOpen, TaskStep, LoopTop, SleepEnds, GetSession, EnsurePumpRunning,
       AbortTakesEffect, ReconnectTool, SupervisorStep, PollSees, GetConnection, Spawn, Record, vars,
       reg
  <2> QED BY <2>1 DEF Unlisted
<1> QED BY <1>1, <1>2

(* The tasks of a connection at rest are idle, a call of the reconnect     *)
(* tool moves no task, and a supervisor gets no further than its lookup.   *)
LEMMA RestKept ==
  ASSUME TypeOK, Unlisted, AtRest, close \in {"failed", "done"}, [Next]_vars
  PROVE  AtRest'
<1> USE DEF TypeOK, Reconnectors, Finished
<1>1. registered = FALSE
  BY DEF Unlisted
<1>2. CASE Unplug \/ Plug \/ UNCHANGED vars
  BY <1>2 DEF Unplug, Plug, vars, rx, recon, reg, AtRest
<1>3. ASSUME NEW p \in Pumps, PumpStep(p) \/ PumpBreaks(p) PROVE FALSE
  BY <1>3 DEF AtRest, PumpStep, PumpEnds, PumpBreaks, PumpFails, MarkDisconnected, TakeDeadIo,
     PauseEnds, PumpAt
<1>4. ASSUME NEW r \in Reconnectors, ReconnectStep(r) PROVE AtRest'
  <2>1. r \notin Tasks
    BY <1>4 DEF AtRest, ReconnectStep, CheckState, SetReconnecting, BuildStream, BuildFails,
       Install, SetOpen, RcAt
  <2>2. UNCHANGED <<pump, poll>>
    BY <1>4 DEF ReconnectStep, CheckState, SetReconnecting, BuildStream, BuildFails, Install,
       SetOpen, rx, reg
  <2>3. \E to : rc' = [rc EXCEPT ![r] = to]
    BY <1>4, <2>1 DEF ReconnectStep, CheckState, SetReconnecting, BuildStream, BuildFails, Install,
       SetOpen, RcAt, Err
  <2> QED BY <2>1, <2>2, <2>3 DEF AtRest
<1>5. ASSUME NEW t \in Tasks, TaskStep(t) PROVE FALSE
  BY <1>5 DEF AtRest, TaskStep, LoopTop, SleepEnds, GetSession, EnsurePumpRunning,
     AbortTakesEffect, RcAt
<1>6. ASSUME NEW m \in Manual, ReconnectTool(m) PROVE FALSE
  BY <1>1, <1>6 DEF ReconnectTool
<1>7. ASSUME NEW s \in Supervisors, SupervisorStep(s) PROVE AtRest'
  BY <1>1, <1>7 DEF SupervisorStep, PollSees, GetConnection, Spawn, Record, PollAt, rx, recon, AtRest
<1>8. CASE CancelReconnect \/ CloseStep
  BY <1>8 DEF CancelReconnect, CloseStep, Unregister, AbortTask, RaiseClosed, SetClosed, TakeIo,
     RemoveSession, JoinPump, CloseAt
<1> QED BY <1>2, <1>3, <1>4, <1>5, <1>6, <1>7, <1>8 DEF Next

(* A closed connection at rest stays at rest: the safety half of           *)
(* ClosedIsFinal, for any number of supervisors and with limited or        *)
(* unlimited attempts (start_reconnect looks the connection up again, and  *)
(* close has taken it out of the registry).                                *)
THEOREM RestIsForGood == Spec => RestIsFinal
<1>1. Init => Unlisted
  BY DEF Init, Unlisted
<1>2. TypeOK /\ Unlisted /\ [Next]_vars => [AtRest /\ close \in {"failed", "done"} => AtRest']_vars
  BY RestKept
<1> QED BY <1>1, <1>2, UnlistedStep, LinkTyped, PTL DEF Spec, RestIsFinal

-----------------------------------------------------------------------------
(* The safety core of Recovers.                                            *)

(* Nobody is told to abort before a close; the state Reconnecting then has *)
(* an attempt behind it, of whichever caller set it last.                  *)
Trying == {"building", "built", "installed"}
AttendedInvariant ==
  close = "idle" =>
    /\ aborted = {}
    /\ state = "Reconnecting" => \E r \in Reconnectors : rc[r] \in Trying

(* A step that changes neither the state nor the attempts.                 *)
LEMMA AttendedKept ==
  ASSUME AttendedInvariant, close' = "idle" => close = "idle",
         aborted' \subseteq aborted, state' # "Reconnecting" \/ UNCHANGED state,
         \A r \in Reconnectors : rc[r] \in Trying => rc'[r] \in Trying \/ state' # "Reconnecting"
  PROVE  AttendedInvariant'
<1> SUFFICES ASSUME close' = "idle"
             PROVE  /\ aborted' = {}
                    /\ state' = "Reconnecting" => \E r \in Reconnectors : rc'[r] \in Trying
  BY DEF AttendedInvariant
<1>1. aborted = {} /\ (state = "Reconnecting" => \E r \in Reconnectors : rc[r] \in Trying)
  BY DEF AttendedInvariant
<1> QED BY <1>1

LEMMA AttendedStep == TypeOK /\ AttendedInvariant /\ [Next]_vars => AttendedInvariant'
<1> SUFFICES ASSUME TypeOK, AttendedInvariant, [Next]_vars PROVE AttendedInvariant'
  OBVIOUS
<1> USE DEF TypeOK, Reconnectors
<1>1. CASE Unplug \/ Plug \/ UNCHANGED vars
  BY <1>1, AttendedKept DEF Unplug, Plug, vars, conn, recon, tally
<1>2. ASSUME NEW p \in Pumps, PumpStep(p) \/ PumpBreaks(p) PROVE AttendedInvariant'
  BY <1>2, AttendedKept DEF PumpStep, PumpEnds, PumpBreaks, PumpFails, MarkDisconnected, TakeDeadIo,
     PauseEnds, conn, recon, tally
<1>3. ASSUME NEW r \in Reconnectors, CheckState(r) PROVE AttendedInvariant'
  <2>1. rc[r] = "check" /\ \E to : rc' = [rc EXCEPT ![r] = to]
    BY <1>3 DEF CheckState, RcAt, Err, TaskEnds
  <2>2. \A q \in Reconnectors : rc[q] \in Trying => rc'[q] \in Trying
    BY <2>1 DEF Trying
  <2>3. aborted' \subseteq aborted /\ UNCHANGED <<state, close>>
    BY <1>3 DEF CheckState, Err, TaskEnds, tally, conn
  <2> QED BY <2>2, <2>3, AttendedKept
<1>4. ASSUME NEW r \in Reconnectors, SetReconnecting(r) PROVE AttendedInvariant'
  <2>1. rc'[r] \in Trying
    BY <1>4 DEF SetReconnecting, RcAt, Trying
  <2> QED BY <1>4, <2>1 DEF SetReconnecting, tally, AttendedInvariant
<1>5. ASSUME NEW r \in Reconnectors, BuildStream(r) \/ Install(r) PROVE AttendedInvariant'
  <2>1. \A q \in Reconnectors : rc[q] \in Trying => rc'[q] \in Trying
    BY <1>5 DEF BuildStream, Install, RcAt, Trying
  <2> QED BY <1>5, <2>1, AttendedKept DEF BuildStream, Install, tally, conn
<1>6. ASSUME NEW r \in Reconnectors, BuildFails(r) \/ SetOpen(r) PROVE AttendedInvariant'
  <2>1. state' # "Reconnecting" /\ aborted' \subseteq aborted /\ UNCHANGED close
    BY <1>6 DEF BuildFails, SetOpen, Err, TaskEnds, tally
  <2> QED BY <2>1, AttendedKept
<1>7. ASSUME NEW t \in Tasks, LoopTop(t) \/ SleepEnds(t) \/ GetSession(t) \/ EnsurePumpRunning(t)
      PROVE  AttendedInvariant'
  <2>1. rc[t] \notin Trying /\ \E to : rc' = [rc EXCEPT ![t] = to]
    BY <1>7 DEF LoopTop, SleepEnds, GetSession, EnsurePumpRunning, RcAt, TaskEnds, Trying
  <2>2. \A q \in Reconnectors : rc[q] \in Trying => rc'[q] \in Trying
    BY <2>1
  <2>3. aborted' \subseteq aborted /\ UNCHANGED <<state, close>>
    BY <1>7 DEF LoopTop, SleepEnds, GetSession, EnsurePumpRunning, TaskEnds, tally, conn
  <2> QED BY <2>2, <2>3, AttendedKept
<1>8. ASSUME NEW t \in Tasks, AbortTakesEffect(t) PROVE AttendedInvariant'
  BY <1>8 DEF AbortTakesEffect, AttendedInvariant
<1>9. ASSUME NEW m \in Manual, ReconnectTool(m) PROVE AttendedInvariant'
  <2>1. \A q \in Reconnectors : rc[q] \in Trying => rc'[q] \in Trying
    BY <1>9 DEF ReconnectTool, RcAt, Trying
  <2> QED BY <1>9, <2>1, AttendedKept DEF ReconnectTool, tally, conn
<1>10. ASSUME NEW s \in Supervisors, Spawn(s) PROVE AttendedInvariant'
  <2>1. rc' = rc \/ \E t \in Tasks : rc[t] = "idle" /\ rc' = [rc EXCEPT ![t] = "loop"]
    BY <1>10, SpawnOutcome
  <2>2. \A q \in Reconnectors : rc[q] \in Trying => rc'[q] \in Trying
    BY <2>1 DEF Trying
  <2> QED BY <1>10, <2>2, AttendedKept DEF Spawn, tally, conn
<1>11. ASSUME NEW s \in Supervisors, PollSees(s) \/ GetConnection(s) \/ Record(s)
       PROVE  AttendedInvariant'
  BY <1>11, AttendedKept DEF PollSees, GetConnection, Record, recon, tally, conn
<1>12. CASE CancelReconnect \/ CloseStep
  BY <1>12 DEF CancelReconnect, CloseStep, Unregister, AbortTask, RaiseClosed, SetClosed, TakeIo,
     RemoveSession, JoinPump, CloseAt, AttendedInvariant
<1> QED BY <1>1, <1>2, <1>3, <1>4, <1>5, <1>6, <1>7, <1>8, <1>9, <1>10, <1>11, <1>12
        DEF Next, ReconnectStep, TaskStep, SupervisorStep

(* Before a close the state Reconnecting always has an attempt under way   *)
(* that will replace it (SerialConnection::reconnect), for any number of   *)
(* supervisors, tasks and calls of the reconnect tool at the same time.    *)
THEOREM ReconnectingNeverStuck == Spec => []ReconnectingAttended
<1>1. Init => AttendedInvariant
  BY DEF Init, AttendedInvariant
<1>2. AttendedInvariant => ReconnectingAttended
  BY DEF AttendedInvariant, ReconnectingAttended, Trying
<1> QED BY <1>1, <1>2, AttendedStep, LinkTyped, PTL DEF Spec

(* An end of the pump needs its token, the flag, close_token or the loss   *)
(* of a handle the state still promises: LinkInvariant excludes them all.  *)
LEMMA PumpSurvivesStep ==
  ASSUME TypeOK, LinkInvariant, PumpSurvives, [Next]_vars, ~Disturbed'
  PROVE  \E p \in Pumps : pump'[p] \notin Finished
<1> USE DEF TypeOK
<1>1. close = "idle" /\ Unattended
  BY NoneBefore DEF Disturbed
<1>2. Turns
  BY <1>1 DEF LinkInvariant
<1>3. CASE UNCHANGED pump
  <2>1. ~Disturbed
    BY <1>1, <1>3 DEF Disturbed
  <2> QED BY <1>3, <2>1 DEF PumpSurvives
<1>4. ASSUME NEW p \in Pumps, PumpStep(p) \/ PumpBreaks(p) PROVE pump'[p] \notin Finished
  <2>1. ~PumpEnds(p)
    <3>1. pump[p] \in {"reading", "refused"} => io # "none"
      BY <1>2 DEF Turns, PumpTurn
    <3> QED BY <1>2, <3>1 DEF PumpEnds, PumpAt, Turns, Undisturbed
  <2>2. ~PumpBreaks(p)
    BY DEF PumpBreaks, PumpAt, Disturbed
  <2>3. PumpFails(p) \/ MarkDisconnected(p) \/ TakeDeadIo(p) => pump'[p] \notin Finished
    BY DEF PumpFails, MarkDisconnected, TakeDeadIo, PumpAt, Finished
  <2>4. PauseEnds(p) => pump'[p] \notin Finished
    BY <1>2 DEF PauseEnds, PumpAt, ReadBegins, Finished, Turns, Undisturbed
  <2> QED BY <1>4, <2>1, <2>2, <2>3, <2>4 DEF PumpStep
<1>5. ASSUME NEW t \in Tasks, EnsurePumpRunning(t) PROVE \E p \in Pumps : pump'[p] \notin Finished
  <2>1. CASE UNCHANGED pump
    BY <1>3, <2>1
  <2>2. ASSUME NEW p \in Pumps, pump' = [pump EXCEPT ![p] = ReadBegins]
        PROVE  pump'[p] \notin Finished
    BY <2>2 DEF ReadBegins, Finished
  <2> QED BY <1>5, <2>1, <2>2, PumpRestarts
<1>6. CASE /\ ~\E p \in Pumps : PumpStep(p) \/ PumpBreaks(p)
           /\ ~\E t \in Tasks : EnsurePumpRunning(t)
  <2>1. UNCHANGED pump
    BY <1>6 DEF Next, Unplug, Plug, ReconnectStep, CheckState, SetReconnecting, BuildStream,
       BuildFails, Install, SetOpen, TaskStep, LoopTop, SleepEnds, GetSession, AbortTakesEffect,
       ReconnectTool, SupervisorStep, PollSees, GetConnection, Spawn, Record, CancelReconnect,
       CloseStep, Unregister, AbortTask, RaiseClosed, SetClosed, TakeIo, RemoveSession, JoinPump,
       vars, rx
  <2> QED BY <1>3, <2>1
<1> QED BY <1>4, <1>5, <1>6

(* With the one supervisor of the stdio server, the pump of a connection   *)
(* outlives every loss of its device (pump_loop) while nobody closes the   *)
(* connection or uses the tool and no unclassified error occurs: recovery  *)
(* has both the attempt and the pump that it needs.                        *)
THEOREM PumpOutlivesLosses ==
  ASSUME \A s, u \in Supervisors : s = u
  PROVE  Spec => []RecoveryOpen
<1>1. Init => LinkInvariant
  BY LinkInit
<1>2. Init => PumpSurvives
  <2> SUFFICES ASSUME Init PROVE PumpSurvives
    OBVIOUS
  <2>1. PICK p \in Pumps : task_slot = {p}
    BY LinkAssumption DEF Init
  <2>2. pump[p] = "reading"
    BY <2>1 DEF Init
  <2> QED BY <2>2 DEF PumpSurvives, Finished
<1>3. TypeOK /\ LinkInvariant /\ [Next]_vars => LinkInvariant'
  BY TurnsKept DEF LinkInvariant
<1>4. TypeOK /\ LinkInvariant /\ PumpSurvives /\ [Next]_vars => PumpSurvives'
  BY PumpSurvivesStep DEF PumpSurvives
<1>5. ReconnectingAttended /\ PumpSurvives => RecoveryOpen
  BY DEF RecoveryOpen
<1> QED BY <1>1, <1>2, <1>3, <1>4, <1>5, ReconnectingNeverStuck, LinkTyped, PTL DEF Spec

=============================================================================
