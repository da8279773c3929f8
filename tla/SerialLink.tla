----------------------------- MODULE SerialLink -----------------------------
(***************************************************************************)
(* One connection from its open to its close: the state, the closed flag   *)
(* and the I/O handle of SerialConnection (src/src/serial/connection.rs),  *)
(* the receive pump that reads it (src/src/rx_session.rs), the reconnect   *)
(* supervisor and the tasks it spawns (src/src/server.rs and               *)
(* src/src/serial/manager.rs), the reconnect tool and the close handler.   *)
(*                                                                         *)
(* The state, the closed flag and the handle have a lock each, so every    *)
(* access is a step.  A reconnect keeps the lock of the handle from its    *)
(* installation until the state is Open.  The reconnect policy is enabled. *)
(***************************************************************************)
EXTENDS Integers, FiniteSets

CONSTANTS
  Pumps,        \* names for the pump tasks of the connection's RX session
  Supervisors,  \* one for stdio, one per handler built for HTTP
  Tasks,        \* names for the reconnect tasks the supervisors spawn
  Manual,       \* calls of the reconnect tool
  MaxAttempts,  \* max_attempts of the reconnect policy; 0 is unlimited
  MaxUnplugs    \* bound on how often the device goes away

ASSUME LinkAssumption ==
  /\ IsFiniteSet(Pumps) /\ Pumps # {}
  /\ Tasks \cap Manual = {}
  /\ MaxAttempts \in Nat
  /\ MaxUnplugs \in Nat

VARIABLES
  state,        \* ConnectionState
  closed,       \* SerialConnection.closed
  io,           \* the handle: "none", "good", or "dead" once the device left
  io_lock,      \* the reconnect call inside the lock of the handle, if any
  close_token,  \* SerialConnection.close_token is cancelled
  plugged,      \* the device is there
  unplugs,      \* how often it left
  pump,         \* where each pump task is
  task_slot,    \* RxSession.pump_task: the pump whose handle is kept
  stopping,     \* pumps whose token is cancelled
  session,      \* the RX session is in the session map
  joined,       \* the pump the close handler waits for
  rc,           \* where each reconnect task or call is
  stream,       \* the stream each of them has just built
  attempts,     \* failed attempts of each task, if they are limited
  aborted,      \* tasks that were told to abort
  registered,   \* the connection is in the registry
  reconnect_task, \* the handle in the registry's reconnect_tasks
  poll,         \* how far each supervisor's poll and its start_reconnect are
  sup,          \* the task each supervisor has spawned and not yet recorded
  close         \* where the close handler is

conn   == <<state, closed, io, io_lock, close_token>>
device == <<plugged, unplugs>>
rx     == <<pump, task_slot, stopping, session, joined>>
tally  == <<attempts, aborted>>
recon  == <<rc, stream, tally>>
reg    == <<registered, reconnect_task, poll, sup>>
vars   == <<conn, device, rx, recon, reg, close>>

Reconnectors == Tasks \cup Manual
Finished     == {"exited", "broken"}

Init ==
  /\ state = "Open" /\ closed = FALSE /\ io = "good" /\ io_lock = {}
  /\ close_token = FALSE
  /\ plugged = TRUE /\ unplugs = 0
  /\ task_slot = {CHOOSE p \in Pumps : TRUE}
  /\ pump = [p \in Pumps |-> IF p \in task_slot THEN "reading" ELSE "exited"]
  /\ stopping = {} /\ session = TRUE /\ joined = {}
  /\ rc = [r \in Reconnectors |-> IF r \in Manual THEN "unused" ELSE "idle"]
  /\ stream = [r \in Reconnectors |-> "none"]
  /\ attempts = [t \in Tasks |-> 0]
  /\ aborted = {}
  /\ registered = TRUE /\ reconnect_task = {}
  /\ poll = [s \in Supervisors |-> "idle"] /\ sup = [s \in Supervisors |-> {}]
  /\ close = "idle"

-----------------------------------------------------------------------------
(* The device.                                                             *)

(* It goes away: every handle on it is dead for good.                      *)
Unplug ==
  /\ plugged
  /\ unplugs < MaxUnplugs
  /\ plugged' = FALSE
  /\ unplugs' = unplugs + 1
  /\ io' = IF io = "good" THEN "dead" ELSE io
  /\ stream' = [r \in Reconnectors |-> IF stream[r] = "good" THEN "dead" ELSE stream[r]]
  /\ UNCHANGED <<state, closed, io_lock, close_token, rx, rc, tally, reg, close>>

Plug ==
  /\ ~plugged
  /\ plugged' = TRUE
  /\ UNCHANGED <<conn, unplugs, rx, recon, reg, close>>

-----------------------------------------------------------------------------
(* pump_loop.                                                              *)

PumpAt(p, from, to) == pump[p] = from /\ pump' = [pump EXCEPT ![p] = to]

(* Where a pump that starts or resumes is: a read() that begins after the  *)
(* cancellation of close_token touches no handle.                          *)
ReadBegins == IF close_token THEN "refused" ELSE "reading"

(* Slip: only the closed flag ends the reading.                            *)
PumpEndsByFlag(p) ==
  /\ PumpAt(p, "reading", "exited") \/ PumpAt(p, "refused", "exited")
  /\ p \in stopping \/ closed \/ io = "none"
  /\ UNCHANGED <<conn, device, task_slot, stopping, session, joined, recon, reg, close>>

(* The pump's token is cancelled, or read() returns ConnectionClosed: the  *)
(* flag is up, close_token is cancelled or the handle is gone.  That error *)
(* is not a fatal disconnect, so the pump exits.                           *)
PumpEnds(p) ==
  /\ PumpAt(p, "reading", "exited") \/ PumpAt(p, "refused", "exited")
  /\ p \in stopping \/ closed \/ close_token \/ io = "none"
  /\ UNCHANGED <<conn, device, task_slot, stopping, session, joined, recon, reg, close>>

(* An I/O error that is not classified as a disconnect ends the pump.      *)
PumpBreaks(p) ==
  /\ PumpAt(p, "reading", "broken")
  /\ io # "none"
  /\ UNCHANGED <<conn, device, task_slot, stopping, session, joined, recon, reg, close>>

(* The device is gone: a fatal read error ...                              *)
PumpFails(p) ==
  /\ PumpAt(p, "reading", "failing")
  /\ io = "dead"
  /\ UNCHANGED <<conn, device, task_slot, stopping, session, joined, recon, reg, close>>

(* ... on which mark_disconnected sets the state, whatever it was, ...     *)
MarkDisconnected(p) ==
  /\ PumpAt(p, "failing", "marking")
  /\ state' = "Disconnected"
  /\ UNCHANGED <<closed, io, io_lock, close_token, device, task_slot, stopping,
                 session, joined, recon, reg, close>>

(* ... and then takes the handle out.                                      *)
TakeDeadIo(p) ==
  /\ PumpAt(p, "marking", "pausing")
  /\ io_lock = {}
  /\ io' = "none"
  /\ UNCHANGED <<state, closed, io_lock, close_token, device, task_slot, stopping,
                 session, joined, recon, reg, close>>

(* Slip: the pause lasts only while a reconnect is under way.              *)
PauseUnlessDisconnected(p) ==
  /\ \/ p \in stopping /\ PumpAt(p, "pausing", "exited")
     \/ p \notin stopping /\ state = "Open" /\ PumpAt(p, "pausing", ReadBegins)
     \/ p \notin stopping /\ state \in {"Disconnected", "Closed"} /\ PumpAt(p, "pausing", "exited")
  /\ UNCHANGED <<conn, device, task_slot, stopping, session, joined, recon, reg, close>>

(* The pause ends with the token, a reconnect or a close.                  *)
PauseEnds(p) ==
  /\ \/ p \in stopping /\ PumpAt(p, "pausing", "exited")
     \/ p \notin stopping /\ state = "Open" /\ PumpAt(p, "pausing", ReadBegins)
     \/ p \notin stopping /\ state = "Closed" /\ PumpAt(p, "pausing", "exited")
  /\ UNCHANGED <<conn, device, task_slot, stopping, session, joined, recon, reg, close>>

-----------------------------------------------------------------------------
(* SerialConnection::reconnect, run by a task or by the reconnect tool.    *)

RcAt(r, from, to) == rc[r] = from /\ rc' = [rc EXCEPT ![r] = to]

(* Where an Ok takes the caller: the task goes on to the pump.             *)
AfterOk(r) == IF r \in Tasks THEN "succeeded" ELSE "over"

(* A task ends; it has no await left at which an abort could reach it.     *)
TaskEnds(t) ==
  /\ rc' = [rc EXCEPT ![t] = "idle"]
  /\ attempts' = [attempts EXCEPT ![t] = 0]
  /\ aborted' = aborted \ {t}

(* This failure is the last one the policy allows; 0 is no limit.          *)
Exhausted(t) == MaxAttempts > 0 /\ attempts[t] + 1 >= MaxAttempts

(* An Err ends the call of the tool.  The task counts it, and gives up,    *)
(* logging ReconnectExhausted, at max_attempts; without a limit the count  *)
(* is compared with nothing and is not kept here.                          *)
Err(r) ==
  \/ /\ r \in Manual
     /\ rc' = [rc EXCEPT ![r] = "over"]
     /\ UNCHANGED tally
  \/ /\ r \in Tasks
     /\ Exhausted(r)
     /\ TaskEnds(r)
  \/ /\ r \in Tasks
     /\ ~Exhausted(r)
     /\ rc' = [rc EXCEPT ![r] = "loop"]
     /\ attempts' = IF MaxAttempts = 0 THEN attempts ELSE [attempts EXCEPT ![r] = @ + 1]
     /\ UNCHANGED aborted

(* The state is read: Open is success, Closed an error ...                 *)
CheckState(r) ==
  /\ rc[r] = "check"
  /\ \/ state = "Open" /\ RcAt(r, "check", AfterOk(r)) /\ UNCHANGED tally
     \/ state = "Closed" /\ Err(r)
     \/ state \notin {"Open", "Closed"} /\ RcAt(r, "check", "checked") /\ UNCHANGED tally
  /\ UNCHANGED <<conn, device, rx, stream, reg, close>>

(* ... and anything else is overwritten, with no second look.              *)
SetReconnecting(r) ==
  /\ RcAt(r, "checked", "building")
  /\ state' = "Reconnecting"
  /\ UNCHANGED <<closed, io, io_lock, close_token, device, rx, stream, tally, reg, close>>

(* Another handle on the device is open, which the OS may or may not allow.*)
Held == io = "good" \/ \E r \in Reconnectors : stream[r] = "good"

(* Slip: the state is Open before the handle is there.                     *)
BuildStreamOpens(r) ==
  /\ RcAt(r, "building", "built")
  /\ plugged
  /\ stream' = [stream EXCEPT ![r] = "good"]
  /\ state' = "Open"
  /\ UNCHANGED <<closed, io, io_lock, close_token, device, rx, tally, reg, close>>

(* build_stream opens the device ...                                       *)
BuildStream(r) ==
  /\ RcAt(r, "building", "built")
  /\ plugged
  /\ stream' = [stream EXCEPT ![r] = "good"]
  /\ UNCHANGED <<conn, device, rx, tally, reg, close>>

(* Slip: a failed attempt leaves the state.                                *)
BuildFailsReconnecting(r) ==
  /\ rc[r] = "building"
  /\ ~plugged \/ Held
  /\ Err(r)
  /\ UNCHANGED <<conn, device, rx, stream, reg, close>>

(* ... or fails, and the state is set back.                                *)
BuildFails(r) ==
  /\ rc[r] = "building"
  /\ ~plugged \/ Held
  /\ state' = "Disconnected"
  /\ Err(r)
  /\ UNCHANGED <<closed, io, io_lock, close_token, device, rx, stream, reg, close>>

(* Under the lock of the handle the stream replaces it, the closed flag    *)
(* comes down ...                                                          *)
Install(r) ==
  /\ RcAt(r, "built", "installed")
  /\ io_lock = {}
  /\ io_lock' = {r}
  /\ io' = stream[r]
  /\ stream' = [stream EXCEPT ![r] = "none"]
  /\ closed' = FALSE
  /\ UNCHANGED <<state, close_token, device, rx, tally, reg, close>>

(* ... and the state is set.                                               *)
SetOpen(r) ==
  /\ RcAt(r, "installed", AfterOk(r))
  /\ io_lock' = {}
  /\ state' = "Open"
  /\ UNCHANGED <<closed, io, close_token, device, rx, stream, tally, reg, close>>

(* The reconnect tool looks the connection up and calls reconnect().       *)
ReconnectTool(m) ==
  /\ registered
  /\ RcAt(m, "unused", "check")
  /\ UNCHANGED <<conn, device, rx, stream, tally, reg, close>>

-----------------------------------------------------------------------------
(* The task start_reconnect spawns.                                        *)

(* The loop ends when the connection is open or closed, else it sleeps.    *)
LoopTop(t) ==
  /\ rc[t] = "loop"
  /\ \/ state \in {"Open", "Closed"} /\ TaskEnds(t)
     \/ /\ state \notin {"Open", "Closed"}
        /\ RcAt(t, "loop", "sleeping")
        /\ UNCHANGED <<attempts, aborted>>
  /\ UNCHANGED <<conn, device, rx, stream, reg, close>>

(* The delay has passed; a task told to abort does not wake from it.  The  *)
(* delay outlasts a mark_disconnected under way, which queues for the      *)
(* handle without waiting for anything else.                               *)
SleepEnds(t) ==
  /\ RcAt(t, "sleeping", "check")
  /\ t \notin aborted
  /\ \A p \in Pumps : pump[p] # "marking"
  /\ UNCHANGED <<conn, device, rx, stream, tally, reg, close>>

(* After success the session is looked up ...                              *)
GetSession(t) ==
  /\ rc[t] = "succeeded"
  /\ \/ ~session /\ TaskEnds(t)
     \/ session /\ RcAt(t, "succeeded", "restart") /\ UNCHANGED <<attempts, aborted>>
  /\ UNCHANGED <<conn, device, rx, stream, reg, close>>

(* Slip: the handle of the pump that runs is not looked at.                *)
EnsureSecondPump(t) ==
  /\ rc[t] = "restart"
  /\ TaskEnds(t)
  /\ LET p == CHOOSE p \in Pumps : pump[p] \in Finished
     IN /\ \E q \in Pumps : pump[q] \in Finished
        /\ pump' = [pump EXCEPT ![p] = ReadBegins]
        /\ task_slot' = {p}
        /\ stopping' = stopping \ {p}
  /\ UNCHANGED <<conn, device, session, joined, stream, reg, close>>

(* ... and ensure_pump_running starts a pump, with a fresh token if the    *)
(* old one was cancelled, unless the kept handle is of a running one.      *)
EnsurePumpRunning(t) ==
  /\ rc[t] = "restart"
  /\ TaskEnds(t)
  /\ IF \E p \in task_slot : pump[p] \notin Finished
       THEN UNCHANGED <<pump, task_slot, stopping>>
       ELSE LET p == CHOOSE p \in Pumps : pump[p] \in Finished
            IN /\ \E q \in Pumps : pump[q] \in Finished
               /\ pump' = [pump EXCEPT ![p] = ReadBegins]
               /\ task_slot' = {p}
               /\ stopping' = stopping \ {p}
  /\ UNCHANGED <<conn, device, session, joined, stream, reg, close>>

(* An aborted task ends at an await: its sleep, the lock of the handle,    *)
(* where the stream it has built is dropped, or that of the sessions.      *)
AbortTakesEffect(t) ==
  /\ t \in aborted
  /\ rc[t] \in {"loop", "sleeping", "built", "succeeded"}
  /\ TaskEnds(t)
  /\ stream' = [stream EXCEPT ![t] = "none"]
  /\ UNCHANGED <<conn, device, rx, reg, close>>

-----------------------------------------------------------------------------
(* The supervisor and start_reconnect.                                     *)

(* The name for a new task.                                                *)
Free == {t \in Tasks : rc[t] = "idle" /\ \A s \in Supervisors : t \notin sup[s]}

SpawnTask(s) ==
  LET t == CHOOSE t \in Free : TRUE
  IN /\ Free # {}
     /\ RcAt(t, "idle", "loop")
     /\ sup' = [sup EXCEPT ![s] = {t}]
     /\ reconnect_task' = {u \in reconnect_task : rc[u] # "idle"}

PollAt(s, from, to) == poll[s] = from /\ poll' = [poll EXCEPT ![s] = to]

(* A poll lists the registry and finds the connection disconnected.        *)
PollSees(s) ==
  /\ PollAt(s, "idle", "seen")
  /\ sup[s] = {}
  /\ registered
  /\ state = "Disconnected"
  /\ UNCHANGED <<conn, device, rx, recon, registered, reconnect_task, sup, close>>

(* Slip: start_reconnect takes the connection from the listing.            *)
GetListed(s) ==
  /\ PollAt(s, "seen", "got")
  /\ UNCHANGED <<conn, device, rx, recon, registered, reconnect_task, sup, close>>

(* start_reconnect looks the connection up again, under the lock, ...      *)
GetConnection(s) ==
  /\ \/ registered /\ PollAt(s, "seen", "got")
     \/ ~registered /\ PollAt(s, "seen", "idle")
  /\ UNCHANGED <<conn, device, rx, recon, registered, reconnect_task, sup, close>>

(* ... and in a second locked section finds an unfinished task under its   *)
(* id, or spawns one: by then the connection may be open, or closed.       *)
Spawn(s) ==
  /\ PollAt(s, "got", "idle")
  /\ IF \E t \in reconnect_task : rc[t] # "idle"
       THEN UNCHANGED <<rc, reconnect_task, sup>>
       ELSE SpawnTask(s)
  /\ UNCHANGED <<conn, device, rx, stream, tally, registered, close>>

(* Its handle is recorded in another locked section, over any other.       *)
Record(s) ==
  /\ sup[s] # {}
  /\ reconnect_task' = sup[s]
  /\ sup' = [sup EXCEPT ![s] = {}]
  /\ UNCHANGED <<conn, device, rx, recon, registered, poll, close>>

-----------------------------------------------------------------------------
(* The close handler.                                                      *)

CloseAt(from, to) == close = from /\ close' = to

Abort ==
  /\ aborted' = aborted \cup {t \in reconnect_task : rc[t] # "idle"}
  /\ reconnect_task' = {}

(* cancel_reconnect, before anything else.                                 *)
CancelReconnect ==
  /\ CloseAt("idle", "cancelled")
  /\ Abort
  /\ UNCHANGED <<conn, device, rx, rc, stream, attempts, registered, poll, sup>>

(* ConnectionManager::close takes the connection out of the registry ...   *)
Unregister ==
  /\ CloseAt("cancelled", "unregistered")
  /\ registered' = FALSE
  /\ UNCHANGED <<conn, device, rx, recon, reconnect_task, poll, sup>>

(* ... and aborts the recorded task again.                                 *)
AbortTask ==
  /\ CloseAt("unregistered", "aborted")
  /\ Abort
  /\ UNCHANGED <<conn, device, rx, rc, stream, attempts, registered, poll, sup>>

(* SerialConnection::close raises the flag, ...                            *)
RaiseClosed ==
  /\ CloseAt("aborted", "flagged")
  /\ closed' = TRUE
  /\ UNCHANGED <<state, io, io_lock, close_token, device, rx, recon, reg>>

(* ... sets the state and cancels the token, ...                           *)
SetClosed ==
  /\ CloseAt("flagged", "stopped")
  /\ state' = "Closed"
  /\ close_token' = TRUE
  /\ UNCHANGED <<closed, io, io_lock, device, rx, recon, reg>>

(* ... and takes the handle, which is dropped even if purging it fails, in *)
(* which case the handler returns with the session still in the map.  The  *)
(* port leaves closing_ports.                                              *)
TakeIo ==
  /\ \/ CloseAt("stopped", "released")
     \/ CloseAt("stopped", "failed") /\ io # "none"
  /\ io_lock = {}
  /\ io' = "none"
  /\ UNCHANGED <<state, closed, io_lock, close_token, device, rx, recon, reg>>

(* The session leaves the map, its token is cancelled and the handle of    *)
(* its pump taken out of the slot ...                                      *)
RemoveSession ==
  /\ CloseAt("released", "joining")
  /\ session' = FALSE
  /\ stopping' = Pumps
  /\ joined' = task_slot
  /\ task_slot' = {}
  /\ UNCHANGED <<conn, device, pump, recon, reg>>

(* ... to wait for that pump.                                              *)
JoinPump ==
  /\ CloseAt("joining", "done")
  /\ \A p \in joined : pump[p] \in Finished
  /\ joined' = {}
  /\ UNCHANGED <<conn, device, pump, task_slot, stopping, session, recon, reg>>

-----------------------------------------------------------------------------
PumpStep(p) ==
  \/ PumpEnds(p) \/ PumpFails(p) \/ MarkDisconnected(p) \/ TakeDeadIo(p) \/ PauseEnds(p)

ReconnectStep(r) ==
  \/ CheckState(r) \/ SetReconnecting(r) \/ BuildStream(r) \/ BuildFails(r) \/ Install(r)
  \/ SetOpen(r)

TaskStep(t) ==
  \/ LoopTop(t) \/ SleepEnds(t) \/ GetSession(t) \/ EnsurePumpRunning(t)
  \/ AbortTakesEffect(t)

CloseStep ==
  \/ Unregister \/ AbortTask \/ RaiseClosed \/ SetClosed \/ TakeIo \/ RemoveSession \/ JoinPump

SupervisorStep(s) == PollSees(s) \/ GetConnection(s) \/ Spawn(s) \/ Record(s)

Next ==
  \/ Unplug \/ Plug
  \/ \E p \in Pumps : PumpStep(p) \/ PumpBreaks(p)
  \/ \E r \in Reconnectors : ReconnectStep(r)
  \/ \E t \in Tasks : TaskStep(t)
  \/ \E m \in Manual : ReconnectTool(m)
  \/ \E s \in Supervisors : SupervisorStep(s)
  \/ CancelReconnect \/ CloseStep

Spec == Init /\ [][Next]_vars

(* Started tasks run on: sleeps end, polls recur, locks are fair, and the  *)
(* close handler, once called, goes to its end.                            *)
Fairness ==
  /\ \A p \in Pumps : WF_vars(PumpStep(p))
  /\ \A r \in Reconnectors : WF_vars(ReconnectStep(r))
  /\ \A t \in Tasks : WF_vars(TaskStep(t))
  /\ \A s \in Supervisors : WF_vars(SupervisorStep(s))
  /\ WF_vars(CloseStep)

FairSpec == Spec /\ Fairness

-----------------------------------------------------------------------------
(* Properties.                                                             *)

TypeOK ==
  /\ state \in {"Open", "Disconnected", "Reconnecting", "Closed"}
  /\ io \in {"none", "good", "dead"}
  /\ io_lock \subseteq Reconnectors
  /\ {closed, close_token, plugged, session, registered} \subseteq BOOLEAN
  /\ unplugs \in 0..MaxUnplugs
  /\ pump \in [Pumps -> {"reading", "refused", "failing", "marking", "pausing", "exited", "broken"}]
  /\ task_slot \subseteq Pumps
  /\ joined \subseteq Pumps
  /\ stopping \subseteq Pumps
  /\ rc \in [Reconnectors -> {"unused", "idle", "loop", "sleeping", "check", "checked",
                              "building", "built", "installed", "succeeded", "restart", "over"}]
  /\ stream \in [Reconnectors -> {"none", "good", "dead"}]
  /\ attempts \in [Tasks -> IF MaxAttempts = 0 THEN {0} ELSE 0..(MaxAttempts - 1)]
  /\ aborted \subseteq Tasks
  /\ reconnect_task \subseteq Tasks
  /\ poll \in [Supervisors -> {"idle", "seen", "got"}]
  /\ sup \in [Supervisors -> SUBSET Tasks]
  /\ close \in {"idle", "cancelled", "unregistered", "aborted", "flagged", "stopped",
                "released", "failed", "joining", "done"}

(* The reconnect tool has not been used.                                   *)
Unattended == \A m \in Manual : rc[m] = "unused"

(* A connection that reports Open has a handle until its close: mark_dis-  *)
(* connected and reconnect order the state and the handle so that a later  *)
(* reconnect() never takes a dead connection for a connected one.          *)
OpenHasIo == close = "idle" /\ Unattended /\ state = "Open" => io # "none"

(* The device came back for good, nobody closes the connection, calls the  *)
(* reconnect tool or meets an unclassified error: automatic reconnection   *)
(* leads to a state in which the pump reads a good handle.                 *)
Recovered ==
  /\ state = "Open"
  /\ io = "good"
  /\ \E p \in Pumps : pump[p] = "reading"

Disturbed == close # "idle" \/ ~Unattended \/ \E p \in Pumps : pump[p] = "broken"

Recovers == <>[]plugged /\ []~Disturbed => <>[]Recovered

(* Reconnecting is never left behind: the supervisor starts a task only    *)
(* for Disconnected, so an attempt has to replace the state it set, also   *)
(* when attempts of several callers overlap.                               *)
ReconnectingAttended ==
  close = "idle" /\ state = "Reconnecting" =>
    \E r \in Reconnectors : rc[r] \in {"building", "built", "installed"}

(* The pump outlives every loss of the device: it pauses and resumes, and  *)
(* never takes the lost handle for a closed connection.  That needs the    *)
(* turns of one task and the pump, so it is claimed only while the tool is *)
(* not used: a call of it may install a handle that a mark_disconnected    *)
(* under way then takes, and the pump ends.                                *)
PumpSurvives == ~Disturbed => \E p \in Pumps : pump[p] \notin Finished

(* The safety core of recovery, before a close: whatever the device, the   *)
(* tasks and the tool do, an attempt is left to replace the state          *)
(* Reconnecting; and whatever the device and the tasks do, as long as the  *)
(* tool is not used and no unclassified error occurs, a pump is left to    *)
(* read the handle that the attempt gets.                                  *)
RecoveryOpen == ReconnectingAttended /\ PumpSurvives

(* Nothing runs for the connection: no pump, no reconnect task, and no     *)
(* supervisor that has looked the connection up and may yet spawn one.     *)
AtRest ==
  /\ \A p \in Pumps : pump[p] \in Finished
  /\ \A t \in Tasks : rc[t] = "idle"
  /\ \A s \in Supervisors : poll[s] # "got"

(* A connection closed without error comes to rest if the attempts are     *)
(* limited, whatever reconnection was under way and whatever it restarted: *)
(* no pump and no reconnect task keeps running.                            *)
ClosedIsFinal == MaxAttempts > 0 => (close = "done" ~> []AtRest)

(* A pump that reads the handle, or still acts on what it read of it.      *)
Reads(p) == pump[p] \in {"reading", "failing", "marking", "pausing"}

(* Two pumps would split the received bytes, and the second would mark     *)
(* disconnected what the first has just got back.                          *)
ReadsAlone == \A p, q \in Pumps : Reads(p) /\ Reads(q) => p = q

(* Once close has returned without error no pump reads the port, sets the  *)
(* state or takes a handle, not even one that a late reconnect task has    *)
(* started after the join: close_token turns it away from its first read.  *)
ClosedIsUnread == close = "done" => \A p \in Pumps : ~Reads(p)

(* One pump at a time reads the connection and none after its close,       *)
(* whatever reconnect tasks and close do with the slot.                    *)
OneReader == ReadsAlone /\ ClosedIsUnread

(* A connection that is at rest after its close, failed or not, stays so:  *)
(* no supervisor, task or call of the tool starts anything for it again.   *)
(* A supervisor that has seen it Disconnected is turned away by its second *)
(* lookup; one that is past that lookup is not at rest.                    *)
RestIsFinal == [][AtRest /\ close \in {"failed", "done"} => AtRest']_vars

(* The comment on ConnectionManager::close: "close the underlying port     *)
(* before allowing a reopen."  Once the close has let the port go, this    *)
(* connection does not hold it.                                            *)
PortReleased == close \in {"released", "joining", "done"} => io # "good"

=============================================================================
