------------------------------ MODULE TxSession ------------------------------
(***************************************************************************)
(* The write path of one connection: the TX sessions and their workers     *)
(* (src/src/tx_session.rs), the handlers of write and flush that use them  *)
(* (src/src/tools/io_ops.rs), the I/O lock they share with the RX pump     *)
(* and a reconnect (src/src/serial/connection.rs) and the close handler.   *)
(*                                                                         *)
(* Every server handler has a session map of its own: stdio builds one     *)
(* handler, HTTP one for each session or stateless request.  A session is  *)
(* named by the call that created it.                                      *)
(* A write reaches the port in two parts, as write_all may need.  The I/O  *)
(* lock is the fair queue of a tokio Mutex, its holder at the head.        *)
(* One call of reconnect() runs at a time, and again and again; who starts *)
(* it and how several overlap is the subject of SerialLink.                *)
(***************************************************************************)
EXTENDS Naturals, Sequences, FiniteSets

CONSTANTS
  Calls,     \* the calls of write and flush, and the sessions they create
  Handlers,  \* the server handlers that share the connection
  Requests,  \* what each call may ask for: <<call, handler, kind>>
  Capacity,  \* TX_CHANNEL_CAPACITY
  MaxLosses  \* bound on how often the device goes away

Kinds == {"write", "flush"}

ASSUME TxAssumption ==
  /\ Capacity \in Nat \ {0}
  /\ MaxLosses \in Nat
  /\ Handlers # {}
  /\ Requests \subseteq Calls \X Handlers \X Kinds
  /\ Calls \cap {"pump", "reconnect", "close"} = {}

VARIABLES
  pc,        \* where each call is, or how it was answered
  kind,      \* "write" or "flush"
  handler,   \* the handler each call runs in (a set: empty before)
  my,        \* the session each call has obtained
  sessions,  \* the session map of each handler
  sender,    \* sessions that still keep their Sender
  queue,     \* the channel of each session
  worker,    \* where the worker of each session is
  request,   \* the call each worker serves
  io_queue,  \* who holds (the head) or waits for the I/O lock
  io,        \* the handle is there
  closed,    \* SerialConnection.closed
  token,     \* close_token is cancelled
  state,     \* ConnectionState
  losses,    \* how often the device has gone away
  rc,        \* where the call of reconnect() is
  pump,      \* where the RX pump is
  close,     \* where the close handler is
  joining,   \* the session whose worker the close handler waits for
  wire,      \* history: what was handed to the port, in order
  order      \* history: the calls in the order their requests were queued

caller == <<pc, kind, handler, my>>
maps   == <<sessions, sender>>
conn   == <<io, closed, token, state, losses, rc>>
closer == <<close, joining>>
vars   == <<caller, maps, queue, worker, request, io_queue, conn, pump, closer, wire, order>>

Answers == {"ok", "closed", "failed"}

Init ==
  /\ pc = [c \in Calls |-> "new"]
  /\ kind = [c \in Calls |-> "write"]
  /\ handler = [c \in Calls |-> {}]
  /\ my = [c \in Calls |-> {}]
  /\ sessions = [h \in Handlers |-> {}]
  /\ sender = {}
  /\ queue = [s \in Calls |-> <<>>]
  /\ worker = [s \in Calls |-> "none"]
  /\ request = [s \in Calls |-> {}]
  /\ io_queue = <<>>
  /\ io = TRUE /\ closed = FALSE /\ token = FALSE
  /\ state = "Open" /\ losses = 0 /\ rc = "idle"
  /\ pump = "idle"
  /\ close = "idle" /\ joining = {}
  /\ wire = <<>>
  /\ order = <<>>

Goto(c, label) == pc' = [pc EXCEPT ![c] = label]
Holds(x) == io_queue # <<>> /\ Head(io_queue) = x
Unlock == io_queue' = Tail(io_queue)

-----------------------------------------------------------------------------
(* The handlers of write and flush.                                        *)

(* The connection is looked up in the registry.                            *)
Lookup(c, h, k) ==
  /\ pc[c] = "new"
  /\ close = "idle"
  /\ <<c, h, k>> \in Requests
  /\ Goto(c, "found")
  /\ kind' = [kind EXCEPT ![c] = k]
  /\ handler' = [handler EXCEPT ![c] = {h}]
  /\ UNCHANGED <<my, maps, queue, worker, request, io_queue, conn, pump, closer, wire, order>>

(* TxSessionManager::get_or_create: the handler's session, or a new one    *)
(* with a worker, even for a connection that was closed in the meantime.   *)
get_or_create(c) ==
  /\ pc[c] = "found"
  /\ Goto(c, "session")
  /\ \E h \in handler[c] :
       \/ /\ sessions[h] # {}
          /\ my' = [my EXCEPT ![c] = sessions[h]]
          /\ UNCHANGED <<maps, worker>>
       \/ /\ sessions[h] = {}
          /\ my' = [my EXCEPT ![c] = {c}]
          /\ sessions' = [sessions EXCEPT ![h] = {c}]
          /\ sender' = sender \cup {c}
          /\ worker' = [worker EXCEPT ![c] = "recv"]
  /\ UNCHANGED <<kind, handler, queue, request, io_queue, conn, pump, closer, wire, order>>

(* The Sender is cloned, unless a shutdown has taken it.                   *)
CloneSender(c) ==
  /\ pc[c] = "session"
  /\ Goto(c, IF my[c] \subseteq sender THEN "sending" ELSE "closed")
  /\ UNCHANGED <<kind, handler, my, maps, queue, worker, request, io_queue, conn, pump,
                 closer, wire, order>>

(* The request enters the channel once there is room.                      *)
Send(c) ==
  /\ pc[c] = "sending"
  /\ \E s \in my[c] :
       /\ worker[s] # "exited"
       /\ Len(queue[s]) < Capacity
       /\ queue' = [queue EXCEPT ![s] = Append(@, c)]
  /\ Goto(c, "waiting")
  /\ order' = Append(order, c)
  /\ UNCHANGED <<kind, handler, my, maps, worker, request, io_queue, conn, pump, closer, wire>>

(* The worker has dropped its Receiver: send fails.                        *)
SendFails(c) ==
  /\ pc[c] = "sending"
  /\ \E s \in my[c] : worker[s] = "exited"
  /\ Goto(c, "closed")
  /\ UNCHANGED <<kind, handler, my, maps, queue, worker, request, io_queue, conn, pump,
                 closer, wire, order>>

(* A handler goes away, with the HTTP request or session it was built for  *)
(* and with its session map; its calls are over by then.                   *)
DropHandler(h) ==
  /\ sessions[h] # {}
  /\ \A c \in Calls : h \in handler[c] => pc[c] \in Answers
  /\ sessions' = [sessions EXCEPT ![h] = {}]
  /\ sender' = sender \ sessions[h]
  /\ UNCHANGED <<caller, queue, worker, request, io_queue, conn, pump, closer, wire, order>>

-----------------------------------------------------------------------------
(* tx_worker.                                                              *)

WorkerAt(s, from, to) == worker[s] = from /\ worker' = [worker EXCEPT ![s] = to]

(* A request is received ...                                               *)
Recv(s) ==
  /\ WorkerAt(s, "recv", "serving")
  /\ queue[s] # <<>>
  /\ request' = [request EXCEPT ![s] = {Head(queue[s])}]
  /\ queue' = [queue EXCEPT ![s] = Tail(@)]
  /\ UNCHANGED <<caller, maps, io_queue, conn, pump, closer, wire, order>>

(* The session's Sender and every clone of it are gone.                    *)
Unreachable(s) ==
  s \notin sender /\ \A c \in Calls : s \in my[c] => pc[c] \notin {"sending", "waiting"}

(* Slip: the worker stops when its last Sender is gone, and only then.     *)
ExitWithoutToken(s) ==
  /\ WorkerAt(s, "recv", "exited")
  /\ queue[s] = <<>> /\ Unreachable(s)
  /\ UNCHANGED <<caller, maps, queue, request, io_queue, conn, pump, closer, wire, order>>

(* Slip: the worker stops and its channel stays open.                      *)
ExitKeepsReceiver(s) ==
  /\ WorkerAt(s, "recv", "exited")
  /\ token \/ (queue[s] = <<>> /\ Unreachable(s))
  /\ UNCHANGED <<caller, maps, queue, request, io_queue, conn, pump, closer, wire, order>>

(* ... or the worker ends: the Receiver goes and with it every queued      *)
(* request, whose caller finds its acknowledgement cancelled.              *)
Exit(s) ==
  /\ WorkerAt(s, "recv", "exited")
  /\ token \/ (queue[s] = <<>> /\ Unreachable(s))
  /\ pc' = [c \in Calls |-> IF \E i \in DOMAIN queue[s] : queue[s][i] = c
                              THEN "closed" ELSE pc[c]]
  /\ queue' = [queue EXCEPT ![s] = <<>>]
  /\ UNCHANGED <<kind, handler, my, maps, request, io_queue, conn, pump, closer, wire, order>>

(* The request is answered, and the next one awaited.                      *)
Answer(s, result) ==
  /\ pc' = [c \in Calls |-> IF c \in request[s] THEN result ELSE pc[c]]
  /\ request' = [request EXCEPT ![s] = {}]
  /\ worker' = [worker EXCEPT ![s] = "recv"]

(* write and flush_buffers look at the closed flag, ...                    *)
EnsureOpen(s) ==
  /\ worker[s] = "serving"
  /\ IF closed THEN Answer(s, "closed")
               ELSE WorkerAt(s, "serving", "checked") /\ UNCHANGED <<pc, request>>
  /\ UNCHANGED <<kind, handler, my, maps, queue, io_queue, conn, pump, closer, wire, order>>

(* ... then queue for the lock, which a close may have asked for since.    *)
LockIo(s) ==
  /\ WorkerAt(s, "checked", "locking")
  /\ io_queue' = Append(io_queue, s)
  /\ UNCHANGED <<caller, maps, queue, request, conn, pump, closer, wire, order>>

(* With the lock: the handle was taken by a close or after a loss.         *)
NoHandle(s) ==
  /\ worker[s] = "locking" /\ Holds(s)
  /\ ~io
  /\ Answer(s, "closed")
  /\ Unlock
  /\ UNCHANGED <<kind, handler, my, maps, queue, conn, pump, closer, wire, order>>

(* What a worker hands to the port.                                        *)
Emit(s, part) == \E c \in request[s] : wire' = Append(wire, <<c, part>>)
Serves(s, k) == \E c \in request[s] : kind[c] = k

(* Slip: the lock is given up between two parts of a write.                *)
WriteBeginUnlocks(s) ==
  /\ worker[s] = "locking" /\ Holds(s)
  /\ io /\ Serves(s, "write")
  /\ Emit(s, "first")
  /\ io_queue' = Append(Tail(io_queue), s)
  /\ WorkerAt(s, "locking", "writing")
  /\ UNCHANGED <<caller, maps, queue, request, conn, pump, closer, order>>

(* write_all: a first part, ...                                            *)
WriteBegin(s) ==
  /\ worker[s] = "locking" /\ Holds(s)
  /\ io /\ Serves(s, "write")
  /\ Emit(s, "first")
  /\ WorkerAt(s, "locking", "writing")
  /\ UNCHANGED <<caller, maps, queue, request, io_queue, conn, pump, closer, order>>

(* ... the rest, and the flush that makes it complete.                     *)
WriteEnd(s) ==
  /\ worker[s] = "writing" /\ Holds(s)
  /\ Emit(s, "rest")
  /\ Answer(s, "ok")
  /\ Unlock
  /\ UNCHANGED <<kind, handler, my, maps, queue, conn, pump, closer, order>>

(* clear_os_buffers(Output).                                               *)
Flush(s) ==
  /\ worker[s] = "locking" /\ Holds(s)
  /\ io /\ Serves(s, "flush")
  /\ Emit(s, "flush")
  /\ Answer(s, "ok")
  /\ Unlock
  /\ UNCHANGED <<kind, handler, my, maps, queue, conn, pump, closer, order>>

(* Slip: the error of the port is reported as a success.                   *)
IoFailsSilently(s) ==
  /\ worker[s] \in {"locking", "writing"} /\ Holds(s)
  /\ io
  /\ Answer(s, "ok")
  /\ Unlock
  /\ UNCHANGED <<kind, handler, my, maps, queue, conn, pump, closer, wire, order>>

(* Slip: a request that failed goes back to the end of the channel.        *)
IoFailsRequeues(s) ==
  /\ worker[s] \in {"locking", "writing"} /\ Holds(s)
  /\ io
  /\ \E c \in request[s] : queue' = [queue EXCEPT ![s] = Append(@, c)]
  /\ request' = [request EXCEPT ![s] = {}]
  /\ worker' = [worker EXCEPT ![s] = "recv"]
  /\ Unlock
  /\ UNCHANGED <<pc, kind, handler, my, maps, conn, pump, closer, wire, order>>

(* The port reports an error, before or after the first part.              *)
IoFails(s) ==
  /\ worker[s] \in {"locking", "writing"} /\ Holds(s)
  /\ io
  /\ Answer(s, "failed")
  /\ Unlock
  /\ UNCHANGED <<kind, handler, my, maps, queue, conn, pump, closer, wire, order>>

-----------------------------------------------------------------------------
(* The RX pump, whose read() takes the lock for one poll at a time.        *)

PumpLocks ==
  /\ pump = "idle"
  /\ IF token \/ closed
       THEN pump' = "exited" /\ UNCHANGED io_queue
       ELSE pump' = "polling" /\ io_queue' = Append(io_queue, "pump")
  /\ UNCHANGED <<caller, maps, queue, worker, request, conn, closer, wire, order>>

(* The poll ends with bytes, its timeout or the close token, and read()    *)
(* finds the handle gone.                                                  *)
PumpUnlocks ==
  /\ pump = "polling" /\ Holds("pump")
  /\ pump' = IF token \/ ~io THEN "exited" ELSE "idle"
  /\ Unlock
  /\ UNCHANGED <<caller, maps, queue, worker, request, conn, closer, wire, order>>

(* The read fails: the device is gone, or, with any other error, the pump  *)
(* exits.                                                                  *)
PumpFails ==
  /\ pump = "polling" /\ Holds("pump")
  /\ io
  /\ \/ pump' = "failing" /\ losses < MaxLosses /\ losses' = losses + 1
     \/ pump' = "exited" /\ UNCHANGED losses
  /\ Unlock
  /\ UNCHANGED <<caller, maps, queue, worker, request, io, closed, token, state, rc, closer,
                 wire, order>>

PumpAt(from, to) == pump = from /\ pump' = to

(* mark_disconnected sets the state, whatever it was, ...                  *)
MarkDisconnected ==
  /\ PumpAt("failing", "marking")
  /\ state' = "Disconnected"
  /\ UNCHANGED <<caller, maps, queue, worker, request, io_queue, io, closed, token, losses, rc, closer,
                 wire, order>>

(* ... queues for the lock ...                                             *)
LockDeadIo ==
  /\ PumpAt("marking", "taking")
  /\ io_queue' = Append(io_queue, "pump")
  /\ UNCHANGED <<caller, maps, queue, worker, request, conn, closer, wire, order>>

(* ... and takes the handle out, be it the dead one or a newer one.        *)
TakeDeadIo ==
  /\ PumpAt("taking", "pausing") /\ Holds("pump")
  /\ io' = FALSE
  /\ Unlock
  /\ UNCHANGED <<caller, maps, queue, worker, request, closed, token, state, losses, rc, closer, wire, order>>

(* The pause ends with a reconnect, a close or the removal of the session. *)
PauseEnds ==
  /\ \/ state = "Open" /\ PumpAt("pausing", "idle")
     \/ state = "Closed" /\ PumpAt("pausing", "exited")
     \/ close \in {"released", "joining", "done"} /\ PumpAt("pausing", "exited")
  /\ UNCHANGED <<caller, maps, queue, worker, request, io_queue, conn, closer, wire, order>>

-----------------------------------------------------------------------------
(* SerialConnection::reconnect.                                            *)

RcAt(from, to) == rc = from /\ rc' = to

(* The state is looked at: an open or closed connection is left alone.     *)
CheckState ==
  /\ RcAt("idle", "checked")
  /\ state \notin {"Open", "Closed"}
  /\ UNCHANGED <<caller, maps, queue, worker, request, io_queue, io, closed, token, state, losses, pump,
                 closer, wire, order>>

(* It is overwritten, with no second look.                                 *)
SetReconnecting ==
  /\ RcAt("checked", "building")
  /\ state' = "Reconnecting"
  /\ UNCHANGED <<caller, maps, queue, worker, request, io_queue, io, closed, token, losses, pump, closer,
                 wire, order>>

(* build_stream opens the device, and the lock of the handle is awaited,   *)
BuildStream ==
  /\ RcAt("building", "locking")
  /\ io_queue' = Append(io_queue, "reconnect")
  /\ UNCHANGED <<caller, maps, queue, worker, request, io, closed, token, state, losses, pump, closer,
                 wire, order>>

(* or it fails and the state is set back.                                  *)
BuildFails ==
  /\ RcAt("building", "idle")
  /\ state' = "Disconnected"
  /\ UNCHANGED <<caller, maps, queue, worker, request, io_queue, io, closed, token, losses, pump, closer,
                 wire, order>>

(* With the lock the handle is there again, the closed flag is down and    *)
(* the state is Open, also if a close has come between.                    *)
Install ==
  /\ RcAt("locking", "installed") /\ Holds("reconnect")
  /\ io' = TRUE
  /\ closed' = FALSE
  /\ state' = "Open"
  /\ Unlock
  /\ UNCHANGED <<caller, maps, queue, worker, request, token, losses, pump, closer, wire, order>>

(* The task that called was aborted while it waited for the lock; its turn *)
(* passes.                                                                 *)
ReconnectDropped ==
  /\ RcAt("locking", "idle") /\ Holds("reconnect")
  /\ Unlock
  /\ UNCHANGED <<caller, maps, queue, worker, request, io, closed, token, state, losses, pump, closer,
                 wire, order>>

(* The task has the pump started again, if it has exited and its session   *)
(* was still found in the map.                                             *)
EnsurePumpRunning ==
  /\ RcAt("installed", "idle")
  /\ \/ pump = "exited" /\ pump' = "idle"
     \/ (pump # "exited" \/ close \in {"joining", "done"}) /\ UNCHANGED pump
  /\ UNCHANGED <<caller, maps, queue, worker, request, io_queue, io, closed, token, state, losses, closer,
                 wire, order>>

-----------------------------------------------------------------------------
(* The close handler, which runs in one of the handlers.                   *)

CloseAt(from, to) == close = from /\ close' = to

Unregister ==
  /\ CloseAt("idle", "unregistered")
  /\ UNCHANGED <<caller, maps, queue, worker, request, io_queue, conn, pump, joining, wire, order>>

(* SerialConnection::close raises the flag, ...                            *)
RaiseClosed ==
  /\ CloseAt("unregistered", "flagged")
  /\ closed' = TRUE
  /\ UNCHANGED <<caller, maps, queue, worker, request, io_queue, io, token, state, losses, rc, pump,
                 joining, wire, order>>

(* ... sets the state, cancels the token and queues for the lock, ...      *)
CancelToken ==
  /\ CloseAt("flagged", "locking")
  /\ state' = "Closed"
  /\ token' = TRUE
  /\ io_queue' = Append(io_queue, "close")
  /\ UNCHANGED <<caller, maps, queue, worker, request, io, closed, losses, rc, pump, joining, wire,
                 order>>

(* ... and takes the handle; an error returns with the sessions in place.  *)
TakeIo ==
  /\ Holds("close")
  /\ CloseAt("locking", "released") \/ (io /\ CloseAt("locking", "failed"))
  /\ io' = FALSE
  /\ Unlock
  /\ UNCHANGED <<caller, maps, queue, worker, request, closed, token, state, losses, rc, pump, joining, wire,
                 order>>

(* The RX session is removed and its pump joined; then                     *)
(* TxSessionManager::remove on the handler's own map: the session leaves   *)
(* it and its Sender is dropped ...                                        *)
RemoveSession(h) ==
  /\ CloseAt("released", "joining")
  /\ pump = "exited"
  /\ sessions' = [sessions EXCEPT ![h] = {}]
  /\ sender' = sender \ sessions[h]
  /\ joining' = sessions[h]
  /\ UNCHANGED <<caller, queue, worker, request, io_queue, conn, pump, wire, order>>

(* ... to wait for its worker.                                             *)
JoinWorker ==
  /\ CloseAt("joining", "done")
  /\ \A s \in joining : worker[s] = "exited"
  /\ joining' = {}
  /\ UNCHANGED <<caller, maps, queue, worker, request, io_queue, conn, pump, wire, order>>

-----------------------------------------------------------------------------
CallStep(c) == get_or_create(c) \/ CloneSender(c) \/ Send(c) \/ SendFails(c)

WorkerStep(s) ==
  \/ Recv(s) \/ Exit(s) \/ EnsureOpen(s) \/ LockIo(s) \/ NoHandle(s)
  \/ WriteBegin(s) \/ WriteEnd(s) \/ Flush(s) \/ IoFails(s)

PumpStep ==
  \/ PumpLocks \/ PumpUnlocks \/ PumpFails
  \/ MarkDisconnected \/ LockDeadIo \/ TakeDeadIo \/ PauseEnds

ReconnectStep ==
  SetReconnecting \/ BuildStream \/ BuildFails \/ Install \/ ReconnectDropped \/ EnsurePumpRunning

CloseStep ==
  \/ RaiseClosed \/ CancelToken \/ TakeIo \/ JoinWorker
  \/ \E h \in Handlers : RemoveSession(h)

Next ==
  \/ \E c \in Calls : \/ \E h \in Handlers, k \in Kinds : Lookup(c, h, k)
                      \/ CallStep(c)
  \/ \E s \in Calls : WorkerStep(s)
  \/ \E h \in Handlers : DropHandler(h)
  \/ PumpStep
  \/ CheckState \/ ReconnectStep
  \/ Unregister \/ CloseStep

Spec == Init /\ [][Next]_vars

(* Tasks run on, polls time out, and a write that has the port ends, with  *)
(* success or an error.  Nobody has to call close, to leave, or to try a   *)
(* reconnect.                                                              *)
Fairness ==
  /\ \A c \in Calls : WF_vars(CallStep(c)) /\ WF_vars(WorkerStep(c))
  /\ WF_vars(PumpStep)
  /\ WF_vars(ReconnectStep)
  /\ WF_vars(CloseStep)

FairSpec == Spec /\ Fairness

-----------------------------------------------------------------------------
(* Properties.                                                             *)

TypeOK ==
  /\ pc \in [Calls -> {"new", "found", "session", "sending", "waiting"} \cup Answers]
  /\ kind \in [Calls -> Kinds]
  /\ handler \in [Calls -> SUBSET Handlers]
  /\ my \in [Calls -> SUBSET Calls]
  /\ sessions \in [Handlers -> SUBSET Calls]
  /\ sender \subseteq Calls
  /\ queue \in [Calls -> Seq(Calls)]
  /\ \A s \in Calls : Len(queue[s]) <= Capacity
  /\ worker \in [Calls -> {"none", "recv", "serving", "checked", "locking", "writing", "exited"}]
  /\ request \in [Calls -> SUBSET Calls]
  /\ io_queue \in Seq(Calls \cup {"pump", "reconnect", "close"})
  /\ {io, closed, token} \subseteq BOOLEAN
  /\ state \in {"Open", "Disconnected", "Reconnecting", "Closed"}
  /\ rc \in {"idle", "checked", "building", "locking", "installed"}
  /\ pump \in {"idle", "polling", "failing", "marking", "taking", "pausing", "exited"}
  /\ close \in {"idle", "unregistered", "flagged", "locking", "released", "failed",
                "joining", "done"}
  /\ joining \subseteq Calls
  /\ wire \in Seq(Calls \X {"first", "rest", "flush"})
  /\ order \in Seq(Calls)

Places(c, part) == {i \in DOMAIN wire : wire[i] = <<c, part>>}
Untouched(c) == \A part \in {"first", "rest", "flush"} : Places(c, part) = {}

(* An answer can be relied upon, whatever close, shutdown or second        *)
(* session comes between: a write answered Ok is on the wire once and      *)
(* whole, and one answered ConnectionClosed never touched the port, so a   *)
(* client may repeat it.                                                   *)
AnswersTruthful ==
  \A c \in Calls :
    /\ pc[c] = "ok" /\ kind[c] = "write" =>
         Cardinality(Places(c, "first")) = 1 /\ Cardinality(Places(c, "rest")) = 1
    /\ pc[c] = "ok" /\ kind[c] = "flush" => Cardinality(Places(c, "flush")) = 1
    /\ pc[c] = "closed" => Untouched(c)

(* Writes are not interleaved, even between handlers with a worker each:   *)
(* the rest of a write directly follows its first part.                    *)
WritesWhole ==
  \A c \in Calls : \A i \in Places(c, "rest") : i - 1 \in Places(c, "first")

(* "Serialized write and flush operations": a session serves its requests  *)
(* in the order they were queued, so a flush discards no later write and   *)
(* misses no earlier one.                                                  *)
Serialized ==
  \A i, j \in DOMAIN order :
    i < j /\ my[order[i]] = my[order[j]] /\ ~Untouched(order[j]) => pc[order[i]] \in Answers

(* Nobody waits for a worker that is gone: a call whose request was queued *)
(* is in the channel or in the hands of a worker that still runs, whatever *)
(* shut the session down or dropped its handler since.                     *)
WaitersServed ==
  \A c \in Calls : pc[c] = "waiting" =>
    \E s \in my[c] : /\ worker[s] \notin {"none", "exited"}
                     /\ c \in request[s] \/ \E i \in DOMAIN queue[s] : queue[s][i] = c

(* The close has taken the handle and nobody is left to bring it back: no  *)
(* call of reconnect() is under way, and the state, which no pump is about *)
(* to overwrite, lets none begin.                                          *)
Sealed ==
  /\ close \in {"released", "failed", "joining", "done"} /\ ~io
  /\ state = "Closed"
  /\ pump # "failing"
  /\ rc \in {"idle", "installed"}

(* A closed connection stays closed and nothing more reaches its port, in  *)
(* any handler, whatever calls, workers and pump were doing: a write in    *)
(* progress has ended before, or never begins.  A reconnect that was past  *)
(* its check when the close came is the exception: it brings the handle    *)
(* back, and a queued write may follow.                                    *)
QuietAfterClose == [][Sealed => Sealed' /\ UNCHANGED wire]_vars

(* Every call is answered, also by a worker that goes away with requests   *)
(* in its channel or callers waiting for room in it.  A call is used once, *)
(* so finally each has its answer or was never made.                       *)
CallsAnswered == <>[]\A c \in Calls : pc[c] \in {"new"} \cup Answers

(* After a close no worker is left, in any handler, and the close itself   *)
(* returns.  A close is never taken back, so finally this is so for good   *)
(* or there never is one.                                                  *)
Stopped ==
  /\ close \in {"failed", "done"}
  /\ \A s \in Calls : worker[s] \in {"none", "exited"}

CloseStopsWorkers == <>[](close = "idle" \/ Stopped)

=============================================================================
