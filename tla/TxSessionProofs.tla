--------------------------- MODULE TxSessionProofs ---------------------------
(***************************************************************************)
(* Writes reach the port whole, calls are answered truthfully, writes of   *)
(* one session reach the port in the order they were queued, nobody waits  *)
(* for a worker that is gone and a close ends all output, for any number   *)
(* of calls, handlers and any channel capacity.                            *)
(*                                                                         *)
(* WritesWhole is not inductive: that the rest of a write follows its      *)
(* first part needs that the worker in the middle of a write holds the I/O *)
(* lock, that its first part is the last thing on the wire, and that it    *)
(* serves exactly one request.  The answers rest on where a waiting call   *)
(* is: in exactly one channel or in the hands of exactly one worker, and   *)
(* not on the wire before its turn (RouteInvariant).  The order rests on   *)
(* that the calls queued earlier are ahead of it there (Ordered).          *)
(* That a waiting call has a worker rests on that a channel with a request *)
(* in it has one (Manned), and the silence after a close on that the       *)
(* worker in the middle of a write has the handle under it (HandleHeld).   *)
(***************************************************************************)
EXTENDS TxSession, FiniteSetTheorems, TLAPS

Lockers == Calls \cup {"pump", "reconnect", "close"}
Parts   == {"first", "rest", "flush"}
Busy    == {"serving", "checked", "locking", "writing"}

(* The part of TypeOK that the argument needs.                             *)
Typed ==
  /\ queue \in [Calls -> Seq(Calls)]
  /\ worker \in [Calls -> {"none", "recv", "serving", "checked", "locking", "writing", "exited"}]
  /\ request \in [Calls -> SUBSET Calls]
  /\ io_queue \in Seq(Lockers)
  /\ wire \in Seq(Calls \X Parts)

(* A busy worker serves exactly one request.                               *)
OneRequest == \A s \in Calls : worker[s] \in Busy => \E c \in Calls : request[s] = {c}

(* A worker in the middle of a write has the lock, and the first part of   *)
(* its request is the last thing on the wire.                              *)
MidWrite ==
  \A s \in Calls : worker[s] = "writing" =>
    /\ Holds(s)
    /\ wire # <<>>
    /\ \E c \in Calls : request[s] = {c} /\ wire[Len(wire)] = <<c, "first">>

(* WritesWhole by positions.                                               *)
RestFollows ==
  \A i \in 1..Len(wire) : \A c \in Calls :
    wire[i] = <<c, "rest">> => i - 1 \in 1..Len(wire) /\ wire[i - 1] = <<c, "first">>

TxInvariant == Typed /\ OneRequest /\ MidWrite /\ RestFollows

LEMMA InvariantSuffices == TxInvariant => WritesWhole
<1> SUFFICES ASSUME TxInvariant, NEW c \in Calls, NEW i \in Places(c, "rest")
             PROVE  i - 1 \in Places(c, "first")
  BY DEF WritesWhole
<1>1. wire \in Seq(Calls \X Parts)
  BY DEF TxInvariant, Typed
<1>2. DOMAIN wire = 1..Len(wire)
  BY <1>1
<1>3. i \in 1..Len(wire) /\ wire[i] = <<c, "rest">>
  BY <1>2 DEF Places
<1>4. i - 1 \in 1..Len(wire) /\ wire[i - 1] = <<c, "first">>
  BY <1>3 DEF TxInvariant, RestFollows
<1> QED BY <1>2, <1>4 DEF Places

LEMMA TxInit == Init => TxInvariant
BY DEF Init, TxInvariant, Typed, OneRequest, MidWrite, RestFollows, Busy

(* Appending to a sequence of which the head is known keeps that head.     *)
LEMMA HeadAppend ==
  ASSUME NEW S, NEW q \in Seq(S), NEW x \in S
  PROVE  /\ Append(q, x) \in Seq(S) /\ Append(q, x) # <<>>
         /\ q # <<>> => Head(Append(q, x)) = Head(q)
<1>1. Append(q, x) \in Seq(S) /\ Len(Append(q, x)) = Len(q) + 1 /\ Len(q) \in Nat
  OBVIOUS
<1>2. Append(q, x) # <<>>
  BY <1>1
<1>3. ASSUME q # <<>> PROVE Head(Append(q, x)) = Head(q)
  <2>1. Len(q) # 0
    BY <1>3
  <2>2. 1 \in 1..Len(q)
    BY <1>1, <2>1
  <2>3. Append(q, x)[1] = q[1]
    BY <2>2
  <2> QED BY <1>1, <1>2, <1>3, <2>3
<1> QED BY <1>1, <1>2, <1>3

(* Steps that leave workers, lock and wire alone.                          *)
LEMMA Elsewhere ==
  ASSUME TxInvariant, UNCHANGED <<worker, request, io_queue, wire>>,
         queue' \in [Calls -> Seq(Calls)]
  PROVE  TxInvariant'
BY DEF TxInvariant, Typed, OneRequest, MidWrite, RestFollows, Holds

(* Another party queues for the lock.                                      *)
LEMMA Queued ==
  ASSUME TxInvariant, NEW x \in Lockers, io_queue' = Append(io_queue, x),
         UNCHANGED <<worker, request, queue, wire>>
  PROVE  TxInvariant'
<1>1. io_queue \in Seq(Lockers)
  BY DEF TxInvariant, Typed
<1>2. io_queue' \in Seq(Lockers) /\ io_queue' # <<>>
      /\ (io_queue # <<>> => Head(io_queue') = Head(io_queue))
  BY <1>1, HeadAppend
<1> QED BY <1>2 DEF TxInvariant, Typed, OneRequest, MidWrite, RestFollows, Holds

(* The party x other than a worker gives the lock up.                      *)
LEMMA Unlocked ==
  ASSUME TxInvariant, NEW x, x \notin Calls, Holds(x), Unlock,
         UNCHANGED <<worker, request, queue, wire>>
  PROVE  TxInvariant'
<1>1. \A s \in Calls : worker[s] # "writing"
  BY DEF TxInvariant, MidWrite, Holds
<1>2. io_queue' \in Seq(Lockers)
  BY DEF TxInvariant, Typed, Unlock, Holds
<1> QED BY <1>1, <1>2 DEF TxInvariant, Typed, OneRequest, MidWrite, RestFollows

(* The worker that holds the lock is the only one in the middle of a write.*)
LEMMA OnlyWriter ==
  ASSUME TxInvariant, NEW s \in Calls, Holds(s)
  PROVE  \A t \in Calls \ {s} : worker[t] # "writing"
BY DEF TxInvariant, MidWrite, Holds

(* What a worker that holds the lock appends to the wire keeps the order   *)
(* of parts, if a rest follows its first part.                             *)
LEMMA WireGrows ==
  ASSUME TxInvariant, NEW c \in Calls, NEW part \in Parts, wire' = Append(wire, <<c, part>>),
         part = "rest" => wire # <<>> /\ wire[Len(wire)] = <<c, "first">>
  PROVE  /\ wire' \in Seq(Calls \X Parts) /\ wire' # <<>>
         /\ wire'[Len(wire')] = <<c, part>>
         /\ RestFollows'
<1>1. wire \in Seq(Calls \X Parts) /\ Len(wire) \in Nat /\ <<c, part>> \in Calls \X Parts
  BY DEF TxInvariant, Typed
<1>2. /\ wire' \in Seq(Calls \X Parts) /\ Len(wire') = Len(wire) + 1
      /\ wire'[Len(wire) + 1] = <<c, part>>
      /\ \A i \in 1..Len(wire) : wire'[i] = wire[i]
  BY <1>1
<1>3. wire' # <<>>
  BY <1>1, <1>2
<1>4. ASSUME NEW i \in 1..(Len(wire) + 1), NEW d \in Calls, wire'[i] = <<d, "rest">>
      PROVE  i - 1 \in 1..(Len(wire) + 1) /\ wire'[i - 1] = <<d, "first">>
  <2>1. CASE i <= Len(wire)
    <3>1. i \in 1..Len(wire) /\ wire[i] = <<d, "rest">>
      BY <1>1, <1>2, <1>4, <2>1
    <3>2. i - 1 \in 1..Len(wire) /\ wire[i - 1] = <<d, "first">>
      BY <3>1 DEF TxInvariant, RestFollows
    <3> QED BY <1>1, <1>2, <3>2
  <2>2. CASE i = Len(wire) + 1
    <3>1. d = c /\ part = "rest"
      BY <1>2, <1>4, <2>2
    <3>2. Len(wire) \in 1..Len(wire) /\ wire[Len(wire)] = <<c, "first">>
      BY <1>1, <3>1
    <3> QED BY <1>1, <1>2, <2>2, <3>1, <3>2
  <2> QED BY <1>1, <2>1, <2>2
<1> QED BY <1>1, <1>2, <1>3, <1>4 DEF RestFollows

(* A worker that holds the lock answers its request and gives the lock up. *)
LEMMA Answered ==
  ASSUME TxInvariant, NEW s \in Calls, NEW result, Holds(s), Answer(s, result), Unlock,
         wire' \in Seq(Calls \X Parts), RestFollows', UNCHANGED queue
  PROVE  TxInvariant'
<1>1. \A t \in Calls : worker'[t] # "writing"
  BY OnlyWriter DEF Answer, TxInvariant, Typed
<1>2. io_queue' \in Seq(Lockers)
  BY DEF TxInvariant, Typed, Unlock, Holds
<1>3. Typed'
  BY <1>2 DEF TxInvariant, Typed, Answer
<1>4. OneRequest'
  BY DEF TxInvariant, Typed, OneRequest, Answer, Busy
<1> QED BY <1>1, <1>3, <1>4 DEF TxInvariant, MidWrite

LEMMA TxWorkerStep ==
  ASSUME TxInvariant, NEW s \in Calls, WorkerStep(s)
  PROVE  TxInvariant'
<1> USE DEF WorkerAt
<1>0. wire \in Seq(Calls \X Parts) /\ io_queue \in Seq(Lockers) /\ RestFollows
      /\ worker \in [Calls -> {"none", "recv", "serving", "checked", "locking", "writing", "exited"}]
  BY DEF TxInvariant, Typed
<1>1. CASE Recv(s)
  <2>1. Head(queue[s]) \in Calls /\ queue' \in [Calls -> Seq(Calls)]
    BY <1>1 DEF Recv, TxInvariant, Typed
  <2>2. /\ worker' = [worker EXCEPT ![s] = "serving"]
        /\ request' = [request EXCEPT ![s] = {Head(queue[s])}]
        /\ worker[s] = "recv" /\ UNCHANGED <<io_queue, wire>>
    BY <1>1 DEF Recv
  <2>3. Typed'
    BY <2>1, <2>2 DEF TxInvariant, Typed
  <2>4. /\ request'[s] = {Head(queue[s])}
        /\ \A t \in Calls \ {s} : request'[t] = request[t] /\ worker'[t] = worker[t]
        /\ worker'[s] = "serving"
    BY <2>2 DEF TxInvariant, Typed
  <2>5. OneRequest'
    BY <2>1, <2>4 DEF TxInvariant, OneRequest
  <2>6. MidWrite'
    BY <2>2, <2>4 DEF TxInvariant, MidWrite, Holds
  <2>7. RestFollows'
    BY <1>0, <2>2 DEF RestFollows
  <2> QED BY <2>3, <2>5, <2>6, <2>7 DEF TxInvariant
<1>2. CASE Exit(s)
  <2>1. queue' \in [Calls -> Seq(Calls)]
    BY <1>2 DEF Exit, TxInvariant, Typed
  <2> QED BY <1>2, <2>1 DEF Exit, TxInvariant, Typed, OneRequest, MidWrite, RestFollows, Holds, Busy
<1>3. CASE EnsureOpen(s)
  <2>0. UNCHANGED <<queue, wire, io_queue>> /\ worker[s] = "serving"
    BY <1>3 DEF EnsureOpen
  <2>1. CASE Answer(s, "closed")
    BY <2>0, <2>1 DEF Answer, TxInvariant, Typed, OneRequest, MidWrite, RestFollows, Holds, Busy
  <2>2. CASE worker' = [worker EXCEPT ![s] = "checked"] /\ UNCHANGED request
    BY <2>0, <2>2 DEF TxInvariant, Typed, OneRequest, MidWrite, RestFollows, Holds, Busy
  <2> QED BY <1>3, <2>1, <2>2 DEF EnsureOpen
<1>4. CASE LockIo(s)
  <2>1. /\ worker' = [worker EXCEPT ![s] = "locking"] /\ worker[s] = "checked"
        /\ io_queue' = Append(io_queue, s) /\ UNCHANGED <<queue, request, wire>>
    BY <1>4 DEF LockIo
  <2>2. io_queue' \in Seq(Lockers) /\ io_queue' # <<>>
        /\ (io_queue # <<>> => Head(io_queue') = Head(io_queue))
    <3>1. s \in Lockers
      BY DEF Lockers
    <3> QED BY <1>0, <2>1, <3>1, HeadAppend
  <2> QED BY <2>1, <2>2
       DEF TxInvariant, Typed, OneRequest, MidWrite, RestFollows, Holds, Busy
<1>5. CASE NoHandle(s)
  <2>1. RestFollows'
    BY <1>0, <1>5 DEF NoHandle, RestFollows
  <2> QED BY <1>0, <1>5, <2>1, Answered DEF NoHandle
<1>6. CASE WriteBegin(s)
  <2>1. PICK c \in Calls : request[s] = {c}
    BY <1>6 DEF WriteBegin, TxInvariant, OneRequest, Busy
  <2>2. wire' = Append(wire, <<c, "first">>)
    BY <1>6, <2>1 DEF WriteBegin, Emit
  <2>3. /\ wire' \in Seq(Calls \X Parts) /\ wire' # <<>> /\ RestFollows'
        /\ wire'[Len(wire')] = <<c, "first">>
    BY <2>2, WireGrows DEF Parts
  <2>4. \A t \in Calls \ {s} : worker[t] # "writing"
    BY <1>6, OnlyWriter DEF WriteBegin
  <2>5. /\ worker' = [worker EXCEPT ![s] = "writing"] /\ worker[s] = "locking" /\ Holds(s)
        /\ UNCHANGED <<queue, request, io_queue>>
    BY <1>6 DEF WriteBegin
  <2>6. Typed'
    BY <2>3, <2>5 DEF TxInvariant, Typed
  <2>7. OneRequest'
    BY <2>1, <2>5 DEF TxInvariant, OneRequest, Busy
  <2>8. MidWrite'
    BY <1>0, <2>1, <2>3, <2>4, <2>5 DEF MidWrite, Holds
  <2> QED BY <2>3, <2>6, <2>7, <2>8 DEF TxInvariant
<1>7. CASE WriteEnd(s)
  <2>1. PICK c \in Calls : request[s] = {c} /\ wire # <<>> /\ wire[Len(wire)] = <<c, "first">>
    BY <1>7 DEF WriteEnd, TxInvariant, MidWrite
  <2>2. wire' = Append(wire, <<c, "rest">>)
    BY <1>7, <2>1 DEF WriteEnd, Emit
  <2>3. wire' \in Seq(Calls \X Parts) /\ RestFollows'
    BY <2>1, <2>2, WireGrows DEF Parts
  <2> QED BY <1>7, <2>3, Answered DEF WriteEnd
<1>8. CASE Flush(s)
  <2>1. PICK c \in Calls : request[s] = {c}
    BY <1>8 DEF Flush, TxInvariant, OneRequest, Busy
  <2>2. wire' = Append(wire, <<c, "flush">>)
    BY <1>8, <2>1 DEF Flush, Emit
  <2>3. wire' \in Seq(Calls \X Parts) /\ RestFollows'
    BY <2>2, WireGrows DEF Parts
  <2> QED BY <1>8, <2>3, Answered DEF Flush
<1>9. CASE IoFails(s)
  <2>1. RestFollows'
    BY <1>0, <1>9 DEF IoFails, RestFollows
  <2> QED BY <1>0, <1>9, <2>1, Answered DEF IoFails
<1> QED BY <1>1, <1>2, <1>3, <1>4, <1>5, <1>6, <1>7, <1>8, <1>9 DEF WorkerStep

LEMMA TxCallStep ==
  ASSUME TxInvariant, NEW c \in Calls,
         CallStep(c) \/ \E h \in Handlers, k \in Kinds : Lookup(c, h, k)
  PROVE  TxInvariant'
<1>1. CASE \E h \in Handlers, k \in Kinds : Lookup(c, h, k)
  BY <1>1, Elsewhere DEF Lookup, TxInvariant, Typed
<1>2. CASE get_or_create(c)
  <2>1. /\ UNCHANGED <<queue, request, io_queue, wire>>
        /\ UNCHANGED worker \/ worker' = [worker EXCEPT ![c] = "recv"]
    BY <1>2 DEF get_or_create
  <2>2. CASE UNCHANGED worker
    BY <2>1, <2>2, Elsewhere DEF TxInvariant, Typed
  <2>3. CASE worker' = [worker EXCEPT ![c] = "recv"]
    <3>1. Typed'
      BY <2>1, <2>3 DEF TxInvariant, Typed
    <3>2. \A s \in Calls : worker'[s] \in Busy => s # c /\ worker'[s] = worker[s]
      BY <2>3 DEF TxInvariant, Typed, Busy
    <3>3. OneRequest'
      BY <2>1, <3>2 DEF TxInvariant, OneRequest, Busy
    <3>4. MidWrite'
      BY <2>1, <3>2 DEF TxInvariant, MidWrite, Holds, Busy
    <3>5. RestFollows'
      BY <2>1 DEF TxInvariant, RestFollows
    <3> QED BY <3>1, <3>3, <3>4, <3>5 DEF TxInvariant
  <2> QED BY <2>1, <2>2, <2>3
<1>3. CASE CloneSender(c) \/ SendFails(c)
  BY <1>3, Elsewhere DEF CloneSender, SendFails, TxInvariant, Typed
<1>4. CASE Send(c)
  <2>1. queue' \in [Calls -> Seq(Calls)]
    <3>1. PICK s : queue' = [queue EXCEPT ![s] = Append(queue[s], c)]
      BY <1>4 DEF Send
    <3>2. queue \in [Calls -> Seq(Calls)]
      BY DEF TxInvariant, Typed
    <3>3. CASE s \in Calls
      <4>1. Append(queue[s], c) \in Seq(Calls)
        BY <3>2, <3>3
      <4> QED BY <3>1, <3>2, <4>1
    <3>4. CASE s \notin Calls
      BY <3>1, <3>2, <3>4
    <3> QED BY <3>3, <3>4
  <2> QED BY <1>4, <2>1, Elsewhere DEF Send
<1> QED BY <1>1, <1>2, <1>3, <1>4 DEF CallStep

(* The pump and a reconnect.                                               *)
LinkStep == PumpStep \/ CheckState \/ ReconnectStep

(* They leave calls, sessions, workers and the wire alone.                 *)
LEMMA LinkLeaves ==
  LinkStep => UNCHANGED <<pc, kind, handler, my, sessions, sender, queue, worker, request,
                          close, joining, wire, order>>
BY DEF LinkStep, PumpStep, PumpLocks, PumpUnlocks, PumpFails, MarkDisconnected, LockDeadIo, TakeDeadIo,
       PauseEnds, CheckState, ReconnectStep, SetReconnecting, BuildStream, BuildFails, Install,
       ReconnectDropped, EnsurePumpRunning, caller, maps, closer

(* With the lock they queue, give it up, or have nothing to do.            *)
LEMMA LinkLocks ==
  ASSUME LinkStep
  PROVE  \/ UNCHANGED io_queue
         \/ \E x \in {"pump", "reconnect"} :
              io_queue' = Append(io_queue, x) \/ (Holds(x) /\ Unlock)
<1>1. CASE PumpStep
  BY <1>1 DEF PumpStep, PumpLocks, PumpUnlocks, PumpFails, MarkDisconnected, LockDeadIo, TakeDeadIo,
              PauseEnds
<1>2. CASE CheckState \/ ReconnectStep
  BY <1>2 DEF CheckState, ReconnectStep, SetReconnecting, BuildStream, BuildFails, Install,
              ReconnectDropped, EnsurePumpRunning
<1> QED BY <1>1, <1>2 DEF LinkStep

LEMMA TxOtherStep ==
  ASSUME TxInvariant,
         (\E h \in Handlers : DropHandler(h)) \/ LinkStep \/ Unregister \/ CloseStep
  PROVE  TxInvariant'
<1>0. queue \in [Calls -> Seq(Calls)] /\ {"pump", "reconnect", "close"} \cap Calls = {}
  BY TxAssumption DEF TxInvariant, Typed
<1>1. CASE LinkStep
  <2>1. UNCHANGED <<worker, request, queue, wire>>
    BY <1>1, LinkLeaves
  <2>2. CASE UNCHANGED io_queue
    BY <1>0, <2>1, <2>2, Elsewhere
  <2>3. ASSUME NEW x \in {"pump", "reconnect"}, io_queue' = Append(io_queue, x)
        PROVE  TxInvariant'
    BY <2>1, <2>3, Queued DEF Lockers
  <2>4. ASSUME NEW x \in {"pump", "reconnect"}, Holds(x), Unlock
        PROVE  TxInvariant'
    BY <1>0, <2>1, <2>4, Unlocked
  <2> QED BY <1>1, <2>2, <2>3, <2>4, LinkLocks
<1>2. CASE CancelToken
  BY <1>2, Queued DEF CancelToken, Lockers
<1>3. CASE TakeIo
  BY <1>0, <1>3, Unlocked DEF TakeIo
<1>4. CASE Unregister \/ RaiseClosed \/ JoinWorker \/ \E h \in Handlers : RemoveSession(h)
  BY <1>0, <1>4, Elsewhere DEF Unregister, RaiseClosed, JoinWorker, RemoveSession
<1>5. CASE \E h \in Handlers : DropHandler(h)
  BY <1>0, <1>5, Elsewhere DEF DropHandler
<1> QED BY <1>1, <1>2, <1>3, <1>4, <1>5 DEF CloseStep

LEMMA TxStep == TxInvariant /\ [Next]_vars => TxInvariant'
<1> SUFFICES ASSUME TxInvariant, [Next]_vars PROVE TxInvariant'
  OBVIOUS
<1>1. CASE UNCHANGED vars
  BY <1>1, Elsewhere DEF vars, TxInvariant, Typed
<1> QED BY <1>1, TxCallStep, TxWorkerStep, TxOtherStep DEF Next, LinkStep

(* No two writes are ever interleaved on the wire: the rest of a write     *)
(* directly follows its first part, although every handler has a worker of *)
(* its own and workers are created while others still write.               *)
THEOREM WritesWholeCorrect == Spec => []WritesWhole
BY TxInit, TxStep, InvariantSuffices, PTL DEF Spec

-----------------------------------------------------------------------------
(* Where a request is: in the channel of its session, with the worker, or  *)
(* answered.  What it has put on the wire goes with that.                  *)

Callers == {"new", "found", "session", "sending", "waiting", "ok", "closed", "failed"}

CallersTyped ==
  /\ pc \in [Calls -> Callers]
  /\ kind \in [Calls -> {"write", "flush"}]
  /\ handler \in [Calls -> SUBSET Handlers]
  /\ my \in [Calls -> SUBSET Calls]
  /\ sessions \in [Handlers -> SUBSET Calls]
  /\ order \in Seq(Calls)

InChannel(s, c) == \E i \in 1..Len(queue[s]) : queue[s][i] = c
Emitted(c) == {part \in Parts : \E i \in 1..Len(wire) : wire[i] = <<c, part>>}

(* A handler has at most one session, and a call uses one.                 *)
SessionsSingle ==
  /\ \A h \in Handlers : sessions[h] = {} \/ \E s \in Calls : sessions[h] = {s}
  /\ \A c \in Calls : pc[c] \in {"session", "sending", "waiting"} => \E s \in Calls : my[c] = {s}

(* A worker begins with the call it is named after, and an idle one has no *)
(* request.                                                                *)
WorkersIdle ==
  /\ \A c \in Calls : pc[c] \in {"new", "found"} => worker[c] = "none"
  /\ \A s \in Calls : worker[s] \notin Busy => request[s] = {}

(* A call waits exactly while its request is with its session, and there   *)
(* is only one of it.                                                      *)
Located ==
  /\ \A s, c \in Calls : InChannel(s, c) \/ c \in request[s] => pc[c] = "waiting" /\ my[c] = {s}
  /\ \A c \in Calls : pc[c] = "waiting" =>
       \E s \in Calls : my[c] = {s} /\ (InChannel(s, c) \/ c \in request[s])
  /\ \A s, c \in Calls : ~ (InChannel(s, c) /\ c \in request[s])
  /\ \A s \in Calls : \A i, j \in 1..Len(queue[s]) : queue[s][i] = queue[s][j] => i = j

(* What a call has put on the wire, and nothing twice.                     *)
OnWire ==
  /\ \A i, j \in 1..Len(wire) : wire[i] = wire[j] => i = j
  /\ \A c \in Calls :
       /\ pc[c] \in {"new", "found", "session", "sending", "closed"} => Emitted(c) = {}
       /\ pc[c] = "ok" /\ kind[c] = "write" => Emitted(c) = {"first", "rest"}
       /\ pc[c] = "ok" /\ kind[c] = "flush" => Emitted(c) = {"flush"}
  /\ \A s, c \in Calls :
       /\ InChannel(s, c) => Emitted(c) = {}
       /\ c \in request[s] /\ worker[s] # "writing" => Emitted(c) = {}
       /\ c \in request[s] /\ worker[s] = "writing" => Emitted(c) = {"first"} /\ kind[c] = "write"

RouteInvariant ==
  TxInvariant /\ CallersTyped /\ SessionsSingle /\ WorkersIdle /\ Located /\ OnWire

(* Of two requests of a session that are not answered, the one that was    *)
(* queued first is served first.                                           *)
Ahead(s, a, b) ==
  \/ a \in request[s] /\ InChannel(s, b)
  \/ \E i, j \in 1..Len(queue[s]) : i < j /\ queue[s][i] = a /\ queue[s][j] = b

Ordered ==
  /\ \A i \in 1..Len(order) : pc[order[i]] \in {"waiting"} \cup Answers
  /\ \A i, j \in 1..Len(order) : i < j /\ pc[order[i]] = "waiting" =>
       \A s \in Calls : my[order[i]] = {s} /\ my[order[j]] = {s} => Ahead(s, order[i], order[j])

LEMMA QueueFacts ==
  ASSUME TxInvariant
  PROVE  /\ queue \in [Calls -> Seq(Calls)]
         /\ \A s \in Calls : Len(queue[s]) \in Nat
         /\ \A s \in Calls : \A i \in 1..Len(queue[s]) : queue[s][i] \in Calls
BY DEF TxInvariant, Typed

(* A request enters a channel at its end ...                               *)
LEMMA ChannelGrows ==
  ASSUME TxInvariant, NEW s \in Calls, NEW c \in Calls,
         queue'[s] = Append(queue[s], c), \A t \in Calls \ {s} : queue'[t] = queue[t]
  PROVE  /\ \A t \in Calls \ {s} : queue'[t] = queue[t]
         /\ Len(queue[s]) \in Nat /\ Len(queue'[s]) = Len(queue[s]) + 1
         /\ \A i \in 1..Len(queue[s]) : queue'[s][i] = queue[s][i]
         /\ queue'[s][Len(queue[s]) + 1] = c
         /\ \A t, d \in Calls : InChannel(t, d)' <=> InChannel(t, d) \/ (t = s /\ d = c)
<1>1. queue \in [Calls -> Seq(Calls)] /\ queue[s] \in Seq(Calls)
  BY QueueFacts
<1>2. queue'[s] = Append(queue[s], c) /\ \A t \in Calls \ {s} : queue'[t] = queue[t]
  OBVIOUS
<1>3. /\ Len(queue[s]) \in Nat /\ Len(queue'[s]) = Len(queue[s]) + 1
      /\ \A i \in 1..Len(queue[s]) : queue'[s][i] = queue[s][i]
      /\ queue'[s][Len(queue[s]) + 1] = c
  BY <1>1, <1>2
<1>4. ASSUME NEW d \in Calls PROVE InChannel(s, d)' <=> InChannel(s, d) \/ d = c
  <2>1. ASSUME NEW i \in 1..Len(queue'[s]), queue'[s][i] = d PROVE InChannel(s, d) \/ d = c
    <3>1. i \in 1..Len(queue[s]) \/ i = Len(queue[s]) + 1
      BY <1>3
    <3> QED BY <1>3, <2>1, <3>1 DEF InChannel
  <2>2. ASSUME NEW i \in 1..Len(queue[s]), queue[s][i] = d PROVE InChannel(s, d)'
    <3>1. i \in 1..Len(queue'[s]) /\ queue'[s][i] = d
      BY <1>3, <2>2
    <3> QED BY <3>1 DEF InChannel
  <2>3. ASSUME d = c PROVE InChannel(s, d)'
    <3>1. Len(queue[s]) + 1 \in 1..Len(queue'[s])
      BY <1>3
    <3> QED BY <1>3, <2>3, <3>1 DEF InChannel
  <2> QED BY <2>1, <2>2, <2>3 DEF InChannel
<1>5. ASSUME NEW t \in Calls \ {s}, NEW d \in Calls PROVE InChannel(t, d)' <=> InChannel(t, d)
  BY <1>2 DEF InChannel
<1> QED BY <1>2, <1>3, <1>4, <1>5

(* ... and leaves it at its head.                                          *)
LEMMA ChannelShrinks ==
  ASSUME TxInvariant, NEW s \in Calls, queue[s] # <<>>,
         queue' = [queue EXCEPT ![s] = Tail(queue[s])]
  PROVE  /\ \A t \in Calls \ {s} : queue'[t] = queue[t]
         /\ Len(queue[s]) \in Nat \ {0} /\ Len(queue'[s]) = Len(queue[s]) - 1
         /\ Head(queue[s]) = queue[s][1] /\ Head(queue[s]) \in Calls
         /\ \A i \in 1..(Len(queue[s]) - 1) : queue'[s][i] = queue[s][i + 1]
         /\ \A d \in Calls : InChannel(s, d) <=> d = Head(queue[s]) \/ InChannel(s, d)'
         /\ \A t \in Calls \ {s}, d \in Calls : InChannel(t, d)' <=> InChannel(t, d)
<1>1. queue \in [Calls -> Seq(Calls)] /\ queue[s] \in Seq(Calls)
  BY QueueFacts
<1>2. queue'[s] = Tail(queue[s]) /\ \A t \in Calls \ {s} : queue'[t] = queue[t]
  BY <1>1
<1>3. /\ Len(queue[s]) \in Nat \ {0} /\ Len(queue'[s]) = Len(queue[s]) - 1
      /\ Head(queue[s]) = queue[s][1] /\ Head(queue[s]) \in Calls
      /\ \A i \in 1..(Len(queue[s]) - 1) : queue'[s][i] = queue[s][i + 1]
  BY <1>1, <1>2
<1>4. ASSUME NEW d \in Calls PROVE InChannel(s, d) <=> d = Head(queue[s]) \/ InChannel(s, d)'
  <2>1. ASSUME NEW i \in 1..Len(queue[s]), queue[s][i] = d PROVE d = Head(queue[s]) \/ InChannel(s, d)'
    <3>1. CASE i = 1
      BY <1>3, <2>1, <3>1
    <3>2. CASE i # 1
      <4>1. i - 1 \in 1..Len(queue'[s]) /\ i - 1 \in 1..(Len(queue[s]) - 1) /\ (i - 1) + 1 = i
        BY <1>3, <3>2
      <4>2. queue'[s][i - 1] = d
        BY <1>3, <2>1, <4>1
      <4> QED BY <4>1, <4>2 DEF InChannel
    <3> QED BY <3>1, <3>2
  <2>2. ASSUME NEW i \in 1..Len(queue'[s]), queue'[s][i] = d PROVE InChannel(s, d)
    <3>1. i + 1 \in 1..Len(queue[s]) /\ queue[s][i + 1] = d
      BY <1>3, <2>2
    <3> QED BY <3>1 DEF InChannel
  <2>3. ASSUME d = Head(queue[s]) PROVE InChannel(s, d)
    <3>1. 1 \in 1..Len(queue[s]) /\ queue[s][1] = d
      BY <1>3, <2>3
    <3> QED BY <3>1 DEF InChannel
  <2> QED BY <2>1, <2>2, <2>3 DEF InChannel
<1>5. ASSUME NEW t \in Calls \ {s}, NEW d \in Calls PROVE InChannel(t, d)' <=> InChannel(t, d)
  BY <1>2 DEF InChannel
<1> QED BY <1>2, <1>3, <1>4, <1>5

(* What a step adds to the wire.                                           *)
LEMMA EmittedGrows ==
  ASSUME TxInvariant, OnWire, NEW c \in Calls, NEW part \in Parts \ Emitted(c),
         wire' = Append(wire, <<c, part>>)
  PROVE  /\ Emitted(c)' = Emitted(c) \cup {part}
         /\ \A d \in Calls \ {c} : Emitted(d)' = Emitted(d)
         /\ \A i, j \in 1..Len(wire') : wire'[i] = wire'[j] => i = j
<1>1. wire \in Seq(Calls \X Parts) /\ Len(wire) \in Nat /\ <<c, part>> \in Calls \X Parts
  BY DEF TxInvariant, Typed
<1>2. /\ Len(wire') = Len(wire) + 1 /\ wire'[Len(wire) + 1] = <<c, part>>
      /\ \A i \in 1..Len(wire) : wire'[i] = wire[i]
  BY <1>1
<1>3. ASSUME NEW d \in Calls, NEW p \in Parts
      PROVE  (\E i \in 1..Len(wire') : wire'[i] = <<d, p>>)
               <=> (\E i \in 1..Len(wire) : wire[i] = <<d, p>>) \/ (d = c /\ p = part)
  <2>1. ASSUME NEW i \in 1..Len(wire'), wire'[i] = <<d, p>>
        PROVE  (\E k \in 1..Len(wire) : wire[k] = <<d, p>>) \/ (d = c /\ p = part)
    <3>1. i \in 1..Len(wire) \/ i = Len(wire) + 1
      BY <1>1, <1>2
    <3> QED BY <1>2, <2>1, <3>1
  <2>2. ASSUME NEW i \in 1..Len(wire), wire[i] = <<d, p>>
        PROVE  \E k \in 1..Len(wire') : wire'[k] = <<d, p>>
    <3>1. i \in 1..Len(wire')
      BY <1>1, <1>2
    <3> QED BY <1>2, <2>2, <3>1
  <2>3. ASSUME d = c, p = part PROVE \E k \in 1..Len(wire') : wire'[k] = <<d, p>>
    <3>1. Len(wire) + 1 \in 1..Len(wire')
      BY <1>1, <1>2
    <3> QED BY <1>2, <2>3, <3>1
  <2> QED BY <2>1, <2>2, <2>3
<1>4. Emitted(c)' = Emitted(c) \cup {part}
  BY <1>3 DEF Emitted
<1>5. \A d \in Calls \ {c} : Emitted(d)' = Emitted(d)
  BY <1>3 DEF Emitted
<1>6. ASSUME NEW i \in 1..Len(wire'), NEW j \in 1..Len(wire'), wire'[i] = wire'[j] PROVE i = j
  <2>1. \A k \in 1..Len(wire) : wire[k] # <<c, part>>
    BY DEF Emitted
  <2>2. /\ i \in 1..Len(wire) \/ i = Len(wire) + 1
        /\ j \in 1..Len(wire) \/ j = Len(wire) + 1
    BY <1>1, <1>2
  <2>3. CASE i \in 1..Len(wire) /\ j \in 1..Len(wire)
    BY <1>2, <1>6, <2>3 DEF OnWire
  <2>4. CASE i \in 1..Len(wire) /\ j = Len(wire) + 1
    BY <1>2, <1>6, <2>1, <2>4
  <2>5. CASE j \in 1..Len(wire) /\ i = Len(wire) + 1
    BY <1>2, <1>6, <2>1, <2>5
  <2> QED BY <2>2, <2>3, <2>4, <2>5
<1> QED BY <1>4, <1>5, <1>6

(* A call moves before it has queued anything, or fails to queue it.       *)
LEMMA CallMoves ==
  ASSUME RouteInvariant, UNCHANGED <<queue, request, wire>>, NEW c \in Calls,
         pc[c] \in {"new", "found", "session", "sending"},
         pc'[c] \in {"found", "session", "sending", "closed"},
         \A d \in Calls \ {c} : pc'[d] = pc[d] /\ my'[d] = my[d] /\ kind'[d] = kind[d],
         \A s \in Calls : worker[s] \in Busy \/ worker'[s] \in Busy => worker'[s] = worker[s]
  PROVE  Located' /\ OnWire'
<1>1. \A s, d \in Calls : InChannel(s, d)' = InChannel(s, d) /\ Emitted(d)' = Emitted(d)
  BY DEF InChannel, Emitted
<1>2. \A s \in Calls : ~ InChannel(s, c) /\ c \notin request[s]
  BY DEF RouteInvariant, Located
<1>3. Located'
  <2>1. ASSUME NEW s \in Calls, NEW d \in Calls, InChannel(s, d)' \/ d \in request'[s]
        PROVE  pc'[d] = "waiting" /\ my'[d] = {s}
    BY <1>1, <1>2, <2>1 DEF RouteInvariant, Located
  <2>2. ASSUME NEW d \in Calls, pc'[d] = "waiting"
        PROVE  \E s \in Calls : my'[d] = {s} /\ (InChannel(s, d)' \/ d \in request'[s])
    BY <1>1, <2>2 DEF RouteInvariant, Located
  <2>3. \A s, d \in Calls : ~ (InChannel(s, d)' /\ d \in request'[s])
    BY <1>1 DEF RouteInvariant, Located
  <2>4. \A s \in Calls : \A i, j \in 1..Len(queue'[s]) : queue'[s][i] = queue'[s][j] => i = j
    BY DEF RouteInvariant, Located
  <2> QED BY <2>1, <2>2, <2>3, <2>4 DEF Located
<1>4. OnWire'
  <2>1. \A i, j \in 1..Len(wire') : wire'[i] = wire'[j] => i = j
    BY DEF RouteInvariant, OnWire
  <2>2. Emitted(c) = {}
    BY DEF RouteInvariant, OnWire
  <2>3. ASSUME NEW d \in Calls
        PROVE  /\ pc'[d] \in {"new", "found", "session", "sending", "closed"} => Emitted(d) = {}
               /\ pc'[d] = "ok" /\ kind'[d] = "write" => Emitted(d) = {"first", "rest"}
               /\ pc'[d] = "ok" /\ kind'[d] = "flush" => Emitted(d) = {"flush"}
    <3>1. CASE d = c
      BY <2>2, <3>1
    <3>2. CASE d # c
      BY <3>2 DEF RouteInvariant, OnWire
    <3> QED BY <3>1, <3>2
  <2>4. ASSUME NEW s \in Calls, NEW d \in Calls
        PROVE  /\ InChannel(s, d) => Emitted(d) = {}
               /\ d \in request[s] /\ worker'[s] # "writing" => Emitted(d) = {}
               /\ d \in request[s] /\ worker'[s] = "writing" => Emitted(d) = {"first"} /\ kind'[d] = "write"
    <3>1. d \in request[s] => worker'[s] = worker[s] /\ d # c
      BY <1>2 DEF RouteInvariant, WorkersIdle
    <3> QED BY <3>1 DEF RouteInvariant, OnWire
  <2> QED BY <1>1, <2>1, <2>3, <2>4 DEF OnWire
<1> QED BY <1>3, <1>4

(* A step that concerns no call.                                           *)
LEMMA NoCallMoves ==
  ASSUME RouteInvariant, TxInvariant', UNCHANGED <<pc, kind, handler, my, queue, worker, request, wire, order>>,
         sessions' \in [Handlers -> SUBSET Calls],
         \A h \in Handlers : sessions'[h] = {} \/ sessions'[h] = sessions[h]
  PROVE  RouteInvariant'
<1>1. \A s, d \in Calls : InChannel(s, d)' = InChannel(s, d) /\ Emitted(d)' = Emitted(d)
  BY DEF InChannel, Emitted
<1>2. Located' /\ OnWire'
  BY <1>1 DEF RouteInvariant, Located, OnWire
<1>3. CallersTyped' /\ SessionsSingle' /\ WorkersIdle'
  BY DEF RouteInvariant, CallersTyped, SessionsSingle, WorkersIdle
<1> QED BY <1>2, <1>3 DEF RouteInvariant

LEMMA RouteCallStep ==
  ASSUME RouteInvariant, TxInvariant', NEW c \in Calls,
         \/ \E h \in Handlers, k \in Kinds : Lookup(c, h, k)
         \/ get_or_create(c) \/ CloneSender(c) \/ SendFails(c)
  PROVE  RouteInvariant'
<1>1. /\ pc \in [Calls -> Callers] /\ kind \in [Calls -> {"write", "flush"}]
      /\ handler \in [Calls -> SUBSET Handlers]
      /\ my \in [Calls -> SUBSET Calls] /\ sessions \in [Handlers -> SUBSET Calls]
      /\ worker \in [Calls -> {"none", "recv", "serving", "checked", "locking", "writing", "exited"}]
  BY DEF RouteInvariant, CallersTyped, TxInvariant, Typed
<1>2. CASE \E h \in Handlers, k \in Kinds : Lookup(c, h, k)
  <2>1. PICK h \in Handlers, k \in Kinds : Lookup(c, h, k)
    BY <1>2
  <2>2. /\ pc[c] = "new" /\ pc' = [pc EXCEPT ![c] = "found"]
        /\ kind' = [kind EXCEPT ![c] = k] /\ handler' = [handler EXCEPT ![c] = {h}]
        /\ UNCHANGED <<my, sessions, queue, worker, request, wire, order>>
    BY <2>1 DEF Lookup, Goto, maps
  <2>3. k \in {"write", "flush"}
    BY DEF Kinds
  <2>4. CallersTyped'
    BY <1>1, <2>2, <2>3 DEF RouteInvariant, CallersTyped, Callers
  <2>5. SessionsSingle' /\ WorkersIdle'
    BY <1>1, <2>2 DEF RouteInvariant, SessionsSingle, WorkersIdle
  <2>6. Located' /\ OnWire'
    BY <1>1, <2>2, CallMoves
  <2> QED BY <2>4, <2>5, <2>6 DEF RouteInvariant
<1>3. CASE get_or_create(c)
  <2>1. PICK h \in handler[c] :
          \/ /\ sessions[h] # {} /\ my' = [my EXCEPT ![c] = sessions[h]]
             /\ UNCHANGED <<sessions, worker>>
          \/ /\ my' = [my EXCEPT ![c] = {c}] /\ sessions' = [sessions EXCEPT ![h] = {c}]
             /\ worker' = [worker EXCEPT ![c] = "recv"]
    BY <1>3 DEF get_or_create, maps
  <2>2. /\ pc[c] = "found" /\ pc' = [pc EXCEPT ![c] = "session"]
        /\ UNCHANGED <<kind, handler, queue, request, wire, order>>
    BY <1>3 DEF get_or_create, Goto
  <2>3. h \in Handlers /\ worker[c] = "none"
    BY <1>1, <2>1, <2>2 DEF RouteInvariant, WorkersIdle
  <2>4. \A s \in Calls : worker[s] \in Busy \/ worker'[s] \in Busy => worker'[s] = worker[s]
    BY <1>1, <2>1, <2>3 DEF Busy
  <2>5. Located' /\ OnWire'
    BY <1>1, <2>1, <2>2, <2>4, CallMoves
  <2>6. CallersTyped'
    BY <1>1, <2>1, <2>2, <2>3 DEF RouteInvariant, CallersTyped, Callers
  <2>7. \A k \in Handlers : sessions[k] = {} \/ \E s \in Calls : sessions[k] = {s}
    BY DEF RouteInvariant, SessionsSingle
  <2>8. \E s \in Calls : my'[c] = {s}
    BY <1>1, <2>1, <2>3, <2>7
  <2>9. \A k \in Handlers : sessions'[k] = {} \/ \E s \in Calls : sessions'[k] = {s}
    BY <1>1, <2>1, <2>3, <2>7
  <2>10. SessionsSingle'
    BY <1>1, <2>1, <2>2, <2>8, <2>9 DEF RouteInvariant, SessionsSingle
  <2>11. WorkersIdle'
    BY <1>1, <2>1, <2>2, <2>3 DEF RouteInvariant, WorkersIdle, Busy
  <2> QED BY <2>5, <2>6, <2>10, <2>11 DEF RouteInvariant
<1>4. CASE CloneSender(c) \/ SendFails(c)
  <2>1. PICK l \in {"sending", "closed"} : pc' = [pc EXCEPT ![c] = l]
    BY <1>4 DEF CloneSender, SendFails, Goto
  <2>2. /\ pc[c] \in {"session", "sending"}
        /\ UNCHANGED <<kind, handler, my, sessions, queue, worker, request, wire, order>>
    BY <1>4 DEF CloneSender, SendFails, maps
  <2>3. CallersTyped'
    BY <1>1, <2>1, <2>2 DEF RouteInvariant, CallersTyped, Callers
  <2>4. SessionsSingle' /\ WorkersIdle'
    BY <1>1, <2>1, <2>2 DEF RouteInvariant, SessionsSingle, WorkersIdle
  <2>5. Located' /\ OnWire'
    BY <1>1, <2>1, <2>2, CallMoves
  <2> QED BY <2>3, <2>4, <2>5 DEF RouteInvariant
<1> QED BY <1>2, <1>3, <1>4

LEMMA RouteSend ==
  ASSUME RouteInvariant, TxInvariant', NEW c \in Calls, Send(c)
  PROVE  RouteInvariant'
<1>1. /\ pc \in [Calls -> Callers] /\ order \in Seq(Calls) /\ pc[c] = "sending"
      /\ pc' = [pc EXCEPT ![c] = "waiting"] /\ order' = Append(order, c)
      /\ UNCHANGED <<kind, handler, my, sessions, worker, request, wire>>
  BY DEF Send, Goto, maps, RouteInvariant, CallersTyped
<1>2. PICK s \in Calls : my[c] = {s}
  BY <1>1 DEF RouteInvariant, SessionsSingle
<1>3. queue' = [queue EXCEPT ![s] = Append(queue[s], c)]
  BY <1>2 DEF Send
<1>4. /\ \A t \in Calls \ {s} : queue'[t] = queue[t]
      /\ Len(queue[s]) \in Nat /\ Len(queue'[s]) = Len(queue[s]) + 1
      /\ \A i \in 1..Len(queue[s]) : queue'[s][i] = queue[s][i]
      /\ queue'[s][Len(queue[s]) + 1] = c
      /\ \A t, d \in Calls : InChannel(t, d)' <=> InChannel(t, d) \/ (t = s /\ d = c)
  <2>1. TxInvariant
    BY DEF RouteInvariant
  <2>2. queue'[s] = Append(queue[s], c) /\ \A t \in Calls \ {s} : queue'[t] = queue[t]
    BY <1>3, <2>1, QueueFacts
  <2> QED BY <2>1, <2>2, ChannelGrows
<1>5. \A t \in Calls : ~ InChannel(t, c) /\ c \notin request[t]
  BY <1>1 DEF RouteInvariant, Located
<1>6. CallersTyped' /\ SessionsSingle' /\ WorkersIdle'
  <2>1. order' \in Seq(Calls)
    BY <1>1
  <2>2. pc' \in [Calls -> Callers]
    BY <1>1 DEF Callers
  <2> QED BY <1>1, <1>2, <2>1, <2>2 DEF RouteInvariant, CallersTyped, SessionsSingle, WorkersIdle
<1>7. Located'
  <2>1. ASSUME NEW t \in Calls, NEW d \in Calls, InChannel(t, d)' \/ d \in request'[t]
        PROVE  pc'[d] = "waiting" /\ my'[d] = {t}
    BY <1>1, <1>2, <1>4, <2>1 DEF RouteInvariant, Located
  <2>2. ASSUME NEW d \in Calls, pc'[d] = "waiting"
        PROVE  \E t \in Calls : my'[d] = {t} /\ (InChannel(t, d)' \/ d \in request'[t])
    <3>1. CASE d = c
      BY <1>1, <1>2, <1>4, <3>1
    <3>2. CASE d # c
      <4>1. PICK t \in Calls : my[d] = {t} /\ (InChannel(t, d) \/ d \in request[t])
        BY <1>1, <2>2, <3>2 DEF RouteInvariant, Located
      <4> QED BY <1>1, <1>4, <4>1
    <3> QED BY <3>1, <3>2
  <2>3. \A t, d \in Calls : ~ (InChannel(t, d)' /\ d \in request'[t])
    BY <1>1, <1>4, <1>5 DEF RouteInvariant, Located
  <2>4. ASSUME NEW t \in Calls, NEW i \in 1..Len(queue'[t]), NEW j \in 1..Len(queue'[t]),
               queue'[t][i] = queue'[t][j]
        PROVE  i = j
    <3>1. CASE t # s
      BY <1>4, <2>4, <3>1 DEF RouteInvariant, Located
    <3>2. CASE t = s
      <4>1. /\ i \in 1..Len(queue[s]) \/ i = Len(queue[s]) + 1
            /\ j \in 1..Len(queue[s]) \/ j = Len(queue[s]) + 1
        BY <1>4, <3>2
      <4>2. \A k \in 1..Len(queue[s]) : queue[s][k] # c
        BY <1>5 DEF InChannel
      <4>3. \A k, l \in 1..Len(queue[s]) : queue[s][k] = queue[s][l] => k = l
        BY DEF RouteInvariant, Located
      <4> QED BY <1>4, <2>4, <3>2, <4>1, <4>2, <4>3
    <3> QED BY <3>1, <3>2
  <2> QED BY <2>1, <2>2, <2>3, <2>4 DEF Located
<1>8. OnWire'
  <2>1. \A d \in Calls : Emitted(d)' = Emitted(d)
    BY <1>1 DEF Emitted
  <2>2. Emitted(c) = {}
    BY <1>1 DEF RouteInvariant, OnWire
  <2>3. ASSUME NEW d \in Calls
        PROVE  /\ pc'[d] \in {"new", "found", "session", "sending", "closed"} => Emitted(d) = {}
               /\ pc'[d] = "ok" /\ kind'[d] = "write" => Emitted(d) = {"first", "rest"}
               /\ pc'[d] = "ok" /\ kind'[d] = "flush" => Emitted(d) = {"flush"}
    BY <1>1 DEF RouteInvariant, OnWire
  <2>4. ASSUME NEW t \in Calls, NEW d \in Calls
        PROVE  /\ InChannel(t, d)' => Emitted(d) = {}
               /\ d \in request[t] /\ worker[t] # "writing" => Emitted(d) = {}
               /\ d \in request[t] /\ worker[t] = "writing" => Emitted(d) = {"first"} /\ kind[d] = "write"
    BY <1>4, <2>2 DEF RouteInvariant, OnWire
  <2> QED BY <1>1, <2>1, <2>3, <2>4 DEF RouteInvariant, OnWire
<1> QED BY <1>6, <1>7, <1>8 DEF RouteInvariant

LEMMA RouteRecv ==
  ASSUME RouteInvariant, TxInvariant', NEW s \in Calls, Recv(s)
  PROVE  RouteInvariant'
<1>1. /\ worker[s] = "recv" /\ worker' = [worker EXCEPT ![s] = "serving"] /\ queue[s] # <<>>
      /\ request' = [request EXCEPT ![s] = {Head(queue[s])}]
      /\ queue' = [queue EXCEPT ![s] = Tail(queue[s])]
      /\ UNCHANGED <<pc, kind, handler, my, sessions, wire, order>>
  BY DEF Recv, WorkerAt, caller, maps
<1>2. /\ worker \in [Calls -> {"none", "recv", "serving", "checked", "locking", "writing", "exited"}]
      /\ request \in [Calls -> SUBSET Calls]
      /\ request[s] = {}
  BY <1>1 DEF RouteInvariant, TxInvariant, Typed, WorkersIdle, Busy
<1>3. PICK c \in Calls :
        /\ \A t \in Calls \ {s} : queue'[t] = queue[t]
        /\ Len(queue[s]) \in Nat \ {0} /\ Len(queue'[s]) = Len(queue[s]) - 1
        /\ c = Head(queue[s]) /\ c = queue[s][1]
        /\ \A i \in 1..(Len(queue[s]) - 1) : queue'[s][i] = queue[s][i + 1]
        /\ \A d \in Calls : InChannel(s, d) <=> d = c \/ InChannel(s, d)'
        /\ \A t \in Calls \ {s}, d \in Calls : InChannel(t, d)' <=> InChannel(t, d)
  BY <1>1, ChannelShrinks DEF RouteInvariant
<1>4. /\ request'[s] = {c} /\ worker'[s] = "serving"
      /\ \A t \in Calls \ {s} : request'[t] = request[t] /\ worker'[t] = worker[t]
  BY <1>1, <1>2, <1>3
<1>5. \A i, j \in 1..Len(queue[s]) : queue[s][i] = queue[s][j] => i = j
  BY DEF RouteInvariant, Located
<1>6. ~ InChannel(s, c)'
  <2>1. ASSUME NEW i \in 1..Len(queue'[s]), queue'[s][i] = c PROVE FALSE
    <3>1. i + 1 \in 1..Len(queue[s]) /\ 1 \in 1..Len(queue[s]) /\ queue[s][i + 1] = queue[s][1]
      BY <1>3, <2>1
    <3>2. i + 1 = 1
      BY <1>5, <3>1
    <3> QED BY <1>3, <3>2
  <2> QED BY <2>1 DEF InChannel
<1>7. CallersTyped' /\ SessionsSingle' /\ WorkersIdle'
  BY <1>1, <1>2, <1>4 DEF RouteInvariant, CallersTyped, SessionsSingle, WorkersIdle, Busy
<1>8. Located'
  <2>1. ASSUME NEW t \in Calls, NEW d \in Calls, InChannel(t, d)' \/ d \in request'[t]
        PROVE  pc'[d] = "waiting" /\ my'[d] = {t}
    BY <1>1, <1>3, <1>4, <2>1 DEF RouteInvariant, Located
  <2>2. ASSUME NEW d \in Calls, pc'[d] = "waiting"
        PROVE  \E t \in Calls : my'[d] = {t} /\ (InChannel(t, d)' \/ d \in request'[t])
    <3>1. PICK t \in Calls : my[d] = {t} /\ (InChannel(t, d) \/ d \in request[t])
      BY <1>1, <2>2 DEF RouteInvariant, Located
    <3> QED BY <1>1, <1>2, <1>3, <1>4, <3>1
  <2>3. \A t, d \in Calls : ~ (InChannel(t, d)' /\ d \in request'[t])
    BY <1>3, <1>4, <1>6 DEF RouteInvariant, Located
  <2>4. ASSUME NEW t \in Calls, NEW i \in 1..Len(queue'[t]), NEW j \in 1..Len(queue'[t]),
               queue'[t][i] = queue'[t][j]
        PROVE  i = j
    <3>1. CASE t # s
      <4>1. queue'[t] = queue[t]
        BY <1>3, <3>1
      <4> QED BY <2>4, <4>1 DEF RouteInvariant, Located
    <3>2. CASE t = s
      <4>1. /\ i + 1 \in 1..Len(queue[s]) /\ j + 1 \in 1..Len(queue[s])
            /\ queue[s][i + 1] = queue[s][j + 1]
        BY <1>3, <2>4, <3>2
      <4>2. i + 1 = j + 1
        BY <1>5, <4>1
      <4> QED BY <1>3, <3>2, <4>2
    <3> QED BY <3>1, <3>2
  <2> QED BY <2>1, <2>2, <2>3, <2>4 DEF Located
<1>9. OnWire'
  <2>1. \A d \in Calls : Emitted(d)' = Emitted(d)
    BY <1>1 DEF Emitted
  <2>2. ASSUME NEW t \in Calls, NEW d \in Calls
        PROVE  /\ InChannel(t, d)' => Emitted(d) = {}
               /\ d \in request'[t] /\ worker'[t] # "writing" => Emitted(d) = {}
               /\ d \in request'[t] /\ worker'[t] = "writing" => Emitted(d) = {"first"} /\ kind[d] = "write"
    BY <1>3, <1>4 DEF RouteInvariant, OnWire
  <2> QED BY <1>1, <2>1, <2>2 DEF RouteInvariant, OnWire
<1> QED BY <1>7, <1>8, <1>9 DEF RouteInvariant

LEMMA RouteExit ==
  ASSUME RouteInvariant, TxInvariant', NEW s \in Calls, Exit(s)
  PROVE  RouteInvariant'
<1>1. /\ worker[s] = "recv" /\ worker' = [worker EXCEPT ![s] = "exited"]
      /\ pc' = [c \in Calls |-> IF \E i \in DOMAIN queue[s] : queue[s][i] = c
                                  THEN "closed" ELSE pc[c]]
      /\ queue' = [queue EXCEPT ![s] = <<>>]
      /\ UNCHANGED <<kind, handler, my, sessions, request, wire, order>>
  BY DEF Exit, WorkerAt, maps
<1>2. /\ worker \in [Calls -> {"none", "recv", "serving", "checked", "locking", "writing", "exited"}]
      /\ pc \in [Calls -> Callers] /\ queue \in [Calls -> Seq(Calls)]
      /\ request[s] = {}
  BY <1>1 DEF RouteInvariant, TxInvariant, Typed, WorkersIdle, Busy, CallersTyped
<1>3. \A c \in Calls : pc'[c] = IF InChannel(s, c) THEN "closed" ELSE pc[c]
  <2>1. DOMAIN queue[s] = 1..Len(queue[s])
    BY <1>2
  <2> QED BY <1>1, <2>1 DEF InChannel
<1>4. queue'[s] = <<>> /\ \A t \in Calls \ {s} : queue'[t] = queue[t] /\ worker'[t] = worker[t]
  BY <1>1, <1>2
<1>5. /\ \A d \in Calls : ~ InChannel(s, d)'
      /\ \A t \in Calls \ {s}, d \in Calls : InChannel(t, d)' <=> InChannel(t, d)
  BY <1>4 DEF InChannel
<1>6. \A c \in Calls : InChannel(s, c) => pc[c] = "waiting" /\ my[c] = {s} /\ Emitted(c) = {}
  BY DEF RouteInvariant, Located, OnWire
<1>7. CallersTyped' /\ SessionsSingle' /\ WorkersIdle'
  <2>1. pc' \in [Calls -> Callers]
    BY <1>1, <1>2 DEF Callers
  <2>2. CallersTyped'
    BY <1>1, <2>1 DEF RouteInvariant, CallersTyped
  <2>3. SessionsSingle'
    BY <1>1, <1>3 DEF RouteInvariant, SessionsSingle
  <2>4. WorkersIdle'
    BY <1>1, <1>2, <1>3, <1>4, <1>6 DEF RouteInvariant, WorkersIdle
  <2> QED BY <2>2, <2>3, <2>4
<1>8. Located'
  <2>1. ASSUME NEW t \in Calls, NEW d \in Calls, InChannel(t, d)' \/ d \in request'[t]
        PROVE  pc'[d] = "waiting" /\ my'[d] = {t}
    <3>1. t # s /\ (InChannel(t, d) \/ d \in request[t])
      BY <1>1, <1>2, <1>5, <2>1
    <3>2. pc[d] = "waiting" /\ my[d] = {t}
      BY <3>1 DEF RouteInvariant, Located
    <3>3. ~ InChannel(s, d)
      BY <1>6, <3>1, <3>2
    <3> QED BY <1>1, <1>3, <3>2, <3>3
  <2>2. ASSUME NEW d \in Calls, pc'[d] = "waiting"
        PROVE  \E t \in Calls : my'[d] = {t} /\ (InChannel(t, d)' \/ d \in request'[t])
    <3>1. pc[d] = "waiting" /\ ~ InChannel(s, d)
      BY <1>3, <2>2
    <3>2. PICK t \in Calls : my[d] = {t} /\ (InChannel(t, d) \/ d \in request[t])
      BY <3>1 DEF RouteInvariant, Located
    <3> QED BY <1>1, <1>5, <3>1, <3>2
  <2>3. \A t, d \in Calls : ~ (InChannel(t, d)' /\ d \in request'[t])
    BY <1>1, <1>5 DEF RouteInvariant, Located
  <2>4. \A t \in Calls : \A i, j \in 1..Len(queue'[t]) : queue'[t][i] = queue'[t][j] => i = j
    BY <1>4 DEF RouteInvariant, Located
  <2> QED BY <2>1, <2>2, <2>3, <2>4 DEF Located
<1>9. OnWire'
  <2>1. \A d \in Calls : Emitted(d)' = Emitted(d)
    BY <1>1 DEF Emitted
  <2>2. ASSUME NEW t \in Calls, NEW d \in Calls
        PROVE  /\ InChannel(t, d)' => Emitted(d) = {}
               /\ d \in request'[t] /\ worker'[t] # "writing" => Emitted(d) = {}
               /\ d \in request'[t] /\ worker'[t] = "writing" => Emitted(d) = {"first"} /\ kind[d] = "write"
    BY <1>1, <1>2, <1>4, <1>5 DEF RouteInvariant, OnWire
  <2>3. ASSUME NEW d \in Calls
        PROVE  /\ pc'[d] \in {"new", "found", "session", "sending", "closed"} => Emitted(d) = {}
               /\ pc'[d] = "ok" /\ kind'[d] = "write" => Emitted(d) = {"first", "rest"}
               /\ pc'[d] = "ok" /\ kind'[d] = "flush" => Emitted(d) = {"flush"}
    BY <1>1, <1>3, <1>6 DEF RouteInvariant, OnWire
  <2> QED BY <1>1, <2>1, <2>2, <2>3 DEF RouteInvariant, OnWire
<1> QED BY <1>7, <1>8, <1>9 DEF RouteInvariant

(* The worker answers its request.                                         *)
LEMMA RouteAnswer ==
  ASSUME RouteInvariant, TxInvariant', NEW s \in Calls, NEW c \in Calls, request[s] = {c},
         NEW result \in Answers, Answer(s, result),
         UNCHANGED <<kind, handler, my, sessions, queue, order>>,
         \A d \in Calls \ {c} : Emitted(d)' = Emitted(d),
         \A i, j \in 1..Len(wire') : wire'[i] = wire'[j] => i = j,
         result = "closed" => Emitted(c)' = {},
         result = "ok" /\ kind[c] = "write" => Emitted(c)' = {"first", "rest"},
         result = "ok" /\ kind[c] = "flush" => Emitted(c)' = {"flush"}
  PROVE  RouteInvariant'
<1>1. /\ worker \in [Calls -> {"none", "recv", "serving", "checked", "locking", "writing", "exited"}]
      /\ pc \in [Calls -> Callers] /\ request \in [Calls -> SUBSET Calls]
  BY DEF RouteInvariant, TxInvariant, Typed, CallersTyped
<1>2. /\ pc'[c] = result /\ \A d \in Calls \ {c} : pc'[d] = pc[d]
      /\ request'[s] = {} /\ worker'[s] = "recv"
      /\ \A t \in Calls \ {s} : request'[t] = request[t] /\ worker'[t] = worker[t]
      /\ pc' \in [Calls -> Callers]
  BY <1>1 DEF Answer, Callers, Answers
<1>3. /\ \A t, d \in Calls : InChannel(t, d)' <=> InChannel(t, d)
  BY DEF InChannel
<1>4. pc[c] = "waiting" /\ my[c] = {s} /\ \A t \in Calls : ~ InChannel(t, c) /\ (c \in request[t] => t = s)
  <2>1. c \in request[s]
    OBVIOUS
  <2>2. pc[c] = "waiting" /\ my[c] = {s} /\ ~ InChannel(s, c)
    BY <2>1 DEF RouteInvariant, Located
  <2>3. ASSUME NEW t \in Calls, InChannel(t, c) \/ c \in request[t] PROVE t = s
    <3>1. my[c] = {t}
      BY <2>3 DEF RouteInvariant, Located
    <3> QED BY <2>2, <3>1
  <2> QED BY <2>2, <2>3
<1>5. CallersTyped' /\ SessionsSingle' /\ WorkersIdle'
  BY <1>1, <1>2, <1>4 DEF RouteInvariant, CallersTyped, SessionsSingle, WorkersIdle, Busy, Answers
<1>6. Located'
  <2>1. ASSUME NEW t \in Calls, NEW d \in Calls, InChannel(t, d)' \/ d \in request'[t]
        PROVE  pc'[d] = "waiting" /\ my'[d] = {t}
    <3>1. d # c /\ (InChannel(t, d) \/ d \in request[t])
      BY <1>2, <1>3, <1>4, <2>1
    <3> QED BY <1>2, <3>1 DEF RouteInvariant, Located
  <2>2. ASSUME NEW d \in Calls, pc'[d] = "waiting"
        PROVE  \E t \in Calls : my'[d] = {t} /\ (InChannel(t, d)' \/ d \in request'[t])
    <3>1. d # c /\ pc[d] = "waiting"
      BY <1>2, <2>2 DEF Answers
    <3>2. PICK t \in Calls : my[d] = {t} /\ (InChannel(t, d) \/ d \in request[t])
      BY <3>1 DEF RouteInvariant, Located
    <3> QED BY <1>2, <1>3, <3>1, <3>2
  <2>3. \A t, d \in Calls : ~ (InChannel(t, d)' /\ d \in request'[t])
    BY <1>2, <1>3 DEF RouteInvariant, Located
  <2>4. \A t \in Calls : \A i, j \in 1..Len(queue'[t]) : queue'[t][i] = queue'[t][j] => i = j
    BY DEF RouteInvariant, Located
  <2> QED BY <2>1, <2>2, <2>3, <2>4 DEF Located
<1>7. OnWire'
  <2>1. ASSUME NEW d \in Calls \ {c}
        PROVE  /\ pc'[d] \in {"new", "found", "session", "sending", "closed"} => Emitted(d)' = {}
               /\ pc'[d] = "ok" /\ kind'[d] = "write" => Emitted(d)' = {"first", "rest"}
               /\ pc'[d] = "ok" /\ kind'[d] = "flush" => Emitted(d)' = {"flush"}
    BY <1>2 DEF RouteInvariant, OnWire
  <2>2. /\ pc'[c] \in {"new", "found", "session", "sending", "closed"} => Emitted(c)' = {}
        /\ pc'[c] = "ok" /\ kind'[c] = "write" => Emitted(c)' = {"first", "rest"}
        /\ pc'[c] = "ok" /\ kind'[c] = "flush" => Emitted(c)' = {"flush"}
    BY <1>2 DEF Answers
  <2>3. ASSUME NEW t \in Calls, NEW d \in Calls
        PROVE  /\ InChannel(t, d)' => Emitted(d)' = {}
               /\ d \in request'[t] /\ worker'[t] # "writing" => Emitted(d)' = {}
               /\ d \in request'[t] /\ worker'[t] = "writing" => Emitted(d)' = {"first"} /\ kind[d] = "write"
    <3>1. InChannel(t, d)' => d # c /\ InChannel(t, d)
      BY <1>3, <1>4
    <3>2. d \in request'[t] => d # c /\ t # s /\ d \in request[t] /\ worker'[t] = worker[t]
      BY <1>2, <1>4
    <3> QED BY <3>1, <3>2 DEF RouteInvariant, OnWire
  <2> QED BY <2>1, <2>2, <2>3 DEF OnWire
<1> QED BY <1>5, <1>6, <1>7 DEF RouteInvariant

(* The worker moves on with its request.                                   *)
LEMMA RouteServe ==
  ASSUME RouteInvariant, TxInvariant', NEW s \in Calls, NEW c \in Calls, request[s] = {c},
         NEW l \in Busy, worker[s] \in Busy \ {"writing"}, worker' = [worker EXCEPT ![s] = l],
         UNCHANGED <<pc, kind, handler, my, sessions, queue, request, order>>,
         \A d \in Calls \ {c} : Emitted(d)' = Emitted(d),
         \A i, j \in 1..Len(wire') : wire'[i] = wire'[j] => i = j,
         IF l = "writing" THEN Emitted(c)' = {"first"} /\ kind[c] = "write" ELSE Emitted(c)' = {}
  PROVE  RouteInvariant'
<1>1. worker \in [Calls -> {"none", "recv", "serving", "checked", "locking", "writing", "exited"}]
  BY DEF RouteInvariant, TxInvariant, Typed
<1>2. worker'[s] = l /\ \A t \in Calls \ {s} : worker'[t] = worker[t]
  BY <1>1
<1>3. \A t, d \in Calls : InChannel(t, d)' <=> InChannel(t, d)
  BY DEF InChannel
<1>4. pc[c] = "waiting" /\ my[c] = {s} /\ \A t \in Calls : ~ InChannel(t, c) /\ (c \in request[t] => t = s)
  <2>1. c \in request[s]
    OBVIOUS
  <2>2. pc[c] = "waiting" /\ my[c] = {s} /\ ~ InChannel(s, c)
    BY <2>1 DEF RouteInvariant, Located
  <2>3. ASSUME NEW t \in Calls, InChannel(t, c) \/ c \in request[t] PROVE t = s
    <3>1. my[c] = {t}
      BY <2>3 DEF RouteInvariant, Located
    <3> QED BY <2>2, <3>1
  <2> QED BY <2>2, <2>3
<1>5. CallersTyped' /\ SessionsSingle'
  BY DEF RouteInvariant, CallersTyped, SessionsSingle
<1>6. WorkersIdle'
  <2>1. pc[s] \notin {"new", "found"}
    BY DEF RouteInvariant, WorkersIdle, Busy
  <2> QED BY <1>2, <2>1 DEF RouteInvariant, WorkersIdle
<1>7. Located'
  BY <1>3 DEF RouteInvariant, Located
<1>8. OnWire'
  <2>1. ASSUME NEW d \in Calls
        PROVE  /\ pc'[d] \in {"new", "found", "session", "sending", "closed"} => Emitted(d)' = {}
               /\ pc'[d] = "ok" /\ kind'[d] = "write" => Emitted(d)' = {"first", "rest"}
               /\ pc'[d] = "ok" /\ kind'[d] = "flush" => Emitted(d)' = {"flush"}
    BY <1>4 DEF RouteInvariant, OnWire
  <2>2. ASSUME NEW t \in Calls, NEW d \in Calls
        PROVE  /\ InChannel(t, d)' => Emitted(d)' = {}
               /\ d \in request'[t] /\ worker'[t] # "writing" => Emitted(d)' = {}
               /\ d \in request'[t] /\ worker'[t] = "writing" => Emitted(d)' = {"first"} /\ kind[d] = "write"
    <3>1. CASE d = c
      BY <1>2, <1>3, <1>4, <3>1
    <3>2. CASE d # c
      <4>1. d \in request[t] => t # s /\ worker'[t] = worker[t]
        BY <1>2, <3>2
      <4> QED BY <1>3, <3>2, <4>1 DEF RouteInvariant, OnWire
    <3> QED BY <3>1, <3>2
  <2> QED BY <2>1, <2>2 DEF OnWire
<1> QED BY <1>5, <1>6, <1>7, <1>8 DEF RouteInvariant

LEMMA RouteWorkerStep ==
  ASSUME RouteInvariant, TxInvariant', NEW s \in Calls, WorkerStep(s)
  PROVE  RouteInvariant'
<1> USE DEF WorkerAt, maps, caller
<1>1. CASE Recv(s)
  BY <1>1, RouteRecv
<1>2. CASE Exit(s)
  BY <1>2, RouteExit
<1>3. SUFFICES ASSUME ~ Recv(s), ~ Exit(s) PROVE RouteInvariant'
  BY <1>1, <1>2
<1>4. worker[s] \in Busy
  BY <1>3 DEF WorkerStep, EnsureOpen, LockIo, NoHandle, WriteBegin, WriteEnd, Flush, IoFails, Busy
<1>5. PICK c \in Calls : request[s] = {c}
  BY <1>4 DEF RouteInvariant, TxInvariant, OneRequest
<1>6. /\ worker[s] # "writing" => Emitted(c) = {}
      /\ worker[s] = "writing" => Emitted(c) = {"first"} /\ kind[c] = "write"
      /\ \A i, j \in 1..Len(wire) : wire[i] = wire[j] => i = j
  BY <1>5 DEF RouteInvariant, OnWire
<1>7. "closed" \in Answers /\ "ok" \in Answers /\ "failed" \in Answers
  BY DEF Answers
<1>8. ASSUME wire' = wire
      PROVE  /\ \A d \in Calls : Emitted(d)' = Emitted(d)
             /\ \A i, j \in 1..Len(wire') : wire'[i] = wire'[j] => i = j
  BY <1>6, <1>8 DEF Emitted
<1>9. ASSUME NEW part \in Parts \ Emitted(c), wire' = Append(wire, <<c, part>>)
      PROVE  /\ Emitted(c)' = Emitted(c) \cup {part}
             /\ \A d \in Calls \ {c} : Emitted(d)' = Emitted(d)
             /\ \A i, j \in 1..Len(wire') : wire'[i] = wire'[j] => i = j
  BY <1>9, EmittedGrows DEF RouteInvariant
<1>10. CASE EnsureOpen(s)
  <2>1. UNCHANGED <<kind, handler, my, sessions, queue, wire, order>> /\ worker[s] = "serving"
    BY <1>10 DEF EnsureOpen
  <2>2. CASE Answer(s, "closed")
    BY <1>5, <1>6, <1>7, <1>8, <2>1, <2>2, RouteAnswer
  <2>3. CASE worker' = [worker EXCEPT ![s] = "checked"] /\ UNCHANGED <<pc, request>>
    <3>1. worker[s] \in Busy \ {"writing"} /\ "checked" \in Busy /\ Emitted(c)' = {}
      BY <1>6, <1>8, <2>1 DEF Busy
    <3> QED BY <1>5, <1>8, <2>1, <2>3, <3>1, RouteServe
  <2> QED BY <1>10, <2>2, <2>3 DEF EnsureOpen
<1>11. CASE LockIo(s)
  <2>1. /\ UNCHANGED <<pc, request, kind, handler, my, sessions, queue, wire, order>>
        /\ worker[s] = "checked" /\ worker' = [worker EXCEPT ![s] = "locking"]
    BY <1>11 DEF LockIo
  <2>2. worker[s] \in Busy \ {"writing"} /\ "locking" \in Busy /\ Emitted(c)' = {}
    BY <1>6, <1>8, <2>1 DEF Busy
  <2> QED BY <1>5, <1>8, <2>1, <2>2, RouteServe
<1>12. CASE NoHandle(s)
  <2>1. /\ UNCHANGED <<kind, handler, my, sessions, queue, wire, order>>
        /\ worker[s] = "locking" /\ Answer(s, "closed")
    BY <1>12 DEF NoHandle
  <2> QED BY <1>5, <1>6, <1>7, <1>8, <2>1, RouteAnswer
<1>13. CASE IoFails(s)
  <2>1. UNCHANGED <<kind, handler, my, sessions, queue, wire, order>> /\ Answer(s, "failed")
    BY <1>13 DEF IoFails
  <2> QED BY <1>5, <1>7, <1>8, <2>1, RouteAnswer
<1>14. CASE WriteBegin(s)
  <2>1. /\ UNCHANGED <<pc, request, kind, handler, my, sessions, queue, order>>
        /\ worker[s] = "locking" /\ worker' = [worker EXCEPT ![s] = "writing"]
        /\ wire' = Append(wire, <<c, "first">>) /\ kind[c] = "write"
    BY <1>5, <1>14 DEF WriteBegin, Emit, Serves
  <2>2. /\ worker[s] \in Busy \ {"writing"} /\ "writing" \in Busy /\ "first" \in Parts \ Emitted(c)
        /\ Emitted(c) = {}
    BY <1>6, <2>1 DEF Busy, Parts
  <2>3. /\ Emitted(c)' = {"first"}
        /\ \A d \in Calls \ {c} : Emitted(d)' = Emitted(d)
        /\ \A i, j \in 1..Len(wire') : wire'[i] = wire'[j] => i = j
    BY <1>9, <2>1, <2>2
  <2> QED BY <1>5, <2>1, <2>2, <2>3, RouteServe
<1>15. CASE WriteEnd(s)
  <2>1. /\ UNCHANGED <<kind, handler, my, sessions, queue, order>>
        /\ worker[s] = "writing" /\ Answer(s, "ok")
        /\ wire' = Append(wire, <<c, "rest">>)
    BY <1>5, <1>15 DEF WriteEnd, Emit
  <2>2. "rest" \in Parts \ Emitted(c) /\ Emitted(c) = {"first"} /\ kind[c] = "write"
    BY <1>6, <2>1 DEF Parts
  <2>3. /\ Emitted(c)' = {"first", "rest"}
        /\ \A d \in Calls \ {c} : Emitted(d)' = Emitted(d)
        /\ \A i, j \in 1..Len(wire') : wire'[i] = wire'[j] => i = j
    BY <1>9, <2>1, <2>2
  <2> QED BY <1>5, <1>7, <2>1, <2>2, <2>3, RouteAnswer
<1>16. CASE Flush(s)
  <2>1. /\ UNCHANGED <<kind, handler, my, sessions, queue, order>>
        /\ worker[s] = "locking" /\ Answer(s, "ok") /\ kind[c] = "flush"
        /\ wire' = Append(wire, <<c, "flush">>)
    BY <1>5, <1>16 DEF Flush, Emit, Serves
  <2>2. "flush" \in Parts \ Emitted(c) /\ Emitted(c) = {}
    BY <1>6, <2>1 DEF Parts
  <2>3. /\ Emitted(c)' = {"flush"}
        /\ \A d \in Calls \ {c} : Emitted(d)' = Emitted(d)
        /\ \A i, j \in 1..Len(wire') : wire'[i] = wire'[j] => i = j
    BY <1>9, <2>1, <2>2
  <2> QED BY <1>5, <1>7, <2>1, <2>2, <2>3, RouteAnswer
<1> QED BY <1>3, <1>10, <1>11, <1>12, <1>13, <1>14, <1>15, <1>16 DEF WorkerStep

LEMMA RouteStep == RouteInvariant /\ [Next]_vars => RouteInvariant'
<1> SUFFICES ASSUME RouteInvariant, [Next]_vars PROVE RouteInvariant'
  OBVIOUS
<1> USE DEF caller, maps
<1>1. TxInvariant'
  BY TxStep DEF RouteInvariant
<1>2. sessions \in [Handlers -> SUBSET Calls]
  BY DEF RouteInvariant, CallersTyped
<1>3. ASSUME NEW c \in Calls,
             CallStep(c) \/ \E h \in Handlers, k \in Kinds : Lookup(c, h, k)
      PROVE  RouteInvariant'
  BY <1>1, <1>3, RouteCallStep, RouteSend DEF CallStep
<1>4. ASSUME NEW s \in Calls, WorkerStep(s) PROVE RouteInvariant'
  BY <1>1, <1>4, RouteWorkerStep
<1>5. CASE (\E h \in Handlers : DropHandler(h)) \/ \E h \in Handlers : RemoveSession(h)
  <2>1. PICK h \in Handlers : sessions' = [sessions EXCEPT ![h] = {}]
    BY <1>5 DEF DropHandler, RemoveSession
  <2>2. UNCHANGED <<pc, kind, handler, my, queue, worker, request, wire, order>>
    BY <1>5 DEF DropHandler, RemoveSession
  <2> QED BY <1>1, <1>2, <2>1, <2>2, NoCallMoves
<1>6. CASE LinkStep \/ Unregister \/ RaiseClosed \/ CancelToken \/ TakeIo \/ JoinWorker
  <2>1. UNCHANGED <<pc, kind, handler, my, sessions, queue, worker, request, wire, order>>
    BY <1>6, LinkLeaves DEF Unregister, RaiseClosed, CancelToken, TakeIo, JoinWorker
  <2> QED BY <1>1, <1>2, <2>1, NoCallMoves
<1>7. CASE UNCHANGED vars
  BY <1>1, <1>2, <1>7, NoCallMoves DEF vars
<1> QED BY <1>3, <1>4, <1>5, <1>6, <1>7 DEF Next, CloseStep, LinkStep

LEMMA RouteInit == Init => RouteInvariant
<1> SUFFICES ASSUME Init PROVE RouteInvariant
  OBVIOUS
<1>1. TxInvariant
  BY TxInit
<1>2. CallersTyped /\ SessionsSingle /\ WorkersIdle
  BY DEF Init, CallersTyped, Callers, SessionsSingle, WorkersIdle
<1>3. \A s, c \in Calls : ~ InChannel(s, c) /\ Emitted(c) = {}
  BY DEF Init, InChannel, Emitted
<1>4. Located /\ OnWire
  BY <1>3 DEF Init, Located, OnWire
<1> QED BY <1>1, <1>2, <1>4 DEF RouteInvariant

(* What a call has on the wire, as the properties count it.                *)
LEMMA PlacesFromEmitted ==
  ASSUME RouteInvariant, NEW c \in Calls, NEW part \in Parts
  PROVE  /\ part \in Emitted(c) => Cardinality(Places(c, part)) = 1
         /\ part \notin Emitted(c) => Places(c, part) = {}
<1>1. DOMAIN wire = 1..Len(wire)
  BY DEF RouteInvariant, TxInvariant, Typed
<1>2. ASSUME part \in Emitted(c) PROVE Cardinality(Places(c, part)) = 1
  <2>1. PICK i \in 1..Len(wire) : wire[i] = <<c, part>>
    BY <1>2 DEF Emitted
  <2>2. Places(c, part) = {i}
    BY <1>1, <2>1 DEF Places, RouteInvariant, OnWire
  <2> QED BY <2>2, FS_Singleton
<1>3. ASSUME part \notin Emitted(c) PROVE Places(c, part) = {}
  BY <1>1, <1>3 DEF Places, Emitted
<1> QED BY <1>2, <1>3

(* An answer can be relied upon, for any number of calls, handlers and     *)
(* sessions: Ok means that the request is on the wire exactly once and     *)
(* whole, ConnectionClosed that nothing of it is.  A request is in its     *)
(* channel, with its worker or answered, never in two of these, and what   *)
(* it has put on the wire is a function of where it is.                    *)
THEOREM AnswersTruthfulCorrect == Spec => []AnswersTruthful
<1>1. RouteInvariant => AnswersTruthful
  <2> SUFFICES ASSUME RouteInvariant, NEW c \in Calls
               PROVE  /\ pc[c] = "ok" /\ kind[c] = "write" =>
                           Cardinality(Places(c, "first")) = 1 /\ Cardinality(Places(c, "rest")) = 1
                      /\ pc[c] = "ok" /\ kind[c] = "flush" => Cardinality(Places(c, "flush")) = 1
                      /\ pc[c] = "closed" => Untouched(c)
    BY DEF AnswersTruthful
  <2>1. \A part \in Parts : /\ part \in Emitted(c) => Cardinality(Places(c, part)) = 1
                            /\ part \notin Emitted(c) => Places(c, part) = {}
    BY PlacesFromEmitted
  <2>2. /\ pc[c] = "closed" => Emitted(c) = {}
        /\ pc[c] = "ok" /\ kind[c] = "write" => Emitted(c) = {"first", "rest"}
        /\ pc[c] = "ok" /\ kind[c] = "flush" => Emitted(c) = {"flush"}
    BY DEF RouteInvariant, OnWire
  <2> QED BY <2>1, <2>2 DEF Parts, Untouched
<1> QED BY <1>1, RouteInit, RouteStep, PTL DEF Spec

-----------------------------------------------------------------------------
(* The order in which a session serves its requests.                       *)

LEMMA OrderFacts ==
  ASSUME RouteInvariant
  PROVE  Len(order) \in Nat /\ \A i \in 1..Len(order) : order[i] \in Calls
BY DEF RouteInvariant, CallersTyped

(* No request is queued: the calls that are still waiting keep their order *)
(* if every pair that both waits and is served does.                       *)
LEMMA OrderKept ==
  ASSUME RouteInvariant, Ordered, UNCHANGED order,
         \A c \in Calls : pc[c] \in {"waiting"} \cup Answers =>
           pc'[c] \in {"waiting"} \cup Answers /\ my'[c] = my[c],
         \A c \in Calls : pc'[c] = "waiting" => pc[c] = "waiting",
         \A s, a, b \in Calls : Ahead(s, a, b) /\ pc'[a] = "waiting" => Ahead(s, a, b)'
  PROVE  Ordered'
<1>1. \A i \in 1..Len(order) : order[i] \in Calls
  BY OrderFacts
<1>2. \A i \in 1..Len(order) : pc'[order[i]] \in {"waiting"} \cup Answers /\ my'[order[i]] = my[order[i]]
  BY <1>1 DEF Ordered
<1>3. ASSUME NEW i \in 1..Len(order), NEW j \in 1..Len(order), i < j, pc'[order[i]] = "waiting",
             NEW s \in Calls, my'[order[i]] = {s}, my'[order[j]] = {s}
      PROVE  Ahead(s, order[i], order[j])'
  <2>1. Ahead(s, order[i], order[j])
    BY <1>1, <1>2, <1>3 DEF Ordered
  <2>2. PICK a \in Calls, b \in Calls : a = order[i] /\ b = order[j]
    BY <1>1
  <2>3. Ahead(s, a, b)'
    BY <1>3, <2>1, <2>2
  <2>4. a = order'[i] /\ b = order'[j]
    BY <2>2
  <2> QED BY <2>3, <2>4 DEF Ahead, InChannel
<1> QED BY <1>2, <1>3 DEF Ordered

LEMMA OrderWorker ==
  ASSUME RouteInvariant, Ordered, NEW s \in Calls, WorkerStep(s)
  PROVE  Ordered'
<1> USE DEF WorkerAt, maps, caller
<1>1. /\ worker \in [Calls -> {"none", "recv", "serving", "checked", "locking", "writing", "exited"}]
      /\ pc \in [Calls -> Callers] /\ request \in [Calls -> SUBSET Calls]
      /\ queue \in [Calls -> Seq(Calls)]
  BY DEF RouteInvariant, TxInvariant, Typed, CallersTyped
<1>2. CASE Recv(s)
  <2>1. /\ worker[s] = "recv" /\ queue[s] # <<>>
        /\ request' = [request EXCEPT ![s] = {Head(queue[s])}]
        /\ queue' = [queue EXCEPT ![s] = Tail(queue[s])]
        /\ UNCHANGED <<pc, my, order>>
    BY <1>2 DEF Recv
  <2>2. PICK c \in Calls :
          /\ \A t \in Calls \ {s} : queue'[t] = queue[t]
          /\ Len(queue[s]) \in Nat \ {0} /\ Len(queue'[s]) = Len(queue[s]) - 1
          /\ c = Head(queue[s]) /\ c = queue[s][1]
          /\ \A i \in 1..(Len(queue[s]) - 1) : queue'[s][i] = queue[s][i + 1]
    BY <2>1, ChannelShrinks DEF RouteInvariant
  <2>3. /\ request[s] = {} /\ request'[s] = {c}
        /\ \A t \in Calls \ {s} : request'[t] = request[t]
    BY <1>1, <2>1, <2>2 DEF RouteInvariant, WorkersIdle, Busy
  <2>4. ASSUME NEW t \in Calls, NEW a \in Calls, NEW b \in Calls, Ahead(t, a, b)
        PROVE  Ahead(t, a, b)'
    <3>1. CASE t # s
      <4>1. queue'[t] = queue[t] /\ request'[t] = request[t]
        BY <2>2, <2>3, <3>1
      <4> QED BY <2>4, <4>1 DEF Ahead, InChannel
    <3>2. CASE t = s
      <4>1. PICK i \in 1..Len(queue[s]), j \in 1..Len(queue[s]) :
              i < j /\ queue[s][i] = a /\ queue[s][j] = b
        BY <2>3, <2>4, <3>2 DEF Ahead
      <4>2. j - 1 \in 1..Len(queue'[s]) /\ queue'[s][j - 1] = b
        <5>1. j - 1 \in 1..(Len(queue[s]) - 1) /\ (j - 1) + 1 = j
          BY <2>2, <4>1
        <5> QED BY <2>2, <4>1, <5>1
      <4>3. CASE i = 1
        <5>1. a \in request'[s]
          BY <2>2, <2>3, <4>1, <4>3
        <5>2. InChannel(s, b)'
          BY <4>2 DEF InChannel
        <5> QED BY <3>2, <5>1, <5>2 DEF Ahead
      <4>4. CASE i # 1
        <5>1. i - 1 \in 1..Len(queue'[s]) /\ queue'[s][i - 1] = a /\ i - 1 < j - 1
          <6>1. i - 1 \in 1..(Len(queue[s]) - 1) /\ (i - 1) + 1 = i /\ i - 1 < j - 1
            BY <2>2, <4>1, <4>4
          <6> QED BY <2>2, <4>1, <6>1
        <5> QED BY <3>2, <4>2, <5>1 DEF Ahead
      <4> QED BY <4>3, <4>4
    <3> QED BY <3>1, <3>2
  <2> QED BY <2>1, <2>4, OrderKept
<1>3. CASE Exit(s)
  <2>1. /\ worker[s] = "recv"
        /\ pc' = [c \in Calls |-> IF \E i \in DOMAIN queue[s] : queue[s][i] = c
                                    THEN "closed" ELSE pc[c]]
        /\ queue' = [queue EXCEPT ![s] = <<>>]
        /\ UNCHANGED <<my, request, order>>
    BY <1>3 DEF Exit
  <2>2. request[s] = {} /\ DOMAIN queue[s] = 1..Len(queue[s])
    <3>1. request[s] = {}
      BY <2>1 DEF RouteInvariant, WorkersIdle, Busy
    <3>2. DOMAIN queue[s] = 1..Len(queue[s])
      BY <1>1
    <3> QED BY <3>1, <3>2
  <2>3. \A c \in Calls : pc'[c] = IF InChannel(s, c) THEN "closed" ELSE pc[c]
    BY <2>1, <2>2 DEF InChannel
  <2>4. \A t \in Calls \ {s} : queue'[t] = queue[t]
    BY <1>1, <2>1
  <2>5. ASSUME NEW t \in Calls, NEW a \in Calls, NEW b \in Calls, Ahead(t, a, b), pc'[a] = "waiting"
        PROVE  Ahead(t, a, b)'
    <3>1. t # s
      BY <2>2, <2>3, <2>5 DEF Ahead, InChannel
    <3>2. queue'[t] = queue[t] /\ request'[t] = request[t]
      BY <2>1, <2>4, <3>1
    <3> QED BY <2>5, <3>2 DEF Ahead, InChannel
  <2>6. \A c \in Calls : pc[c] \in {"waiting"} \cup Answers =>
          pc'[c] \in {"waiting"} \cup Answers /\ my'[c] = my[c]
    BY <2>1, <2>3 DEF Answers
  <2> QED BY <2>1, <2>3, <2>5, <2>6, OrderKept
<1>4. ASSUME NEW result \in Answers, Answer(s, result), UNCHANGED <<my, queue, order>>
      PROVE  Ordered'
  <2>1. /\ \A c \in Calls : pc'[c] = IF c \in request[s] THEN result ELSE pc[c]
        /\ \A t \in Calls \ {s} : request'[t] = request[t]
    BY <1>1, <1>4 DEF Answer
  <2>2. ASSUME NEW t \in Calls, NEW a \in Calls, NEW b \in Calls, Ahead(t, a, b), pc'[a] = "waiting"
        PROVE  Ahead(t, a, b)'
    <3>1. a \notin request[s]
      BY <2>1, <2>2 DEF Answers
    <3>2. queue'[t] = queue[t] /\ (a \in request[t] => a \in request'[t])
      BY <1>4, <2>1, <3>1
    <3> QED BY <2>2, <3>2 DEF Ahead, InChannel
  <2>3. \A c \in Calls : pc[c] \in {"waiting"} \cup Answers =>
          pc'[c] \in {"waiting"} \cup Answers /\ my'[c] = my[c]
    BY <1>4, <2>1
  <2>4. \A c \in Calls : pc'[c] = "waiting" => pc[c] = "waiting"
    BY <2>1 DEF Answers
  <2> QED BY <1>4, <2>2, <2>3, <2>4, OrderKept
<1>5. ASSUME UNCHANGED <<pc, my, queue, request, order>> PROVE Ordered'
  <2>1. \A t, a, b \in Calls : Ahead(t, a, b) => Ahead(t, a, b)'
    BY <1>5 DEF Ahead, InChannel
  <2> QED BY <1>5, <2>1, OrderKept
<1>6. "closed" \in Answers /\ "ok" \in Answers /\ "failed" \in Answers
  BY DEF Answers
<1>7. CASE EnsureOpen(s) \/ LockIo(s) \/ NoHandle(s) \/ WriteBegin(s) \/ WriteEnd(s) \/ Flush(s) \/ IoFails(s)
  <2>1. \/ UNCHANGED <<pc, my, queue, request, order>>
        \/ (Answer(s, "closed") \/ Answer(s, "ok") \/ Answer(s, "failed")) /\ UNCHANGED <<my, queue, order>>
    BY <1>7 DEF EnsureOpen, LockIo, NoHandle, WriteBegin, WriteEnd, Flush, IoFails
  <2> QED BY <1>4, <1>5, <1>6, <2>1
<1> QED BY <1>2, <1>3, <1>7 DEF WorkerStep

LEMMA OrderSend ==
  ASSUME RouteInvariant, Ordered, NEW c \in Calls, Send(c)
  PROVE  Ordered'
<1>1. /\ pc \in [Calls -> Callers] /\ order \in Seq(Calls) /\ pc[c] = "sending"
      /\ pc' = [pc EXCEPT ![c] = "waiting"] /\ order' = Append(order, c)
      /\ UNCHANGED <<my, request>>
  BY DEF Send, Goto, RouteInvariant, CallersTyped
<1>2. PICK s \in Calls : my[c] = {s}
  BY <1>1 DEF RouteInvariant, SessionsSingle
<1>3. queue' = [queue EXCEPT ![s] = Append(queue[s], c)]
  BY <1>2 DEF Send
<1>4. /\ \A t \in Calls \ {s} : queue'[t] = queue[t]
      /\ Len(queue[s]) \in Nat /\ Len(queue'[s]) = Len(queue[s]) + 1
      /\ \A i \in 1..Len(queue[s]) : queue'[s][i] = queue[s][i]
      /\ queue'[s][Len(queue[s]) + 1] = c
      /\ \A t, d \in Calls : InChannel(t, d)' <=> InChannel(t, d) \/ (t = s /\ d = c)
  <2>1. TxInvariant
    BY DEF RouteInvariant
  <2>2. queue'[s] = Append(queue[s], c) /\ \A t \in Calls \ {s} : queue'[t] = queue[t]
    BY <1>3, <2>1, QueueFacts
  <2> QED BY <2>1, <2>2, ChannelGrows
<1>5. /\ Len(order) \in Nat /\ Len(order') = Len(order) + 1
      /\ \A i \in 1..Len(order) : order'[i] = order[i]
      /\ order'[Len(order) + 1] = c
  BY <1>1
<1>6. \A i \in 1..Len(order) : order[i] \in Calls /\ order[i] # c
  BY <1>1, OrderFacts DEF Ordered, Answers
<1>7. ASSUME NEW i \in 1..Len(order') PROVE pc'[order'[i]] \in {"waiting"} \cup Answers
  <2>1. i \in 1..Len(order) \/ i = Len(order) + 1
    BY <1>5
  <2> QED BY <1>1, <1>5, <1>6, <2>1 DEF Ordered
<1>8. ASSUME NEW t \in Calls, NEW a \in Calls, NEW b \in Calls, Ahead(t, a, b) PROVE Ahead(t, a, b)'
  <2>1. CASE t # s
    <3>1. queue'[t] = queue[t] /\ request'[t] = request[t]
      BY <1>1, <1>4, <2>1
    <3> QED BY <1>8, <3>1 DEF Ahead, InChannel
  <2>2. CASE t = s
    <3>1. CASE a \in request[t] /\ InChannel(t, b)
      BY <1>1, <1>4, <3>1 DEF Ahead
    <3>2. CASE \E i, j \in 1..Len(queue[t]) : i < j /\ queue[t][i] = a /\ queue[t][j] = b
      <4>1. PICK i \in 1..Len(queue[s]), j \in 1..Len(queue[s]) :
              i < j /\ queue[s][i] = a /\ queue[s][j] = b
        BY <2>2, <3>2
      <4>2. i \in 1..Len(queue'[s]) /\ j \in 1..Len(queue'[s]) /\ queue'[s][i] = a /\ queue'[s][j] = b
        BY <1>4, <4>1
      <4> QED BY <2>2, <4>1, <4>2 DEF Ahead
    <3> QED BY <1>8, <3>1, <3>2 DEF Ahead
  <2> QED BY <2>1, <2>2
<1>9. ASSUME NEW a \in Calls, pc[a] = "waiting", my[a] = {s} PROVE Ahead(s, a, c)'
  <2>1. InChannel(s, a) \/ a \in request[s]
    <3>1. PICK t \in Calls : my[a] = {t} /\ (InChannel(t, a) \/ a \in request[t])
      BY <1>9 DEF RouteInvariant, Located
    <3>2. t = s
      BY <1>9, <3>1
    <3> QED BY <3>1, <3>2
  <2>2. CASE a \in request[s]
    <3>1. InChannel(s, c)'
      BY <1>4
    <3> QED BY <1>1, <2>2, <3>1 DEF Ahead
  <2>3. CASE InChannel(s, a)
    <3>1. PICK i \in 1..Len(queue[s]) : queue[s][i] = a
      BY <2>3 DEF InChannel
    <3>2. /\ i \in 1..Len(queue'[s]) /\ Len(queue[s]) + 1 \in 1..Len(queue'[s]) /\ i < Len(queue[s]) + 1
          /\ queue'[s][i] = a /\ queue'[s][Len(queue[s]) + 1] = c
      BY <1>4, <3>1
    <3> QED BY <3>2 DEF Ahead
  <2> QED BY <2>1, <2>2, <2>3
<1>10. ASSUME NEW i \in 1..Len(order'), NEW j \in 1..Len(order'), i < j, pc'[order'[i]] = "waiting",
              NEW t \in Calls, my'[order'[i]] = {t}, my'[order'[j]] = {t}
       PROVE  Ahead(t, order[i], order[j])'
  <2>1. i \in 1..Len(order) /\ (j \in 1..Len(order) \/ j = Len(order) + 1)
    BY <1>5, <1>10
  <2>2. PICK a \in Calls : a = order[i] /\ a = order'[i] /\ a # c
    BY <1>5, <1>6, <2>1
  <2>3. pc[a] = "waiting" /\ my[a] = {t}
    BY <1>1, <1>10, <2>2
  <2>4. CASE j \in 1..Len(order)
    <3>1. PICK b \in Calls : b = order[j] /\ b = order'[j]
      BY <1>5, <1>6, <2>4
    <3>2. Ahead(t, order[i], order[j])
      BY <1>1, <1>10, <2>1, <2>2, <2>3, <2>4, <3>1 DEF Ordered
    <3>3. Ahead(t, a, b)'
      BY <1>8, <2>2, <3>1, <3>2
    <3> QED BY <2>2, <3>1, <3>3 DEF Ahead, InChannel
  <2>5. CASE j = Len(order) + 1
    <3>1. c = order'[j] /\ t = s
      BY <1>1, <1>2, <1>5, <1>10, <2>5
    <3>2. Ahead(t, a, c)'
      BY <1>9, <2>3, <3>1
    <3> QED BY <2>2, <3>1, <3>2 DEF Ahead, InChannel
  <2> QED BY <2>1, <2>4, <2>5
<1> QED BY <1>7, <1>10 DEF Ordered

LEMMA OrderStep == RouteInvariant /\ Ordered /\ [Next]_vars => Ordered'
<1> SUFFICES ASSUME RouteInvariant, Ordered, [Next]_vars PROVE Ordered'
  OBVIOUS
<1> USE DEF caller, maps
<1>1. pc \in [Calls -> Callers] /\ my \in [Calls -> SUBSET Calls]
  BY DEF RouteInvariant, CallersTyped
<1>2. ASSUME NEW c \in Calls,
             \/ \E h \in Handlers, k \in Kinds : Lookup(c, h, k)
             \/ get_or_create(c) \/ CloneSender(c) \/ SendFails(c)
      PROVE  Ordered'
  <2>1. /\ UNCHANGED <<queue, request, order>>
        /\ pc[c] \in {"new", "found", "session", "sending"}
        /\ \E l \in {"found", "session", "sending", "closed"} : pc' = [pc EXCEPT ![c] = l]
    BY <1>2 DEF Lookup, get_or_create, CloneSender, SendFails, Goto
  <2>2. \A d \in Calls \ {c} : my'[d] = my[d]
    BY <1>1, <1>2 DEF Lookup, get_or_create, CloneSender, SendFails
  <2>3. pc'[c] # "waiting" /\ \A d \in Calls \ {c} : pc'[d] = pc[d]
    BY <1>1, <2>1
  <2>4. \A s, a, b \in Calls : Ahead(s, a, b) => Ahead(s, a, b)'
    BY <2>1 DEF Ahead, InChannel
  <2>5. pc[c] \notin {"waiting"} \cup Answers
    BY <2>1 DEF Answers
  <2> QED BY <2>1, <2>2, <2>3, <2>4, <2>5, OrderKept
<1>3. ASSUME NEW c \in Calls, Send(c) PROVE Ordered'
  BY <1>3, OrderSend
<1>4. ASSUME NEW s \in Calls, WorkerStep(s) PROVE Ordered'
  BY <1>4, OrderWorker
<1>5. CASE \/ \E h \in Handlers : DropHandler(h) \/ RemoveSession(h)
           \/ LinkStep \/ Unregister \/ RaiseClosed \/ CancelToken \/ TakeIo \/ JoinWorker
           \/ UNCHANGED vars
  <2>1. UNCHANGED <<pc, my, queue, request, order>>
    BY <1>5, LinkLeaves DEF DropHandler, RemoveSession, Unregister, RaiseClosed, CancelToken, TakeIo,
                JoinWorker, vars
  <2> QED BY <2>1 DEF Ordered, Ahead, InChannel
<1> QED BY <1>2, <1>3, <1>4, <1>5 DEF Next, CallStep, CloseStep, LinkStep

(* A session serves its requests in the order they were queued, for any    *)
(* channel capacity and however many sessions share the port: nothing of a *)
(* request is on the wire before every earlier request of its session is   *)
(* answered.                                                               *)
THEOREM SessionsSerialize == Spec => []Serialized
<1>1. Init => Ordered
  BY DEF Init, Ordered
<1>2. RouteInvariant /\ Ordered => Serialized
  <2> SUFFICES ASSUME RouteInvariant, Ordered, NEW i \in DOMAIN order, NEW j \in DOMAIN order, i < j,
                      my[order[i]] = my[order[j]], ~ Untouched(order[j]), pc[order[i]] \notin Answers
               PROVE  FALSE
    BY DEF Serialized
  <2>1. DOMAIN order = 1..Len(order) /\ order[i] \in Calls /\ order[j] \in Calls
    BY OrderFacts DEF RouteInvariant, CallersTyped
  <2>2. pc[order[i]] = "waiting"
    BY <2>1 DEF Ordered
  <2>3. PICK s \in Calls : my[order[i]] = {s}
    BY <2>1, <2>2 DEF RouteInvariant, SessionsSingle
  <2>4. Ahead(s, order[i], order[j])
    BY <2>1, <2>2, <2>3 DEF Ordered
  <2>5. InChannel(s, order[j])
    BY <2>4 DEF Ahead, InChannel
  <2>6. Emitted(order[j]) = {}
    BY <2>1, <2>5 DEF RouteInvariant, OnWire
  <2> QED BY <2>1, <2>6, PlacesFromEmitted DEF Untouched, Parts
<1> QED BY <1>1, <1>2, RouteInit, RouteStep, OrderStep, PTL DEF Spec

-----------------------------------------------------------------------------
(* Who is there to answer.                                                 *)

(* A channel with a request in it has a worker that runs.  The session of  *)
(* a handler, and that of a call under way, has had its worker started.    *)
Manned ==
  /\ \A s, c \in Calls : InChannel(s, c) => worker[s] \notin {"none", "exited"}
  /\ \A s, c \in Calls : pc[c] \in {"session", "sending", "waiting"} /\ my[c] = {s} => worker[s] # "none"
  /\ \A h \in Handlers : \A s \in sessions[h] : worker[s] # "none"

(* A worker between two requests, or with one, goes on running.            *)
LEMMA WorkerRuns ==
  ASSUME RouteInvariant, NEW s \in Calls,
         \/ Recv(s) \/ EnsureOpen(s) \/ LockIo(s) \/ NoHandle(s)
         \/ WriteBegin(s) \/ WriteEnd(s) \/ Flush(s) \/ IoFails(s)
  PROVE  /\ worker[s] \notin {"none", "exited"} /\ worker'[s] \notin {"none", "exited"}
         /\ \A t \in Calls \ {s} : worker'[t] = worker[t]
         /\ UNCHANGED <<my, sessions>>
         /\ \A c \in Calls : pc'[c] \in {"session", "sending", "waiting"} => pc'[c] = pc[c]
<1>1. /\ worker \in [Calls -> {"none", "recv", "serving", "checked", "locking", "writing", "exited"}]
      /\ pc \in [Calls -> Callers]
  BY DEF RouteInvariant, TxInvariant, Typed, CallersTyped
<1>2. /\ worker[s] \in {"recv", "serving", "checked", "locking", "writing"}
      /\ \E l \in {"recv", "serving", "checked", "locking", "writing"} :
           worker' = [worker EXCEPT ![s] = l]
  BY DEF Recv, EnsureOpen, LockIo, NoHandle, WriteBegin, WriteEnd, Flush, IoFails, WorkerAt, Answer
<1>3. UNCHANGED <<my, sessions>>
  BY DEF Recv, EnsureOpen, LockIo, NoHandle, WriteBegin, WriteEnd, Flush, IoFails, caller, maps
<1>4. UNCHANGED pc \/ \E result \in Answers : pc' = [c \in Calls |-> IF c \in request[s] THEN result ELSE pc[c]]
  BY DEF Recv, EnsureOpen, LockIo, NoHandle, WriteBegin, WriteEnd, Flush, IoFails, Answer, Answers, caller
<1>5. \A c \in Calls : pc'[c] \in {"session", "sending", "waiting"} => pc'[c] = pc[c]
  BY <1>4 DEF Answers
<1> QED BY <1>1, <1>2, <1>3, <1>5

LEMMA MannedStep == RouteInvariant /\ Manned /\ [Next]_vars => Manned'
<1> SUFFICES ASSUME RouteInvariant, Manned, [Next]_vars PROVE Manned'
  OBVIOUS
<1> USE DEF caller, maps
<1>1. /\ pc \in [Calls -> Callers] /\ my \in [Calls -> SUBSET Calls]
      /\ handler \in [Calls -> SUBSET Handlers] /\ sessions \in [Handlers -> SUBSET Calls]
      /\ worker \in [Calls -> {"none", "recv", "serving", "checked", "locking", "writing", "exited"}]
  BY DEF RouteInvariant, TxInvariant, Typed, CallersTyped
<1>2. ASSUME NEW c \in Calls,
             (\E h \in Handlers, k \in Kinds : Lookup(c, h, k)) \/ CloneSender(c) \/ SendFails(c)
      PROVE  Manned'
  <2>1. /\ UNCHANGED <<my, sessions, queue, worker>>
        /\ \E l \in {"found", "sending", "closed"} : pc' = [pc EXCEPT ![c] = l]
        /\ pc'[c] = "sending" => pc[c] = "session"
    BY <1>1, <1>2 DEF Lookup, CloneSender, SendFails, Goto
  <2>2. \A d \in Calls : pc'[d] \in {"session", "sending", "waiting"} =>
                           pc[d] \in {"session", "sending", "waiting"}
    BY <1>1, <2>1
  <2> QED BY <2>1, <2>2 DEF Manned, InChannel
<1>3. ASSUME NEW c \in Calls, get_or_create(c) PROVE Manned'
  <2>1. PICK h \in handler[c] :
          \/ my' = [my EXCEPT ![c] = sessions[h]] /\ UNCHANGED <<sessions, worker>>
          \/ /\ my' = [my EXCEPT ![c] = {c}] /\ sessions' = [sessions EXCEPT ![h] = {c}]
             /\ worker' = [worker EXCEPT ![c] = "recv"]
    BY <1>3 DEF get_or_create
  <2>2. pc' = [pc EXCEPT ![c] = "session"] /\ UNCHANGED queue /\ h \in Handlers
    BY <1>1, <1>3, <2>1 DEF get_or_create, Goto
  <2>3. \A s \in Calls : worker[s] \notin {"none", "exited"} => worker'[s] \notin {"none", "exited"}
    BY <1>1, <2>1
  <2>4. \A s \in Calls : worker[s] # "none" => worker'[s] # "none"
    BY <1>1, <2>1
  <2>5. \A s, d \in Calls : InChannel(s, d)' => worker'[s] \notin {"none", "exited"}
    BY <2>2, <2>3 DEF Manned, InChannel
  <2>6. \A k \in Handlers : \A s \in sessions'[k] : worker'[s] # "none"
    BY <1>1, <2>1, <2>2, <2>4 DEF Manned
  <2>7. \A s, d \in Calls : pc'[d] \in {"session", "sending", "waiting"} /\ my'[d] = {s} => worker'[s] # "none"
    <3>1. \A s \in Calls : my'[c] = {s} => worker'[s] # "none"
      <4> SUFFICES ASSUME NEW s \in Calls, my'[c] = {s} PROVE worker'[s] # "none"
        OBVIOUS
      <4>1. CASE my' = [my EXCEPT ![c] = sessions[h]]
        <5>1. sessions[h] = {s}
          BY <1>1, <4>1
        <5>2. worker[s] # "none"
          BY <2>2, <5>1 DEF Manned
        <5> QED BY <2>4, <5>2
      <4>2. CASE my' = [my EXCEPT ![c] = {c}] /\ worker' = [worker EXCEPT ![c] = "recv"]
        BY <1>1, <4>2
      <4> QED BY <2>1, <4>1, <4>2
    <3>2. \A d \in Calls \ {c} : pc'[d] = pc[d] /\ my'[d] = my[d]
      BY <1>1, <2>1, <2>2
    <3> QED BY <2>4, <3>1, <3>2 DEF Manned
  <2> QED BY <2>5, <2>6, <2>7 DEF Manned
<1>4. ASSUME NEW c \in Calls, Send(c) PROVE Manned'
  <2>1. /\ pc[c] = "sending" /\ pc' = [pc EXCEPT ![c] = "waiting"]
        /\ UNCHANGED <<my, sessions, worker>>
    BY <1>4 DEF Send, Goto
  <2>2. PICK s \in Calls : my[c] = {s}
    BY <2>1 DEF RouteInvariant, SessionsSingle
  <2>3. queue' = [queue EXCEPT ![s] = Append(queue[s], c)] /\ worker[s] # "exited"
    BY <1>4, <2>2 DEF Send
  <2>4. \A t, d \in Calls : InChannel(t, d)' <=> InChannel(t, d) \/ (t = s /\ d = c)
    <3>1. TxInvariant
      BY DEF RouteInvariant
    <3>2. queue'[s] = Append(queue[s], c) /\ \A t \in Calls \ {s} : queue'[t] = queue[t]
      BY <2>3, <3>1, QueueFacts
    <3> QED BY <3>1, <3>2, ChannelGrows
  <2>5. worker[s] # "none"
    BY <2>1, <2>2 DEF Manned
  <2> QED BY <1>1, <2>1, <2>3, <2>4, <2>5 DEF Manned
<1>5. ASSUME NEW s \in Calls,
             \/ Recv(s) \/ EnsureOpen(s) \/ LockIo(s) \/ NoHandle(s)
             \/ WriteBegin(s) \/ WriteEnd(s) \/ Flush(s) \/ IoFails(s)
      PROVE  Manned'
  <2>1. \A t, d \in Calls : InChannel(t, d)' => InChannel(t, d)
    <3>1. CASE Recv(s)
      BY <3>1, ChannelShrinks DEF Recv, RouteInvariant
    <3>2. CASE UNCHANGED queue
      BY <3>2 DEF InChannel
    <3> QED BY <1>5, <3>1, <3>2 DEF EnsureOpen, LockIo, NoHandle, WriteBegin, WriteEnd, Flush, IoFails
  <2>2. /\ worker[s] \notin {"none", "exited"} /\ worker'[s] \notin {"none", "exited"}
        /\ \A t \in Calls \ {s} : worker'[t] = worker[t]
        /\ UNCHANGED <<my, sessions>>
        /\ \A c \in Calls : pc'[c] \in {"session", "sending", "waiting"} => pc'[c] = pc[c]
    BY <1>5, WorkerRuns
  <2> QED BY <1>1, <2>1, <2>2 DEF Manned
<1>6. ASSUME NEW s \in Calls, Exit(s) PROVE Manned'
  <2>1. /\ worker' = [worker EXCEPT ![s] = "exited"] /\ queue' = [queue EXCEPT ![s] = <<>>]
        /\ UNCHANGED <<my, sessions>>
        /\ \A c \in Calls : pc'[c] = pc[c] \/ pc'[c] = "closed"
    BY <1>6 DEF Exit, WorkerAt
  <2>2. queue'[s] = <<>> /\ \A t \in Calls \ {s} : queue'[t] = queue[t]
    BY <2>1, QueueFacts DEF RouteInvariant
  <2>3. \A t, d \in Calls : InChannel(t, d)' => t # s /\ InChannel(t, d)
    BY <2>2 DEF InChannel
  <2> QED BY <1>1, <2>1, <2>3 DEF Manned
<1>7. CASE (\E h \in Handlers : DropHandler(h)) \/ \E h \in Handlers : RemoveSession(h)
  <2>1. /\ UNCHANGED <<pc, my, queue, worker>>
        /\ \E h \in Handlers : sessions' = [sessions EXCEPT ![h] = {}]
    BY <1>7 DEF DropHandler, RemoveSession
  <2> QED BY <1>1, <2>1 DEF Manned, InChannel
<1>8. CASE \/ LinkStep \/ Unregister \/ RaiseClosed \/ CancelToken \/ TakeIo \/ JoinWorker
           \/ UNCHANGED vars
  <2>1. UNCHANGED <<pc, my, queue, worker, sessions>>
    BY <1>8, LinkLeaves DEF Unregister, RaiseClosed, CancelToken, TakeIo,
                JoinWorker, vars
  <2> QED BY <2>1 DEF Manned, InChannel
<1> QED BY <1>2, <1>3, <1>4, <1>5, <1>6, <1>7, <1>8 DEF Next, CallStep, WorkerStep, CloseStep, LinkStep

(* Nobody waits for a worker that is gone, for any number of calls,        *)
(* handlers and any capacity: whoever shut the session down or dropped its *)
(* handler, a queued request is still with a worker that runs, because a   *)
(* worker that stops takes its channel down with it and a send finds it    *)
(* closed.  That such a worker then answers is liveness, and stays with    *)
(* the runs.                                                               *)
THEOREM WaitersHaveWorkers == Spec => []WaitersServed
<1>1. Init => Manned
  <2> SUFFICES ASSUME Init PROVE Manned
    OBVIOUS
  <2>1. \A s, c \in Calls : ~ InChannel(s, c)
    BY DEF Init, InChannel
  <2> QED BY <2>1 DEF Init, Manned
<1>2. RouteInvariant /\ Manned => WaitersServed
  <2> SUFFICES ASSUME RouteInvariant, Manned, NEW c \in Calls, pc[c] = "waiting"
               PROVE  \E s \in my[c] :
                        /\ worker[s] \notin {"none", "exited"}
                        /\ c \in request[s] \/ \E i \in DOMAIN queue[s] : queue[s][i] = c
    BY DEF WaitersServed
  <2>1. PICK s \in Calls : my[c] = {s} /\ (InChannel(s, c) \/ c \in request[s])
    BY DEF RouteInvariant, Located
  <2>2. worker[s] \notin {"none", "exited"}
    BY <2>1 DEF Manned, RouteInvariant, WorkersIdle, Busy
  <2>3. DOMAIN queue[s] = 1..Len(queue[s])
    BY QueueFacts DEF RouteInvariant
  <2> QED BY <2>1, <2>2, <2>3 DEF InChannel
<1> QED BY <1>1, <1>2, RouteInit, RouteStep, MannedStep, PTL DEF Spec

(* A worker in the middle of a write has the handle under it.              *)
HandleHeld == \A s \in Calls : worker[s] = "writing" => io

LEMMA HandleHeldStep == TxInvariant /\ HandleHeld /\ [Next]_vars => HandleHeld'
<1> SUFFICES ASSUME TxInvariant, HandleHeld, [Next]_vars PROVE HandleHeld'
  OBVIOUS
<1> USE DEF caller, maps, conn
<1>1. worker \in [Calls -> {"none", "recv", "serving", "checked", "locking", "writing", "exited"}]
  BY DEF TxInvariant, Typed
<1>2. CASE TakeIo \/ TakeDeadIo
  <2>1. \A s \in Calls : worker[s] # "writing"
    BY <1>2, TxAssumption DEF TakeIo, TakeDeadIo, TxInvariant, MidWrite, Holds
  <2> QED BY <1>2, <2>1 DEF TakeIo, TakeDeadIo, HandleHeld
<1>3. ASSUME NEW s \in Calls, WriteBegin(s) PROVE HandleHeld'
  BY <1>3 DEF WriteBegin, HandleHeld
<1>4. ASSUME NEW s \in Calls,
             \/ Recv(s) \/ Exit(s) \/ EnsureOpen(s) \/ LockIo(s) \/ NoHandle(s)
             \/ WriteEnd(s) \/ Flush(s) \/ IoFails(s)
      PROVE  HandleHeld'
  <2>1. UNCHANGED io /\ \E l \in {"recv", "serving", "checked", "locking", "exited"} :
                          worker' = [worker EXCEPT ![s] = l]
    BY <1>4 DEF Recv, Exit, EnsureOpen, LockIo, NoHandle, WriteEnd, Flush, IoFails, WorkerAt, Answer
  <2> QED BY <1>1, <2>1 DEF HandleHeld
<1>5. ASSUME NEW c \in Calls,
             CallStep(c) \/ \E h \in Handlers, k \in Kinds : Lookup(c, h, k)
      PROVE  HandleHeld'
  <2>1. UNCHANGED io /\ (UNCHANGED worker \/ worker' = [worker EXCEPT ![c] = "recv"])
    BY <1>5 DEF CallStep, Lookup, get_or_create, CloneSender, Send, SendFails
  <2> QED BY <1>1, <2>1 DEF HandleHeld
<1>6. CASE \/ \E h \in Handlers : DropHandler(h) \/ RemoveSession(h)
           \/ Unregister \/ RaiseClosed \/ CancelToken \/ JoinWorker
           \/ UNCHANGED vars
  <2>1. UNCHANGED <<io, worker>>
    BY <1>6 DEF DropHandler, RemoveSession, Unregister, RaiseClosed, CancelToken, JoinWorker, vars
  <2> QED BY <2>1 DEF HandleHeld
<1>7. CASE LinkStep /\ ~TakeDeadIo
  <2>1. UNCHANGED worker
    BY <1>7, LinkLeaves
  <2>2. UNCHANGED io \/ io'
    BY <1>7 DEF LinkStep, PumpStep, PumpLocks, PumpUnlocks, PumpFails, MarkDisconnected, LockDeadIo,
                PauseEnds, CheckState, ReconnectStep, SetReconnecting, BuildStream, BuildFails,
                Install, ReconnectDropped, EnsurePumpRunning
  <2> QED BY <2>1, <2>2 DEF HandleHeld
<1> QED BY <1>2, <1>3, <1>4, <1>5, <1>6, <1>7 DEF Next, WorkerStep, CloseStep, LinkStep

(* A sealed connection is not opened again.                                *)
LEMMA SealedStep == Sealed /\ [Next]_vars => Sealed'
<1> SUFFICES ASSUME Sealed, [Next]_vars PROVE Sealed'
  OBVIOUS
<1> USE DEF conn, closer
<1>1. ASSUME NEW s \in Calls, WorkerStep(s) PROVE Sealed'
  <2>1. UNCHANGED <<conn, pump, closer>>
    BY <1>1 DEF WorkerStep, Recv, Exit, EnsureOpen, LockIo, NoHandle, WriteBegin, WriteEnd, Flush, IoFails
  <2> QED BY <2>1 DEF Sealed
<1>2. ASSUME NEW c \in Calls, CallStep(c) \/ \E h \in Handlers, k \in Kinds : Lookup(c, h, k)
      PROVE  Sealed'
  <2>1. UNCHANGED <<conn, pump, closer>>
    BY <1>2 DEF CallStep, Lookup, get_or_create, CloneSender, Send, SendFails
  <2> QED BY <2>1 DEF Sealed
<1>3. CASE PumpStep
  BY <1>3 DEF Sealed, PumpStep, PumpLocks, PumpUnlocks, PumpFails, PumpAt, MarkDisconnected, LockDeadIo,
              TakeDeadIo, PauseEnds
<1>4. CASE CheckState \/ ReconnectStep
  BY <1>4 DEF Sealed, RcAt, CheckState, ReconnectStep, SetReconnecting, BuildStream, BuildFails, Install,
              ReconnectDropped, EnsurePumpRunning
<1>5. CASE Unregister \/ CloseStep
  BY <1>5 DEF Sealed, Unregister, CloseStep, CloseAt, RaiseClosed, CancelToken, TakeIo, RemoveSession,
              JoinWorker
<1>6. CASE (\E h \in Handlers : DropHandler(h)) \/ UNCHANGED vars
  BY <1>6 DEF Sealed, DropHandler, vars
<1> QED BY <1>1, <1>2, <1>3, <1>4, <1>5, <1>6 DEF Next

(* A closed connection stays closed and nothing more reaches its port, in  *)
(* any handler: the close waits for the lock, which a worker keeps from    *)
(* the first part of a write to its rest, whoever gets the lock later      *)
(* finds the handle gone, and neither the pump nor a new reconnect brings  *)
(* it back.  The hypothesis leaves out the reconnect that was past its     *)
(* check when the close came, and the loss that was about to be recorded.  *)
THEOREM CloseQuietens == Spec => QuietAfterClose
<1>1. Init => TxInvariant /\ HandleHeld
  BY TxInit DEF Init, HandleHeld
<1>2. HandleHeld /\ [Next]_vars => (~io => UNCHANGED wire)
  <2> SUFFICES ASSUME HandleHeld, [Next]_vars, ~io PROVE UNCHANGED wire
    OBVIOUS
  <2>1. ASSUME NEW s \in Calls, WorkerStep(s) PROVE UNCHANGED wire
    BY <2>1 DEF HandleHeld, WorkerStep, Recv, Exit, EnsureOpen, LockIo, NoHandle, WriteBegin, WriteEnd,
                Flush, IoFails
  <2>2. ASSUME NEW c \in Calls, CallStep(c) \/ \E h \in Handlers, k \in Kinds : Lookup(c, h, k)
        PROVE  UNCHANGED wire
    BY <2>2 DEF CallStep, Lookup, get_or_create, CloneSender, Send, SendFails
  <2>3. CASE \/ \E h \in Handlers : DropHandler(h) \/ RemoveSession(h)
             \/ LinkStep \/ Unregister \/ RaiseClosed \/ CancelToken \/ TakeIo \/ JoinWorker
             \/ UNCHANGED vars
    BY <2>3, LinkLeaves DEF DropHandler, RemoveSession, Unregister, RaiseClosed, CancelToken, TakeIo,
                            JoinWorker, vars
  <2> QED BY <2>1, <2>2, <2>3 DEF Next, CloseStep, LinkStep
<1>3. HandleHeld /\ [Next]_vars => (Sealed => Sealed' /\ UNCHANGED wire)
  BY <1>2, SealedStep DEF Sealed
<1> QED BY <1>1, <1>3, TxStep, HandleHeldStep, PTL DEF Spec, QuietAfterClose

=============================================================================
