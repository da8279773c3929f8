----------------------------- MODULE RxSessions -----------------------------
(***************************************************************************)
(* The handlers of open, close and the reading tools around the registry   *)
(* (src/src/server.rs, src/src/tools/port_ops.rs, src/src/tools/io_ops.rs) *)
(* and the RX sessions they create and remove (RxSessionManager in         *)
(* src/src/rx_session.rs), each of which charges its ring to the budget.   *)
(*                                                                         *)
(* An RX session object is named by the call that created it.              *)
(***************************************************************************)
EXTENDS ConnectionRegistry

CONSTANTS
  RingSizes,      \* the rx_buffer_size of an open; zero is refused
  DefaultRing,    \* DEFAULT_RX_BUFFER_SIZE, what the reading tools ask for
  ReadSizes,      \* the max_buffered_bytes of a read
  program_limit,  \* the budget, and the ceiling of one reservation
  tool_limit

ASSUME SessionsAssumption ==
  /\ RingSizes \cup ReadSizes \cup {DefaultRing} \subseteq Nat
  /\ program_limit \in Nat \ {0}
  /\ tool_limit \in 1..program_limit

VARIABLES
  step,       \* where each handler is once its registry call has returned
  sessions,   \* the session map: each id has no or one session object
  joining,    \* the session object each close handler waits for
  available,  \* bytes left in the budget
  charge      \* what each session's ring and each read in progress reserved

svars == <<step, sessions, joining>>
bvars == <<available, charge>>
vars  == <<rvars, svars, bvars>>

Ring(s) == <<s, "ring">>
Work(c) == <<c, "work">>

Pool == INSTANCE BudgetPool WITH
          Owners <- Calls \X {"ring", "work"},
          Requests <- RingSizes \cup ReadSizes \cup {DefaultRing},
          free <- available, held <- charge

Init ==
  /\ RInit
  /\ step = [c \in Calls |-> "none"]
  /\ sessions = [k \in Calls |-> {}]
  /\ joining = [c \in Calls |-> {}]
  /\ Pool!PInit

Advance(c, label) == step' = [step EXCEPT ![c] = label]

(* Slip: an existing session is not reused.                                *)
get_or_create_always(c, k, capacity, ok, err) ==
  IF Pool!CanReserve(capacity)
    THEN /\ Advance(c, ok)
         /\ Pool!Reserve(Ring(c), capacity)
         /\ sessions' = [sessions EXCEPT ![k] = {c}]
    ELSE Advance(c, err) /\ UNCHANGED <<sessions, bvars>>

(* RxSessionManager::get_or_create, under the sessions lock: the session   *)
(* of id k is reused whatever its size, or created with its ring charged   *)
(* to the budget and its pump started.                                     *)
get_or_create(c, k, capacity, ok, err) ==
  IF sessions[k] # {}
    THEN Advance(c, ok) /\ UNCHANGED <<sessions, bvars>>
  ELSE IF Pool!CanReserve(capacity)
    THEN /\ Advance(c, ok)
         /\ Pool!Reserve(Ring(c), capacity)
         /\ sessions' = [sessions EXCEPT ![k] = {c}]
  ELSE Advance(c, err) /\ UNCHANGED <<sessions, bvars>>

(* Slip: the error of get_or_create is dropped.                            *)
OpenSessionUnchecked(c, capacity) ==
  /\ pc[c] = "found"
  /\ target[c] = {c}
  /\ step[c] = "none"
  /\ get_or_create(c, c, capacity, "ready", "ready")
  /\ UNCHANGED <<rvars, joining>>

(* open_connection after the lookup of the connection it registered; an    *)
(* error returns to the client and leaves the connection registered.       *)
OpenSession(c, capacity) ==
  /\ pc[c] = "found"
  /\ target[c] = {c}
  /\ step[c] = "none"
  /\ get_or_create(c, c, capacity, "ready", "failed")
  /\ UNCHANGED <<rvars, joining>>

(* read after its lookup: the bytes it may buffer are reserved first ...   *)
ReadReserve(c, n) ==
  /\ pc[c] = "found"
  /\ target[c] # {c}
  /\ step[c] = "none"
  /\ IF Pool!CanReserve(n)
       THEN Advance(c, "reserved") /\ Pool!Reserve(Work(c), n)
       ELSE Advance(c, "failed") /\ UNCHANGED bvars
  /\ UNCHANGED <<rvars, sessions, joining>>

(* ... then it takes the connection's session, creating one if need be ... *)
ReadSession(c) ==
  /\ step[c] = "reserved"
  /\ \E k \in target[c] : get_or_create(c, k, DefaultRing, "reading", "reading")
  /\ UNCHANGED <<rvars, joining>>

(* ... and its reservation is dropped however the call ends.               *)
ReadEnds(c) ==
  /\ step[c] = "reading"
  /\ Advance(c, "over")
  /\ Pool!Release(Work(c))
  /\ UNCHANGED <<rvars, sessions, joining>>

(* The close handler after a successful close: RxSessionManager::remove    *)
(* takes the session out of the map, ...                                   *)
SessionRemove(c) ==
  /\ pc[c] = "done"
  /\ step[c] = "none"
  /\ joining' = [joining EXCEPT ![c] = UNION {sessions[k] : k \in target[c]}]
  /\ Advance(c, IF joining'[c] = {} THEN "over" ELSE "joining")
  /\ sessions' = [k \in Calls |-> IF k \in target[c] THEN {} ELSE sessions[k]]
  /\ UNCHANGED <<rvars, bvars>>

(* Slip: the session is dropped without shutdown_and_join.                 *)
SessionForgotten(c) ==
  /\ step[c] = "joining"
  /\ Advance(c, "over")
  /\ joining' = [joining EXCEPT ![c] = {}]
  /\ UNCHANGED <<rvars, sessions, bvars>>

(* ... stops its pump, waits for the pump to exit and drops the            *)
(* reservation of its ring.                                                *)
SessionJoined(c) ==
  /\ step[c] = "joining"
  /\ Advance(c, "over")
  /\ joining' = [joining EXCEPT ![c] = {}]
  /\ \E s \in joining[c] : Pool!Release(Ring(s))
  /\ UNCHANGED <<rvars, sessions>>

Next ==
  \/ RNext /\ UNCHANGED <<svars, bvars>>
  \/ \E c \in Calls :
       \/ \E capacity \in RingSizes : OpenSession(c, capacity)
       \/ \E n \in ReadSizes : ReadReserve(c, n)
       \/ ReadSession(c) \/ ReadEnds(c)
       \/ SessionRemove(c) \/ SessionJoined(c)

Spec == Init /\ [][Next]_vars

(* Every handler that has started runs on.                                 *)
FairSpec ==
  /\ Spec
  /\ RFairness
  /\ \A c \in Calls :
       /\ \A capacity \in RingSizes : WF_vars(OpenSession(c, capacity))
       /\ WF_vars(ReadSession(c)) /\ WF_vars(ReadEnds(c))
       /\ WF_vars(SessionRemove(c)) /\ WF_vars(SessionJoined(c))

-----------------------------------------------------------------------------
(* Properties.                                                             *)

TypeOK ==
  /\ RTypeOK
  /\ step \in [Calls -> {"none", "ready", "reserved", "reading", "joining", "over", "failed"}]
  /\ sessions \in [Calls -> SUBSET Calls]
  /\ joining \in [Calls -> SUBSET Calls]
  /\ available \in 0..program_limit
  /\ charge \in [Calls \X {"ring", "work"} -> Nat]

(* The session objects that the map or a close handler can still reach.    *)
Reachable == UNION ({sessions[k] : k \in Calls} \cup {joining[c] : c \in Calls})

(* The session objects that were not shut down: their pump was started and *)
(* their ring is charged.                                                  *)
Live == {s \in Calls : charge[Ring(s)] # 0}

(* No session is orphaned: whatever open, read and close overlap, a ring   *)
(* that is charged to the budget belongs to a session that a close can     *)
(* still shut down, and a session in the map has its ring charged.         *)
RingsCharged == Live = Reachable

(* "Each open serial connection has at most one RxSession": a registered   *)
(* connection is never read by two pumps, which would split its bytes      *)
(* between two rings.                                                      *)
OneSession ==
  \A k \in connections : \A s, u \in Live : target[s] = {k} /\ target[u] = {k} => s = u

(* The pump runs from open to close: a connection whose open succeeded has *)
(* a session for as long as it is registered.                              *)
SessionWhileOpen ==
  \A c \in Calls : step[c] = "ready" /\ c \in connections => sessions[c] # {}

(* The header of rx_session.rs: "The ring is a budgeted allocation charged *)
(* at open and released at close."  When every call has returned and no    *)
(* connection is registered, the whole budget is available again.          *)
Quiet ==
  /\ connections = {}
  /\ \A c \in Calls : \/ pc[c] \in {"new", "failed"}
                      \/ step[c] \in {"ready", "over", "failed"}

RingReleasedAtClose == Quiet => available = program_limit

=============================================================================
