------------------------- MODULE ConnectionRegistry -------------------------
(***************************************************************************)
(* ConnectionManager (src/src/serial/manager.rs): the registry of open     *)
(* connections and the two sets of ports reserved while a port is being    *)
(* opened or closed.  Every section under the registry lock is one step;   *)
(* the hardware open and the hardware close happen between such sections.  *)
(*                                                                         *)
(* A call is used once.  The connection an open call creates is named by   *)
(* that call, which stands for the fresh connection id.                    *)
(***************************************************************************)
EXTENDS Integers

CONSTANTS
  Calls,   \* the calls made to the manager, and the ids of their connections
  Ports    \* the serial ports

VARIABLES
  pc,             \* where each call is
  port,           \* the port each open call asked for (a set: empty before)
  target,         \* the connection each close or lookup call is about
  connections,    \* the registered connections
  opening_ports,  \* ports reserved by an open in progress
  closing_ports,  \* ports reserved by a close in progress
  deferred,       \* ports whose reservation a detached cleanup task will drop
  device          \* connections that hold their port open in the OS

registry == <<connections, opening_ports, closing_ports, deferred>>
rvars    == <<pc, port, target, registry, device>>

RInit ==
  /\ pc = [c \in Calls |-> "new"]
  /\ port = [c \in Calls |-> {}]
  /\ target = [c \in Calls |-> {}]
  /\ connections = {}
  /\ opening_ports = {}
  /\ closing_ports = {}
  /\ deferred = {}
  /\ device = {}

Goto(c, label) == pc' = [pc EXCEPT ![c] = label]

(* Slip: a close in progress does not count.                               *)
Taken_unless_closing(p) == (\E k \in connections : p \in port[k]) \/ p \in opening_ports

(* find_connection_by_port, and the two reservations open() and insert()   *)
(* look at under the lock.                                                 *)
Taken(p) ==
  \/ \E k \in connections : p \in port[k]
  \/ p \in opening_ports
  \/ p \in closing_ports

-----------------------------------------------------------------------------
(* ConnectionManager::open.                                                *)

(* The port is reserved, or the call fails.                                *)
OpenReserve(c, p) ==
  /\ pc[c] = "new"
  /\ IF Taken(p)
       THEN Goto(c, "failed") /\ UNCHANGED <<port, opening_ports>>
       ELSE /\ Goto(c, "opening")
            /\ port' = [port EXCEPT ![c] = {p}]
            /\ opening_ports' = opening_ports \cup {p}
  /\ UNCHANGED <<target, connections, closing_ports, deferred, device>>

(* The opener returns, without the lock: the port is open in the OS, or it *)
(* is not.                                                                 *)
OpenerReturns(c) ==
  /\ pc[c] = "opening"
  /\ \/ Goto(c, "opened") /\ device' = device \cup {c}
     \/ Goto(c, "refused") /\ UNCHANGED device
  /\ UNCHANGED <<port, target, registry>>

(* Under the lock: the reservation becomes a registered connection.        *)
OpenInsert(c) ==
  /\ pc[c] = "opened"
  /\ Goto(c, "registered")
  /\ opening_ports' = opening_ports \ port[c]
  /\ connections' = connections \cup {c}
  /\ UNCHANGED <<port, target, closing_ports, deferred, device>>

(* Slip: a contended lock leaves the reservation.                          *)
DropGuardTryOnly(c) ==
  \/ opening_ports' = opening_ports \ port[c] /\ UNCHANGED deferred
  \/ UNCHANGED <<opening_ports, deferred>>

(* OpeningReservationGuard::drop: the reservation is removed at once when  *)
(* try_lock succeeds, by a detached task when the lock is contended.       *)
DropGuard(c) ==
  \/ opening_ports' = opening_ports \ port[c] /\ UNCHANGED deferred
  \/ deferred' = deferred \cup port[c] /\ UNCHANGED opening_ports

(* The opener's error leaves open() and drops the guard.                   *)
OpenFails(c) ==
  /\ pc[c] = "refused"
  /\ Goto(c, "failed")
  /\ DropGuard(c)
  /\ UNCHANGED <<port, target, connections, closing_ports, device>>

(* The future of open() is dropped at one of its awaits: the connection    *)
(* the opener made, if any, is dropped before the guard is.                *)
OpenCancelled(c) ==
  /\ pc[c] \in {"opening", "opened", "refused"}
  /\ Goto(c, "failed")
  /\ device' = device \ {c}
  /\ DropGuard(c)
  /\ UNCHANGED <<port, target, connections, closing_ports>>

(* The detached task gets the lock.                                        *)
DeferredCleanup(p) ==
  /\ p \in deferred
  /\ deferred' = deferred \ {p}
  /\ opening_ports' = opening_ports \ {p}
  /\ UNCHANGED <<pc, port, target, connections, closing_ports, device>>

(* ConnectionManager::insert registers a connection built elsewhere.       *)
Insert(c, p) ==
  /\ pc[c] = "new"
  /\ IF Taken(p)
       THEN Goto(c, "failed") /\ UNCHANGED <<port, connections, device>>
       ELSE /\ Goto(c, "inserted")
            /\ port' = [port EXCEPT ![c] = {p}]
            /\ connections' = connections \cup {c}
            /\ device' = device \cup {c}
  /\ UNCHANGED <<target, opening_ports, closing_ports, deferred>>

-----------------------------------------------------------------------------
(* ConnectionManager::close and get.                                       *)

(* The connection leaves the registry and its port is reserved.            *)
CloseRemove(c, k) ==
  /\ pc[c] = "new"
  /\ target' = [target EXCEPT ![c] = {k}]
  /\ IF k \in connections
       THEN /\ Goto(c, "closing")
            /\ connections' = connections \ {k}
            /\ closing_ports' = closing_ports \cup port[k]
       ELSE Goto(c, "failed") /\ UNCHANGED <<connections, closing_ports>>
  /\ UNCHANGED <<port, opening_ports, deferred, device>>

(* The reconnect task is aborted and SerialConnection::close runs: the     *)
(* stream is dropped whether or not purging and shutting it down succeed.  *)
CloseHardware(c) ==
  /\ pc[c] = "closing"
  /\ \/ Goto(c, "closed")
     \/ Goto(c, "close_failed")
  /\ device' = device \ target[c]
  /\ UNCHANGED <<port, target, registry>>

(* Slip: an error of the hardware close leaves before the port is released.*)
CloseReleaseOnSuccess(c) ==
  /\ \/ pc[c] = "closed" /\ Goto(c, "done")
        /\ closing_ports' = closing_ports \ UNION {port[k] : k \in target[c]}
     \/ pc[c] = "close_failed" /\ Goto(c, "failed") /\ UNCHANGED closing_ports
  /\ UNCHANGED <<port, target, connections, opening_ports, deferred, device>>

(* Under the lock: the port may be opened again, and the result of the     *)
(* hardware close is returned.                                             *)
CloseRelease(c) ==
  /\ \/ pc[c] = "closed" /\ Goto(c, "done")
     \/ pc[c] = "close_failed" /\ Goto(c, "failed")
  /\ closing_ports' = closing_ports \ UNION {port[k] : k \in target[c]}
  /\ UNCHANGED <<port, target, connections, opening_ports, deferred, device>>

(* The future of close() is dropped at one of its awaits, before or after  *)
(* the stream was taken.  Unlike the reservation of open() that of close() *)
(* has no guard, and nothing takes the port out of closing_ports any more. *)
CloseDropped(c) ==
  /\ pc[c] \in {"closing", "closed", "close_failed"}
  /\ Goto(c, "dropped")
  /\ device' \in {device, device \ target[c]}
  /\ UNCHANGED <<port, target, registry>>

(* get: a tool call looks its connection up; open looks up its own.        *)
Get(c, k) ==
  /\ \/ pc[c] = "new"
     \/ pc[c] = "registered" /\ k = c
  /\ target' = [target EXCEPT ![c] = {k}]
  /\ Goto(c, IF k \in connections THEN "found" ELSE "failed")
  /\ UNCHANGED <<port, registry, device>>

RNext ==
  \/ \E c \in Calls, p \in Ports : OpenReserve(c, p) \/ Insert(c, p)
  \/ \E c \in Calls :
       \/ OpenerReturns(c) \/ OpenInsert(c) \/ OpenFails(c) \/ OpenCancelled(c)
       \/ CloseHardware(c) \/ CloseRelease(c) \/ CloseDropped(c)
  \/ \E p \in Ports : DeferredCleanup(p)
  \/ \E c, k \in Calls : CloseRemove(c, k) \/ Get(c, k)

RSpec == RInit /\ [][RNext]_rvars

(* The opener and the hardware close return, and the lock is fair.         *)
RFairness ==
  /\ \A c \in Calls :
       /\ WF_rvars(OpenerReturns(c)) /\ WF_rvars(OpenInsert(c)) /\ WF_rvars(OpenFails(c))
       /\ WF_rvars(CloseHardware(c)) /\ WF_rvars(CloseRelease(c))
  /\ \A p \in Ports : WF_rvars(DeferredCleanup(p))

-----------------------------------------------------------------------------
(* Properties.                                                             *)

RTypeOK ==
  /\ pc \in [Calls -> {"new", "opening", "opened", "refused", "registered", "inserted",
                       "found", "closing", "closed", "close_failed", "done", "failed",
                       "dropped"}]
  /\ port \in [Calls -> SUBSET Ports]
  /\ target \in [Calls -> SUBSET Calls]
  /\ connections \subseteq Calls
  /\ opening_ports \subseteq Ports
  /\ closing_ports \subseteq Ports
  /\ deferred \subseteq Ports
  /\ device \subseteq Calls

(* No two connections ever hold the same port open in the OS, whatever     *)
(* opens, cancelled opens and closes of it overlap: a port is opened again *)
(* only after the connection that had it has let go of it.                 *)
PortExclusive ==
  \A a, b \in device : \A p \in Ports : p \in port[a] /\ p \in port[b] => a = b

(* Who is responsible for a port, of which there is at most one: an open   *)
(* call, a registered connection, a close call, or a cleanup task.  A      *)
(* close whose future was dropped answers for its port no longer.          *)
Opening(p) == {c \in Calls : pc[c] \in {"opening", "opened", "refused"} /\ p \in port[c]}
Registered(p) == {c \in connections : p \in port[c]}
Closing(p) == {c \in Calls : /\ pc[c] \in {"closing", "closed", "close_failed"}
                             /\ \E k \in target[c] : p \in port[k]}
Abandoned(p) == {c \in Calls : pc[c] = "dropped" /\ \E k \in target[c] : p \in port[k]}

(* A reservation is never dropped early, and only a dropped close orphans  *)
(* one: a port is in opening_ports exactly while an open of it or a        *)
(* detached cleanup is under way, and in closing_ports exactly while a     *)
(* close of it is under way or one of its closes was abandoned.            *)
ReservationOwned ==
  \A p \in Ports : /\ p \in opening_ports <=> Opening(p) # {} \/ p \in deferred
                   /\ p \in closing_ports <=> Closing(p) # {} \/ Abandoned(p) # {}

(* A failed, cancelled or contended open never wedges its port, and        *)
(* neither does a failed close.  A close whose future was dropped does:    *)
(* its port stays in closing_ports for ever.                               *)
ReservationReleased ==
  \A p \in Ports : p \in opening_ports \cup closing_ports
                     ~> \/ p \notin opening_ports \cup closing_ports
                        \/ Abandoned(p) # {}

=============================================================================
