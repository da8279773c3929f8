----------------------- MODULE ConnectionRegistryProofs -----------------------
(***************************************************************************)
(* Port exclusivity of the registry, for any number of calls and ports.    *)
(*                                                                         *)
(* PortExclusive is not inductive: it holds because a port that some       *)
(* connection holds open is always claimed by exactly one party, an open   *)
(* call through opening_ports, the registered connection itself, or a      *)
(* close call through closing_ports.  The same phases show that a          *)
(* reservation has an owner and, with the handlers of RxSessions, that an  *)
(* open connection has one session whose ring is charged to the budget.    *)
(***************************************************************************)
EXTENDS RxSessions, TLAPS

OpenPhase  == {"opening", "opened", "refused"}

(* A close whose future was dropped keeps its claim: its port stays in     *)
(* closing_ports, and its stream may still be open.                        *)
ClosePhase == {"closing", "closed", "close_failed", "dropped"}

(* What the program counter of a call says about its connection.           *)
Phases ==
  /\ \A c \in Calls : pc[c] = "new" => port[c] = {}
  /\ \A k \in connections : pc[k] \in {"registered", "inserted", "found"}
  /\ \A c \in Calls : pc[c] \in ClosePhase =>
       \E k \in Calls : /\ target[c] = {k}
                        /\ k \notin connections
                        /\ pc[k] \notin OpenPhase \cup {"new"}

(* A port in use is marked as such: by the reservation of its open or its  *)
(* close, which no other call can then take.                               *)
Marked ==
  /\ \A c \in Calls : pc[c] \in OpenPhase => port[c] \subseteq opening_ports
  /\ \A c, k \in Calls : pc[c] \in ClosePhase /\ target[c] = {k} => port[k] \subseteq closing_ports

(* No port has two claims: not two of the same kind, ...                   *)
OneOpening ==
  \A p \in Ports : \A a, b \in Calls :
    pc[a] \in OpenPhase /\ pc[b] \in OpenPhase /\ p \in port[a] /\ p \in port[b] => a = b

OneRegistered ==
  \A p \in Ports : \A a, b \in connections : p \in port[a] /\ p \in port[b] => a = b

OneClosing ==
  \A p \in Ports : \A a, b, k, l \in Calls :
    /\ pc[a] \in ClosePhase /\ pc[b] \in ClosePhase
    /\ target[a] = {k} /\ target[b] = {l}
    /\ p \in port[k] /\ p \in port[l]
    => a = b

(* ... and not two of different kinds.                                     *)
Apart ==
  /\ \A a \in connections : \A p \in port[a] : p \notin opening_ports /\ p \notin closing_ports
  /\ \A p \in opening_ports : p \notin closing_ports
  /\ \A p \in deferred : /\ p \in opening_ports
                         /\ \A a \in Calls : pc[a] \in OpenPhase => p \notin port[a]

Disjoint == OneOpening /\ OneRegistered /\ OneClosing /\ Apart

(* A connection that holds its port open has a claim on it.                *)
DeviceClaimed ==
  \A a \in device : \/ pc[a] = "opened"
                    \/ a \in connections
                    \/ \E c \in Calls : pc[c] \in {"closing", "dropped"} /\ target[c] = {a}

RegistryInvariant == RTypeOK /\ Phases /\ Marked /\ Disjoint /\ DeviceClaimed

LEMMA ExclusiveFromClaims == RegistryInvariant => PortExclusive
<1> SUFFICES ASSUME RegistryInvariant,
                    NEW a \in device, NEW b \in device, NEW p \in Ports,
                    p \in port[a], p \in port[b]
             PROVE  a = b
  BY DEF PortExclusive
<1> USE DEF RegistryInvariant, Disjoint, RTypeOK, OpenPhase, ClosePhase
<1>1. a \in Calls /\ b \in Calls
  OBVIOUS
<1>2. CASE pc[a] = "opened"
  BY <1>1, <1>2 DEF Marked, OneOpening, OneRegistered, OneClosing, Apart, DeviceClaimed
<1>3. CASE a \in connections
  BY <1>1, <1>3 DEF Marked, OneOpening, OneRegistered, OneClosing, Apart, DeviceClaimed
<1>4. CASE \E c \in Calls : pc[c] \in {"closing", "dropped"} /\ target[c] = {a}
  <2>1. PICK c \in Calls : pc[c] \in {"closing", "dropped"} /\ target[c] = {a}
    BY <1>4
  <2>2. p \in closing_ports
    BY <1>1, <2>1 DEF Marked
  <2>3. PICK d \in Calls : pc[d] \in {"closing", "dropped"} /\ target[d] = {b}
    BY <1>1, <2>2 DEF Marked, OneOpening, OneRegistered, OneClosing, Apart, DeviceClaimed
  <2>4. c = d
    BY <1>1, <2>1, <2>3 DEF OneClosing
  <2> QED BY <2>1, <2>3, <2>4
<1> QED BY <1>2, <1>3, <1>4 DEF DeviceClaimed

LEMMA RegistryInit == RInit => RegistryInvariant
BY DEF RInit, RegistryInvariant, RTypeOK, Phases, Marked, Disjoint, DeviceClaimed,
       OneOpening, OneRegistered, OneClosing, Apart, OpenPhase, ClosePhase

LEMMA RegistryStep == RegistryInvariant /\ [RNext]_rvars => RegistryInvariant'
<1> SUFFICES ASSUME RegistryInvariant, [RNext]_rvars PROVE RegistryInvariant'
  OBVIOUS
<1> USE DEF RegistryInvariant, Disjoint, OpenPhase, ClosePhase, Goto
<1>1. ASSUME NEW c \in Calls, NEW p \in Ports, OpenReserve(c, p) PROVE RegistryInvariant'
  <2> USE <1>1 DEF OpenReserve, Taken, RTypeOK
  <2>1. RTypeOK'
    OBVIOUS
  <2>2. Phases'
    BY DEF Phases
  <2>3. Marked'
    <3>1. \A a \in Calls : pc'[a] \in OpenPhase => port'[a] \subseteq opening_ports'
      BY DEF Marked
    <3>2. \A a, k \in Calls : pc'[a] \in ClosePhase /\ target'[a] = {k} =>
            pc[a] \in ClosePhase /\ target[a] = {k} /\ port'[k] = port[k]
      BY DEF Phases
    <3>3. closing_ports' = closing_ports
      OBVIOUS
    <3> QED BY <3>1, <3>2, <3>3 DEF Marked
  <2>4. OneOpening'
    BY DEF OneOpening, Marked, Apart
  <2>5. OneRegistered'
    BY DEF OneRegistered, Phases, Marked, Apart
  <2>6. OneClosing'
    <3>1. \A a, k \in Calls : pc'[a] \in ClosePhase /\ target'[a] = {k} =>
            pc[a] \in ClosePhase /\ target[a] = {k} /\ port'[k] = port[k]
      BY DEF Phases
    <3> QED BY <3>1 DEF OneClosing
  <2>7. Apart'
    BY DEF Apart, OneOpening, OneRegistered, Phases, Marked
  <2>8. DeviceClaimed'
    BY DEF DeviceClaimed, Phases
  <2> QED BY <2>1, <2>2, <2>3, <2>4, <2>5, <2>6, <2>7, <2>8 DEF Disjoint
<1>2. ASSUME NEW c \in Calls, NEW p \in Ports, Insert(c, p) PROVE RegistryInvariant'
  <2> USE <1>2 DEF Insert, Taken, RTypeOK
  <2>1. RTypeOK'
    OBVIOUS
  <2>2. Phases'
    BY DEF Phases
  <2>3. Marked'
    BY DEF Marked, Phases, Apart, OneOpening
  <2>4. OneOpening'
    BY DEF OneOpening, Marked, Apart
  <2>5. OneRegistered'
    BY DEF OneRegistered, Phases, Marked, Apart
  <2>6. OneClosing'
    <3>1. \A a, k \in Calls : pc'[a] \in ClosePhase /\ target'[a] = {k} =>
            pc[a] \in ClosePhase /\ target[a] = {k} /\ port'[k] = port[k]
      BY DEF Phases
    <3> QED BY <3>1 DEF OneClosing
  <2>7. Apart'
    BY DEF Apart, OneOpening, OneRegistered, Phases, Marked
  <2>8. DeviceClaimed'
    BY DEF DeviceClaimed, Phases
  <2> QED BY <2>1, <2>2, <2>3, <2>4, <2>5, <2>6, <2>7, <2>8 DEF Disjoint
<1>3. ASSUME NEW c \in Calls, OpenerReturns(c) PROVE RegistryInvariant'
  <2> USE <1>3 DEF OpenerReturns, registry, RTypeOK
  <2>1. RTypeOK'
    OBVIOUS
  <2>2. Phases'
    BY DEF Phases
  <2>3. Marked'
    BY DEF Marked, Phases, Apart, OneOpening
  <2>4. OneOpening'
    BY DEF OneOpening, Marked, Apart
  <2>5. OneRegistered'
    BY DEF OneRegistered, Phases, Marked, Apart
  <2>6. OneClosing'
    BY DEF OneClosing, Phases, Marked, Apart
  <2>7. Apart'
    BY DEF Apart, OneOpening, OneRegistered, Phases, Marked
  <2>8. DeviceClaimed'
    BY DEF DeviceClaimed, Phases
  <2> QED BY <2>1, <2>2, <2>3, <2>4, <2>5, <2>6, <2>7, <2>8 DEF Disjoint
<1>4. ASSUME NEW c \in Calls, OpenInsert(c) PROVE RegistryInvariant'
  <2> USE <1>4 DEF OpenInsert, RTypeOK
  <2>1. RTypeOK'
    OBVIOUS
  <2>2. Phases'
    BY DEF Phases
  <2>3. Marked'
    BY DEF Marked, Phases, Apart, OneOpening
  <2>4. OneOpening'
    BY DEF OneOpening, Marked, Apart
  <2>5. OneRegistered'
    BY DEF OneRegistered, Phases, Marked, Apart
  <2>6. OneClosing'
    BY DEF OneClosing, Phases, Marked, Apart
  <2>7. Apart'
    BY DEF Apart, OneOpening, OneRegistered, Phases, Marked
  <2>8. DeviceClaimed'
    BY DEF DeviceClaimed, Phases
  <2> QED BY <2>1, <2>2, <2>3, <2>4, <2>5, <2>6, <2>7, <2>8 DEF Disjoint
<1>5. ASSUME NEW c \in Calls, OpenFails(c) \/ OpenCancelled(c) PROVE RegistryInvariant'
  <2> USE <1>5 DEF OpenFails, OpenCancelled, DropGuard, RTypeOK
  <2>1. RTypeOK'
    OBVIOUS
  <2>2. Phases'
    BY DEF Phases
  <2>3. Marked'
    BY DEF Marked, Phases, Apart, OneOpening
  <2>4. OneOpening'
    BY DEF OneOpening, Marked, Apart
  <2>5. OneRegistered'
    BY DEF OneRegistered, Phases, Marked, Apart
  <2>6. OneClosing'
    BY DEF OneClosing, Phases, Marked, Apart
  <2>7. Apart'
    BY DEF Apart, OneOpening, OneRegistered, Phases, Marked
  <2>8. DeviceClaimed'
    BY DEF DeviceClaimed, Phases
  <2> QED BY <2>1, <2>2, <2>3, <2>4, <2>5, <2>6, <2>7, <2>8 DEF Disjoint
<1>6. ASSUME NEW c \in Calls, CloseHardware(c) PROVE RegistryInvariant'
  <2> USE <1>6 DEF CloseHardware, registry, RTypeOK
  <2>1. RTypeOK'
    OBVIOUS
  <2>2. Phases'
    BY DEF Phases
  <2>3. Marked'
    BY DEF Marked, Phases, Apart, OneOpening
  <2>4. OneOpening'
    BY DEF OneOpening, Marked, Apart
  <2>5. OneRegistered'
    BY DEF OneRegistered, Phases, Marked, Apart
  <2>6. OneClosing'
    BY DEF OneClosing, Phases, Marked, Apart
  <2>7. Apart'
    BY DEF Apart, OneOpening, OneRegistered, Phases, Marked
  <2>8. DeviceClaimed'
    BY DEF DeviceClaimed, Phases
  <2> QED BY <2>1, <2>2, <2>3, <2>4, <2>5, <2>6, <2>7, <2>8 DEF Disjoint
<1>7. ASSUME NEW c \in Calls, CloseRelease(c) PROVE RegistryInvariant'
  <2> USE <1>7 DEF CloseRelease, RTypeOK
  <2>1. PICK k \in Calls : target[c] = {k} /\ k \notin connections
    BY DEF Phases
  <2>2. closing_ports' = closing_ports \ port[k]
    BY <2>1
  <2> HIDE <1>7
  <2>3. pc[c] \in {"closed", "close_failed"} /\ pc' = [pc EXCEPT ![c] = pc'[c]]
        /\ pc'[c] \in {"done", "failed"}
        /\ UNCHANGED <<port, target, connections, opening_ports, deferred, device>>
    BY <1>7
  <2> HIDE DEF CloseRelease
  <2>4. RTypeOK'
    BY <2>2, <2>3
  <2>5. Phases'
    BY <2>3 DEF Phases
  <2>6. Marked'
    <3>1. \A a \in Calls : pc'[a] \in OpenPhase => port'[a] \subseteq opening_ports'
      BY <2>3 DEF Marked, OpenPhase
    <3>2. ASSUME NEW a \in Calls, NEW l \in Calls, pc'[a] \in ClosePhase, target'[a] = {l}
          PROVE  port'[l] \subseteq closing_ports'
      <4>1. a # c /\ pc[a] \in ClosePhase /\ target[a] = {l} /\ port'[l] = port[l]
        BY <2>3, <3>2 DEF ClosePhase
      <4>2. pc[c] \in ClosePhase
        BY <2>3 DEF ClosePhase
      <4>3. port[l] \subseteq closing_ports
        BY <4>1 DEF Marked
      <4>4. \A p \in Ports : p \in port[l] => p \notin port[k]
        BY <2>1, <4>1, <4>2 DEF OneClosing
      <4> QED BY <2>2, <4>1, <4>3, <4>4
    <3> QED BY <3>1, <3>2 DEF Marked
  <2>7. OneOpening' /\ OneRegistered' /\ OneClosing'
    <3>1. \A a \in Calls : /\ pc'[a] \in OpenPhase => pc[a] \in OpenPhase
                           /\ pc'[a] \in ClosePhase => pc[a] \in ClosePhase
      BY <2>3
    <3>2. UNCHANGED <<port, target, connections>>
      BY <2>3
    <3> HIDE DEF OpenPhase, ClosePhase
    <3>3. OneOpening'
      BY <3>1, <3>2 DEF OneOpening
    <3>4. OneRegistered'
      BY <3>2 DEF OneRegistered
    <3>5. OneClosing'
      BY <3>1, <3>2 DEF OneClosing
    <3> QED BY <3>3, <3>4, <3>5
  <2>8. Apart'
    BY <2>2, <2>3 DEF Apart
  <2>9. DeviceClaimed'
    BY <2>3 DEF DeviceClaimed
  <2> QED BY <2>4, <2>5, <2>6, <2>7, <2>8, <2>9 DEF Disjoint
<1>8. ASSUME NEW p \in Ports, DeferredCleanup(p) PROVE RegistryInvariant'
  <2> USE <1>8 DEF DeferredCleanup, RTypeOK
  <2>1. RTypeOK'
    OBVIOUS
  <2>2. Phases'
    BY DEF Phases
  <2>3. Marked'
    BY DEF Marked, Phases, Apart, OneOpening
  <2>4. OneOpening'
    BY DEF OneOpening, Marked, Apart
  <2>5. OneRegistered'
    BY DEF OneRegistered, Phases, Marked, Apart
  <2>6. OneClosing'
    BY DEF OneClosing, Phases, Marked, Apart
  <2>7. Apart'
    BY DEF Apart, OneOpening, OneRegistered, Phases, Marked
  <2>8. DeviceClaimed'
    BY DEF DeviceClaimed, Phases
  <2> QED BY <2>1, <2>2, <2>3, <2>4, <2>5, <2>6, <2>7, <2>8 DEF Disjoint
<1>9. ASSUME NEW c \in Calls, NEW k \in Calls, CloseRemove(c, k) PROVE RegistryInvariant'
  <2> USE <1>9 DEF CloseRemove, RTypeOK
  <2>1. RTypeOK'
    OBVIOUS
  <2>2. Phases'
    BY DEF Phases
  <2>3. Marked'
    BY DEF Marked, Phases, Apart, OneOpening
  <2>4. OneOpening'
    BY DEF OneOpening, Marked, Apart
  <2>5. OneRegistered'
    BY DEF OneRegistered, Phases, Marked, Apart
  <2>6. OneClosing'
    <3>1. \A a, l \in Calls : a # c /\ pc'[a] \in ClosePhase /\ target'[a] = {l} =>
            pc[a] \in ClosePhase /\ target[a] = {l} /\ port[l] \subseteq closing_ports
      BY DEF Marked
    <3>2. \A l \in Calls : pc'[c] \in ClosePhase /\ target'[c] = {l} =>
            l = k /\ \A q \in port[l] : q \notin closing_ports
      BY DEF Apart
    <3>3. port' = port
      OBVIOUS
    <3> HIDE <1>9 DEF CloseRemove, OpenPhase, ClosePhase, RTypeOK
    <3> HIDE DEF RegistryInvariant, Disjoint
    <3> SUFFICES ASSUME NEW q \in Ports, NEW a \in Calls, NEW b \in Calls,
                        NEW l \in Calls, NEW m \in Calls,
                        pc'[a] \in ClosePhase, pc'[b] \in ClosePhase,
                        target'[a] = {l}, target'[b] = {m}, q \in port'[l], q \in port'[m]
                 PROVE  a = b
      BY DEF OneClosing
    <3>4. CASE a # c /\ b # c
      <4>1. /\ pc[a] \in ClosePhase /\ target[a] = {l} /\ q \in port[l]
            /\ pc[b] \in ClosePhase /\ target[b] = {m} /\ q \in port[m]
        BY <3>1, <3>3, <3>4
      <4> QED BY <4>1 DEF OneClosing, RegistryInvariant, Disjoint
    <3>5. CASE a = c \/ b = c
      BY <3>1, <3>2, <3>3, <3>5
    <3> QED BY <3>4, <3>5
  <2>7. Apart'
    BY DEF Apart, OneOpening, OneRegistered, Phases, Marked
  <2>8. DeviceClaimed'
    BY DEF DeviceClaimed, Phases
  <2> QED BY <2>1, <2>2, <2>3, <2>4, <2>5, <2>6, <2>7, <2>8 DEF Disjoint
<1>10. ASSUME NEW c \in Calls, NEW k \in Calls, Get(c, k) PROVE RegistryInvariant'
  <2> USE <1>10 DEF Get, registry, RTypeOK
  <2>1. RTypeOK'
    OBVIOUS
  <2>2. Phases'
    BY DEF Phases
  <2>3. Marked'
    BY DEF Marked, Phases, Apart, OneOpening
  <2>4. OneOpening'
    BY DEF OneOpening, Marked, Apart
  <2>5. OneRegistered'
    BY DEF OneRegistered, Phases, Marked, Apart
  <2>6. OneClosing'
    BY DEF OneClosing, Phases, Marked, Apart
  <2>7. Apart'
    BY DEF Apart, OneOpening, OneRegistered, Phases, Marked
  <2>8. DeviceClaimed'
    BY DEF DeviceClaimed, Phases
  <2> QED BY <2>1, <2>2, <2>3, <2>4, <2>5, <2>6, <2>7, <2>8 DEF Disjoint
<1>11. ASSUME NEW c \in Calls, CloseDropped(c) PROVE RegistryInvariant'
  <2> USE <1>11 DEF CloseDropped, registry, RTypeOK
  <2>1. RTypeOK'
    OBVIOUS
  <2>2. Phases'
    BY DEF Phases
  <2>3. Marked'
    BY DEF Marked
  <2>4. OneOpening'
    BY DEF OneOpening
  <2>5. OneRegistered'
    BY DEF OneRegistered
  <2>6. OneClosing'
    BY DEF OneClosing
  <2>7. Apart'
    BY DEF Apart
  <2>8. DeviceClaimed'
    BY DEF DeviceClaimed, Phases
  <2> QED BY <2>1, <2>2, <2>3, <2>4, <2>5, <2>6, <2>7, <2>8 DEF Disjoint
<1>12. CASE UNCHANGED rvars
  <2> USE <1>12 DEF rvars, registry
  <2>1. RTypeOK' /\ Phases' /\ Marked'
    BY DEF RTypeOK, Phases, Marked
  <2>2. Disjoint'
    BY DEF OneOpening, OneRegistered, OneClosing, Apart
  <2>3. DeviceClaimed'
    BY DEF DeviceClaimed
  <2> QED BY <2>1, <2>2, <2>3
<1> QED BY <1>1, <1>2, <1>3, <1>4, <1>5, <1>6, <1>7, <1>8, <1>9, <1>10, <1>11, <1>12
        DEF RNext

(* No interleaving of open, a cancelled open, insert and close gives two   *)
(* connections the same OS port: ConnectionManager's reservations make the *)
(* hardware open and close, done outside its lock, exclusive.              *)
THEOREM RegistryExclusive == RSpec => []PortExclusive
BY RegistryInit, RegistryStep, ExclusiveFromClaims, PTL DEF RSpec

(* A handler step is a registry step or leaves the registry alone.         *)
LEMMA HandlerSteps == [Next]_vars => [RNext]_rvars
BY DEF Next, vars, rvars, OpenSession, ReadReserve, ReadSession, ReadEnds, SessionRemove,
       SessionJoined

(* The handlers of open, close and read keep the exclusivity.              *)
THEOREM HandlersExclusive == Spec => []PortExclusive
<1>1. Init => RInit
  BY DEF Init
<1> QED BY <1>1, RegistryInit, RegistryStep, HandlerSteps, ExclusiveFromClaims, PTL DEF Spec

(***************************************************************************)
(* Every reservation belongs to an open, a cleanup or a close, the close   *)
(* perhaps dropped: the converse of Marked, which with it makes            *)
(* ReservationOwned.                                                       *)
(***************************************************************************)
Backed ==
  /\ \A p \in opening_ports : \/ p \in deferred
                              \/ \E c \in Calls : pc[c] \in OpenPhase /\ p \in port[c]
  /\ \A p \in closing_ports :
       \E c, k \in Calls : pc[c] \in ClosePhase /\ target[c] = {k} /\ p \in port[k]

LEMMA BackedStep == RegistryInvariant /\ Backed /\ [RNext]_rvars => Backed'
<1> SUFFICES ASSUME RegistryInvariant, Backed, [RNext]_rvars PROVE Backed'
  OBVIOUS
<1> USE DEF RegistryInvariant, Backed, RTypeOK, OpenPhase, ClosePhase, Goto
<1>1. ASSUME NEW c \in Calls, NEW p \in Ports, OpenReserve(c, p) \/ Insert(c, p) PROVE Backed'
  <2>1. pc[c] = "new" /\ port[c] = {} /\ port \in [Calls -> SUBSET Ports]
    BY <1>1 DEF OpenReserve, Insert, Phases
  <2>2. \A a \in Calls : /\ pc[a] \in OpenPhase => pc'[a] = pc[a] /\ port'[a] = port[a]
                         /\ pc[a] \in ClosePhase => pc'[a] = pc[a]
                         /\ port[a] \subseteq port'[a]
    BY <1>1, <2>1 DEF OpenReserve, Insert
  <2>3. opening_ports' \subseteq opening_ports \/ 
        (opening_ports' = opening_ports \cup {p} /\ pc'[c] \in OpenPhase /\ p \in port'[c])
    BY <1>1, <2>1 DEF OpenReserve, Insert
  <2>4. UNCHANGED <<target, closing_ports, deferred>>
    BY <1>1 DEF OpenReserve, Insert
  <2> QED BY <2>2, <2>3, <2>4, SMTT(20)
<1>2. ASSUME NEW c \in Calls, OpenerReturns(c) PROVE Backed'
  BY <1>2 DEF OpenerReturns, registry
<1>3. ASSUME NEW c \in Calls, OpenInsert(c) PROVE Backed'
  BY <1>3 DEF OpenInsert
<1>4. ASSUME NEW c \in Calls, OpenFails(c) \/ OpenCancelled(c) PROVE Backed'
  BY <1>4 DEF OpenFails, OpenCancelled, DropGuard
<1>5. ASSUME NEW c \in Calls, CloseHardware(c) PROVE Backed'
  BY <1>5 DEF CloseHardware, registry
<1>6. ASSUME NEW c \in Calls, CloseRelease(c) PROVE Backed'
  <2>1. PICK k \in Calls : target[c] = {k}
    BY <1>6 DEF CloseRelease, Phases
  <2>2. closing_ports' = closing_ports \ port[k]
    BY <1>6, <2>1 DEF CloseRelease
  <2>3. pc' = [pc EXCEPT ![c] = pc'[c]] /\ pc[c] \in ClosePhase
        /\ UNCHANGED <<port, target, opening_ports, deferred>>
    BY <1>6 DEF CloseRelease
  <2>4. \A a \in Calls : a # c => pc'[a] = pc[a]
    BY <2>3
  <2>5. \A p \in opening_ports : \/ p \in deferred
                                 \/ \E a \in Calls : pc'[a] \in OpenPhase /\ p \in port[a]
    BY <2>3, <2>4
  <2>6. \A p \in closing_ports' :
          \E a, l \in Calls : pc'[a] \in ClosePhase /\ target[a] = {l} /\ p \in port[l]
    <3> SUFFICES ASSUME NEW p \in closing_ports'
                 PROVE  \E a, l \in Calls : pc'[a] \in ClosePhase /\ target[a] = {l} /\ p \in port[l]
      OBVIOUS
    <3>1. PICK a \in Calls, l \in Calls : pc[a] \in ClosePhase /\ target[a] = {l} /\ p \in port[l]
      BY <2>2
    <3>2. a # c
      BY <2>1, <2>2, <3>1
    <3> QED BY <2>4, <3>1, <3>2
  <2> QED BY <2>3, <2>5, <2>6
<1>7. ASSUME NEW p \in Ports, DeferredCleanup(p) PROVE Backed'
  BY <1>7 DEF DeferredCleanup
<1>8. ASSUME NEW c \in Calls, NEW k \in Calls, CloseRemove(c, k) PROVE Backed'
  BY <1>8 DEF CloseRemove
<1>9. ASSUME NEW c \in Calls, NEW k \in Calls, Get(c, k) PROVE Backed'
  BY <1>9 DEF Get, registry
<1>10. ASSUME NEW c \in Calls, CloseDropped(c) PROVE Backed'
  BY <1>10 DEF CloseDropped, registry
<1>11. CASE UNCHANGED rvars
  BY <1>11 DEF rvars, registry
<1> QED BY <1>1, <1>2, <1>3, <1>4, <1>5, <1>6, <1>7, <1>8, <1>9, <1>10, <1>11 DEF RNext

LEMMA OwnedFromBacked == RegistryInvariant /\ Backed => ReservationOwned
<1> SUFFICES ASSUME RegistryInvariant, Backed, NEW p \in Ports
             PROVE  /\ p \in opening_ports <=> Opening(p) # {} \/ p \in deferred
                    /\ p \in closing_ports <=> Closing(p) # {} \/ Abandoned(p) # {}
  BY DEF ReservationOwned
<1> USE DEF RegistryInvariant, Disjoint, OpenPhase, ClosePhase
<1>1. p \in opening_ports <=> Opening(p) # {} \/ p \in deferred
  BY DEF Backed, Marked, Apart, Opening
<1>2. ASSUME p \in closing_ports PROVE Closing(p) # {} \/ Abandoned(p) # {}
  BY <1>2 DEF Backed, Closing, Abandoned
<1>3. ASSUME NEW c \in Closing(p) \cup Abandoned(p) PROVE p \in closing_ports
  <2>1. PICK k \in Calls : target[c] = {k} /\ p \in port[k]
    BY <1>3 DEF Closing, Abandoned, Phases
  <2> QED BY <2>1, <1>3 DEF Closing, Abandoned, Marked
<1> QED BY <1>1, <1>2, <1>3

(* The opening and closing reservations of ConnectionManager are not       *)
(* dropped early, whichever way open() ends (inserted, refused, cancelled  *)
(* at an await, its guard dropped under contention) and whether the        *)
(* hardware close fails or not; the one way to leak a reservation is to    *)
(* drop the future of close(), whose port then has no other owner.         *)
THEOREM RegistryReservations == RSpec => []ReservationOwned
<1>1. RInit => Backed
  BY DEF RInit, Backed
<1> QED BY <1>1, RegistryInit, RegistryStep, BackedStep, OwnedFromBacked, PTL DEF RSpec

(* ... and so it is under the handlers.                                    *)
THEOREM HandlersReservations == Spec => []ReservationOwned
<1>1. Init => RInit /\ Backed
  BY DEF Init, RInit, Backed
<1> QED BY <1>1, RegistryInit, RegistryStep, BackedStep, HandlerSteps, OwnedFromBacked, PTL
        DEF Spec

(***************************************************************************)
(* The session objects of the handlers, on top of the registry.            *)
(***************************************************************************)

(* Where a handler can be after its registry call.                         *)
Handlers ==
  /\ \A c \in Calls : step[c] # "none" => pc[c] \in {"found", "done"}
  /\ \A c \in Calls : step[c] = "joining" => pc[c] = "done"
  /\ \A c \in Calls : joining[c] # {} => step[c] = "joining"

(* A call that looked a connection up is about one connection; a call that *)
(* closed one is about a connection that is never registered again.        *)
Aimed ==
  /\ \A c \in Calls : pc[c] = "found" => \E k \in Calls : target[c] = {k}
  /\ \A c \in Calls : pc[c] = "done" =>
       \E k \in Calls : /\ target[c] = {k}
                        /\ k \notin connections
                        /\ pc[k] \notin OpenPhase \cup {"new"}

(* A session object is in one place, and is about the connection of that   *)
(* place.                                                                  *)
OnePlace ==
  /\ \A k, s, u \in Calls : s \in sessions[k] /\ u \in sessions[k] => s = u
  /\ \A c, s, u \in Calls : s \in joining[c] /\ u \in joining[c] => s = u
  /\ \A c, d, s \in Calls : s \in joining[c] /\ s \in joining[d] => c = d
  /\ \A k, d, s \in Calls : s \in sessions[k] => s \notin joining[d]

Owned ==
  /\ \A k, s \in Calls : s \in sessions[k] => target[s] = {k} /\ step[s] # "none"
  /\ \A c, s \in Calls : s \in joining[c] => target[s] = target[c] /\ step[s] # "none"

SessionsTyped ==
  /\ step \in [Calls -> {"none", "ready", "reserved", "reading", "joining", "over", "failed"}]
  /\ sessions \in [Calls -> SUBSET Calls]
  /\ joining \in [Calls -> SUBSET Calls]
  /\ charge \in [Calls \X {"ring", "work"} -> Nat]

SessionsInvariant ==
  /\ SessionsTyped /\ Handlers /\ Aimed /\ OnePlace /\ Owned
  /\ RingsCharged /\ SessionWhileOpen

LEMMA SessionsInit == Init => SessionsInvariant
<1> SUFFICES ASSUME Init PROVE SessionsInvariant
  OBVIOUS
<1> USE DEF Init, RInit, Pool!PInit
<1>1. SessionsTyped
  BY DEF SessionsTyped
<1>2. Handlers /\ Aimed /\ OnePlace /\ Owned
  BY DEF Handlers, Aimed, OnePlace, Owned
<1>3. RingsCharged /\ SessionWhileOpen
  BY DEF RingsCharged, SessionWhileOpen, Live, Reachable, Ring
<1> QED BY <1>1, <1>2, <1>3 DEF SessionsInvariant

(* What a step of the registry may change under a handler: a call that has *)
(* left the registry stays where it is, a connection that was closed is    *)
(* not registered again, and a lookup or a close is about one connection.  *)
Settled == \A c \in Calls : pc[c] \in {"found", "done"} => pc'[c] = pc[c] /\ target'[c] = target[c]

NotReopened ==
  \A k \in Calls : pc[k] \notin OpenPhase \cup {"new"} /\ k \notin connections =>
                     pc'[k] \notin OpenPhase \cup {"new"} /\ k \notin connections'

NewlyAimed ==
  /\ \A c \in Calls : pc'[c] = "found" => pc[c] = "found" \/ \E k \in Calls : target'[c] = {k}
  /\ \A c \in Calls : pc'[c] = "done" => pc[c] = "done" \/
       \E k \in Calls : /\ target'[c] = {k}
                        /\ k \notin connections'
                        /\ pc'[k] \notin OpenPhase \cup {"new"}

LEMMA RegistryFrame == RegistryInvariant /\ RNext => Settled /\ NotReopened /\ NewlyAimed
<1> SUFFICES ASSUME RegistryInvariant, RNext PROVE Settled /\ NotReopened /\ NewlyAimed
  OBVIOUS
<1> USE DEF RegistryInvariant, RTypeOK, OpenPhase, Goto, Settled, NotReopened, NewlyAimed
<1>1. ASSUME NEW c \in Calls, NEW p \in Ports, OpenReserve(c, p) \/ Insert(c, p)
      PROVE  Settled /\ NotReopened /\ NewlyAimed
  BY <1>1 DEF OpenReserve, Insert
<1>2. ASSUME NEW c \in Calls, OpenerReturns(c) \/ OpenInsert(c) \/ OpenFails(c) \/ OpenCancelled(c)
      PROVE  Settled /\ NotReopened /\ NewlyAimed
  BY <1>2 DEF OpenerReturns, OpenInsert, OpenFails, OpenCancelled, registry
<1>3. ASSUME NEW c \in Calls, CloseHardware(c) \/ CloseDropped(c)
      PROVE  Settled /\ NotReopened /\ NewlyAimed
  BY <1>3 DEF CloseHardware, CloseDropped, registry
<1>4. ASSUME NEW c \in Calls, CloseRelease(c) PROVE Settled /\ NotReopened /\ NewlyAimed
  <2>1. PICK k \in Calls : /\ target[c] = {k}
                           /\ k \notin connections
                           /\ pc[k] \notin OpenPhase \cup {"new"}
    BY <1>4 DEF CloseRelease, Phases, ClosePhase
  <2> QED BY <1>4, <2>1 DEF CloseRelease
<1>5. ASSUME NEW p \in Ports, DeferredCleanup(p) PROVE Settled /\ NotReopened /\ NewlyAimed
  BY <1>5 DEF DeferredCleanup
<1>6. ASSUME NEW c \in Calls, NEW k \in Calls, CloseRemove(c, k) \/ Get(c, k)
      PROVE  Settled /\ NotReopened /\ NewlyAimed
  BY <1>6 DEF CloseRemove, Get, registry, Phases
<1> QED BY <1>1, <1>2, <1>3, <1>4, <1>5, <1>6 DEF RNext

(* A registry step leaves the sessions alone, and what they rest on.       *)
LEMMA SessionsUnderRegistry ==
  RegistryInvariant /\ SessionsInvariant /\ RNext /\ UNCHANGED <<svars, bvars>>
    => SessionsInvariant'
<1> SUFFICES ASSUME RegistryInvariant, SessionsInvariant, RNext, UNCHANGED <<svars, bvars>>
             PROVE  SessionsInvariant'
  OBVIOUS
<1> USE DEF SessionsInvariant, svars, bvars
<1>1. Settled /\ NotReopened /\ NewlyAimed
  BY RegistryFrame
<1>2. SessionsTyped' /\ RingsCharged'
  BY DEF SessionsTyped, RingsCharged, Live, Reachable
<1>3. Handlers'
  BY <1>1 DEF Handlers, Settled
<1>4. Aimed'
  BY <1>1 DEF Aimed, Settled, NotReopened, NewlyAimed
<1>5. OnePlace'
  BY DEF OnePlace
<1>6. Owned'
  <2>1. \A s \in Calls : step[s] # "none" => target'[s] = target[s]
    BY <1>1 DEF Handlers, Settled
  <2>2. \A c \in Calls : joining[c] # {} => target'[c] = target[c]
    BY <1>1 DEF Handlers, Settled
  <2> QED BY <2>1, <2>2 DEF Owned, SessionsTyped
<1>7. SessionWhileOpen'
  <2>1. \A c \in Calls : step[c] = "ready" => pc[c] \in {"found", "done"}
    BY DEF Handlers
  <2>2. \A c \in Calls : step[c] = "ready" /\ c \in connections' => c \in connections
    BY <1>1, <2>1 DEF NotReopened, OpenPhase
  <2> QED BY <2>2 DEF SessionWhileOpen
<1> QED BY <1>2, <1>3, <1>4, <1>5, <1>6, <1>7

(* get_or_create by a call about connection k keeps the sessions in order. *)
LEMMA SessionCreated ==
  ASSUME SessionsInvariant, UNCHANGED <<rvars, joining>>,
         NEW c \in Calls, NEW k \in Calls, NEW capacity \in Nat, NEW ok, NEW err,
         pc[c] \in {"found", "done"}, target[c] = {k}, step[c] # "joining",
         ok \in {"ready", "reading"}, err \in {"failed", "reading"},
         ok = "ready" => k = c,
         get_or_create(c, k, capacity, ok, err)
  PROVE  SessionsInvariant'
<1> USE DEF SessionsInvariant, rvars, registry
<1>1. CASE UNCHANGED <<sessions, bvars>> /\ (Advance(c, err) \/ (Advance(c, ok) /\ sessions[k] # {}))
  <2> USE <1>1 DEF bvars, Advance
  <2>1. SessionsTyped' /\ RingsCharged' /\ OnePlace'
    BY DEF SessionsTyped, RingsCharged, Live, Reachable, OnePlace
  <2>2. Handlers' /\ Aimed'
    BY DEF Handlers, Aimed, SessionsTyped
  <2>3. Owned'
    BY DEF Owned, SessionsTyped
  <2>4. SessionWhileOpen'
    BY DEF SessionWhileOpen, SessionsTyped
  <2> QED BY <2>1, <2>2, <2>3, <2>4
<1>2. CASE /\ sessions[k] = {}
           /\ Advance(c, ok)
           /\ Pool!Reserve(Ring(c), capacity)
           /\ sessions' = [sessions EXCEPT ![k] = {c}]
  <2>1. /\ step' = [step EXCEPT ![c] = ok]
        /\ sessions' = [sessions EXCEPT ![k] = {c}]
        /\ charge[Ring(c)] = 0
        /\ charge' = [charge EXCEPT ![Ring(c)] = capacity]
        /\ capacity > 0
    BY <1>2 DEF Advance, Pool!Reserve, Pool!CanReserve, Pool!Admissible
  <2>2. SessionsTyped'
    BY <2>1 DEF SessionsTyped
  <2>3. Handlers' /\ Aimed'
    BY <2>1 DEF Handlers, Aimed, SessionsTyped
  <2>4. \A l \in Calls : c \notin sessions[l] /\ c \notin joining[l]
    BY <2>1 DEF RingsCharged, Live, Reachable
  <2>5. OnePlace'
    BY <2>1, <2>4 DEF OnePlace, SessionsTyped
  <2>6. Owned'
    BY <2>1 DEF Owned, SessionsTyped
  <2>7. RingsCharged'
    <3>1. Live' = Live \cup {c}
      BY <2>1 DEF Live, Ring, SessionsTyped
    <3>2. \A l \in Calls : sessions'[l] = IF l = k THEN sessions[l] \cup {c} ELSE sessions[l]
      BY <2>1, <1>2 DEF SessionsTyped
    <3>3. ASSUME NEW s PROVE s \in Reachable' <=> s \in Reachable \/ s = c
      <4>1. s \in Reachable <=> \E l \in Calls : s \in sessions[l] \/ s \in joining[l]
        BY DEF Reachable
      <4>2. s \in Reachable' <=> \E l \in Calls : s \in sessions'[l] \/ s \in joining'[l]
        BY DEF Reachable
      <4>3. joining' = joining
        OBVIOUS
      <4>4. s \in sessions'[k] <=> s \in sessions[k] \/ s = c
        BY <3>2, ZenonT(40)
      <4>5. \A l \in Calls : l # k => (s \in sessions'[l] <=> s \in sessions[l])
        BY <3>2
      <4> HIDE DEF SessionsInvariant
      <4> QED BY <4>1, <4>2, <4>3, <4>4, <4>5
    <3>4. Reachable' = Reachable \cup {c}
      BY <3>3
    <3> QED BY <3>1, <3>4 DEF RingsCharged
  <2>8. SessionWhileOpen'
    BY <2>1 DEF SessionWhileOpen, SessionsTyped
  <2> QED BY <2>2, <2>3, <2>5, <2>6, <2>7, <2>8
<1> HIDE DEF SessionsInvariant
<1> QED
  <2>1. CASE sessions[k] # {} \/ ~ Pool!CanReserve(capacity)
    <3>1. CASE sessions[k] # {}
      <4>1. Advance(c, ok) /\ UNCHANGED <<sessions, bvars>>
        BY <3>1 DEF get_or_create
      <4> QED BY <1>1, <3>1, <4>1
    <3>2. CASE sessions[k] = {}
      <4>1. Advance(c, err) /\ UNCHANGED <<sessions, bvars>>
        BY <2>1, <3>2 DEF get_or_create
      <4> QED BY <1>1, <4>1
    <3> QED BY <3>1, <3>2
  <2>2. CASE sessions[k] = {} /\ Pool!CanReserve(capacity)
    BY <1>2, <2>2 DEF get_or_create
  <2> QED BY <2>1, <2>2

LEMMA SessionsStep == RegistryInvariant /\ SessionsInvariant /\ [Next]_vars => SessionsInvariant'
<1> SUFFICES ASSUME RegistryInvariant, SessionsInvariant, [Next]_vars PROVE SessionsInvariant'
  OBVIOUS
<1> USE SessionsAssumption DEF SessionsInvariant
<1>1. CASE RNext /\ UNCHANGED <<svars, bvars>>
  BY <1>1, SessionsUnderRegistry
<1>2. ASSUME NEW c \in Calls, NEW capacity \in RingSizes, OpenSession(c, capacity)
      PROVE  SessionsInvariant'
  <2> HIDE DEF SessionsInvariant
  <2>1. capacity \in Nat
    OBVIOUS
  <2> QED BY <1>2, <2>1, SessionCreated DEF OpenSession
<1>3. ASSUME NEW c \in Calls, ReadSession(c) PROVE SessionsInvariant'
  <2>1. PICK k \in Calls : target[c] = {k}
    BY <1>3 DEF ReadSession, Handlers, Aimed
  <2>2. pc[c] \in {"found", "done"} /\ step[c] # "joining" /\ DefaultRing \in Nat
    BY <1>3 DEF ReadSession, Handlers
  <2>3. get_or_create(c, k, DefaultRing, "reading", "reading") /\ UNCHANGED <<rvars, joining>>
    BY <1>3, <2>1 DEF ReadSession
  <2> HIDE DEF SessionsInvariant
  <2> QED BY <2>1, <2>2, <2>3, SessionCreated
<1>4. ASSUME NEW c \in Calls, NEW n \in ReadSizes, ReadReserve(c, n) PROVE SessionsInvariant'
  <2>1. /\ pc[c] = "found"
        /\ step[c] = "none"
        /\ step' = [step EXCEPT ![c] = step'[c]] /\ step'[c] \in {"reserved", "failed"}
        /\ charge' = charge \/ charge' = [charge EXCEPT ![Work(c)] = n]
        /\ UNCHANGED <<rvars, sessions, joining>>
    BY <1>4 DEF ReadReserve, Advance, Pool!Reserve, bvars, SessionsTyped
  <2> USE DEF rvars, registry
  <2>2. SessionsTyped' /\ OnePlace'
    BY <2>1 DEF SessionsTyped, OnePlace
  <2>3. Handlers' /\ Aimed'
    BY <2>1 DEF Handlers, Aimed, SessionsTyped
  <2>4. Owned' /\ SessionWhileOpen'
    BY <2>1 DEF Owned, SessionWhileOpen, SessionsTyped
  <2>5. RingsCharged'
    BY <2>1 DEF RingsCharged, Live, Reachable, Ring, Work, SessionsTyped
  <2> QED BY <2>2, <2>3, <2>4, <2>5
<1>5. ASSUME NEW c \in Calls, ReadEnds(c) PROVE SessionsInvariant'
  <2>1. /\ step[c] = "reading"
        /\ step' = [step EXCEPT ![c] = "over"]
        /\ charge' = [charge EXCEPT ![Work(c)] = 0]
        /\ UNCHANGED <<rvars, sessions, joining>>
    BY <1>5 DEF ReadEnds, Advance, Pool!Release
  <2> USE DEF rvars, registry
  <2>2. SessionsTyped' /\ OnePlace'
    BY <2>1 DEF SessionsTyped, OnePlace
  <2>3. Handlers' /\ Aimed'
    BY <2>1 DEF Handlers, Aimed, SessionsTyped
  <2>4. Owned' /\ SessionWhileOpen'
    BY <2>1 DEF Owned, SessionWhileOpen, SessionsTyped
  <2>5. RingsCharged'
    BY <2>1 DEF RingsCharged, Live, Reachable, Ring, Work, SessionsTyped
  <2> QED BY <2>2, <2>3, <2>4, <2>5
<1>6. ASSUME NEW c \in Calls, SessionRemove(c) PROVE SessionsInvariant'
  <2>1. PICK k \in Calls : target[c] = {k} /\ k \notin connections
    BY <1>6 DEF SessionRemove, Aimed
  <2>2. pc[c] = "done" /\ step[c] = "none" /\ joining[c] = {}
    BY <1>6 DEF SessionRemove, Handlers
  <2>3. /\ joining' = [joining EXCEPT ![c] = sessions[k]]
        /\ sessions' = [sessions EXCEPT ![k] = {}]
        /\ step' = [step EXCEPT ![c] = IF sessions[k] = {} THEN "over" ELSE "joining"]
        /\ UNCHANGED <<rvars, bvars>>
    <3>1. UNION {sessions[l] : l \in target[c]} = sessions[k]
      BY <2>1
    <3> QED BY <1>6, <2>1, <3>1 DEF SessionRemove, Advance, SessionsTyped
  <2> USE DEF rvars, registry, bvars
  <2>4. SessionsTyped'
    BY <2>3 DEF SessionsTyped
  <2>5. Handlers' /\ Aimed'
    BY <2>2, <2>3 DEF Handlers, Aimed, SessionsTyped
  <2>6. OnePlace'
    <3>1. \A l \in Calls : /\ sessions'[l] = IF l = k THEN {} ELSE sessions[l]
                          /\ joining'[l] = IF l = c THEN sessions[k] ELSE joining[l]
      BY <2>3 DEF SessionsTyped
    <3>2. \A l, s \in Calls : s \in sessions[l] /\ s \in sessions[k] => l = k
      BY DEF Owned
    <3> QED BY <3>1, <3>2 DEF OnePlace
  <2>7. Owned'
    BY <2>1, <2>2, <2>3 DEF Owned, SessionsTyped
  <2>8. RingsCharged'
    <3>1. Reachable' = Reachable
      BY <2>2, <2>3 DEF Reachable, SessionsTyped
    <3> QED BY <2>3, <3>1 DEF RingsCharged, Live
  <2>9. SessionWhileOpen'
    BY <2>1, <2>3 DEF SessionWhileOpen, SessionsTyped
  <2> QED BY <2>4, <2>5, <2>6, <2>7, <2>8, <2>9
<1>7. ASSUME NEW c \in Calls, SessionJoined(c) PROVE SessionsInvariant'
  <2>1. PICK s \in Calls : s \in joining[c] /\ Pool!Release(Ring(s))
    BY <1>7 DEF SessionJoined, SessionsTyped
  <2>2. /\ step[c] = "joining"
        /\ step' = [step EXCEPT ![c] = "over"]
        /\ joining' = [joining EXCEPT ![c] = {}]
        /\ charge' = [charge EXCEPT ![Ring(s)] = 0]
        /\ UNCHANGED <<rvars, sessions>>
    BY <1>7, <2>1 DEF SessionJoined, Advance, Pool!Release
  <2> USE DEF rvars, registry
  <2>3. SessionsTyped'
    BY <2>2 DEF SessionsTyped
  <2>4. Handlers' /\ Aimed'
    BY <2>2 DEF Handlers, Aimed, SessionsTyped
  <2>5. OnePlace' /\ Owned'
    BY <2>2 DEF OnePlace, Owned, SessionsTyped
  <2>6. RingsCharged'
    <3>1. Live' = Live \ {s}
      BY <2>2 DEF Live, Ring, SessionsTyped
    <3>2. joining[c] = {s} /\ \A l \in Calls : s \notin sessions[l] /\ (l # c => s \notin joining[l])
      BY <2>1 DEF OnePlace, SessionsTyped
    <3>3. Reachable' = Reachable \ {s}
      BY <2>2, <3>2 DEF Reachable, SessionsTyped
    <3> QED BY <3>1, <3>3 DEF RingsCharged
  <2>7. SessionWhileOpen'
    BY <2>2 DEF SessionWhileOpen, SessionsTyped
  <2> QED BY <2>3, <2>4, <2>5, <2>6, <2>7
<1>8. CASE UNCHANGED vars
  <2> USE <1>8 DEF vars, rvars, registry, svars, bvars
  <2>1. SessionsTyped' /\ Handlers' /\ Aimed' /\ OnePlace' /\ Owned'
    BY DEF SessionsTyped, Handlers, Aimed, OnePlace, Owned
  <2>2. RingsCharged' /\ SessionWhileOpen'
    BY DEF RingsCharged, Live, Reachable, SessionWhileOpen
  <2> QED BY <2>1, <2>2
<1> QED BY <1>1, <1>2, <1>3, <1>4, <1>5, <1>6, <1>7, <1>8 DEF Next

LEMMA OneSessionFromPlaces == SessionsInvariant => OneSession
<1> SUFFICES ASSUME SessionsInvariant, NEW k \in connections, NEW s \in Live, NEW u \in Live,
                    target[s] = {k}, target[u] = {k}
             PROVE  s = u
  BY DEF OneSession
<1> USE DEF SessionsInvariant
<1>1. ASSUME NEW v \in Live, target[v] = {k} PROVE k \in Calls /\ v \in Calls /\ v \in sessions[k]
  <2>1. v \in Calls /\ v \in Reachable
    BY DEF Live, RingsCharged
  <2>2. CASE \E l \in Calls : v \in sessions[l]
    BY <1>1, <2>1, <2>2 DEF Owned
  <2>3. CASE \E d \in Calls : v \in joining[d]
    <3>1. PICK d \in Calls : v \in joining[d]
      BY <2>3
    <3>2. target[d] = {k} /\ pc[d] = "done"
      BY <1>1, <2>1, <3>1 DEF Owned, Handlers
    <3> QED BY <3>2 DEF Aimed
  <2> QED BY <2>1, <2>2, <2>3 DEF Reachable
<1> QED BY <1>1 DEF OnePlace

(* For any number of opens, reads and closes: a ring is charged to the     *)
(* budget exactly while the session map or a close handler can still reach *)
(* its session, so none is orphaned ...                                    *)
THEOREM SessionsCharged == Spec => []RingsCharged
<1>1. SessionsInvariant => RingsCharged
  BY DEF SessionsInvariant
<1>2. Init => RInit
  BY DEF Init
<1> QED BY <1>1, <1>2, RegistryInit, RegistryStep, HandlerSteps, SessionsInit, SessionsStep, PTL
        DEF Spec

(* ... no registered connection is pumped into two rings ...               *)
THEOREM SessionsUnique == Spec => []OneSession
<1>1. Init => RInit
  BY DEF Init
<1> QED BY <1>1, RegistryInit, RegistryStep, HandlerSteps, SessionsInit, SessionsStep,
           OneSessionFromPlaces, PTL DEF Spec

(* ... and a connection whose open handler succeeded keeps its session for *)
(* as long as it is registered, whatever closes and reads come between.    *)
THEOREM SessionsKept == Spec => []SessionWhileOpen
<1>1. SessionsInvariant => SessionWhileOpen
  BY DEF SessionsInvariant
<1>2. Init => RInit
  BY DEF Init
<1> QED BY <1>1, <1>2, RegistryInit, RegistryStep, HandlerSteps, SessionsInit, SessionsStep, PTL
        DEF Spec

=============================================================================
