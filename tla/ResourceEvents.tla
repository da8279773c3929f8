--------------------------- MODULE ResourceEvents ---------------------------
(***************************************************************************)
(* Hints about changed resources (resource_events.rs, and the listen and   *)
(* tool handlers of server.rs).  Handlers, RX pumps and the port watcher   *)
(* publish URIs to one broadcast hub after their change is committed; each *)
(* listener has a receiver of its own, tells its client about the URIs it  *)
(* subscribed to, and when it has fallen behind the hub's buffer tells it  *)
(* about all of them.  Sending to the client may take any time, in which   *)
(* the hub moves on.                                                       *)
(*                                                                         *)
(* A resource is its version: the number of changes committed to it that   *)
(* some handler, pump or watcher announces.  A client that gets a hint     *)
(* reads the resource, some time later.                                    *)
(***************************************************************************)
EXTENDS Naturals, Sequences, SequencesExt, FiniteSets

CONSTANTS
    Connections,   \* ids of connections
    Handlers,      \* tool calls and pumps that run at the same time
    Listeners,     \* subscriptions/listen requests
    Requested,     \* the URI lists they ask for
    PortSets,      \* what the operating system may enumerate
    HubCapacity,
    MaxChanges     \* bound: commits of handlers and pumps, and hotplugs

ASSUME EventsAssumption ==
    /\ HubCapacity \in Nat \ {0}
    /\ PortSets # {}

VARIABLES
    conns,     \* "new", "open" or "closed" for every connection id
    version,   \* committed changes of every resource
    handler,   \* the hints each handler has still to publish
    sent,      \* number of events sent to the hub
    buffer,    \* the last of them, at most HubCapacity
    listener,
    ports, baseline,
    changes

vars == <<conns, version, handler, sent, buffer, listener, ports, baseline, changes>>

(***************************************************************************)
(* URIs (resources/mod.rs), as parse_resource_uri sees them.               *)
(***************************************************************************)

Ports == <<"ports">>

ConnectionsList == <<"connections">>

detail_uri(c) == <<"detail", c>>

raw_uri(c) == <<"raw", c>>

log_uri(c) == <<"log", c>>

is_subscribable_uri(u) ==
    \/ u \in {Ports, ConnectionsList}
    \/ \E c \in Connections : u \in {detail_uri(c), raw_uri(c), log_uri(c)}

Uris == {Ports, ConnectionsList} \cup
        UNION {{detail_uri(c), raw_uri(c), log_uri(c)} : c \in Connections}

Off == [at |-> "off", accepted |-> <<>>, next |-> 0, todo |-> <<>>, hinted |-> {},
        read |-> [u \in Uris |-> 0]]

Init ==
    /\ conns = [c \in Connections |-> "new"]
    /\ version = [u \in Uris |-> 0]
    /\ handler = [h \in Handlers |-> <<>>]
    /\ sent = 0
    /\ buffer = <<>>
    /\ listener = [l \in Listeners |-> Off]
    /\ ports \in PortSets
    /\ baseline = {}
    /\ changes = 0

(***************************************************************************)
(* Changes and their hints.                                                *)
(***************************************************************************)

(* The change is committed; the hints follow, in their order. *)
Commit(h, hints) ==
    /\ handler[h] = <<>>
    /\ changes < MaxChanges
    /\ changes' = changes + 1
    /\ handler' = [handler EXCEPT ![h] = hints]
    /\ version' = [u \in Uris |-> IF \E i \in DOMAIN hints : hints[i] = u
                                  THEN version[u] + 1 ELSE version[u]]
    /\ UNCHANGED <<sent, buffer, listener, ports, baseline>>

open(h, c) ==
    /\ conns[c] = "new"
    /\ conns' = [conns EXCEPT ![c] = "open"]
    /\ Commit(h, <<ConnectionsList, detail_uri(c)>>)

open_profile(h, c) == open(h, c)

(* The hints are published before the sessions are removed. *)
close(h, c) ==
    /\ conns[c] = "open"
    /\ conns' = [conns EXCEPT ![c] = "closed"]
    /\ Commit(h, <<ConnectionsList, detail_uri(c)>>)

ChangeDetail(h, c) ==
    /\ conns[c] = "open"
    /\ Commit(h, <<detail_uri(c)>>)
    /\ UNCHANGED conns

(* write and transact *)
write(h, c) == ChangeDetail(h, c)

(* set_dtr_rts, set_flow_control and send_break *)
control(h, c) == ChangeDetail(h, c)

(* reconfigure, and configure of a connection *)
configure(h, c) == ChangeDetail(h, c)

reconnect(h, c) == ChangeDetail(h, c)

(* flush of the input or of both directions *)
flush(h, c) ==
    /\ conns[c] = "open"
    /\ Commit(h, <<detail_uri(c), raw_uri(c)>>)
    /\ UNCHANGED conns

clear_log(h, c) ==
    /\ conns[c] = "open"
    /\ Commit(h, <<log_uri(c)>>)
    /\ UNCHANGED conns

(* The pump logs and appends what it read, then publishes; it may still do
   so after a close. *)
PumpAppend(h, c) ==
    /\ conns[c] # "new"
    /\ Commit(h, <<detail_uri(c), raw_uri(c), log_uri(c)>>)
    /\ UNCHANGED conns

Send(u) ==
    /\ sent' = sent + 1
    /\ buffer' = SubSeq(Append(buffer, u), IF Len(buffer) = HubCapacity THEN 2 ELSE 1,
                        Len(buffer) + 1)

publish_updated(h) ==
    /\ handler[h] # <<>>
    /\ Send(Head(handler[h]))
    /\ handler' = [handler EXCEPT ![h] = Tail(@)]
    /\ UNCHANGED <<conns, version, listener, ports, baseline, changes>>

(***************************************************************************)
(* The port watcher.                                                       *)
(***************************************************************************)

Hotplug ==
    /\ changes < MaxChanges
    /\ changes' = changes + 1
    /\ ports' \in PortSets \ {ports}
    /\ UNCHANGED <<conns, version, handler, sent, buffer, listener, baseline>>

(* A poll that enumerates the ports: the first sets the baseline silently.
   A poll that fails changes nothing. *)
apply_snapshot ==
    /\ baseline # {ports}
    /\ baseline' = {ports}
    /\ IF baseline = {}
       THEN UNCHANGED <<version, sent, buffer>>
       ELSE Send(Ports) /\ version' = [version EXCEPT ![Ports] = @ + 1]
    /\ UNCHANGED <<conns, handler, listener, ports, changes>>

(***************************************************************************)
(* Listeners.                                                              *)
(***************************************************************************)

Distinct(uris) ==
    FoldLeft(LAMBDA kept, u : IF Contains(kept, u) THEN kept ELSE Append(kept, u), <<>>, uris)

accepted_subscription_filter(requested) == Distinct(SelectSeq(requested, is_subscribable_uri))

(* What rmcp passes to listen: the requested list cut down to the accepted
   one, repetitions included. *)
Context(requested) ==
    LET candidate == accepted_subscription_filter(requested)
    IN  SelectSeq(requested, LAMBDA u : Contains(candidate, u))

(* The receiver sees what is sent from now on; the client reads its
   resources once the subscription stands. *)
listen(l, requested) ==
    /\ listener[l].at = "off"
    /\ \E accepted \in {Distinct(Context(requested))} :
          listener' = [listener EXCEPT ![l] =
                         [at |-> "listening", accepted |-> accepted, next |-> sent,
                          todo |-> <<>>, hinted |-> ToSet(accepted),
                          read |-> [u \in Uris |-> 0]]]
    /\ UNCHANGED <<conns, version, handler, sent, buffer, ports, baseline, changes>>

Oldest == sent - Len(buffer)

Behind(l) == listener[l].next < Oldest

(* Slip: a lagged receiver just goes on with what is still in the buffer. *)
LagIgnored(l) == <<>>

(* On lag every accepted URI is told once, in order. *)
LagRecovery(l) == listener[l].accepted

(* RecvError::Lagged moves the receiver to the oldest event still there. *)
Lagged(l) ==
    /\ listener[l].at = "listening" /\ listener[l].todo = <<>>
    /\ Behind(l)
    /\ listener' = [listener EXCEPT ![l].next = Oldest, ![l].todo = LagRecovery(l)]
    /\ UNCHANGED <<conns, version, handler, sent, buffer, ports, baseline, changes>>

Recv(l) ==
    /\ listener[l].at = "listening" /\ listener[l].todo = <<>>
    /\ listener[l].next < sent /\ ~Behind(l)
    /\ \E u \in {buffer[listener[l].next - Oldest + 1]} :
          listener' = [listener EXCEPT ![l].next = @ + 1,
                         ![l].todo = IF Contains(listener[l].accepted, u) THEN <<u>> ELSE <<>>]
    /\ UNCHANGED <<conns, version, handler, sent, buffer, ports, baseline, changes>>

notify_resource_updated(l) ==
    /\ listener[l].at = "listening" /\ listener[l].todo # <<>>
    /\ \E u \in {Head(listener[l].todo)} :
          listener' = [listener EXCEPT ![l].todo = Tail(@), ![l].hinted = @ \cup {u}]
    /\ UNCHANGED <<conns, version, handler, sent, buffer, ports, baseline, changes>>

(* The client reads a resource it has a hint for: the current ports,
   connections, summary, bytes or log, or that the connection is gone. *)
read_resource(l, u) ==
    /\ u \in listener[l].hinted
    /\ listener' = [listener EXCEPT ![l].hinted = @ \ {u}, ![l].read[u] = version[u]]
    /\ UNCHANGED <<conns, version, handler, sent, buffer, ports, baseline, changes>>

(* The client cancels between two events, or its end of the stream is found
   gone while a hint is sent. *)
EndOfStream(l) ==
    /\ listener[l].at = "listening"
    /\ listener' = [listener EXCEPT ![l] = [Off EXCEPT !.at = "ended"]]
    /\ UNCHANGED <<conns, version, handler, sent, buffer, ports, baseline, changes>>

Next ==
    \/ \E h \in Handlers :
          \/ \E c \in Connections :
                \/ open(h, c) \/ open_profile(h, c)
                \/ close(h, c)
                \/ write(h, c) \/ control(h, c) \/ configure(h, c) \/ reconnect(h, c)
                \/ flush(h, c)
                \/ clear_log(h, c)
                \/ PumpAppend(h, c)
          \/ publish_updated(h)
    \/ Hotplug
    \/ apply_snapshot
    \/ \E l \in Listeners :
          \/ \E requested \in Requested : listen(l, requested)
          \/ Lagged(l)
          \/ Recv(l)
          \/ notify_resource_updated(l)
          \/ \E u \in Uris : read_resource(l, u)
          \/ EndOfStream(l)

(* A publication awaits nothing, the watcher polls for ever, and a listener
   whose client still reads is served; a client reads what it is told of. *)
Fairness ==
    /\ \A h \in Handlers : WF_vars(publish_updated(h))
    /\ WF_vars(apply_snapshot)
    /\ \A l \in Listeners :
          /\ WF_vars(Lagged(l) \/ Recv(l) \/ notify_resource_updated(l))
          /\ \A u \in Uris : WF_vars(read_resource(l, u))

Spec == Init /\ [][Next]_vars /\ Fairness

(***************************************************************************)
(* Properties.                                                             *)
(***************************************************************************)

EventsTypeOK ==
    /\ version \in [Uris -> Nat]
    /\ handler \in [Handlers -> Seq(Uris)]
    /\ buffer \in Seq(Uris) /\ Len(buffer) <= HubCapacity /\ Len(buffer) <= sent
    /\ baseline \subseteq PortSets /\ Cardinality(baseline) <= 1

UpToDate(l) ==
    listener[l].at = "listening" =>
        \A u \in ToSet(listener[l].accepted) : listener[l].read[u] = version[u]

(* Once the changes cease, every client whose stream is open has read the
   last version of each resource it subscribed to: however far the hub ran
   ahead of its listener, no announced change of the handlers, the pump or
   the watcher stays unseen, and no hint makes it read before the change. *)
Informed == \A l \in Listeners : <>[]UpToDate(l)

=============================================================================
