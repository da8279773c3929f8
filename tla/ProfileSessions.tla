-------------------------- MODULE ProfileSessions --------------------------
(***************************************************************************)
(* The tools that use and change profiles (src/tools/port_ops.rs,          *)
(* src/tools/control_ops.rs) and the write-through learning of a           *)
(* connection's settings (src/learning.rs):                                *)
(*   - open plans its session from the profiles, opens the port, marks the *)
(*     profile used or generates one, and binds the connection to it;      *)
(*   - reconfigure, set_flow_control, configure and close change the       *)
(*     connection and write its settings through the bound revision;       *)
(*   - save_profile, configure, delete_profile and rollback_profile change *)
(*     profiles by name.                                                   *)
(* Every access to the store is a transaction of ProfileStore, so anything *)
(* can happen between two of them.                                         *)
(***************************************************************************)
EXTENDS ProfileStore

(* The calls of a client are made one after the other; an open makes a new *)
(* connection, so no two of them make the same one.                        *)
Opens(call) == call.op \in {"open", "open_bare", "open_profile"}
ASSUME ScriptAssumption ==
  \A w \in Workloads :
    /\ \A t \in Clients : /\ Len(w.scripts[t]) \in Nat
                          /\ \A i \in 1 .. Len(w.scripts[t]) : /\ w.scripts[t][i].name \in Names
                                                              /\ w.scripts[t][i].conn \in Conns
    /\ \A t, u \in Clients : \A i \in 1 .. Len(w.scripts[t]), j \in 1 .. Len(w.scripts[u]) :
         /\ Opens(w.scripts[t][i]) /\ Opens(w.scripts[u][j])
         /\ w.scripts[t][i].conn = w.scripts[u][j].conn
         => t = u /\ i = j

VARIABLES
  at,      \* the call each client is at, in its script
  phase,   \* where each client is in that call
  plan,    \* SessionPlan of an open, with the dirty flag
  conns    \* the connections

sessions == <<at, phase, plan, conns>>
vars == <<work, store, sessions>>

NoBinding == [some |-> FALSE, persistent |-> FALSE, name |-> "none", revision |-> 0,
              dirty |-> FALSE, stale |-> FALSE]

(* bound is history: the state of the profile the binding was made from.   *)
Point(inc, version) == [inc |-> inc, version |-> version]
NoPort == [AnySelector EXCEPT !.transport = "none"]
NoConn == [open |-> FALSE, port |-> NoPort, live |-> Defaults("none", 0), binding |-> NoBinding,
           learning_lock |-> {}, bound |-> Point(0, 0)]
NoPlan == [how |-> "none", port |-> NoPort, name |-> "none", profile |-> NoProfile, version |-> 0, dirty |-> FALSE]

Call(t) == work.scripts[t][at[t]]
Idle(t, op) == phase[t] = "ready" /\ at[t] <= Len(work.scripts[t]) /\ Call(t).op = op
               /\ ProcOf(t) \notin down
Goes(t, to) == phase' = [phase EXCEPT ![t] = to] /\ UNCHANGED at
Done(t) == phase' = [phase EXCEPT ![t] = "ready"] /\ at' = [at EXCEPT ![t] = @ + 1]
Conn(t) == conns[Call(t).conn]
WithConn(t, k) == conns' = [conns EXCEPT ![Call(t).conn] = k]
Submits(t, req, to) == Queued(t, req) /\ Goes(t, to)
Returns(t, from) == phase[t] = from /\ Answered(t)
Result(t) == txn[t].out
Collected(t) == txn' = [txn EXCEPT ![t] = NoTxn]
storeIdle == <<work, file, file_lock, cache, mutation_lock, committed, faults, down>>

Init ==
  /\ work \in Workloads
  /\ file = Shows(1, work.profiles)
  /\ file_lock = {} /\ mutation_lock = [p \in Procs |-> {}]
  /\ cache = [p \in Procs |-> Shows(1, work.profiles)]
  /\ txn = [t \in Clients |-> NoTxn]
  /\ committed = [p \in Procs |-> 0] /\ faults = 0 /\ down = {}
  /\ at = [t \in Clients |-> 1]
  /\ phase = [t \in Clients |-> "ready"]
  /\ plan = [t \in Clients |-> NoPlan]
  /\ conns = [k \in Conns |-> NoConn]

-----------------------------------------------------------------------------
(* open and open_profile.                                                  *)

(* The live port of a path; a path that is not listed can still be opened. *)
PortAt(path) == {p \in work.ports : p.path = path}

(* plan_session: no profile for profile_mode "none", for a port of lower   *)
(* confidence and for one that cannot be told from another; otherwise the  *)
(* store resolves it from the file.                                        *)
PlanWithout(t, how, port) ==
  /\ plan' = [plan EXCEPT ![t] = [NoPlan EXCEPT !.how = how, !.port = port, !.version = file.version]]
  /\ Goes(t, "planned")
  /\ UNCHANGED <<work, store, conns>>

PlanDisabled(t) ==
  /\ Idle(t, "open_bare")
  /\ \E port \in PortAt(Call(t).path) : PlanWithout(t, "disabled", port)

PlanTransient(t) ==
  /\ Idle(t, "open")
  /\ \/ PortAt(Call(t).path) = {} /\ PlanWithout(t, "transient", NoPort)
     \/ \E port \in PortAt(Call(t).path) :
          /\ ~HighConfidence(port) \/ Cardinality(Duplicates(port, work.ports)) > 1
          /\ PlanWithout(t, "transient", port)

PlanSession(t) ==
  /\ Idle(t, "open")
  /\ \E port \in PortAt(Call(t).path) :
       /\ HighConfidence(port) /\ Cardinality(Duplicates(port, work.ports)) <= 1
       /\ plan' = [plan EXCEPT ![t] = [NoPlan EXCEPT !.port = port]]
       /\ Submits(t, [Request("resolve", "none") EXCEPT !.port = port], "planning")
  /\ UNCHANGED <<storeIdle, conns>>

PlanDone(t) ==
  /\ Returns(t, "planning")
  /\ plan' = [plan EXCEPT ![t] = [NoPlan EXCEPT !.port = plan[t].port,
       !.how = IF Result(t).name \in {"generate", "transient"} THEN Result(t).name ELSE "profile",
       !.name = Result(t).name, !.profile = Result(t).profile, !.version = txn[t].version]]
  /\ Collected(t) /\ Goes(t, "planned")
  /\ UNCHANGED conns

(* open_profile takes the named profile from the cache, and the one port   *)
(* its selector matches.                                                   *)
PlanExplicit(t) ==
  /\ Idle(t, "open_profile")
  /\ \E shown \in {cache[ProcOf(t)]} :
     \E matched \in {{p \in work.ports : /\ Call(t).name \in DOMAIN shown.profiles
                                        /\ matches(shown.profiles[Call(t).name].selector, p)}} :
       IF Cardinality(matched) = 1
       THEN /\ plan' = [plan EXCEPT ![t] = [how |-> "profile", name |-> Call(t).name, dirty |-> FALSE,
                          port |-> CHOOSE p \in matched : TRUE,
                          profile |-> shown.profiles[Call(t).name], version |-> shown.version]]
            /\ Goes(t, "planned")
       ELSE Done(t) /\ UNCHANGED plan
  /\ UNCHANGED <<work, store, conns>>

(* OpenOverlay: open_profile cannot override the serial settings.          *)
OpenOverlay(t) == IF Call(t).op = "open_profile" THEN "none" ELSE Call(t).value

(* ResolvedOpenSettings::resolve: the call's setting before the profile's  *)
(* before the built-in one; a profile's name gets the port appended.       *)
resolve(override, from_profile, d) ==
  Defaults(CASE override # "none" -> override
             [] override = "none" /\ from_profile -> d.setting
             [] OTHER -> "builtin",
           IF from_profile /\ d.name > 0 THEN d.name + 1 ELSE 0)

profile_only_differs(resolved, d) == resolved # resolve("none", TRUE, d)

(* An empty allowlist allows every port.                                   *)
is_port_allowed(port) == work.allowlist = {} \/ port.family \in work.allowlist

(* The hardware is opened, unless the port is not allowed or is taken; the *)
(* profile is marked used or generated afterwards.                         *)
Taken(port) == \E k \in Conns : conns[k].open /\ conns[k].port = port
OpenConnection(t) ==
  /\ phase[t] = "planned"
  /\ \E pl \in {plan[t]} :
     \E resolved \in {resolve(OpenOverlay(t), pl.how = "profile", pl.profile.defaults)} :
       \/ /\ ~is_port_allowed(pl.port) \/ Taken(pl.port)
          /\ Done(t)
          /\ UNCHANGED <<txn, plan, conns>>
       \/ /\ is_port_allowed(pl.port) /\ ~Taken(pl.port)
          /\ WithConn(t, [NoConn EXCEPT !.open = TRUE, !.port = pl.port, !.live = resolved,
                            !.binding.some = pl.how \in {"disabled", "transient"}])
          /\ \/ /\ pl.how = "profile"
                /\ plan' = [plan EXCEPT ![t].dirty = profile_only_differs(resolved, pl.profile.defaults)]
                /\ Submits(t, Request("mark_used", pl.name), "attaching")
             \/ /\ pl.how = "generate"
                /\ Submits(t, [Request("generate", "none") EXCEPT !.defaults = resolved,
                                 !.selector = canonical_high_selector(pl.port)], "attaching")
                /\ UNCHANGED plan
             \/ /\ pl.how \in {"disabled", "transient"}
                /\ Done(t) /\ UNCHANGED <<txn, plan>>
  /\ UNCHANGED storeIdle

persistent_binding(n, profile, dirty) ==
  [some |-> TRUE, persistent |-> TRUE, name |-> n, revision |-> profile.revision,
   dirty |-> dirty, stale |-> FALSE]

(* The binding has the revision the store answered with; when the profile  *)
(* could not be marked, the planned one; when none could be generated the  *)
(* session is transient.  A dirty open is learned at once.                 *)
AttachBinding(t) ==
  /\ Returns(t, "attaching")
  /\ \E pl \in {plan[t]} : \E out \in {Result(t)} :
       /\ WithConn(t,
            CASE out.status = "write" ->
                   [Conn(t) EXCEPT !.binding = persistent_binding(out.name, out.profile, pl.dirty),
                                   !.bound = Point(out.profile.inc, txn[t].version + 1)]
              [] out.status = "err" /\ pl.how = "profile" ->
                   [Conn(t) EXCEPT !.binding = persistent_binding(pl.name, pl.profile, pl.dirty),
                                   !.bound = Point(pl.profile.inc, pl.version)]
              [] OTHER -> [Conn(t) EXCEPT !.binding = [NoBinding EXCEPT !.some = TRUE]])
       /\ IF pl.dirty THEN Goes(t, "learn") ELSE Done(t)
  /\ Collected(t)
  /\ UNCHANGED plan

-----------------------------------------------------------------------------
(* Changes of a connection.  The connection is looked up, then its         *)
(* learning lock is taken and held from the change until the binding is    *)
(* updated.                                                                *)

lookup_connection(t) ==
  /\ phase[t] = "ready" /\ at[t] <= Len(work.scripts[t]) /\ ProcOf(t) \notin down
  /\ Call(t).op \in {"configure_conn", "reconfigure", "close", "save"}
  /\ IF Conn(t).open THEN Goes(t, "locking") ELSE Done(t)
  /\ UNCHANGED <<work, store, plan, conns>>

Locks(t, op) == phase[t] = "locking" /\ Call(t).op = op /\ Conn(t).learning_lock = {}
Changes(t, k) ==
  /\ WithConn(t, [k EXCEPT !.learning_lock = {t}])
  /\ Goes(t, "learn")
  /\ UNCHANGED <<work, store, plan>>
FailsLocked(t) == Done(t) /\ UNCHANGED <<work, store, plan, conns>>

(* SerialConnection::reconfigure and set_flow_control: the hardware is set *)
(* first, and the stored settings only after every part of it succeeded.   *)
reconfigure(t, applied) ==
  IF Conn(t).open /\ applied THEN Changes(t, [Conn(t) EXCEPT !.live.setting = Call(t).value])
  ELSE FailsLocked(t)

(* configure sets the defaults of the connection it has looked up, which   *)
(* may have been closed meanwhile; reconfigure and set_flow_control fail   *)
(* then, and so does a second close.                                       *)
ConfigureConnection(t) ==
  Locks(t, "configure_conn") /\ Changes(t, [Conn(t) EXCEPT !.live.setting = Call(t).value])
Reconfigure(t) ==
  /\ Locks(t, "reconfigure")
  /\ \E applied \in BOOLEAN : reconfigure(t, applied)
Close(t) ==
  /\ Locks(t, "close")
  /\ IF Conn(t).open THEN Changes(t, [Conn(t) EXCEPT !.open = FALSE]) ELSE FailsLocked(t)

effective_defaults(k) == k.live
Unlocked(k, t) == [k EXCEPT !.learning_lock = @ \ {t}]

(* learn: nothing to do without a profile, nothing but the report of the   *)
(* conflict with a stale binding, and otherwise a transaction on the       *)
(* binding's revision.                                                     *)
NothingToLearn(t) ==
  /\ phase[t] = "learn"
  /\ ~Conn(t).binding.persistent \/ Conn(t).binding.stale
  /\ WithConn(t, [Unlocked(Conn(t), t) EXCEPT !.binding.dirty = @ \/ Conn(t).binding.stale])
  /\ Done(t)
  /\ UNCHANGED <<work, store, plan>>

Learn(t) ==
  /\ phase[t] = "learn" /\ Conn(t).binding.persistent /\ ~Conn(t).binding.stale
  /\ Submits(t, [Request("learn", Conn(t).binding.name) EXCEPT
                   !.expected = Conn(t).binding.revision, !.defaults = effective_defaults(Conn(t)),
                   !.conn = Call(t).conn], "learning")
  /\ UNCHANGED <<storeIdle, plan, conns>>

is_conflict(error) == error \in {"conflict", "not found"}

(* The binding follows the outcome: clean at the new revision, clean, or   *)
(* dirty, and stale after a conflict or when the profile is gone.          *)
LearnDone(t) ==
  /\ Returns(t, "learning")
  /\ \E out \in {Result(t)} :
       WithConn(t, [Unlocked(Conn(t), t) EXCEPT
         !.binding.dirty = out.status = "err",
         !.binding.stale = CASE out.status # "err" -> FALSE
                             [] is_conflict(out.error) -> TRUE
                             [] OTHER -> @,
         !.binding.revision = IF out.status = "write" THEN out.profile.revision ELSE @])
  /\ Collected(t) /\ Done(t)
  /\ UNCHANGED plan

-----------------------------------------------------------------------------
(* Changes of profiles by name.                                            *)

Save(t) ==
  /\ Locks(t, "save")
  /\ WithConn(t, [Conn(t) EXCEPT !.learning_lock = {t}])
  /\ Submits(t, [Request("upsert", Call(t).name) EXCEPT !.defaults = effective_defaults(Conn(t)),
                   !.selector = SavedSelector(Conn(t).port), !.overwrite = Call(t).overwrite], "saving")
  /\ UNCHANGED <<storeIdle, plan>>

SaveDone(t) ==
  /\ Returns(t, "saving")
  /\ WithConn(t, Unlocked(Conn(t), t))
  /\ Collected(t) /\ Done(t)
  /\ UNCHANGED plan

ConfigureProfile(t) ==
  /\ Idle(t, "configure")
  /\ Submits(t, [Request("defaults", Call(t).name) EXCEPT !.overwrite = Call(t).overwrite,
                   !.defaults = Defaults(Call(t).value, 0)], "storing")
  /\ UNCHANGED <<storeIdle, plan, conns>>

(* Open connections of this process that are bound to the profile.         *)
BoundHere(t, n) ==
  {k \in Conns : /\ conns[k].open /\ conns[k].binding.persistent /\ conns[k].binding.name = n
                 /\ work.owner[k] = ProcOf(t)}

DeleteProfile(t) ==
  /\ Idle(t, "delete")
  /\ IF BoundHere(t, Call(t).name) # {} THEN Done(t) /\ UNCHANGED txn
     ELSE Submits(t, Request("delete", Call(t).name), "storing")
  /\ UNCHANGED <<storeIdle, plan, conns>>

ListFresh(t) ==
  /\ Idle(t, "list")
  /\ Submits(t, Request("list", "none"), "storing")
  /\ UNCHANGED <<storeIdle, plan, conns>>

Stored(t) ==
  /\ Returns(t, "storing")
  /\ Collected(t) /\ Done(t)
  /\ UNCHANGED <<plan, conns>>

RollbackProfile(t) ==
  /\ Idle(t, "rollback")
  /\ Submits(t, [Request("rollback", Call(t).name) EXCEPT !.expected = Call(t).expected,
                   !.target = Call(t).target], "rolling")
  /\ UNCHANGED <<storeIdle, plan, conns>>

(* Connections of this process that are bound to the profile become stale. *)
RollbackDone(t) ==
  /\ Returns(t, "rolling")
  /\ conns' = [k \in Conns |->
       IF Result(t).status = "write" /\ k \in BoundHere(t, Call(t).name)
       THEN [conns[k] EXCEPT !.binding.stale = TRUE, !.binding.dirty = TRUE]
       ELSE conns[k]]
  /\ Collected(t) /\ Done(t)
  /\ UNCHANGED plan

-----------------------------------------------------------------------------
(* A call that is given up while it waits for the store.                   *)
Drop(t) ==
  /\ t \in work.drops /\ phase[t] \in {"learning", "storing", "saving", "rolling"}
  /\ Dropped(t)
  /\ phase' = [phase EXCEPT ![t] = "gone"]
  /\ conns' = [k \in Conns |-> Unlocked(conns[k], t)]
  /\ UNCHANGED <<at, plan>>

(* A process and its connections end; calls that had not begun go to the   *)
(* process that takes its place.                                           *)
Crash(p) ==
  /\ ProcessEnds(p)
  /\ phase' = [t \in Clients |-> IF ProcOf(t) = p /\ phase[t] # "ready" THEN "gone" ELSE phase[t]]
  /\ conns' = [k \in Conns |-> IF work.owner[k] = p THEN NoConn ELSE conns[k]]
  /\ UNCHANGED <<work, at, plan>>

Restart(p) == open(p) /\ UNCHANGED <<work, sessions>>

Finished(t) == phase[t] = "gone" \/ (phase[t] = "ready" /\ at[t] > Len(work.scripts[t]))
AllDone == (\A t \in Clients : Finished(t)) /\ UNCHANGED vars

OpenStep(t) ==
  \/ PlanDisabled(t) \/ PlanTransient(t) \/ PlanSession(t) \/ PlanDone(t) \/ PlanExplicit(t)
  \/ OpenConnection(t) \/ AttachBinding(t)
LearnStep(t) ==
  \/ lookup_connection(t) \/ ConfigureConnection(t) \/ Reconfigure(t) \/ Close(t)
  \/ NothingToLearn(t) \/ Learn(t) \/ LearnDone(t)
ProfileStep(t) ==
  \/ Save(t) \/ SaveDone(t) \/ ConfigureProfile(t) \/ DeleteProfile(t) \/ ListFresh(t) \/ Stored(t)
  \/ RollbackProfile(t) \/ RollbackDone(t)

Next ==
  \/ \E t \in Clients : \/ TxnStep(t) /\ UNCHANGED sessions
                        \/ OpenStep(t) \/ LearnStep(t) \/ ProfileStep(t)
                        \/ Drop(t)
  \/ \E p \in Procs : Crash(p) \/ Restart(p)
  \/ AllDone

Spec == Init /\ [][Next]_vars

-----------------------------------------------------------------------------
(* The listing predicts the open (compute_profile_matches, plan_session,   *)
(* resolve_automatic): a profile is applied only if list_ports would       *)
(* announce it as selected from the same file, and a profile is generated  *)
(* only for a recognised device that no profile is announced for.          *)
PreviewAgrees ==
  \A t \in Clients :
    phase[t] = "planned" /\ Call(t).op = "open" /\ plan[t].version = file.version =>
      LET announced == compute_profile_matches(plan[t].port, work.ports, file.profiles)
      IN  /\ plan[t].how = "profile" <=> announced.outcome = "selected"
          /\ plan[t].how = "profile" => announced.selected = plan[t].name
          /\ plan[t].how = "generate" <=> announced.outcome = "none" /\ identity_confidence(plan[t].port) = "high"

Learns(t) ==
  txn[t].req.kind = "learn" /\ txn[t].stage = "writing" /\ txn'[t].stage = "persisted"
Replaces(t) == file.profiles[txn[t].req.name]
LearningConn(t) == conns[txn[t].req.conn]

(* Learning never overwrites a state of the profile that someone else has  *)
(* committed after the connection was bound to it (update_learned_defaults,*)
(* rollback_profile): not a rollback, not a configure and not what another *)
(* connection has learned, in this process or in another one.  A profile   *)
(* that was deleted and created again is a different one.                  *)
BoundNotOverwritten ==
  [][\A t \in Clients : Learns(t) =>
       \/ Replaces(t).inc # LearningConn(t).bound.inc
       \/ Replaces(t).since <= LearningConn(t).bound.version
       \/ Replaces(t).author = txn[t].req.conn]_vars
=============================================================================
