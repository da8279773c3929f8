---------------------------- MODULE ProfileStore ----------------------------
(***************************************************************************)
(* The profile file that the server processes of a machine share, and the  *)
(* store each of them keeps in front of it (src/profile_store.rs): one     *)
(* transaction takes the mutation lock of its process, then the advisory   *)
(* lock of the file in a blocking task, loads the file, applies one        *)
(* operation to what it has loaded, replaces the file by renaming a        *)
(* temporary one and publishes the result to the cache of its process.     *)
(*                                                                         *)
(* A profile's defaults are a serial setting and the connection name, of   *)
(* which only the number of parts matters.  inc, since and author are      *)
(* history: the version of the file that created the profile, the one that *)
(* last changed its selector or defaults, and the connection that did.     *)
(***************************************************************************)
EXTENDS Naturals, Sequences, FiniteSets, PortIdentity

CONSTANTS
  Procs,                  \* server processes
  Clients,                \* callers, each served by one process
  Conns,                  \* serial connections
  Names,                  \* profile names
  GeneratedNames,         \* auto-<label>, auto-<label>-2, ... in order
  Workloads,              \* what the callers ask for, and the faults to expect
  MAX_PROFILE_REVISIONS   \* prior states kept per profile

Defaults(setting, name) == [setting |-> setting, name |-> name]
NoProfile ==
  [revision |-> 0, defaults |-> Defaults("none", 0), selector |-> AnySelector, used |-> 0, uses |-> 0,
   generated |-> FALSE, history |-> <<>>, inc |-> 0, since |-> 0, author |-> "none"]

(* A profile of a file that was replaced v times, and the profiles of one. *)
ProfileOf(p, v) ==
  /\ DOMAIN p = DOMAIN NoProfile
  /\ p.revision \in Nat \ {0} /\ p.used \in Nat /\ p.uses \in Nat
  /\ p.inc \in 1 .. v /\ p.since \in 1 .. v
ProfilesOf(profiles, v) ==
  /\ IsFiniteSet(DOMAIN profiles) /\ DOMAIN profiles \subseteq Names
  /\ \A n \in DOMAIN profiles : ProfileOf(profiles[n], v)

ASSUME StoreAssumption ==
  /\ MAX_PROFILE_REVISIONS \in Nat \ {0}
  /\ GeneratedNames \in Seq(Names)
  /\ \A i, j \in DOMAIN GeneratedNames : GeneratedNames[i] = GeneratedNames[j] => i = j
  /\ {"generate", "transient"} \cap Names = {}
  /\ \A w \in Workloads : /\ w.proc \in [Clients -> Procs] /\ w.clock \in [Procs -> Nat]
                          /\ ProfilesOf(w.profiles, 1) /\ IsFiniteSet(w.ports)

VARIABLES
  work,           \* the workload
  file,           \* profiles.toml: its profiles, and how often it was replaced
  file_lock,      \* the client whose task is inside profiles.toml.lock
  cache,          \* ProfileStore.cache of each process, with the file version it shows
  mutation_lock,  \* the client inside ProfileStore.mutation_lock of each process
  txn,            \* the transaction of each client
  committed,      \* history: the last version each process has written
  faults,         \* writes that have failed
  down            \* processes that have crashed and not restarted

store == <<file, file_lock, cache, mutation_lock, txn, committed, faults, down>>

ProcOf(t) == work.proc[t]
ClientsOf(p) == {t \in Clients : ProcOf(t) = p}

-----------------------------------------------------------------------------
(* What one operation makes of the profiles it has loaded: a new set of    *)
(* profiles to write, nothing to write, or an error.  v is the version the *)
(* file would get.                                                         *)

Outcome(status, next, n, p, error) ==
  [status |-> status, next |-> next, name |-> n, profile |-> p, error |-> error]
Fails(error) == Outcome("err", <<>>, "none", NoProfile, error)
Writes(profiles, n, p) ==
  Outcome("write", [m \in DOMAIN profiles \cup {n} |-> IF m = n THEN p ELSE profiles[m]], n, p, "none")
Answers(profiles, n, p) == Outcome("noop", profiles, n, p, "none")

create_metadata(defaults, selector, v) ==
  [NoProfile EXCEPT !.revision = 1, !.defaults = defaults, !.selector = selector, !.inc = v, !.since = v]

push_revision(old) ==
  LET revisions == Append(old.history, [revision |-> old.revision, defaults |-> old.defaults,
                                        selector |-> old.selector])
  IN  IF Len(revisions) > MAX_PROFILE_REVISIONS THEN Tail(revisions) ELSE revisions

(* bump_metadata and push_revision: the next revision of a profile.        *)
Revised(old, defaults, selector, author, v) ==
  [old EXCEPT !.revision = @ + 1, !.defaults = defaults, !.selector = selector,
              !.history = push_revision(old), !.since = v, !.author = author]

apply_upsert(req, profiles, v) ==
  CASE req.name \in DOMAIN profiles /\ ~req.overwrite -> Fails("exists")
    [] req.name \in DOMAIN profiles /\ req.overwrite ->
         Writes(profiles, req.name, Revised(profiles[req.name], req.defaults, req.selector, "none", v))
    [] OTHER -> Writes(profiles, req.name, create_metadata(req.defaults, req.selector, v))

apply_update_defaults(req, profiles, v) ==
  CASE req.name \in DOMAIN profiles /\ ~req.overwrite -> Fails("exists")
    [] req.name \in DOMAIN profiles /\ req.overwrite ->
         Writes(profiles, req.name,
                Revised(profiles[req.name], req.defaults, profiles[req.name].selector, "none", v))
    [] OTHER -> Writes(profiles, req.name, create_metadata(req.defaults, AnySelector, v))

apply_delete(req, profiles) ==
  IF req.name \notin DOMAIN profiles THEN Fails("not found")
  ELSE Outcome("write", [m \in DOMAIN profiles \ {req.name} |-> profiles[m]], req.name, NoProfile, "none")

(* The first generated name that is free.                                  *)
allocate_generated_name(profiles) ==
  GeneratedNames[CHOOSE i \in DOMAIN GeneratedNames :
                   /\ GeneratedNames[i] \notin DOMAIN profiles
                   /\ \A j \in 1 .. (i - 1) : GeneratedNames[j] \in DOMAIN profiles]

create_generated(req, profiles, now, v) ==
  Writes(profiles, allocate_generated_name(profiles),
         [create_metadata(req.defaults, req.selector, v) EXCEPT !.generated = TRUE, !.used = now, !.uses = 1])

(* Later than any use on record, whatever the clock says.                  *)
mark_used(req, profiles, now) ==
  IF req.name \notin DOMAIN profiles THEN Fails("not found")
  ELSE LET ts == CHOOSE x \in {now} \cup {profiles[m].used + 1 : m \in DOMAIN profiles} :
                    x >= now /\ \A m \in DOMAIN profiles : x > profiles[m].used
       IN  Writes(profiles, req.name, [profiles[req.name] EXCEPT !.uses = @ + 1, !.used = ts])

(* Slip: the revision is not compared.                                     *)
update_learned_defaults_unchecked(req, profiles, v) ==
  CASE req.name \notin DOMAIN profiles -> Fails("not found")
    [] OTHER -> Writes(profiles, req.name,
                  Revised(profiles[req.name], req.defaults, profiles[req.name].selector, req.conn, v))

update_learned_defaults(req, profiles, v) ==
  CASE req.name \notin DOMAIN profiles -> Fails("not found")
    [] req.name \in DOMAIN profiles /\ profiles[req.name].revision # req.expected -> Fails("conflict")
    [] req.name \in DOMAIN profiles /\ profiles[req.name].revision = req.expected
         /\ profiles[req.name].defaults = req.defaults -> Answers(profiles, req.name, profiles[req.name])
    [] OTHER -> Writes(profiles, req.name,
                  Revised(profiles[req.name], req.defaults, profiles[req.name].selector, req.conn, v))

Retained(profile, target) == {i \in DOMAIN profile.history : profile.history[i].revision = target}

rollback(req, profiles, v) ==
  CASE req.name \notin DOMAIN profiles -> Fails("not found")
    [] req.name \in DOMAIN profiles /\ profiles[req.name].revision # req.expected -> Fails("conflict")
    [] req.name \in DOMAIN profiles /\ profiles[req.name].revision = req.expected
         /\ Retained(profiles[req.name], req.target) = {} -> Fails("evicted")
    [] OTHER -> LET old == profiles[req.name]
                    snapshot == old.history[CHOOSE i \in Retained(old, req.target) : TRUE]
                IN  Writes(profiles, req.name,
                           Revised(old, snapshot.defaults, snapshot.selector, "none", v))

(* The profile for a device of high confidence: the one used last, if that *)
(* is one.                                                                 *)
resolve_automatic(req, profiles) ==
  LET candidates == Candidates(profiles, req.port)
      latest == rank_candidates(profiles, candidates)
  IN  CASE candidates = {} -> Answers(profiles, "generate", NoProfile)
        [] candidates # {} /\ Cardinality(latest) = 1 ->
             LET n == CHOOSE n \in latest : TRUE IN Answers(profiles, n, profiles[n])
        [] OTHER -> Answers(profiles, "transient", NoProfile)

apply(req, profiles, now, v) ==
  CASE req.kind = "upsert" -> apply_upsert(req, profiles, v)
    [] req.kind = "defaults" -> apply_update_defaults(req, profiles, v)
    [] req.kind = "delete" -> apply_delete(req, profiles)
    [] req.kind = "generate" -> create_generated(req, profiles, now, v)
    [] req.kind = "mark_used" -> mark_used(req, profiles, now)
    [] req.kind = "learn" -> update_learned_defaults(req, profiles, v)
    [] req.kind = "rollback" -> rollback(req, profiles, v)
    [] req.kind = "resolve" -> resolve_automatic(req, profiles)
    [] req.kind = "list" -> Answers(profiles, "none", NoProfile)

-----------------------------------------------------------------------------
(* run_read and run_conditional_mutation.                                  *)

Request(kind, n) ==
  [kind |-> kind, name |-> n, defaults |-> Defaults("none", 0), expected |-> 0, target |-> 0,
   overwrite |-> TRUE, conn |-> "none", selector |-> AnySelector, port |-> AnySelector]
NoTxn == [stage |-> "none", req |-> Request("none", "none"), snap |-> <<>>, version |-> 0,
          out |-> Fails("none")]

Queued(t, req) == txn' = [txn EXCEPT ![t] = [NoTxn EXCEPT !.stage = "queued", !.req = req]]

EnterMutation(t) ==
  /\ txn[t].stage = "queued" /\ mutation_lock[ProcOf(t)] = {}
  /\ mutation_lock' = [mutation_lock EXCEPT ![ProcOf(t)] = {t}]
  /\ txn' = [txn EXCEPT ![t].stage = "blocking"]
  /\ UNCHANGED <<work, file, file_lock, cache, committed, faults, down>>

(* Slip: the advisory lock is taken in shared mode.                        *)
AcquireShared(t) ==
  /\ txn[t].stage = "blocking"
  /\ file_lock' = file_lock \cup {t}
  /\ txn' = [txn EXCEPT ![t].stage = "loaded", ![t].snap = file.profiles, ![t].version = file.version]
  /\ UNCHANGED <<work, file, cache, mutation_lock, committed, faults, down>>

(* acquire_lock, then load_validated.                                      *)
AcquireAndLoad(t) ==
  /\ txn[t].stage = "blocking" /\ file_lock = {}
  /\ file_lock' = {t}
  /\ txn' = [txn EXCEPT ![t].stage = "loaded", ![t].snap = file.profiles, ![t].version = file.version]
  /\ UNCHANGED <<work, file, cache, mutation_lock, committed, faults, down>>

Shows(version, profiles) == [version |-> version, profiles |-> profiles]
Refresh(t, shown) == cache' = [cache EXCEPT ![ProcOf(t)] = shown]

(* Generated names are numbered without end; the ones of GeneratedNames    *)
(* suffice for a workload.                                                 *)
NameLeft(profiles) == \E i \in DOMAIN GeneratedNames : GeneratedNames[i] \notin DOMAIN profiles

(* The operation is applied to what was loaded.  When there is nothing to  *)
(* write the cache shows what was loaded, after an error the file.         *)
Apply(t) ==
  /\ txn[t].stage = "loaded"
  /\ txn[t].req.kind = "generate" => NameLeft(txn[t].snap)
  /\ \E out \in {apply(txn[t].req, txn[t].snap, work.clock[ProcOf(t)], txn[t].version + 1)} :
       IF out.status = "write"
       THEN /\ txn' = [txn EXCEPT ![t].stage = "writing", ![t].out = out]
            /\ UNCHANGED <<file_lock, cache>>
       ELSE /\ txn' = [txn EXCEPT ![t].stage = "answered", ![t].out = out]
            /\ file_lock' = file_lock \ {t}
            /\ Refresh(t, IF out.status = "noop" THEN Shows(txn[t].version, txn[t].snap) ELSE file)
  /\ UNCHANGED <<work, file, mutation_lock, committed, faults, down>>

(* write_atomic: the temporary file cannot be written, or replaces the     *)
(* profile file.                                                           *)
WriteFails(t) ==
  /\ txn[t].stage = "writing" /\ faults < work.faults
  /\ faults' = faults + 1
  /\ txn' = [txn EXCEPT ![t].stage = "answered", ![t].out = Fails("io")]
  /\ file_lock' = file_lock \ {t}
  /\ Refresh(t, file)
  /\ UNCHANGED <<work, file, mutation_lock, committed, down>>

Persist(t) ==
  /\ txn[t].stage = "writing"
  /\ file' = Shows(file.version + 1, txn[t].out.next)
  /\ committed' = [committed EXCEPT ![ProcOf(t)] = file.version + 1]
  /\ txn' = [txn EXCEPT ![t].stage = "persisted"]
  /\ UNCHANGED <<work, file_lock, cache, mutation_lock, faults, down>>

(* Slip: the cache is published by the caller, if it is still there.       *)
PublishIfAwaited(t) ==
  /\ txn[t].stage = "persisted"
  /\ IF t \in mutation_lock[ProcOf(t)] THEN Refresh(t, Shows(file.version, txn[t].out.next))
     ELSE UNCHANGED cache
  /\ file_lock' = file_lock \ {t}
  /\ txn' = [txn EXCEPT ![t].stage = "answered"]
  /\ UNCHANGED <<work, file, mutation_lock, committed, faults, down>>

(* The blocking task publishes the result and releases the file.           *)
Publish(t) ==
  /\ txn[t].stage = "persisted"
  /\ Refresh(t, Shows(file.version, txn[t].out.next))
  /\ file_lock' = file_lock \ {t}
  /\ txn' = [txn EXCEPT ![t].stage = "answered"]
  /\ UNCHANGED <<work, file, mutation_lock, committed, faults, down>>

TxnStep(t) ==
  EnterMutation(t) \/ AcquireAndLoad(t) \/ Apply(t) \/ WriteFails(t) \/ Persist(t) \/ Publish(t)

(* The caller resumes with the result.                                     *)
Answered(t) ==
  /\ txn[t].stage = "answered" /\ t \in mutation_lock[ProcOf(t)]
  /\ mutation_lock' = [mutation_lock EXCEPT ![ProcOf(t)] = {}]
  /\ UNCHANGED <<work, file, file_lock, cache, committed, faults, down>>

(* The caller's future is dropped: its lock is released at once, and a     *)
(* blocking task that has started goes on without it.                      *)
Dropped(t) ==
  /\ txn[t].stage # "none"
  /\ mutation_lock' = [mutation_lock EXCEPT ![ProcOf(t)] = @ \ {t}]
  /\ txn' = [txn EXCEPT ![t] = IF @.stage = "queued" THEN NoTxn ELSE @]
  /\ UNCHANGED <<work, file, file_lock, cache, committed, faults, down>>

(* A process ends at any moment; the operating system releases its lock    *)
(* on the file.  Another starts in its place and loads the file.           *)
ProcessEnds(p) ==
  /\ work.crash = p /\ p \notin down
  /\ down' = down \cup {p}
  /\ file_lock' = file_lock \ ClientsOf(p)
  /\ mutation_lock' = [mutation_lock EXCEPT ![p] = {}]
  /\ txn' = [t \in Clients |-> IF ProcOf(t) = p THEN NoTxn ELSE txn[t]]
  /\ UNCHANGED <<file, cache, committed, faults>>

open(p) ==
  /\ p \in down
  /\ down' = down \ {p}
  /\ cache' = [cache EXCEPT ![p] = file]
  /\ UNCHANGED <<file, file_lock, mutation_lock, txn, committed, faults>>

-----------------------------------------------------------------------------
(* No update is lost (run_conditional_mutation, acquire_lock): whatever    *)
(* the processes do at the same time and wherever one of them ends, each   *)
(* replacement of the file changes one profile of the file it replaces, by *)
(* one revision with the previous one kept, one use later than all others, *)
(* a creation or a deletion.                                               *)
OneRevision(old, new) ==
  /\ new.revision = old.revision + 1 /\ new.inc = old.inc
  /\ new.used = old.used /\ new.uses = old.uses
  /\ new.history = push_revision(old)
OneUse(profiles, n, new) ==
  /\ new = [profiles[n] EXCEPT !.uses = @ + 1, !.used = new.used]
  /\ \A m \in DOMAIN profiles : new.used > profiles[m].used
OneChange(old, new, n) ==
  /\ \A m \in DOMAIN old \ {n} : m \in DOMAIN new /\ new[m] = old[m]
  /\ DOMAIN new \subseteq DOMAIN old \cup {n}
  /\ \/ n \notin DOMAIN old /\ new[n].revision = 1 /\ new[n].history = <<>>
     \/ n \notin DOMAIN new
     \/ OneRevision(old[n], new[n])
     \/ OneUse(old, n, new[n])

NoLostUpdate ==
  [][file' # file => \E n \in Names : OneChange(file.profiles, file'.profiles, n)]_file

(* A process sees its own writes (run_conditional_mutation): once the task *)
(* that made a write has released the file, the cache of its process is    *)
(* never older than that write, even when the caller has gone away and     *)
(* another transaction has overtaken it.                                   *)
OwnWritesCached ==
  \A p \in Procs \ down :
    (\A t \in ClientsOf(p) : txn[t].stage # "persisted") => cache[p].version >= committed[p]
=============================================================================
