------------------------- MODULE ProfileStoreProofs -------------------------
(***************************************************************************)
(* Proofs about the profile store and the sessions that use it, for any    *)
(* number of processes, callers, connections and profiles:                 *)
(*   - a process sees its own writes (OwnWritesAlwaysCached);              *)
(*   - each replacement of the file is one change of the file it replaces  *)
(*     (NoUpdateIsLost), from what every operation makes of a well-formed  *)
(*     file and every request being a proper one;                          *)
(*   - the listing of the ports predicts the open (PreviewAlwaysAgrees);   *)
(*   - learning never overwrites what someone else has committed since the *)
(*     connection was bound (LearningNeverOverwrites).                     *)
(***************************************************************************)
EXTENDS ProfileSessions, FiniteSetTheorems, SequenceTheorems, NaturalsInduction, WellFoundedInduction, TLAPS

-----------------------------------------------------------------------------
(* What a transaction of the store is and does.                            *)

TxnShape(x) ==
  x = [stage |-> x.stage, req |-> x.req, snap |-> x.snap, version |-> x.version, out |-> x.out]
FileShape(f) == f = [version |-> f.version, profiles |-> f.profiles] /\ f.version \in Nat

Waiting == {"planning", "attaching", "learning", "storing", "saving", "rolling"}

Shapes ==
  /\ work \in Workloads
  /\ FileShape(file)
  /\ cache = [p \in Procs |-> cache[p]] /\ \A p \in Procs : FileShape(cache[p])
  /\ committed \in [Procs -> Nat]
  /\ txn = [t \in Clients |-> txn[t]] /\ \A t \in Clients : TxnShape(txn[t])
  /\ phase = [t \in Clients |-> phase[t]]

(* The client in the advisory lock is alone there, and what it has loaded  *)
(* is still the file.                                                      *)
Exclusive ==
  /\ \A s, t \in file_lock : s = t
  /\ \A t \in Clients : /\ txn[t].stage \in {"loaded", "writing", "persisted"} => t \in file_lock
                        /\ txn[t].stage \in {"loaded", "writing"} =>
                             txn[t].snap = file.profiles /\ txn[t].version = file.version

(* Only a caller that waits for the store, or has left it, has a           *)
(* transaction.                                                            *)
Attended == \A t \in Clients : txn[t].stage # "none" => phase[t] \in Waiting \cup {"gone"}

Behind == \A p \in Procs : committed[p] <= file.version

StoreInvariant == Shapes /\ Exclusive /\ Attended /\ Behind

(* The steps of the sessions as the store sees them.                       *)
Submitted(t) ==
  /\ phase[t] \notin Waiting \cup {"gone"}
  /\ \E req : Queued(t, req)
  /\ UNCHANGED storeIdle

LEMMA StoreMoves ==
  ASSUME Next
  PROVE  \/ \E t \in Clients : TxnStep(t)
         \/ \E t \in Clients : Submitted(t)
         \/ \E t \in Clients : Answered(t) /\ Collected(t)
         \/ \E t \in Clients : Dropped(t)
         \/ \E p \in Procs : ProcessEnds(p) /\ UNCHANGED work
         \/ \E p \in Procs : open(p) /\ UNCHANGED work
         \/ UNCHANGED <<work, store>>
<1>1. ASSUME NEW t \in Clients, OpenStep(t)
      PROVE  Submitted(t) \/ (Answered(t) /\ Collected(t)) \/ UNCHANGED <<work, store>>
  BY <1>1 DEF OpenStep, PlanDisabled, PlanTransient, PlanSession, PlanDone, PlanExplicit, OpenConnection,
       AttachBinding, PlanWithout, Submitted, Submits, Returns, Idle, storeIdle, store, Waiting
<1>2. ASSUME NEW t \in Clients, LearnStep(t)
      PROVE  Submitted(t) \/ (Answered(t) /\ Collected(t)) \/ UNCHANGED <<work, store>>
  BY <1>2 DEF LearnStep, lookup_connection, ConfigureConnection, Reconfigure, Close, NothingToLearn, Learn,
       LearnDone, reconfigure, Changes, FailsLocked, Submitted, Submits, Returns, storeIdle, store, Waiting
<1>3. ASSUME NEW t \in Clients, ProfileStep(t)
      PROVE  Submitted(t) \/ (Answered(t) /\ Collected(t)) \/ UNCHANGED <<work, store>>
  BY <1>3 DEF ProfileStep, Save, SaveDone, ConfigureProfile, DeleteProfile, ListFresh, Stored,
       RollbackProfile, RollbackDone, Locks, Submitted, Submits, Returns, Idle, storeIdle, store, Waiting
<1>4. ASSUME NEW p \in Procs, Crash(p) PROVE ProcessEnds(p) /\ UNCHANGED work
  BY <1>4 DEF Crash
<1>5. ASSUME NEW p \in Procs, Restart(p) PROVE open(p) /\ UNCHANGED work
  BY <1>5 DEF Restart
<1>6. ASSUME NEW t \in Clients, Drop(t) PROVE Dropped(t)
  BY <1>6 DEF Drop
<1>7. ASSUME AllDone PROVE UNCHANGED <<work, store>>
  BY <1>7 DEF AllDone, vars
<1> QED BY <1>1, <1>2, <1>3, <1>4, <1>5, <1>6, <1>7 DEF Next

(* Which steps a caller takes while it waits.                              *)
LEMMA PhaseMoves ==
  ASSUME Next, Shapes, NEW t \in Clients, phase[t] \in Waiting \cup {"gone"}
  PROVE  phase'[t] \in Waiting \cup {"gone"} \/ (Answered(t) /\ Collected(t))
<1> USE DEF Shapes, Waiting
<1>1. ASSUME NEW u \in Clients, OpenStep(u)
      PROVE  phase'[t] = phase[t] \/ (u = t /\ Answered(t) /\ Collected(t))
  BY <1>1 DEF OpenStep, PlanDisabled, PlanTransient, PlanSession, PlanDone, PlanExplicit, OpenConnection,
       AttachBinding, PlanWithout, Submits, Returns, Idle, Goes, Done
<1>2. ASSUME NEW u \in Clients, LearnStep(u)
      PROVE  phase'[t] = phase[t] \/ (u = t /\ Answered(t) /\ Collected(t))
  BY <1>2 DEF LearnStep, lookup_connection, ConfigureConnection, Reconfigure, Close, NothingToLearn, Learn,
       LearnDone, reconfigure, Changes, FailsLocked, Locks, Submits, Returns, Goes, Done
<1>3. ASSUME NEW u \in Clients, ProfileStep(u)
      PROVE  phase'[t] = phase[t] \/ (u = t /\ Answered(t) /\ Collected(t))
  BY <1>3 DEF ProfileStep, Save, SaveDone, ConfigureProfile, DeleteProfile, ListFresh, Stored,
       RollbackProfile, RollbackDone, Locks, Submits, Returns, Idle, Goes, Done
<1>4. ASSUME NEW p \in Procs, Crash(p) PROVE phase'[t] \in {phase[t], "gone"}
  BY <1>4 DEF Crash
<1>5. ASSUME NEW p \in Procs, Restart(p) PROVE phase'[t] = phase[t]
  BY <1>5 DEF Restart, sessions
<1>6. ASSUME NEW u \in Clients, Drop(u) PROVE phase'[t] \in {phase[t], "gone"}
  BY <1>6 DEF Drop
<1>7. ASSUME AllDone PROVE phase'[t] = phase[t]
  BY <1>7 DEF AllDone, vars, sessions
<1>8. ASSUME NEW u \in Clients, TxnStep(u) /\ UNCHANGED sessions PROVE phase'[t] = phase[t]
  BY <1>8 DEF sessions
<1> QED BY <1>1, <1>2, <1>3, <1>4, <1>5, <1>6, <1>7, <1>8 DEF Next

LEMMA PhaseShape ==
  ASSUME Next, Shapes PROVE phase' = [t \in Clients |-> phase'[t]]
<1> USE DEF Shapes
<1>1. ASSUME NEW u \in Clients, OpenStep(u)
      PROVE  UNCHANGED phase \/ \E x : phase' = [phase EXCEPT ![u] = x]
  BY <1>1 DEF OpenStep, PlanDisabled, PlanTransient, PlanSession, PlanDone, PlanExplicit, OpenConnection,
       AttachBinding, PlanWithout, Submits, Goes, Done
<1>2. ASSUME NEW u \in Clients, LearnStep(u)
      PROVE  UNCHANGED phase \/ \E x : phase' = [phase EXCEPT ![u] = x]
  BY <1>2 DEF LearnStep, lookup_connection, ConfigureConnection, Reconfigure, Close, NothingToLearn, Learn,
       LearnDone, reconfigure, Changes, FailsLocked, Submits, Goes, Done
<1>3. ASSUME NEW u \in Clients, ProfileStep(u)
      PROVE  UNCHANGED phase \/ \E x : phase' = [phase EXCEPT ![u] = x]
  BY <1>3 DEF ProfileStep, Save, SaveDone, ConfigureProfile, DeleteProfile, ListFresh, Stored,
       RollbackProfile, RollbackDone, Submits, Goes, Done
<1>4. ASSUME NEW p \in Procs, Crash(p) PROVE phase' = [t \in Clients |-> phase'[t]]
  BY <1>4 DEF Crash
<1>5. ASSUME NEW u \in Clients, Drop(u) PROVE \E x : phase' = [phase EXCEPT ![u] = x]
  BY <1>5 DEF Drop
<1> QED BY <1>1, <1>2, <1>3, <1>4, <1>5 DEF Next, Restart, AllDone, vars, sessions

(* A transaction is begun only for a caller that has none.                 *)
LEMMA SubmitsFromRest ==
  ASSUME Attended, NEW t \in Clients, Submitted(t) PROVE txn[t].stage = "none"
BY DEF Attended, Submitted

LEMMA StoreShapes ==
  ASSUME Next, Shapes, Exclusive PROVE Shapes'
<1>1. phase' = [t \in Clients |-> phase'[t]]
  BY PhaseShape
<1>2. ASSUME NEW t \in Clients, TxnStep(t) PROVE Shapes'
  <2>1. ProcOf(t) \in Procs
    BY StoreAssumption DEF Shapes, ProcOf
  <2>2. CASE EnterMutation(t)
    BY <1>1, <2>2 DEF Shapes, EnterMutation, TxnShape, FileShape
  <2>3. CASE AcquireAndLoad(t)
    BY <1>1, <2>3 DEF Shapes, AcquireAndLoad, TxnShape, FileShape
  <2>4. CASE Apply(t)
    <3>1. PICK out : \/ /\ txn' = [txn EXCEPT ![t].stage = "writing", ![t].out = out]
                        /\ UNCHANGED cache
                     \/ /\ txn' = [txn EXCEPT ![t].stage = "answered", ![t].out = out]
                        /\ \/ Refresh(t, Shows(txn[t].version, txn[t].snap)) /\ txn[t].stage = "loaded"
                           \/ Refresh(t, file)
      BY <2>4 DEF Apply
    <3>2. (\A u \in Clients : TxnShape(txn'[u])) /\ txn' = [u \in Clients |-> txn'[u]]
      BY <3>1 DEF Shapes, TxnShape
    <3>3. (\A p \in Procs : FileShape(cache'[p])) /\ cache' = [p \in Procs |-> cache'[p]]
      BY <2>1, <3>1 DEF Shapes, Exclusive, FileShape, Refresh, Shows
    <3>4. UNCHANGED <<work, file, committed>>
      BY <2>4 DEF Apply
    <3> QED BY <1>1, <3>2, <3>3, <3>4 DEF Shapes
  <2>5. CASE WriteFails(t)
    BY <1>1, <2>1, <2>5 DEF Shapes, WriteFails, TxnShape, FileShape, Refresh, Shows
  <2>6. CASE Persist(t)
    <3>0. file.version + 1 \in Nat /\ committed' = [committed EXCEPT ![ProcOf(t)] = file.version + 1]
      BY <2>6 DEF Shapes, Persist, FileShape
    <3>1. committed' \in [Procs -> Nat]
      BY <3>0 DEF Shapes
    <3>2. FileShape(file')
      BY <2>6 DEF Shapes, Persist, FileShape, Shows
    <3>3. (\A u \in Clients : TxnShape(txn'[u])) /\ txn' = [u \in Clients |-> txn'[u]]
      BY <2>6 DEF Shapes, Persist, TxnShape
    <3> QED BY <1>1, <2>6, <3>1, <3>2, <3>3 DEF Shapes, Persist
  <2>7. CASE Publish(t)
    BY <1>1, <2>1, <2>7 DEF Shapes, Publish, TxnShape, FileShape, Refresh, Shows
  <2> QED BY <1>2, <2>2, <2>3, <2>4, <2>5, <2>6, <2>7 DEF TxnStep
<1>3. ASSUME NEW t \in Clients, Submitted(t) PROVE Shapes'
  BY <1>1, <1>3 DEF Shapes, Submitted, Queued, NoTxn, TxnShape, FileShape, storeIdle
<1>4. ASSUME NEW t \in Clients, Answered(t) /\ Collected(t) PROVE Shapes'
  BY <1>1, <1>4 DEF Shapes, Answered, Collected, NoTxn, TxnShape, FileShape
<1>5. ASSUME NEW t \in Clients, Dropped(t) PROVE Shapes'
  BY <1>1, <1>5 DEF Shapes, Dropped, NoTxn, TxnShape, FileShape
<1>6. ASSUME NEW p \in Procs, ProcessEnds(p) /\ UNCHANGED work PROVE Shapes'
  BY <1>1, <1>6 DEF Shapes, ProcessEnds, NoTxn, TxnShape, FileShape
<1>7. ASSUME NEW p \in Procs, open(p) /\ UNCHANGED work PROVE Shapes'
  BY <1>1, <1>7 DEF Shapes, open, TxnShape, FileShape
<1>8. ASSUME UNCHANGED <<work, store>> PROVE Shapes'
  BY <1>1, <1>8 DEF Shapes, store, TxnShape, FileShape
<1> QED BY <1>2, <1>3, <1>4, <1>5, <1>6, <1>7, <1>8, StoreMoves

LEMMA StoreExclusive ==
  ASSUME Next, Shapes, Exclusive, Attended PROVE Exclusive'
<1> USE DEF Shapes, Exclusive, TxnShape, FileShape
<1>2. ASSUME NEW t \in Clients, TxnStep(t) PROVE Exclusive'
  <2>2. CASE EnterMutation(t)
    BY <2>2 DEF EnterMutation
  <2>3. CASE AcquireAndLoad(t)
    BY <2>3 DEF AcquireAndLoad
  <2>4. CASE Apply(t)
    BY <2>4 DEF Apply
  <2>5. CASE WriteFails(t)
    BY <2>5 DEF WriteFails
  <2>6. CASE Persist(t)
    BY <2>6 DEF Persist, Shows
  <2>7. CASE Publish(t)
    BY <2>7 DEF Publish
  <2> QED BY <1>2, <2>2, <2>3, <2>4, <2>5, <2>6, <2>7 DEF TxnStep
<1>3. ASSUME NEW t \in Clients, Submitted(t) PROVE Exclusive'
  BY <1>3 DEF Submitted, Queued, NoTxn, storeIdle
<1>4. ASSUME NEW t \in Clients, Answered(t) /\ Collected(t) PROVE Exclusive'
  BY <1>4 DEF Answered, Collected, NoTxn
<1>5. ASSUME NEW t \in Clients, Dropped(t) PROVE Exclusive'
  BY <1>5 DEF Dropped, NoTxn
<1>6. ASSUME NEW p \in Procs, ProcessEnds(p) /\ UNCHANGED work PROVE Exclusive'
  BY <1>6 DEF ProcessEnds, NoTxn, ClientsOf
<1>7. ASSUME NEW p \in Procs, open(p) /\ UNCHANGED work PROVE Exclusive'
  BY <1>7 DEF open
<1>8. ASSUME UNCHANGED <<work, store>> PROVE Exclusive'
  BY <1>8 DEF store
<1> QED BY <1>2, <1>3, <1>4, <1>5, <1>6, <1>7, <1>8, StoreMoves

LEMMA StoreBehind ==
  ASSUME Next, Shapes, Behind PROVE Behind' /\ file.version <= file'.version
<1> USE DEF Shapes, Behind, FileShape
<1>2. ASSUME NEW t \in Clients, TxnStep(t) PROVE Behind' /\ file.version <= file'.version
  <2>1. ProcOf(t) \in Procs
    BY StoreAssumption DEF ProcOf
  <2>6. CASE Persist(t)
    BY <2>1, <2>6 DEF Persist, Shows
  <2>7. CASE UNCHANGED <<file, committed>>
    BY <2>7
  <2> QED BY <1>2, <2>6, <2>7 DEF TxnStep, EnterMutation, AcquireAndLoad, Apply, WriteFails, Publish
<1>3. ASSUME UNCHANGED <<file, committed>> PROVE Behind' /\ file.version <= file'.version
  BY <1>3
<1> QED BY <1>2, <1>3, StoreMoves DEF Submitted, storeIdle, Answered, Dropped, ProcessEnds, open, store

LEMMA StoreAttended ==
  ASSUME Next, Shapes, Attended PROVE Attended'
<1> SUFFICES ASSUME NEW t \in Clients, txn'[t].stage # "none"
             PROVE  phase'[t] \in Waiting \cup {"gone"}
  BY DEF Attended
<1>1. Answered(t) /\ Collected(t) => txn'[t].stage = "none"
  BY DEF Collected, NoTxn, Shapes
<1>2. CASE phase[t] \in Waiting \cup {"gone"}
  BY <1>1, <1>2, PhaseMoves
<1>3. CASE phase[t] \notin Waiting \cup {"gone"}
  <2>1. txn[t].stage = "none"
    BY <1>3 DEF Attended
  <2> USE <2>1 DEF Shapes, TxnShape
  <2>0. ASSUME NEW u \in Clients PROVE Collected(u) \/ UNCHANGED txn => txn'[t].stage = "none"
    BY DEF Collected, NoTxn
  <2>1a. ASSUME NEW u \in Clients, NEW x, NEW req, Submits(u, req, x), x \in Waiting PROVE phase'[t] \in Waiting
    BY <2>1a DEF Submits, Queued, Goes
  <2>2. ASSUME NEW u \in Clients, OpenStep(u) PROVE phase'[t] \in Waiting
    <3>1. \/ Collected(u) \/ UNCHANGED txn
          \/ \E req : Submits(u, req, "planning") \/ Submits(u, req, "attaching")
      BY <2>2 DEF OpenStep, PlanDisabled, PlanTransient, PlanSession, PlanDone, PlanExplicit, OpenConnection,
         AttachBinding, PlanWithout, store
    <3> QED BY <2>0, <2>1a, <3>1 DEF Waiting
  <2>3. ASSUME NEW u \in Clients, LearnStep(u) PROVE phase'[t] \in Waiting
    BY <2>3 DEF LearnStep, lookup_connection, ConfigureConnection, Reconfigure, Close, NothingToLearn, Learn,
       LearnDone, reconfigure, Changes, FailsLocked, Submits, Queued, Goes, Done, Collected, NoTxn, store, Waiting
  <2>4. ASSUME NEW u \in Clients, ProfileStep(u) PROVE phase'[t] \in Waiting
    <3>1. \/ Collected(u) \/ UNCHANGED txn
          \/ \E req : Submits(u, req, "saving") \/ Submits(u, req, "storing") \/ Submits(u, req, "rolling")
      BY <2>4 DEF ProfileStep, Save, SaveDone, ConfigureProfile, DeleteProfile, ListFresh, Stored,
         RollbackProfile, RollbackDone
    <3> QED BY <2>0, <2>1a, <3>1 DEF Waiting
  <2>5. ASSUME NEW u \in Clients, Drop(u) PROVE FALSE
    BY <2>5 DEF Drop, Dropped, NoTxn
  <2>6. ASSUME NEW p \in Procs, Crash(p) PROVE FALSE
    BY <2>6 DEF Crash, ProcessEnds, NoTxn
  <2>7. ASSUME NEW u \in Clients, TxnStep(u) PROVE FALSE
    BY <2>7 DEF TxnStep, EnterMutation, AcquireAndLoad, Apply, WriteFails, Persist, Publish
  <2> QED BY <2>2, <2>3, <2>4, <2>5, <2>6, <2>7 DEF Next, Restart, open, AllDone, vars, store
<1> QED BY <1>2, <1>3

LEMMA StoreStep ==
  ASSUME StoreInvariant, [Next]_vars PROVE StoreInvariant'
<1>1. CASE Next
  BY <1>1, StoreShapes, StoreExclusive, StoreAttended, StoreBehind DEF StoreInvariant
<1>2. CASE UNCHANGED vars
  BY <1>2 DEF vars, store, sessions, StoreInvariant, Shapes, Exclusive, Attended, Behind, FileShape, TxnShape
<1> QED BY <1>1, <1>2

LEMMA StoreInit ==
  ASSUME Init PROVE StoreInvariant
<1>1. Shapes
  BY DEF Init, Shapes, FileShape, TxnShape, Shows, NoTxn
<1>2. Exclusive /\ Attended
  BY DEF Init, Exclusive, Attended, NoTxn
<1>3. Behind
  BY DEF Init, Behind, Shows
<1> QED BY <1>1, <1>2, <1>3 DEF StoreInvariant

LEMMA StoreHolds == Spec => []StoreInvariant
BY StoreInit, StoreStep, PTL DEF Spec

-----------------------------------------------------------------------------
LEMMA CachedStep ==
  ASSUME StoreInvariant, Next, OwnWritesCached PROVE OwnWritesCached'
<1> USE DEF StoreInvariant, Shapes, Behind, FileShape
<1>1. ASSUME NEW t \in Clients, TxnStep(t) PROVE OwnWritesCached'
  <2>1. ProcOf(t) \in Procs /\ ProcOf(t)' = ProcOf(t) /\ UNCHANGED <<work, down>>
    BY <1>1, StoreAssumption
    DEF ProcOf, TxnStep, EnterMutation, AcquireAndLoad, Apply, WriteFails, Persist, Publish
  <2>2. \A p \in Procs : ClientsOf(p)' = ClientsOf(p)
    BY <2>1 DEF ClientsOf, ProcOf
  <2>3. \A u \in Clients : ClientsOf(ProcOf(u)) \subseteq Clients /\ u \in ClientsOf(ProcOf(u))
    BY DEF ClientsOf
  <2>4. \A u \in Clients : u # t => txn'[u] = txn[u]
    BY <1>1 DEF TxnStep, EnterMutation, AcquireAndLoad, Apply, WriteFails, Persist, Publish
  <2>5. CASE \/ Refresh(t, [version |-> file.version, profiles |-> txn[t].snap]) /\ UNCHANGED <<file, committed>>
             \/ \E x : Refresh(t, Shows(file.version, x)) /\ UNCHANGED <<file, committed>>
             \/ Refresh(t, file) /\ UNCHANGED <<file, committed>>
    <3>1. cache'[ProcOf(t)].version = file.version
      BY <2>1, <2>5 DEF Refresh, Shows
    <3>2. \A p \in Procs : p # ProcOf(t) => cache'[p] = cache[p]
      BY <2>1, <2>5 DEF Refresh
    <3>3. \A p \in Procs : p # ProcOf(t) => t \notin ClientsOf(p)
      BY DEF ClientsOf
    <3> QED BY <2>1, <2>2, <2>4, <2>5, <3>1, <3>2, <3>3 DEF OwnWritesCached, ClientsOf
  <2>6. CASE UNCHANGED <<file, committed, cache>> /\ txn[t].stage # "persisted"
    BY <2>1, <2>2, <2>4, <2>6 DEF OwnWritesCached, ClientsOf
  <2>7. CASE Persist(t)
    <3>1. txn'[t].stage = "persisted" /\ UNCHANGED cache
      BY <2>7 DEF Persist, TxnShape
    <3>2. \A p \in Procs : p # ProcOf(t) => committed'[p] = committed[p] /\ t \notin ClientsOf(p)
      BY <2>7 DEF Persist, ClientsOf
    <3> QED BY <2>1, <2>2, <2>3, <2>4, <3>1, <3>2 DEF OwnWritesCached, ClientsOf
  <2>8. CASE Apply(t)
    <3>1. txn[t].version = file.version
      BY <2>8 DEF Exclusive, Apply
    <3>2. \/ Refresh(t, Shows(txn[t].version, txn[t].snap)) /\ UNCHANGED <<file, committed>>
          \/ Refresh(t, file) /\ UNCHANGED <<file, committed>>
          \/ UNCHANGED <<file, committed, cache>> /\ txn[t].stage # "persisted"
      BY <2>8 DEF Apply
    <3> QED BY <2>5, <2>6, <3>1, <3>2 DEF Shows
  <2>9. CASE WriteFails(t)
    BY <2>5, <2>9 DEF WriteFails
  <2>10. CASE Publish(t)
    BY <2>5, <2>10 DEF Publish
  <2>11. CASE EnterMutation(t) \/ AcquireAndLoad(t)
    BY <2>6, <2>11 DEF EnterMutation, AcquireAndLoad
  <2> QED BY <1>1, <2>7, <2>8, <2>9, <2>10, <2>11 DEF TxnStep
<1>2. ASSUME NEW t \in Clients, UNCHANGED <<work, file, committed, cache, down>>, txn[t].stage # "persisted",
             \A u \in Clients : u # t => txn'[u] = txn[u]
      PROVE  OwnWritesCached'
  BY <1>2 DEF OwnWritesCached, ClientsOf, ProcOf
<1>3. ASSUME NEW t \in Clients, Submitted(t) PROVE OwnWritesCached'
  <2>1. txn[t].stage = "none"
    BY <1>3, SubmitsFromRest
  <2> QED BY <1>2, <1>3, <2>1 DEF Submitted, Queued, storeIdle
<1>4. ASSUME NEW t \in Clients, Answered(t) /\ Collected(t) PROVE OwnWritesCached'
  BY <1>2, <1>4 DEF Answered, Collected
<1>5. ASSUME NEW t \in Clients, Dropped(t) PROVE OwnWritesCached'
  <2>1. CASE txn[t].stage = "queued"
    BY <1>2, <1>5, <2>1 DEF Dropped
  <2>2. CASE txn[t].stage # "queued"
    <3>1. \A u \in Clients : txn'[u] = txn[u]
      BY <1>5, <2>2 DEF Dropped
    <3> QED BY <1>5, <3>1 DEF Dropped, OwnWritesCached, ClientsOf, ProcOf
  <2> QED BY <2>1, <2>2
<1>6. ASSUME NEW p \in Procs, ProcessEnds(p) /\ UNCHANGED work PROVE OwnWritesCached'
  <2>1. \A q \in Procs : q # p => \A t \in ClientsOf(q) : txn'[t] = txn[t]
    BY <1>6 DEF ProcessEnds, ClientsOf
  <2>2. \A q \in Procs : ClientsOf(q)' = ClientsOf(q)
    BY <1>6 DEF ClientsOf, ProcOf
  <2>3. down' = down \cup {p} /\ UNCHANGED <<cache, committed>>
    BY <1>6 DEF ProcessEnds
  <2>4. ASSUME NEW q \in Procs \ down', \A t \in ClientsOf(q)' : txn'[t].stage # "persisted"
        PROVE  cache'[q].version >= committed'[q]
    <3>1. q \in Procs \ down /\ q # p /\ ClientsOf(q)' = ClientsOf(q)
      BY <2>2, <2>3
    <3>2. \A t \in ClientsOf(q) : txn[t].stage # "persisted"
      BY <2>1, <2>4, <3>1
    <3> QED BY <2>3, <3>1, <3>2 DEF OwnWritesCached
  <2> QED BY <2>4 DEF OwnWritesCached
<1>7. ASSUME NEW p \in Procs, open(p) /\ UNCHANGED work PROVE OwnWritesCached'
  <2>1. \A q \in Procs : ClientsOf(q)' = ClientsOf(q)
    BY <1>7 DEF ClientsOf, ProcOf
  <2>2. cache'[p].version = file.version /\ \A q \in Procs : q # p => cache'[q] = cache[q]
    BY <1>7 DEF open
  <2> QED BY <1>7, <2>1, <2>2 DEF open, OwnWritesCached
<1>8. ASSUME UNCHANGED <<work, store>> PROVE OwnWritesCached'
  BY <1>8 DEF store, OwnWritesCached, ClientsOf, ProcOf
<1> QED BY <1>1, <1>3, <1>4, <1>5, <1>6, <1>7, <1>8, StoreMoves

(* A process always sees its own writes (run_conditional_mutation), for    *)
(* any number of processes and callers and although callers go away in the *)
(* middle: the task that wrote publishes before it releases the file, and  *)
(* whoever publishes later has loaded a file that is no older.             *)
THEOREM OwnWritesAlwaysCached == Spec => []OwnWritesCached
<1>1. Init => OwnWritesCached
  BY StoreAssumption DEF Init, OwnWritesCached, Shows
<1>2. StoreInvariant /\ [Next]_vars /\ OwnWritesCached => OwnWritesCached'
  BY CachedStep DEF vars, store, OwnWritesCached, ClientsOf, ProcOf
<1> QED BY <1>1, <1>2, StoreHolds, PTL DEF Spec

-----------------------------------------------------------------------------
(* What the operations make of the profiles: one of them is created,       *)
(* deleted, revised or used.                                               *)

LEMMA LeastExists ==
  ASSUME NEW S \in SUBSET Nat, S # {}
  PROVE  \E i \in S : \A j \in S : i <= j
<1> DEFINE R == OpToRel(<, Nat)
<1>1. IsWellFoundedOn(R, Nat)
  BY NatLessThanWellFounded
<1>2. PICK i \in S : \A j \in S : ~ (<<j, i>> \in R)
  <2> HIDE DEF R
  <2> QED BY <1>1, WFMin
<1>3. \A j \in S : ~ (j < i)
  BY <1>2 DEF OpToRel
<1> QED BY <1>3

(* mark_used finds its time stamp: by a smallest set of profiles for which *)
(* there is none.                                                          *)
Later(E, f, now, x) == x \in Nat /\ x >= now /\ \A m \in E : x > f[m]
Stamps(E, f, now) == {now} \cup {f[m] + 1 : m \in E}

LEMMA LaterExists ==
  ASSUME NEW D, IsFiniteSet(D), NEW now \in Nat, NEW f, \A m \in D : f[m] \in Nat
  PROVE  \E x \in Stamps(D, f, now) : Later(D, f, now, x)
<1> DEFINE Good(E) == \E x \in Stamps(E, f, now) : Later(E, f, now, x)
           Bad == {i \in Nat : \E E \in SUBSET D : Cardinality(E) = i /\ ~Good(E)}
<1>1. ASSUME NEW E \in SUBSET D PROVE IsFiniteSet(E) /\ Cardinality(E) \in Nat
  BY FS_Subset, FS_CardinalityType
<1>2. Bad = {}
  <2> SUFFICES ASSUME Bad # {} PROVE FALSE
    OBVIOUS
  <2>1. PICK i \in Bad : \A j \in Bad : i <= j
    <3>1. Bad \in SUBSET Nat
      OBVIOUS
    <3> HIDE DEF Bad
    <3> QED BY <3>1, LeastExists
  <2>2. PICK E \in SUBSET D : Cardinality(E) = i /\ ~Good(E)
    OBVIOUS
  <2>3. E # {}
    <3>1. Good({})
      BY DEF Later, Stamps
    <3> QED BY <2>2, <3>1
  <2>4. PICK m : m \in E
    BY <2>3
  <2>5. Cardinality(E \ {m}) = i - 1
    BY <1>1, <2>2, <2>4, FS_RemoveElement
  <2>6. E \ {m} \in SUBSET D /\ i - 1 \in Nat
    BY <1>1, <2>5
  <2>7. i - 1 \notin Bad
    BY <2>1, <2>6
  <2>8. Good(E \ {m})
    BY <2>5, <2>6, <2>7
  <2>9. PICK x \in Stamps(E \ {m}, f, now) : Later(E \ {m}, f, now, x)
    BY <2>8
  <2>10. f[m] \in Nat /\ \A k \in E : f[k] \in Nat
    BY <2>4
  <2>11. CASE x > f[m]
    <3>1. x \in Stamps(E, f, now) /\ Later(E, f, now, x)
      BY <2>9, <2>11 DEF Stamps, Later
    <3> QED BY <2>2, <3>1
  <2>12. CASE ~(x > f[m])
    <3>1. f[m] + 1 \in Stamps(E, f, now)
      BY <2>4 DEF Stamps
    <3>2. Later(E, f, now, f[m] + 1)
      BY <2>9, <2>10, <2>12 DEF Later
    <3> QED BY <2>2, <3>1, <3>2
  <2> QED BY <2>11, <2>12
<1> QED
  <2>1. D \in SUBSET D /\ Cardinality(D) \in Nat
    BY <1>1
  <2>2. Cardinality(D) \in Bad \/ Good(D)
    BY <2>1
  <2> QED BY <1>2, <2>2

LEMMA NameAllocated ==
  ASSUME NEW profiles, NameLeft(profiles)
  PROVE  allocate_generated_name(profiles) \in Names \ DOMAIN profiles
<1> DEFINE Free == {i \in DOMAIN GeneratedNames : GeneratedNames[i] \notin DOMAIN profiles}
           First(i) == /\ GeneratedNames[i] \notin DOMAIN profiles
                       /\ \A j \in 1 .. (i - 1) : GeneratedNames[j] \in DOMAIN profiles
           chosen == CHOOSE i \in DOMAIN GeneratedNames : First(i)
<1>1. DOMAIN GeneratedNames = 1 .. Len(GeneratedNames) /\ Len(GeneratedNames) \in Nat
      /\ \A i \in DOMAIN GeneratedNames : GeneratedNames[i] \in Names
  BY StoreAssumption, LenProperties, ElementOfSeq
<1>2. Free \in SUBSET Nat /\ Free # {}
  BY <1>1 DEF NameLeft
<1>3. PICK i \in Free : \A j \in Free : i <= j
  <2> HIDE DEF Free
  <2> QED BY <1>2, LeastExists
<1>4. i \in DOMAIN GeneratedNames /\ First(i)
  BY <1>1, <1>3
<1>5. chosen \in DOMAIN GeneratedNames /\ First(chosen)
  <2> HIDE DEF First
  <2> QED BY <1>4
<1>6. allocate_generated_name(profiles) = GeneratedNames[chosen]
  BY DEF allocate_generated_name
<1> HIDE DEF chosen
<1> QED BY <1>1, <1>5, <1>6

(* The outcomes, for a file that gets version v.                           *)
With(profiles, n, p) == [m \in DOMAIN profiles \cup {n} |-> IF m = n THEN p ELSE profiles[m]]

Created(profiles, out, v) ==
  /\ out.name \in Names \ DOMAIN profiles
  /\ out.next = With(profiles, out.name, out.profile)
  /\ ProfileOf(out.profile, v)
  /\ out.profile.revision = 1 /\ out.profile.history = <<>> /\ out.profile.inc = v /\ out.profile.since = v
Deleted(profiles, out) ==
  /\ out.name \in DOMAIN profiles
  /\ out.next = [m \in DOMAIN profiles \ {out.name} |-> profiles[m]]
IsRevised(profiles, out, author, v) ==
  /\ out.name \in DOMAIN profiles
  /\ out.next = With(profiles, out.name, out.profile)
  /\ \E d, s : out.profile = Revised(profiles[out.name], d, s, author, v)
Used(profiles, out) ==
  /\ out.name \in DOMAIN profiles
  /\ out.next = With(profiles, out.name, out.profile)
  /\ \E ts \in Nat : /\ out.profile = [profiles[out.name] EXCEPT !.uses = @ + 1, !.used = ts]
                     /\ \A m \in DOMAIN profiles : ts > profiles[m].used

Kinds == {"upsert", "defaults", "delete", "generate", "mark_used", "learn", "rollback", "resolve", "list"}
Asked(req) ==
  /\ req.kind \in Kinds
  /\ req.kind \notin {"generate", "resolve", "list"} => req.name \in Names

Author(req) == IF req.kind = "learn" THEN req.conn ELSE "none"

Fields == {"revision", "defaults", "selector", "used", "uses", "generated", "history", "inc", "since", "author"}

LEMMA NoProfileIs ==
  /\ DOMAIN NoProfile = Fields
  /\ NoProfile.used = 0 /\ NoProfile.uses = 0 /\ NoProfile.history = <<>>
BY DEF NoProfile, Fields

LEMMA CreateWellFormed ==
  ASSUME NEW v \in Nat \ {0}, NEW d, NEW s, NEW p, p = create_metadata(d, s, v)
  PROVE  ProfileOf(p, v) /\ p.revision = 1 /\ p.history = <<>> /\ p.inc = v /\ p.since = v
<1>1. /\ DOMAIN p = Fields
      /\ p.revision = 1 /\ p.inc = v /\ p.since = v
      /\ p.history = <<>> /\ p.used = 0 /\ p.uses = 0
  BY NoProfileIs DEF create_metadata, Fields
<1> QED BY <1>1, NoProfileIs DEF ProfileOf

InUse(p, now) == [p EXCEPT !.generated = TRUE, !.used = now, !.uses = 1]

LEMMA GenerateWellFormed ==
  ASSUME NEW v \in Nat \ {0}, NEW d, NEW s, NEW now \in Nat, NEW p, p = create_metadata(d, s, v),
         NEW q, q = InUse(p, now)
  PROVE  ProfileOf(q, v) /\ q.revision = 1 /\ q.history = <<>> /\ q.inc = v /\ q.since = v
<1>1. ProfileOf(p, v) /\ p.revision = 1 /\ p.history = <<>> /\ p.inc = v /\ p.since = v
  BY CreateWellFormed
<1>2. DOMAIN p = Fields
  BY <1>1, NoProfileIs DEF ProfileOf
<1>3. /\ DOMAIN q = Fields
      /\ q.revision = 1 /\ q.inc = v /\ q.since = v
      /\ q.history = <<>> /\ q.used = now /\ q.uses = 1
  BY <1>1, <1>2 DEF Fields, InUse
<1> QED BY <1>3, NoProfileIs DEF ProfileOf

LEMMA WritesIs ==
  ASSUME NEW profiles, NEW n, NEW p
  PROVE  /\ Writes(profiles, n, p).status = "write" /\ Writes(profiles, n, p).name = n
         /\ Writes(profiles, n, p).profile = p
         /\ Writes(profiles, n, p).next = With(profiles, n, p)
BY DEF Writes, Outcome, With

LEMMA FailsIs == ASSUME NEW e PROVE Fails(e).status = "err" /\ Fails(e).error = e
BY DEF Fails, Outcome

LEMMA AnswersIs ==
  ASSUME NEW profiles, NEW n, NEW p
  PROVE  /\ Answers(profiles, n, p).status = "noop" /\ Answers(profiles, n, p).name = n
         /\ Answers(profiles, n, p).profile = p
BY DEF Answers, Outcome

LEMMA ApplyKinds ==
  ASSUME NEW req, NEW profiles, NEW now, NEW v
  PROVE  /\ req.kind = "upsert" => apply(req, profiles, now, v) = apply_upsert(req, profiles, v)
         /\ req.kind = "defaults" => apply(req, profiles, now, v) = apply_update_defaults(req, profiles, v)
         /\ req.kind = "delete" => apply(req, profiles, now, v) = apply_delete(req, profiles)
         /\ req.kind = "generate" => apply(req, profiles, now, v) = create_generated(req, profiles, now, v)
         /\ req.kind = "mark_used" => apply(req, profiles, now, v) = mark_used(req, profiles, now)
         /\ req.kind = "learn" => apply(req, profiles, now, v) = update_learned_defaults(req, profiles, v)
         /\ req.kind = "rollback" => apply(req, profiles, now, v) = rollback(req, profiles, v)
         /\ req.kind = "resolve" => apply(req, profiles, now, v) = resolve_automatic(req, profiles)
         /\ req.kind = "list" => apply(req, profiles, now, v) = Answers(profiles, "none", NoProfile)
BY DEF apply

LEMMA ApplyWrites ==
  ASSUME NEW req, Asked(req), NEW now \in Nat, NEW v \in Nat, NEW profiles, ProfilesOf(profiles, v),
         req.kind = "generate" => NameLeft(profiles),
         NEW out, out = apply(req, profiles, now, v + 1), out.status = "write"
  PROVE  /\ req.kind \notin {"resolve", "list"}
         /\ out.name \in Names
         /\ req.kind # "generate" => out.name = req.name
         /\ \/ Created(profiles, out, v + 1) /\ req.kind \notin {"learn", "rollback", "mark_used"}
            \/ Deleted(profiles, out) /\ req.kind = "delete"
            \/ IsRevised(profiles, out, Author(req), v + 1) /\ req.kind \notin {"generate", "mark_used"}
            \/ Used(profiles, out) /\ req.kind = "mark_used"
<1>0. v + 1 \in Nat \ {0}
  OBVIOUS
<1>1. DOMAIN profiles \subseteq Names
  BY DEF ProfilesOf
<1>2. ASSUME NEW d, NEW s, out = Writes(profiles, req.name, create_metadata(d, s, v + 1)),
             req.name \in Names \ DOMAIN profiles
      PROVE  Created(profiles, out, v + 1) /\ out.name = req.name
  <2> DEFINE p == create_metadata(d, s, v + 1)
  <2>1. /\ ProfileOf(p, v + 1) /\ p.revision = 1 /\ p.history = <<>> /\ p.inc = v + 1 /\ p.since = v + 1
    <3> HIDE DEF p
    <3> QED BY <1>0, CreateWellFormed DEF p
  <2> HIDE DEF p
  <2> QED BY <1>2, <2>1, WritesIs DEF Created, p
<1>3. ASSUME NEW d, NEW s, NEW author, req.name \in DOMAIN profiles,
             out = Writes(profiles, req.name, Revised(profiles[req.name], d, s, author, v + 1))
      PROVE  IsRevised(profiles, out, author, v + 1) /\ out.name = req.name
  BY <1>3, WritesIs DEF IsRevised
<1>4. CASE req.kind = "upsert"
  <2>1. out = apply_upsert(req, profiles, v + 1)
    BY <1>4, ApplyKinds
  <2>2. CASE req.name \in DOMAIN profiles /\ ~req.overwrite
    BY <2>1, <2>2, FailsIs DEF apply_upsert
  <2>3. CASE req.name \in DOMAIN profiles /\ req.overwrite
    <3>1. out = Writes(profiles, req.name, Revised(profiles[req.name], req.defaults, req.selector, "none", v + 1))
      BY <2>1, <2>3 DEF apply_upsert
    <3> QED BY <1>1, <1>3, <1>4, <2>3, <3>1 DEF Author
  <2>4. CASE req.name \notin DOMAIN profiles
    <3>1. out = Writes(profiles, req.name, create_metadata(req.defaults, req.selector, v + 1))
      BY <2>1, <2>4 DEF apply_upsert
    <3> QED BY <1>2, <1>4, <2>4, <3>1 DEF Asked
  <2> QED BY <2>2, <2>3, <2>4
<1>5. CASE req.kind = "defaults"
  <2>1. out = apply_update_defaults(req, profiles, v + 1)
    BY <1>5, ApplyKinds
  <2>2. CASE req.name \in DOMAIN profiles /\ ~req.overwrite
    BY <2>1, <2>2, FailsIs DEF apply_update_defaults
  <2>3. CASE req.name \in DOMAIN profiles /\ req.overwrite
    <3>1. out = Writes(profiles, req.name,
                       Revised(profiles[req.name], req.defaults, profiles[req.name].selector, "none", v + 1))
      BY <2>1, <2>3 DEF apply_update_defaults
    <3> QED BY <1>1, <1>3, <1>5, <2>3, <3>1 DEF Author
  <2>4. CASE req.name \notin DOMAIN profiles
    <3>1. out = Writes(profiles, req.name, create_metadata(req.defaults, AnySelector, v + 1))
      BY <2>1, <2>4 DEF apply_update_defaults
    <3> QED BY <1>2, <1>5, <2>4, <3>1 DEF Asked
  <2> QED BY <2>2, <2>3, <2>4
<1>6. CASE req.kind = "delete"
  <2>1. out = apply_delete(req, profiles)
    BY <1>6, ApplyKinds
  <2>2. req.name \in DOMAIN profiles
    BY <2>1, FailsIs DEF apply_delete
  <2> QED BY <1>1, <1>6, <2>1, <2>2 DEF apply_delete, Outcome, Deleted
<1>7. CASE req.kind = "generate"
  <2> DEFINE n == allocate_generated_name(profiles)
             c == create_metadata(req.defaults, req.selector, v + 1)
             p == InUse(c, now)
  <2>0. out = create_generated(req, profiles, now, v + 1)
    BY <1>7, ApplyKinds
  <2>1. out = Writes(profiles, n, p)
    BY <2>0 DEF create_generated, InUse
  <2>2. n \in Names \ DOMAIN profiles
    BY <1>7, NameAllocated
  <2>3. /\ ProfileOf(p, v + 1) /\ p.revision = 1 /\ p.history = <<>> /\ p.inc = v + 1 /\ p.since = v + 1
    <3>1. c = create_metadata(req.defaults, req.selector, v + 1)
      OBVIOUS
    <3>2. p = InUse(c, now)
      OBVIOUS
    <3> HIDE DEF c, p
    <3> QED BY <1>0, <3>1, <3>2, GenerateWellFormed
  <2> HIDE DEF n, p
  <2> QED BY <1>7, <2>1, <2>2, <2>3, WritesIs DEF Created
<1>8. CASE req.kind = "mark_used"
  <2>1. out = mark_used(req, profiles, now)
    BY <1>8, ApplyKinds
  <2>2. req.name \in DOMAIN profiles
    BY <2>1, FailsIs DEF mark_used
  <2> DEFINE used == [m \in DOMAIN profiles |-> profiles[m].used]
             S == {now} \cup {profiles[m].used + 1 : m \in DOMAIN profiles}
             Fits(x) == x >= now /\ \A m \in DOMAIN profiles : x > profiles[m].used
             ts == CHOOSE x \in S : Fits(x)
  <2>3. out = Writes(profiles, req.name, [profiles[req.name] EXCEPT !.uses = @ + 1, !.used = ts])
    BY <2>1, <2>2 DEF mark_used
  <2>4. IsFiniteSet(DOMAIN profiles) /\ \A m \in DOMAIN profiles : used[m] \in Nat /\ used[m] = profiles[m].used
    BY DEF ProfilesOf, ProfileOf
  <2>5. \E x \in Stamps(DOMAIN profiles, used, now) : Later(DOMAIN profiles, used, now, x)
    <3> HIDE DEF used
    <3> QED BY <2>4, LaterExists
  <2>6. \E x \in S : Fits(x)
    BY <2>4, <2>5 DEF Stamps, Later
  <2>7. ts \in S /\ Fits(ts)
    <3> HIDE DEF S, Fits
    <3> QED BY <2>6
  <2>8. S \subseteq Nat
    BY <2>4
  <2>9. ts \in Nat /\ \A m \in DOMAIN profiles : ts > profiles[m].used
    <3> HIDE DEF ts, S
    <3> QED BY <2>7, <2>8
  <2> DEFINE p == [profiles[req.name] EXCEPT !.uses = @ + 1, !.used = ts]
  <2>10. out.name = req.name /\ out.profile = p /\ out.next = With(profiles, req.name, p)
    <3> HIDE DEF p
    <3> QED BY <2>3, WritesIs DEF p
  <2> HIDE DEF ts, S, used
  <2>11. Used(profiles, out)
    BY <2>2, <2>9, <2>10 DEF Used
  <2> QED BY <1>1, <1>8, <2>2, <2>10, <2>11
<1>9. CASE req.kind = "learn"
  <2>1. out = update_learned_defaults(req, profiles, v + 1)
    BY <1>9, ApplyKinds
  <2>2. req.name \in DOMAIN profiles /\ profiles[req.name].revision = req.expected
        /\ profiles[req.name].defaults # req.defaults
    <3>1. CASE req.name \notin DOMAIN profiles
      BY <2>1, <3>1, FailsIs DEF update_learned_defaults
    <3>2. CASE req.name \in DOMAIN profiles /\ profiles[req.name].revision # req.expected
      BY <2>1, <3>2, FailsIs DEF update_learned_defaults
    <3>3. CASE req.name \in DOMAIN profiles /\ profiles[req.name].revision = req.expected
               /\ profiles[req.name].defaults = req.defaults
      <4>1. out = Answers(profiles, req.name, profiles[req.name])
        BY <2>1, <3>3 DEF update_learned_defaults
      <4> QED BY <4>1, AnswersIs
    <3> QED BY <3>1, <3>2, <3>3
  <2>3. out = Writes(profiles, req.name,
                Revised(profiles[req.name], req.defaults, profiles[req.name].selector, req.conn, v + 1))
    BY <2>1, <2>2 DEF update_learned_defaults
  <2> QED BY <1>1, <1>3, <1>9, <2>2, <2>3 DEF Author
<1>10. CASE req.kind = "rollback"
  <2>1. out = rollback(req, profiles, v + 1)
    BY <1>10, ApplyKinds
  <2>2. req.name \in DOMAIN profiles /\ profiles[req.name].revision = req.expected
        /\ Retained(profiles[req.name], req.target) # {}
    BY <2>1, FailsIs DEF rollback
  <2> DEFINE snapshot == profiles[req.name].history[CHOOSE i \in Retained(profiles[req.name], req.target) : TRUE]
  <2>3. out = Writes(profiles, req.name,
                Revised(profiles[req.name], snapshot.defaults, snapshot.selector, "none", v + 1))
    BY <2>1, <2>2 DEF rollback
  <2> HIDE DEF snapshot
  <2> QED BY <1>1, <1>3, <1>10, <2>2, <2>3 DEF Author
<1>11. CASE req.kind = "resolve"
  <2>1. out = resolve_automatic(req, profiles)
    BY <1>11, ApplyKinds
  <2> QED BY <2>1, AnswersIs DEF resolve_automatic
<1>12. CASE req.kind = "list"
  BY <1>12, ApplyKinds, AnswersIs
<1> QED BY <1>4, <1>5, <1>6, <1>7, <1>8, <1>9, <1>10, <1>11, <1>12 DEF Asked, Kinds

(* A profile of a file and the next one.                                   *)
LEMMA RevisedIs ==
  ASSUME NEW v \in Nat, NEW old, ProfileOf(old, v), NEW d, NEW s, NEW author,
         NEW new, new = Revised(old, d, s, author, v + 1)
  PROVE  /\ ProfileOf(new, v + 1) /\ OneRevision(old, new)
         /\ new.since = v + 1 /\ new.author = author
BY DEF Revised, ProfileOf, NoProfile, OneRevision

LEMMA UsedIs ==
  ASSUME NEW v \in Nat, NEW profiles, NEW out, Used(profiles, out), ProfileOf(profiles[out.name], v)
  PROVE  /\ ProfileOf(out.profile, v + 1) /\ OneUse(profiles, out.name, out.profile)
         /\ out.profile.revision = profiles[out.name].revision /\ out.profile.inc = profiles[out.name].inc
         /\ out.profile.since = profiles[out.name].since /\ out.profile.author = profiles[out.name].author
<1> DEFINE old == profiles[out.name]
           new == out.profile
<1>1. PICK ts \in Nat : /\ out.profile = [profiles[out.name] EXCEPT !.uses = @ + 1, !.used = ts]
                        /\ \A m \in DOMAIN profiles : ts > profiles[m].used
  BY DEF Used
<1>2. DOMAIN old = Fields
  BY NoProfileIs DEF ProfileOf
<1>3. /\ DOMAIN new = Fields /\ new.used = ts /\ new.uses = old.uses + 1
      /\ new.revision = old.revision /\ new.inc = old.inc /\ new.since = old.since /\ new.author = old.author
  BY <1>1, <1>2 DEF Fields
<1>4. OneUse(profiles, out.name, out.profile)
  BY <1>1, <1>3 DEF OneUse
<1>5. new.revision \in Nat \ {0} /\ new.used \in Nat /\ new.uses \in Nat /\ new.inc \in 1 .. v + 1 /\ new.since \in 1 .. v + 1
  BY <1>3 DEF ProfileOf
<1>6. ProfileOf(new, v + 1)
  BY <1>3, <1>5, NoProfileIs DEF ProfileOf
<1> QED BY <1>3, <1>4, <1>6

LEMMA StaysProfile ==
  ASSUME NEW v \in Nat, NEW p, ProfileOf(p, v) PROVE ProfileOf(p, v + 1)
BY DEF ProfileOf

LEMMA WithNext ==
  ASSUME NEW profiles, NEW out, out.next = With(profiles, out.name, out.profile)
  PROVE  /\ DOMAIN out.next = DOMAIN profiles \cup {out.name} /\ out.next[out.name] = out.profile
         /\ \A m \in DOMAIN profiles \ {out.name} : out.next[m] = profiles[m]
BY DEF With

(* One change of the file, and its profiles stay well-formed.              *)
LEMMA ApplyKeeps ==
  ASSUME NEW v \in Nat, NEW profiles, ProfilesOf(profiles, v), NEW out, out.name \in Names,
         \/ Created(profiles, out, v + 1)
         \/ Deleted(profiles, out)
         \/ \E author : IsRevised(profiles, out, author, v + 1)
         \/ Used(profiles, out)
  PROVE  ProfilesOf(out.next, v + 1) /\ OneChange(profiles, out.next, out.name)
<1>0. /\ IsFiniteSet(DOMAIN profiles) /\ DOMAIN profiles \subseteq Names
      /\ \A n \in DOMAIN profiles : ProfileOf(profiles[n], v) /\ ProfileOf(profiles[n], v + 1)
  BY StaysProfile DEF ProfilesOf
<1>1. IsFiniteSet(DOMAIN profiles \cup {out.name}) /\ IsFiniteSet(DOMAIN profiles \ {out.name})
  BY <1>0, FS_AddElement, FS_RemoveElement
<1>2. CASE Created(profiles, out, v + 1)
  <2>1. /\ DOMAIN out.next = DOMAIN profiles \cup {out.name} /\ out.next[out.name] = out.profile
        /\ \A m \in DOMAIN profiles \ {out.name} : out.next[m] = profiles[m]
    BY <1>2, WithNext DEF Created
  <2> QED BY <1>0, <1>1, <1>2, <2>1 DEF Created, ProfilesOf, OneChange
<1>3. CASE Deleted(profiles, out)
  BY <1>0, <1>1, <1>3 DEF Deleted, ProfilesOf, OneChange
<1>4. ASSUME NEW author, IsRevised(profiles, out, author, v + 1)
      PROVE  ProfilesOf(out.next, v + 1) /\ OneChange(profiles, out.next, out.name)
  <2>1. /\ DOMAIN out.next = DOMAIN profiles \cup {out.name} /\ out.next[out.name] = out.profile
        /\ \A m \in DOMAIN profiles \ {out.name} : out.next[m] = profiles[m]
    BY <1>4, WithNext DEF IsRevised
  <2>2. out.name \in DOMAIN profiles
    BY <1>4 DEF IsRevised
  <2>3. ProfileOf(out.profile, v + 1) /\ OneRevision(profiles[out.name], out.profile)
    BY <1>0, <1>4, <2>2, RevisedIs DEF IsRevised
  <2> QED BY <1>0, <1>1, <2>1, <2>2, <2>3 DEF ProfilesOf, OneChange
<1>5. CASE Used(profiles, out)
  <2>1. /\ DOMAIN out.next = DOMAIN profiles \cup {out.name} /\ out.next[out.name] = out.profile
        /\ \A m \in DOMAIN profiles \ {out.name} : out.next[m] = profiles[m]
    BY <1>5, WithNext DEF Used
  <2>2. out.name \in DOMAIN profiles
    BY <1>5 DEF Used
  <2>3. ProfileOf(out.profile, v + 1) /\ OneUse(profiles, out.name, out.profile)
    BY <1>0, <1>5, <2>2, UsedIs
  <2> QED BY <1>0, <1>1, <2>1, <2>2, <2>3 DEF ProfilesOf, OneChange
<1> QED BY <1>2, <1>3, <1>4, <1>5

(* What the resolution of a port answers.                                  *)
LEMMA ResolveIs ==
  ASSUME NEW req, NEW profiles, NEW out, out = resolve_automatic(req, profiles)
  PROVE  /\ out.status = "noop"
         /\ \/ out.name \in DOMAIN profiles /\ out.profile = profiles[out.name]
            \/ out.name \in {"generate", "transient"}
<1> DEFINE candidates == Candidates(profiles, req.port)
           latest == rank_candidates(profiles, candidates)
           n == CHOOSE n \in latest : TRUE
<1>1. CASE candidates = {}
  <2>1. out = Answers(profiles, "generate", NoProfile)
    BY <1>1 DEF resolve_automatic
  <2> QED BY <2>1, AnswersIs
<1>2. CASE candidates # {} /\ Cardinality(latest) = 1
  <2>1. latest # {}
    BY <1>2, FS_EmptySet
  <2>2. n \in DOMAIN profiles
    BY <2>1 DEF rank_candidates, Candidates
  <2>3. out = Answers(profiles, n, profiles[n])
    BY <1>2 DEF resolve_automatic
  <2> HIDE DEF n
  <2> QED BY <2>2, <2>3, AnswersIs
<1>3. CASE candidates # {} /\ Cardinality(latest) # 1
  <2>1. out = Answers(profiles, "transient", NoProfile)
    BY <1>3 DEF resolve_automatic
  <2> QED BY <2>1, AnswersIs
<1> QED BY <1>1, <1>2, <1>3

-----------------------------------------------------------------------------
(* The sessions: every request they make is a proper one.                  *)

ConnGood(x) ==
  /\ DOMAIN x = {"open", "port", "live", "binding", "learning_lock", "bound"}
  /\ DOMAIN x.binding = {"some", "persistent", "name", "revision", "dirty", "stale"}
  /\ x.binding.persistent => x.binding.name \in Names
PlanGood(x, ph) ==
  /\ DOMAIN x = {"how", "port", "name", "profile", "version", "dirty"}
  /\ ph \in {"planned", "attaching"} /\ x.how = "profile" => x.name \in Names

ConnsGood == conns = [k \in Conns |-> conns[k]] /\ \A k \in Conns : ConnGood(conns[k])
PlansGood == plan = [t \in Clients |-> plan[t]] /\ \A t \in Clients : PlanGood(plan[t], phase[t])
Places ==
  /\ at \in [Clients -> Nat \ {0}]
  /\ \A t \in Clients : phase[t] # "ready" => at[t] <= Len(work.scripts[t])

AskedBy(t) == CASE phase[t] = "planning" -> {"resolve"}
             [] phase[t] = "attaching" -> {"mark_used", "generate"}
             [] phase[t] = "learning" -> {"learn"}
             [] phase[t] = "storing" -> {"defaults", "delete", "list"}
             [] phase[t] = "saving" -> {"upsert"}
             [] phase[t] = "rolling" -> {"rollback"}

TxnGood(t) ==
  /\ txn[t].stage # "none" => Asked(txn[t].req)
  /\ phase[t] \in Waiting => txn[t].stage # "none" /\ txn[t].req.kind \in AskedBy(t)
  /\ txn[t].stage = "writing" =>
       /\ txn[t].out = apply(txn[t].req, txn[t].snap, work.clock[ProcOf(t)], txn[t].version + 1)
       /\ txn[t].out.status = "write"
       /\ txn[t].req.kind = "generate" => NameLeft(txn[t].snap)
  /\ txn[t].stage \in {"persisted", "answered"} /\ txn[t].out.status = "write" => txn[t].out.name \in Names
  /\ txn[t].stage = "persisted" => txn[t].out.status = "write" /\ txn[t].req.kind # "resolve"
  /\ txn[t].stage = "answered" /\ txn[t].req.kind = "resolve" =>
       txn[t].out = resolve_automatic(txn[t].req, txn[t].snap) /\ DOMAIN txn[t].snap \subseteq Names

FileGood == ProfilesOf(file.profiles, file.version)
TxnsGood == \A t \in Clients : TxnGood(t)

SessionInvariant == ConnsGood /\ PlansGood /\ Places /\ TxnsGood /\ FileGood

LEMMA CallTyped ==
  ASSUME Shapes, Places, NEW t \in Clients, at[t] <= Len(work.scripts[t])
  PROVE  at[t] \in 1 .. Len(work.scripts[t]) /\ Call(t).name \in Names /\ Call(t).conn \in Conns
BY ScriptAssumption DEF Shapes, Places, Call

LEMMA ConnSet ==
  ASSUME ConnsGood, NEW t \in Clients, Call(t).conn \in Conns, NEW c, ConnGood(c), WithConn(t, c)
  PROVE  ConnsGood'
BY DEF ConnsGood, ConnGood, WithConn

LEMMA PlansKept ==
  ASSUME Shapes, PlansGood, NEW t \in Clients, NEW to, phase' = [phase EXCEPT ![t] = to],
         to \notin {"planned", "attaching"} \/ phase[t] = "planned",
         UNCHANGED plan
  PROVE  PlansGood'
BY DEF Shapes, PlansGood, PlanGood

LEMMA PlanSet ==
  ASSUME Shapes, PlansGood, NEW t \in Clients, NEW to, phase' = [phase EXCEPT ![t] = to],
         NEW x, PlanGood(x, to), plan' = [plan EXCEPT ![t] = x]
  PROVE  PlansGood'
BY DEF Shapes, PlansGood, PlanGood

LEMMA PlacesGo ==
  ASSUME Shapes, Places, NEW t \in Clients, NEW to, Goes(t, to), UNCHANGED work, at[t] <= Len(work.scripts[t])
  PROVE  Places'
BY DEF Shapes, Places, Goes

LEMMA PlacesDone ==
  ASSUME Shapes, Places, NEW t \in Clients, Done(t), UNCHANGED work
  PROVE  Places'
BY DEF Shapes, Places, Done

LEMMA EditedConn ==
  ASSUME NEW c, ConnGood(c)
  PROVE  /\ \A x : ConnGood([c EXCEPT !.learning_lock = x]) /\ ConnGood([c EXCEPT !.open = x])
                /\ ConnGood([c EXCEPT !.live.setting = x])
         /\ \A t : ConnGood(Unlocked(c, t))
BY DEF ConnGood, Unlocked

LEMMA NoConnGood == ConnGood(NoConn)
BY DEF ConnGood, NoConn, NoBinding

LEMMA GoesIs == ASSUME NEW t, NEW to, Goes(t, to) PROVE phase' = [phase EXCEPT ![t] = to]
BY DEF Goes
LEMMA DoneIs == ASSUME NEW t, Done(t) PROVE phase' = [phase EXCEPT ![t] = "ready"]
BY DEF Done

(* The parts of the invariant that the sessions keep, by action.           *)
Kept == ConnsGood' /\ PlansGood' /\ Places'

LEMMA OpenKeeps ==
  ASSUME Shapes, SessionInvariant, NEW t \in Clients, OpenStep(t) PROVE Kept
<1> USE DEF SessionInvariant
<1>0. ASSUME at[t] <= Len(work.scripts[t]) PROVE Call(t).conn \in Conns /\ Call(t).name \in Names
  BY <1>0, CallTyped
<1>1. ASSUME NEW how \in {"disabled", "transient"}, NEW port, PlanWithout(t, how, port),
             at[t] <= Len(work.scripts[t])
      PROVE  Kept
  <2> DEFINE x == [NoPlan EXCEPT !.how = how, !.port = port, !.version = file.version]
  <2>1. PlanGood(x, "planned")
    BY DEF PlanGood, NoPlan
  <2>2. plan' = [plan EXCEPT ![t] = x] /\ Goes(t, "planned") /\ UNCHANGED <<work, conns>>
    BY <1>1 DEF PlanWithout
  <2> HIDE DEF x
  <2>3. PlansGood'
    BY <2>1, <2>2, GoesIs, PlanSet
  <2>4. Places'
    BY <1>1, <2>2, PlacesGo
  <2> QED BY <2>2, <2>3, <2>4 DEF Kept, ConnsGood
<1>2. CASE PlanDisabled(t) \/ PlanTransient(t)
  BY <1>1, <1>2 DEF PlanDisabled, PlanTransient, Idle
<1>3. CASE PlanSession(t)
  <2>1. PICK port : /\ plan' = [plan EXCEPT ![t] = [NoPlan EXCEPT !.port = port]]
                    /\ Goes(t, "planning")
    BY <1>3 DEF PlanSession, Submits
  <2> DEFINE x == [NoPlan EXCEPT !.port = port]
  <2>2. PlanGood(x, "planning")
    BY DEF PlanGood, NoPlan
  <2>3. plan' = [plan EXCEPT ![t] = x] /\ phase' = [phase EXCEPT ![t] = "planning"]
    BY <2>1, GoesIs
  <2> HIDE DEF x
  <2>4. PlansGood'
    BY <2>2, <2>3, PlanSet
  <2>5. Places'
    BY <1>3, <2>1, PlacesGo DEF PlanSession, Idle, storeIdle
  <2> QED BY <1>3, <2>4, <2>5 DEF Kept, ConnsGood, PlanSession
<1>4. CASE PlanDone(t)
  <2> DEFINE how == IF Result(t).name \in {"generate", "transient"} THEN Result(t).name ELSE "profile"
             x == [NoPlan EXCEPT !.port = plan[t].port, !.how = how,
                     !.name = Result(t).name, !.profile = Result(t).profile, !.version = txn[t].version]
  <2>1. phase[t] = "planning" /\ txn[t].stage = "answered"
    BY <1>4 DEF PlanDone, Returns, Answered
  <2>2. txn[t].req.kind = "resolve"
    BY <2>1 DEF TxnsGood, TxnGood, AskedBy, Waiting
  <2>3. Result(t) = resolve_automatic(txn[t].req, txn[t].snap) /\ DOMAIN txn[t].snap \subseteq Names
    BY <2>1, <2>2 DEF TxnsGood, TxnGood, Result
  <2>4. Result(t).name \in Names \cup {"generate", "transient"}
    BY <2>3, ResolveIs
  <2>5. PlanGood(x, "planned")
    <3>1. /\ DOMAIN x = {"how", "port", "name", "profile", "version", "dirty"}
          /\ x.how = how /\ x.name = Result(t).name
      BY DEF NoPlan
    <3>2. how = "profile" => Result(t).name \in Names
      BY <2>4
    <3> HIDE DEF x, how
    <3> QED BY <3>1, <3>2 DEF PlanGood
  <2>6. plan' = [plan EXCEPT ![t] = x] /\ Goes(t, "planned") /\ UNCHANGED <<work, conns>>
    BY <1>4 DEF PlanDone, Returns, Answered
  <2> HIDE DEF x
  <2>7. PlansGood'
    BY <2>5, <2>6, GoesIs, PlanSet
  <2>8. Places'
    BY <2>1, <2>6, PlacesGo DEF Places
  <2> QED BY <2>6, <2>7, <2>8 DEF Kept, ConnsGood
<1>5. CASE PlanExplicit(t)
  <2>1. at[t] <= Len(work.scripts[t]) /\ UNCHANGED <<work, conns>>
    BY <1>5 DEF PlanExplicit, Idle
  <2>2. \/ \E port, p, v : /\ plan' = [plan EXCEPT ![t] = [how |-> "profile", name |-> Call(t).name, dirty |-> FALSE,
                                         port |-> port, profile |-> p, version |-> v]]
                           /\ Goes(t, "planned")
        \/ Done(t) /\ UNCHANGED plan
    BY <1>5 DEF PlanExplicit
  <2>3. ASSUME NEW port, NEW p, NEW v, Goes(t, "planned"),
               plan' = [plan EXCEPT ![t] = [how |-> "profile", name |-> Call(t).name, dirty |-> FALSE,
                                            port |-> port, profile |-> p, version |-> v]]
        PROVE  PlansGood' /\ Places'
    <3> DEFINE x == [how |-> "profile", name |-> Call(t).name, dirty |-> FALSE,
                     port |-> port, profile |-> p, version |-> v]
    <3>1. PlanGood(x, "planned")
      BY <1>0, <2>1 DEF PlanGood
    <3>2. plan' = [plan EXCEPT ![t] = x]
      BY <2>3
    <3> HIDE DEF x
    <3> QED BY <2>1, <2>3, <3>1, <3>2, GoesIs, PlanSet, PlacesGo
  <2>4. ASSUME Done(t), UNCHANGED plan PROVE PlansGood' /\ Places'
    BY <2>1, <2>4, DoneIs, PlansKept, PlacesDone
  <2> QED BY <2>1, <2>2, <2>3, <2>4 DEF Kept, ConnsGood
<1>6. CASE OpenConnection(t)
  <2>1. phase[t] = "planned" /\ at[t] <= Len(work.scripts[t]) /\ UNCHANGED work
    BY <1>6 DEF OpenConnection, Places, storeIdle
  <2>2. UNCHANGED conns \/ \E port, live, some :
            WithConn(t, [NoConn EXCEPT !.open = TRUE, !.port = port, !.live = live, !.binding.some = some])
    BY <1>6 DEF OpenConnection
  <2>3. ASSUME NEW port, NEW live, NEW some
        PROVE  ConnGood([NoConn EXCEPT !.open = TRUE, !.port = port, !.live = live, !.binding.some = some])
    BY DEF NoConn, NoBinding, ConnGood
  <2>4. ConnsGood'
    <3>1. CASE UNCHANGED conns
      BY <3>1 DEF ConnsGood
    <3>2. ASSUME NEW port, NEW live, NEW some,
                 WithConn(t, [NoConn EXCEPT !.open = TRUE, !.port = port, !.live = live, !.binding.some = some])
          PROVE  ConnsGood'
      <4> DEFINE new == [NoConn EXCEPT !.open = TRUE, !.port = port, !.live = live, !.binding.some = some]
      <4>1. ConnGood(new) /\ WithConn(t, new)
        BY <2>3, <3>2
      <4> HIDE DEF new
      <4> QED BY <1>0, <2>1, <4>1, ConnSet
    <3> QED BY <2>2, <3>1, <3>2
  <2>5. \/ Done(t) /\ UNCHANGED plan
        \/ Goes(t, "attaching") /\ UNCHANGED plan
        \/ Goes(t, "attaching") /\ \E d : plan' = [plan EXCEPT ![t].dirty = d]
    BY <1>6 DEF OpenConnection, Submits
  <2>6. Places'
    BY <2>1, <2>5, PlacesGo, PlacesDone
  <2>7. ASSUME NEW d, Goes(t, "attaching"), plan' = [plan EXCEPT ![t].dirty = d] PROVE PlansGood'
    <3> DEFINE x == [plan[t] EXCEPT !.dirty = d]
    <3>1. PlanGood(x, "attaching") /\ plan' = [plan EXCEPT ![t] = x]
      BY <2>1, <2>7 DEF PlansGood, PlanGood
    <3>2. phase' = [phase EXCEPT ![t] = "attaching"]
      BY <2>7, GoesIs
    <3> HIDE DEF x
    <3> QED BY <3>1, <3>2, PlanSet
  <2>8. ASSUME Goes(t, "attaching"), UNCHANGED plan PROVE PlansGood'
    BY <2>1, <2>8, GoesIs, PlansKept
  <2>9. ASSUME Done(t), UNCHANGED plan PROVE PlansGood'
    BY <2>9, DoneIs, PlansKept
  <2> QED BY <2>4, <2>5, <2>6, <2>7, <2>8, <2>9 DEF Kept
<1>7. CASE AttachBinding(t)
  <2>1. phase[t] = "attaching" /\ txn[t].stage = "answered" /\ at[t] <= Len(work.scripts[t])
        /\ UNCHANGED <<work, plan>>
    BY <1>7 DEF AttachBinding, Returns, Answered, Places
  <2>2. ConnGood(Conn(t))
    BY <1>0, <2>1 DEF Conn, ConnsGood
  <2> DEFINE out == Result(t)
             made == [Conn(t) EXCEPT !.binding = persistent_binding(out.name, out.profile, plan[t].dirty),
                                     !.bound = Point(out.profile.inc, txn[t].version + 1)]
             planned == [Conn(t) EXCEPT !.binding = persistent_binding(plan[t].name, plan[t].profile, plan[t].dirty),
                                        !.bound = Point(plan[t].profile.inc, plan[t].version)]
             transient == [Conn(t) EXCEPT !.binding = [NoBinding EXCEPT !.some = TRUE]]
  <2>3. \/ WithConn(t, made) /\ out.status = "write"
        \/ WithConn(t, planned) /\ plan[t].how = "profile"
        \/ WithConn(t, transient)
    BY <1>7 DEF AttachBinding
  <2>4. out.status = "write" => ConnGood(made)
    <3>1. out.status = "write" => out.name \in Names
      BY <2>1 DEF TxnsGood, TxnGood, Result
    <3> QED BY <2>2, <3>1 DEF ConnGood, persistent_binding
  <2>5. plan[t].how = "profile" => ConnGood(planned)
    <3>1. plan[t].how = "profile" => plan[t].name \in Names
      BY <2>1 DEF PlansGood, PlanGood
    <3> QED BY <2>2, <3>1 DEF ConnGood, persistent_binding
  <2>6. ConnGood(transient)
    BY <2>2 DEF ConnGood, NoBinding
  <2>7. ConnsGood'
    <3> HIDE DEF made, planned, transient
    <3> QED BY <1>0, <2>1, <2>3, <2>4, <2>5, <2>6, ConnSet
  <2>8. Goes(t, "learn") \/ Done(t)
    BY <1>7 DEF AttachBinding
  <2>9. PlansGood' /\ Places'
    BY <2>1, <2>8, GoesIs, DoneIs, PlansKept, PlacesGo, PlacesDone
  <2> QED BY <2>7, <2>9 DEF Kept
<1> QED BY <1>2, <1>3, <1>4, <1>5, <1>6, <1>7 DEF OpenStep

LEMMA LearnKeeps ==
  ASSUME Shapes, SessionInvariant, NEW t \in Clients, LearnStep(t) PROVE Kept
<1> USE DEF SessionInvariant
<1>1. at[t] <= Len(work.scripts[t]) /\ UNCHANGED <<work, plan>>
  BY DEF Places, LearnStep, lookup_connection, ConfigureConnection, Reconfigure, Close, NothingToLearn, Learn,
     LearnDone, reconfigure, Changes, FailsLocked, Locks, Returns, Answered, storeIdle
<1>2. Call(t).conn \in Conns /\ ConnGood(Conn(t))
  BY <1>1, CallTyped DEF Conn, ConnsGood
<1>3. Done(t) \/ Goes(t, "locking") \/ Goes(t, "learn") \/ Goes(t, "learning")
  BY DEF LearnStep, lookup_connection, ConfigureConnection, Reconfigure, Close, NothingToLearn, Learn,
     LearnDone, reconfigure, Changes, FailsLocked, Submits
<1>4. PlansGood' /\ Places'
  BY <1>1, <1>3, GoesIs, DoneIs, PlansKept, PlacesGo, PlacesDone
<1>5. ASSUME NEW k, ConnGood(k), Changes(t, k) PROVE ConnsGood'
  <2> DEFINE new == [k EXCEPT !.learning_lock = {t}]
  <2>1. ConnGood(new) /\ WithConn(t, new)
    BY <1>5, EditedConn DEF Changes
  <2> HIDE DEF new
  <2> QED BY <1>2, <2>1, ConnSet
<1>6. ASSUME NEW x PROVE ConnGood([Conn(t) EXCEPT !.live.setting = x]) /\ ConnGood([Conn(t) EXCEPT !.open = x])
  BY <1>2, EditedConn
<1>7. CASE UNCHANGED conns
  BY <1>4, <1>7 DEF Kept, ConnsGood
<1>8. CASE lookup_connection(t) \/ Learn(t)
  BY <1>7, <1>8 DEF lookup_connection, Learn
<1>9. CASE ConfigureConnection(t) \/ Reconfigure(t) \/ Close(t)
  <2>1. \/ \E x : Changes(t, [Conn(t) EXCEPT !.live.setting = x]) \/ Changes(t, [Conn(t) EXCEPT !.open = x])
        \/ UNCHANGED conns
    BY <1>9 DEF ConfigureConnection, Reconfigure, reconfigure, Close, FailsLocked
  <2>2. ASSUME NEW x, Changes(t, [Conn(t) EXCEPT !.live.setting = x]) PROVE ConnsGood'
    <3> DEFINE k == [Conn(t) EXCEPT !.live.setting = x]
    <3>1. ConnGood(k) /\ Changes(t, k)
      BY <1>6, <2>2
    <3> HIDE DEF k
    <3> QED BY <1>5, <3>1
  <2>3. ASSUME NEW x, Changes(t, [Conn(t) EXCEPT !.open = x]) PROVE ConnsGood'
    <3> DEFINE k == [Conn(t) EXCEPT !.open = x]
    <3>1. ConnGood(k) /\ Changes(t, k)
      BY <1>6, <2>3
    <3> HIDE DEF k
    <3> QED BY <1>5, <3>1
  <2> QED BY <1>4, <1>7, <2>1, <2>2, <2>3 DEF Kept
<1>10. CASE NothingToLearn(t)
  <2> DEFINE new == [Unlocked(Conn(t), t) EXCEPT !.binding.dirty = @ \/ Conn(t).binding.stale]
  <2>1. ConnGood(Unlocked(Conn(t), t))
    BY <1>2, EditedConn
  <2>2. ConnGood(new) /\ WithConn(t, new)
    BY <1>10, <2>1 DEF NothingToLearn, ConnGood
  <2> HIDE DEF new
  <2> QED BY <1>2, <1>4, <2>2, ConnSet DEF Kept
<1>11. CASE LearnDone(t)
  <2> DEFINE k == Unlocked(Conn(t), t)
  <2>1. PICK d, st, r : WithConn(t, [k EXCEPT !.binding.dirty = d, !.binding.stale = st, !.binding.revision = r])
    BY <1>11 DEF LearnDone
  <2> DEFINE new == [k EXCEPT !.binding.dirty = d, !.binding.stale = st, !.binding.revision = r]
  <2>2. ConnGood(k)
    BY <1>2, EditedConn
  <2>3. ConnGood(new) /\ WithConn(t, new)
    BY <2>1, <2>2 DEF ConnGood
  <2> HIDE DEF new
  <2> QED BY <1>2, <1>4, <2>3, ConnSet DEF Kept
<1> QED BY <1>8, <1>9, <1>10, <1>11 DEF LearnStep

LEMMA ProfileKeeps ==
  ASSUME Shapes, SessionInvariant, NEW t \in Clients, ProfileStep(t) PROVE Kept
<1> USE DEF SessionInvariant
<1>1. at[t] <= Len(work.scripts[t]) /\ UNCHANGED <<work, plan>>
  BY DEF Places, ProfileStep, Save, SaveDone, ConfigureProfile, DeleteProfile, ListFresh, Stored,
     RollbackProfile, RollbackDone, Locks, Idle, Returns, Answered, storeIdle
<1>2. Call(t).conn \in Conns /\ ConnGood(Conn(t))
  BY <1>1, CallTyped DEF Conn, ConnsGood
<1>3. Done(t) \/ Goes(t, "saving") \/ Goes(t, "storing") \/ Goes(t, "rolling")
  BY DEF ProfileStep, Save, SaveDone, ConfigureProfile, DeleteProfile, ListFresh, Stored,
     RollbackProfile, RollbackDone, Submits
<1>4. PlansGood' /\ Places'
  BY <1>1, <1>3, GoesIs, DoneIs, PlansKept, PlacesGo, PlacesDone
<1>5. CASE UNCHANGED conns
  BY <1>4, <1>5 DEF Kept, ConnsGood
<1>6. CASE Save(t)
  <2> DEFINE new == [Conn(t) EXCEPT !.learning_lock = {t}]
  <2>1. ConnGood(new) /\ WithConn(t, new)
    BY <1>2, <1>6, EditedConn DEF Save
  <2> HIDE DEF new
  <2> QED BY <1>2, <1>4, <2>1, ConnSet DEF Kept
<1>7. CASE SaveDone(t)
  <2>1. ConnGood(Unlocked(Conn(t), t)) /\ WithConn(t, Unlocked(Conn(t), t))
    BY <1>2, <1>7, EditedConn DEF SaveDone
  <2> QED BY <1>2, <1>4, <2>1, ConnSet DEF Kept
<1>8. CASE RollbackDone(t)
  <2>1. conns' = [j \in Conns |-> conns'[j]]
    BY <1>8 DEF RollbackDone
  <2>2. ASSUME NEW k \in Conns PROVE ConnGood(conns'[k])
    <3>1. conns'[k] = conns[k] \/ conns'[k] = [conns[k] EXCEPT !.binding.stale = TRUE, !.binding.dirty = TRUE]
      BY <1>8 DEF RollbackDone
    <3> DEFINE new == [conns[k] EXCEPT !.binding.stale = TRUE, !.binding.dirty = TRUE]
    <3>2. ConnGood(conns[k]) /\ ConnGood(new)
      BY DEF ConnsGood, ConnGood
    <3> HIDE DEF new
    <3>3. conns'[k] = conns[k] \/ conns'[k] = new
      BY <3>1 DEF new
    <3> QED BY <3>2, <3>3
  <2>3. ConnsGood'
    BY <2>1, <2>2 DEF ConnsGood
  <2> QED BY <1>4, <2>3 DEF Kept
<1> QED BY <1>5, <1>6, <1>7, <1>8
     DEF ProfileStep, ConfigureProfile, DeleteProfile, ListFresh, Stored, RollbackProfile

LEMMA OtherKeeps ==
  ASSUME Shapes, SessionInvariant,
         \/ \E t \in Clients : Drop(t) \/ (TxnStep(t) /\ UNCHANGED sessions)
         \/ \E p \in Procs : Crash(p) \/ Restart(p)
         \/ AllDone
  PROVE  Kept
<1> USE DEF SessionInvariant
<1>1. ASSUME NEW t \in Clients, Drop(t) PROVE Kept
  <2>1. phase' = [phase EXCEPT ![t] = "gone"] /\ UNCHANGED <<work, at, plan>>
        /\ conns' = [k \in Conns |-> Unlocked(conns[k], t)]
    BY <1>1 DEF Drop, Dropped
  <2>2. PlansGood'
    BY <2>1, PlansKept
  <2>3. Places'
    BY <1>1, <2>1 DEF Places, Drop, Shapes
  <2>4. ConnsGood'
    BY <2>1, EditedConn DEF ConnsGood
  <2> QED BY <2>2, <2>3, <2>4 DEF Kept
<1>2. ASSUME NEW p \in Procs, Crash(p) PROVE Kept
  <2>1. /\ phase' = [t \in Clients |-> IF ProcOf(t) = p /\ phase[t] # "ready" THEN "gone" ELSE phase[t]]
        /\ conns' = [k \in Conns |-> IF work.owner[k] = p THEN NoConn ELSE conns[k]]
        /\ UNCHANGED <<work, at, plan>>
    BY <1>2 DEF Crash
  <2>2. PlansGood'
    BY <2>1 DEF PlansGood, PlanGood
  <2>3. Places'
    BY <2>1 DEF Places
  <2>4. ConnsGood'
    BY <2>1, NoConnGood DEF ConnsGood
  <2> QED BY <2>2, <2>3, <2>4 DEF Kept
<1>3. ASSUME UNCHANGED <<work, sessions>> PROVE Kept
  BY <1>3 DEF Kept, sessions, ConnsGood, PlansGood, Places
<1>4. ASSUME NEW t \in Clients, TxnStep(t) PROVE UNCHANGED work
  BY <1>4 DEF TxnStep, EnterMutation, AcquireAndLoad, Apply, WriteFails, Persist, Publish
<1> QED BY <1>1, <1>2, <1>3, <1>4 DEF Restart, AllDone, vars

LEMMA SessionsKeep ==
  ASSUME Shapes, SessionInvariant, Next PROVE Kept
BY OpenKeeps, LearnKeeps, ProfileKeeps, OtherKeeps DEF Next

(* The transactions.                                                       *)
LEMMA TxnElsewhere ==
  ASSUME NEW u \in Clients, TxnGood(u), UNCHANGED work, txn'[u] = txn[u], phase'[u] = phase[u]
  PROVE  TxnGood(u)'
<1>1. AskedBy(u)' = AskedBy(u) /\ ProcOf(u)' = ProcOf(u)
  BY DEF AskedBy, ProcOf
<1>2. work.clock[ProcOf(u)]' = work.clock[ProcOf(u)]
  BY <1>1
<1> QED BY <1>1, <1>2 DEF TxnGood

LEMMA TxnRests ==
  ASSUME NEW u \in Clients, txn'[u].stage = "none", phase'[u] \notin Waiting
  PROVE  TxnGood(u)'
BY DEF TxnGood

(* Every request is a proper one for what its caller waits for.            *)
Files(t, req, to) ==
  /\ Asked(req) /\ to \in Waiting /\ Queued(t, req) /\ UNCHANGED storeIdle
  /\ phase' = [phase EXCEPT ![t] = to]
  /\ \/ to = "planning" /\ req.kind = "resolve"
     \/ to = "attaching" /\ req.kind \in {"mark_used", "generate"}
     \/ to = "learning" /\ req.kind = "learn"
     \/ to = "storing" /\ req.kind \in {"defaults", "delete", "list"}
     \/ to = "saving" /\ req.kind = "upsert"
     \/ to = "rolling" /\ req.kind = "rollback"

LEMMA RequestIs ==
  ASSUME NEW kind \in Kinds, NEW n, kind \notin {"generate", "resolve", "list"} => n \in Names
  PROVE  /\ Request(kind, n).kind = kind /\ Request(kind, n).name = n
         /\ DOMAIN Request(kind, n) = {"kind", "name", "defaults", "expected", "target", "overwrite", "conn",
                                       "selector", "port"}
         /\ Asked(Request(kind, n))
BY DEF Request, Asked

LEMMA Requests ==
  ASSUME Shapes, SessionInvariant, NEW t \in Clients, OpenStep(t) \/ LearnStep(t) \/ ProfileStep(t)
  PROVE  \/ \E req, to : Files(t, req, to)
         \/ /\ Answered(t) /\ Collected(t)
            /\ \E to : phase' = [phase EXCEPT ![t] = to] /\ to \notin Waiting
         \/ /\ UNCHANGED <<work, store>> /\ phase[t] \notin Waiting
            /\ \E to : phase' = [phase EXCEPT ![t] = to] /\ to \notin Waiting
<1> USE DEF SessionInvariant
<1>0. ASSUME at[t] <= Len(work.scripts[t]) PROVE Call(t).conn \in Conns /\ Call(t).name \in Names
  BY <1>0, CallTyped
<1>1. ASSUME NEW kind \in Kinds, NEW n, NEW req, NEW to, kind \notin {"generate", "resolve", "list"} => n \in Names,
             req.kind = kind, req.name = n, Submits(t, req, to), UNCHANGED storeIdle,
             \/ to = "planning" /\ kind = "resolve"
             \/ to = "attaching" /\ kind \in {"mark_used", "generate"}
             \/ to = "learning" /\ kind = "learn"
             \/ to = "storing" /\ kind \in {"defaults", "delete", "list"}
             \/ to = "saving" /\ kind = "upsert"
             \/ to = "rolling" /\ kind = "rollback"
      PROVE  Files(t, req, to)
  BY <1>1 DEF Files, Asked, Submits, Goes, Waiting
<1>2. CASE PlanSession(t)
  <2>1. PICK port : Submits(t, [Request("resolve", "none") EXCEPT !.port = port], "planning")
    BY <1>2 DEF PlanSession
  <2> DEFINE req == [Request("resolve", "none") EXCEPT !.port = port]
  <2>2. req.kind = "resolve" /\ req.name = "none" /\ Submits(t, req, "planning") /\ UNCHANGED storeIdle
    BY <1>2, <2>1 DEF Request, PlanSession
  <2> HIDE DEF req
  <2> QED BY <1>1, <2>2 DEF Kinds
<1>3. CASE OpenConnection(t)
  <2>1. phase[t] = "planned" /\ UNCHANGED storeIdle
    BY <1>3 DEF OpenConnection
  <2>2. \/ plan[t].how = "profile" /\ Submits(t, Request("mark_used", plan[t].name), "attaching")
        \/ \E d, s : Submits(t, [Request("generate", "none") EXCEPT !.defaults = d, !.selector = s], "attaching")
        \/ UNCHANGED txn /\ Done(t)
    BY <1>3 DEF OpenConnection
  <2>3. CASE plan[t].how = "profile" /\ Submits(t, Request("mark_used", plan[t].name), "attaching")
    <3>1. plan[t].name \in Names
      BY <2>1, <2>3 DEF PlansGood, PlanGood
    <3>2. Request("mark_used", plan[t].name).kind = "mark_used" /\ Request("mark_used", plan[t].name).name = plan[t].name
      BY DEF Request
    <3> QED BY <1>1, <2>1, <2>3, <3>1, <3>2 DEF Kinds
  <2>4. ASSUME NEW d, NEW s, Submits(t, [Request("generate", "none") EXCEPT !.defaults = d, !.selector = s], "attaching")
        PROVE  \E req, to : Files(t, req, to)
    <3> DEFINE req == [Request("generate", "none") EXCEPT !.defaults = d, !.selector = s]
    <3>1. req.kind = "generate" /\ req.name = "none" /\ Submits(t, req, "attaching")
      BY <2>4 DEF Request
    <3> HIDE DEF req
    <3> QED BY <1>1, <2>1, <3>1 DEF Kinds
  <2>5. CASE UNCHANGED txn /\ Done(t)
    BY <2>1, <2>5, DoneIs DEF storeIdle, store, Waiting
  <2> QED BY <2>2, <2>3, <2>4, <2>5
<1>4. CASE PlanDisabled(t) \/ PlanTransient(t) \/ PlanExplicit(t)
  <2>1. UNCHANGED <<work, store>> /\ phase[t] = "ready" /\ (Goes(t, "planned") \/ Done(t))
    BY <1>4 DEF PlanDisabled, PlanTransient, PlanExplicit, PlanWithout, Idle
  <2> QED BY <2>1 DEF Goes, Done, Waiting
<1>5. CASE PlanDone(t) \/ AttachBinding(t) \/ LearnDone(t) \/ SaveDone(t) \/ Stored(t) \/ RollbackDone(t)
  <2>1. Answered(t) /\ Collected(t)
    BY <1>5 DEF PlanDone, AttachBinding, LearnDone, SaveDone, Stored, RollbackDone, Returns
  <2>2. Goes(t, "planned") \/ Goes(t, "learn") \/ Done(t)
    BY <1>5 DEF PlanDone, AttachBinding, LearnDone, SaveDone, Stored, RollbackDone
  <2>3. \E to : phase' = [phase EXCEPT ![t] = to] /\ to \notin Waiting
    BY <2>2 DEF Goes, Done, Waiting
  <2> QED BY <2>1, <2>3
<1>6. CASE lookup_connection(t) \/ ConfigureConnection(t) \/ Reconfigure(t) \/ Close(t) \/ NothingToLearn(t)
  BY <1>6 DEF lookup_connection, ConfigureConnection, Reconfigure, reconfigure, Close, NothingToLearn, Changes,
     FailsLocked, Locks, Goes, Done, Waiting
<1>7. CASE Learn(t)
  <2> DEFINE req == [Request("learn", Conn(t).binding.name) EXCEPT
                   !.expected = Conn(t).binding.revision, !.defaults = effective_defaults(Conn(t)),
                   !.conn = Call(t).conn]
  <2>1. req.kind = "learn" /\ req.name = Conn(t).binding.name
    BY DEF Request
  <2>2. Submits(t, req, "learning") /\ UNCHANGED storeIdle /\ phase[t] = "learn" /\ Conn(t).binding.persistent
    BY <1>7 DEF Learn
  <2>3. Conn(t).binding.name \in Names
    BY <1>0, <2>2 DEF Places, ConnsGood, ConnGood, Conn
  <2> HIDE DEF req
  <2> QED BY <1>1, <2>1, <2>2, <2>3 DEF Kinds
<1>8. CASE Save(t)
  <2> DEFINE req == [Request("upsert", Call(t).name) EXCEPT !.defaults = effective_defaults(Conn(t)),
                   !.selector = SavedSelector(Conn(t).port), !.overwrite = Call(t).overwrite]
  <2>1. req.kind = "upsert" /\ req.name = Call(t).name
    BY DEF Request
  <2>2. Submits(t, req, "saving") /\ UNCHANGED storeIdle /\ phase[t] = "locking"
    BY <1>8 DEF Save, Locks
  <2>3. Call(t).name \in Names
    BY <1>0, <2>2 DEF Places
  <2> HIDE DEF req
  <2> QED BY <1>1, <2>1, <2>2, <2>3 DEF Kinds
<1>9. CASE ConfigureProfile(t)
  <2> DEFINE req == [Request("defaults", Call(t).name) EXCEPT !.overwrite = Call(t).overwrite,
                   !.defaults = Defaults(Call(t).value, 0)]
  <2>1. req.kind = "defaults" /\ req.name = Call(t).name
    BY DEF Request
  <2>2. Submits(t, req, "storing") /\ UNCHANGED storeIdle /\ Call(t).name \in Names
    BY <1>0, <1>9 DEF ConfigureProfile, Idle
  <2> HIDE DEF req
  <2> QED BY <1>1, <2>1, <2>2 DEF Kinds
<1>10. CASE DeleteProfile(t)
  <2>1. Call(t).name \in Names /\ UNCHANGED storeIdle /\ phase[t] = "ready"
    BY <1>0, <1>10 DEF DeleteProfile, Idle
  <2>2. CASE Submits(t, Request("delete", Call(t).name), "storing")
    <3>1. Request("delete", Call(t).name).kind = "delete" /\ Request("delete", Call(t).name).name = Call(t).name
      BY DEF Request
    <3> QED BY <1>1, <2>1, <2>2, <3>1 DEF Kinds
  <2>3. CASE Done(t) /\ UNCHANGED txn
    BY <2>1, <2>3, DoneIs DEF storeIdle, store, Waiting
  <2> QED BY <1>10, <2>2, <2>3 DEF DeleteProfile
<1>11. CASE ListFresh(t)
  <2>1. Request("list", "none").kind = "list" /\ Request("list", "none").name = "none"
    BY DEF Request
  <2> QED BY <1>1, <1>11, <2>1 DEF Kinds, ListFresh
<1>12. CASE RollbackProfile(t)
  <2> DEFINE req == [Request("rollback", Call(t).name) EXCEPT !.expected = Call(t).expected,
                   !.target = Call(t).target]
  <2>1. req.kind = "rollback" /\ req.name = Call(t).name
    BY DEF Request
  <2>2. Submits(t, req, "rolling") /\ UNCHANGED storeIdle /\ Call(t).name \in Names
    BY <1>0, <1>12 DEF RollbackProfile, Idle
  <2> HIDE DEF req
  <2> QED BY <1>1, <2>1, <2>2 DEF Kinds
<1> QED BY <1>2, <1>3, <1>4, <1>5, <1>6, <1>7, <1>8, <1>9, <1>10, <1>11, <1>12
     DEF OpenStep, LearnStep, ProfileStep

(* What a step that ends with an outcome leaves of a transaction.          *)
Ends(t, s, x) == txn' = [txn EXCEPT ![t].stage = s, ![t].out = x]
LEMMA TxnEnds ==
  ASSUME Shapes, NEW t \in Clients, NEW s, NEW x, Ends(t, s, x)
  PROVE  /\ txn'[t].stage = s /\ txn'[t].out = x
         /\ txn'[t].req = txn[t].req /\ txn'[t].snap = txn[t].snap /\ txn'[t].version = txn[t].version
         /\ \A u \in Clients \ {t} : txn'[u] = txn[u]
<1>1. DOMAIN txn = Clients /\ DOMAIN txn[t] = {"stage", "req", "snap", "version", "out"}
  BY DEF Shapes, TxnShape
<1> QED BY <1>1 DEF Ends

LEMMA TxnStepGood ==
  ASSUME StoreInvariant, SessionInvariant, NEW t \in Clients, TxnStep(t) /\ UNCHANGED sessions
  PROVE  TxnGood(t)'
<1> USE DEF SessionInvariant, StoreInvariant, Shapes, TxnShape, FileShape
<1>1. UNCHANGED <<work, phase>> /\ txn[t].stage # "none"
  BY DEF TxnStep, EnterMutation, AcquireAndLoad, Apply, WriteFails, Persist, Publish, sessions
<1>2. AskedBy(t)' = AskedBy(t) /\ ProcOf(t)' = ProcOf(t) /\ UNCHANGED work.clock[ProcOf(t)]
  BY <1>1 DEF AskedBy, ProcOf
<1>3. Asked(txn[t].req) /\ (phase[t] \in Waiting => txn[t].req.kind \in AskedBy(t))
  BY <1>1 DEF TxnsGood, TxnGood
<1>4. work.clock[ProcOf(t)] \in Nat
  BY StoreAssumption DEF ProcOf
<1>5. CASE EnterMutation(t)
  BY <1>1, <1>2, <1>3, <1>5 DEF EnterMutation, TxnGood
<1>6. CASE AcquireAndLoad(t)
  BY <1>1, <1>2, <1>3, <1>6 DEF AcquireAndLoad, TxnGood
<1>7. CASE Apply(t)
  <2> DEFINE out == apply(txn[t].req, txn[t].snap, work.clock[ProcOf(t)], txn[t].version + 1)
  <2>1. /\ txn[t].snap = file.profiles /\ txn[t].version = file.version
        /\ txn[t].req.kind = "generate" => NameLeft(txn[t].snap)
    BY <1>7 DEF Apply, Exclusive
  <2>0. PICK x : /\ x = out
                 /\ \/ x.status = "write" /\ Ends(t, "writing", x)
                    \/ x.status # "write" /\ Ends(t, "answered", x)
    BY <1>7 DEF Apply, Ends
  <2>2a. /\ txn'[t].req = txn[t].req /\ txn'[t].snap = txn[t].snap /\ txn'[t].version = txn[t].version
         /\ txn'[t].out = x
         /\ \/ x.status = "write" /\ txn'[t].stage = "writing"
            \/ x.status # "write" /\ txn'[t].stage = "answered"
    <3>1. Shapes
      OBVIOUS
    <3> HIDE DEF StoreInvariant, SessionInvariant, Shapes, TxnShape, FileShape
    <3> QED BY <2>0, <3>1, TxnEnds
  <2>2. /\ txn'[t].req = txn[t].req /\ txn'[t].snap = txn[t].snap /\ txn'[t].version = txn[t].version
        /\ txn'[t].out = out
        /\ \/ out.status = "write" /\ txn'[t].stage = "writing"
           \/ out.status # "write" /\ txn'[t].stage = "answered"
    BY <2>0, <2>2a
  <2>3. txn[t].req.kind = "resolve" => out = resolve_automatic(txn[t].req, txn[t].snap)
    BY ApplyKinds
  <2>4. DOMAIN txn[t].snap \subseteq Names
    BY <2>1 DEF FileGood, ProfilesOf
  <2> HIDE DEF out
  <2>5. /\ txn'[t].stage # "none" /\ Asked(txn'[t].req)
        /\ phase'[t] \in Waiting => txn'[t].req.kind \in AskedBy(t)'
    BY <1>1, <1>2, <1>3, <2>2
  <2>6. txn'[t].stage = "writing" =>
          /\ txn'[t].out = apply(txn'[t].req, txn'[t].snap, work'.clock[ProcOf(t)'], txn'[t].version + 1)
          /\ txn'[t].out.status = "write"
          /\ txn'[t].req.kind = "generate" => NameLeft(txn'[t].snap)
    <3>1. out = apply(txn'[t].req, txn'[t].snap, work'.clock[ProcOf(t)'], txn'[t].version + 1)
      BY <1>1, <1>2, <2>2 DEF out
    <3> QED BY <2>1, <2>2, <3>1
  <2>7. ~(txn'[t].stage \in {"persisted", "answered"} /\ txn'[t].out.status = "write")
    BY <2>2
  <2>8. txn'[t].req.kind = "resolve" =>
          txn'[t].out = resolve_automatic(txn'[t].req, txn'[t].snap) /\ DOMAIN txn'[t].snap \subseteq Names
    BY <2>2, <2>3, <2>4
  <2> QED BY <2>2, <2>5, <2>6, <2>7, <2>8 DEF TxnGood
<1>8. ASSUME txn[t].stage = "writing"
      PROVE  txn[t].out.name \in Names /\ txn[t].req.kind # "resolve" /\ txn[t].out.status = "write"
  <2>1. /\ txn[t].snap = file.profiles /\ txn[t].version = file.version
        /\ txn[t].req.kind = "generate" => NameLeft(txn[t].snap)
        /\ txn[t].out = apply(txn[t].req, txn[t].snap, work.clock[ProcOf(t)], txn[t].version + 1)
        /\ txn[t].out.status = "write"
    BY <1>8 DEF TxnsGood, TxnGood, Exclusive
  <2>2. ProfilesOf(txn[t].snap, txn[t].version) /\ txn[t].version \in Nat
    BY <2>1 DEF FileGood
  <2> DEFINE req == txn[t].req
             snap == txn[t].snap
             v == txn[t].version
             out == txn[t].out
             now == work.clock[ProcOf(t)]
  <2>3. /\ Asked(req) /\ now \in Nat /\ v \in Nat /\ ProfilesOf(snap, v)
        /\ req.kind = "generate" => NameLeft(snap)
        /\ out = apply(req, snap, now, v + 1) /\ out.status = "write"
    BY <1>3, <1>4, <2>1, <2>2
  <2> HIDE DEF req, snap, v, out, now
  <2>4. out.name \in Names /\ req.kind \notin {"resolve", "list"}
    BY <2>3, ApplyWrites
  <2> QED BY <2>1, <2>4 DEF out, req
<1>9. CASE WriteFails(t)
  <2>1. /\ txn'[t].req = txn[t].req /\ txn'[t].stage = "answered" /\ txn'[t].out.status = "err"
        /\ txn[t].stage = "writing"
    <3>1. PICK x : x.status = "err" /\ Ends(t, "answered", x)
      BY <1>9, FailsIs DEF WriteFails, Ends
    <3>2. Shapes /\ txn[t].stage = "writing"
      BY <1>9 DEF WriteFails
    <3> HIDE DEF StoreInvariant, SessionInvariant, Shapes, TxnShape, FileShape
    <3> QED BY <3>1, <3>2, TxnEnds
  <2> QED BY <1>1, <1>2, <1>3, <1>8, <2>1 DEF TxnGood
<1>10. CASE Persist(t)
  <2>1. txn[t].stage = "writing" /\ txn'[t].stage = "persisted" /\ txn'[t].req = txn[t].req /\ txn'[t].out = txn[t].out
    BY <1>10 DEF Persist
  <2> QED BY <1>1, <1>2, <1>3, <1>8, <2>1 DEF TxnGood
<1>11. CASE Publish(t)
  <2>1. txn[t].stage = "persisted" /\ txn'[t].stage = "answered" /\ txn'[t].req = txn[t].req
        /\ txn'[t].out = txn[t].out
    BY <1>11 DEF Publish
  <2>2. (txn[t].out.status = "write" => txn[t].out.name \in Names) /\ txn[t].req.kind # "resolve"
    BY <2>1 DEF TxnsGood, TxnGood
  <2> QED BY <1>1, <1>2, <1>3, <2>1, <2>2 DEF TxnGood
<1> QED BY <1>5, <1>6, <1>7, <1>9, <1>10, <1>11 DEF TxnStep

LEMMA TxnsKeep ==
  ASSUME StoreInvariant, SessionInvariant, Next PROVE TxnsGood'
<1> USE DEF SessionInvariant
<1>0. Shapes
  BY DEF StoreInvariant
<1>1. ASSUME NEW t \in Clients, TxnStep(t) /\ UNCHANGED sessions PROVE TxnsGood'
  <2>1. /\ \A u \in Clients \ {t} : txn'[u] = txn[u]
        /\ UNCHANGED <<work, phase>>
    BY <1>0, <1>1 DEF Shapes, TxnStep, EnterMutation, AcquireAndLoad, Apply, WriteFails, Persist, Publish, sessions
  <2>2. TxnGood(t)'
    BY <1>1, TxnStepGood
  <2>3. ASSUME NEW u \in Clients \ {t} PROVE TxnGood(u)'
    BY <2>1, TxnElsewhere DEF TxnsGood
  <2>4. \A u \in Clients : TxnGood(u)'
    BY <2>2, <2>3
  <2> QED BY <2>4 DEF TxnsGood
<1>2. ASSUME NEW t \in Clients, OpenStep(t) \/ LearnStep(t) \/ ProfileStep(t) PROVE TxnsGood'
  <2>1. ASSUME UNCHANGED work, \A u \in Clients \ {t} : txn'[u] = txn[u],
               NEW to, phase' = [phase EXCEPT ![t] = to], TxnGood(t)'
        PROVE  TxnsGood'
    <3>1. ASSUME NEW u \in Clients \ {t} PROVE TxnGood(u)'
      <4>1. phase'[u] = phase[u]
        BY <1>0, <2>1 DEF Shapes
      <4> QED BY <2>1, <4>1, TxnElsewhere DEF TxnsGood
    <3>2. \A u \in Clients : TxnGood(u)'
      BY <2>1, <3>1
    <3> QED BY <3>2 DEF TxnsGood
  <2>2. ASSUME NEW req, NEW to, Files(t, req, to) PROVE TxnsGood'
    <3>1. /\ \A u \in Clients \ {t} : txn'[u] = txn[u]
          /\ txn'[t].stage = "queued" /\ txn'[t].req = req
          /\ UNCHANGED work /\ phase'[t] = to
      BY <1>0, <2>2 DEF Files, Queued, Shapes, TxnShape, NoTxn, storeIdle
    <3>2. txn'[t].req.kind \in AskedBy(t)' /\ Asked(txn'[t].req)
      BY <2>2, <3>1 DEF Files, AskedBy
    <3>3. TxnGood(t)'
      BY <3>1, <3>2 DEF TxnGood
    <3> QED BY <2>1, <2>2, <3>1, <3>3 DEF Files
  <2>3. ASSUME Answered(t), Collected(t), NEW to, phase' = [phase EXCEPT ![t] = to], to \notin Waiting
        PROVE  TxnsGood'
    <3>1. /\ \A u \in Clients \ {t} : txn'[u] = txn[u]
          /\ txn'[t].stage = "none" /\ UNCHANGED work /\ phase'[t] \notin Waiting
      BY <1>0, <2>3 DEF Answered, Collected, Shapes, NoTxn
    <3> QED BY <2>1, <2>3, <3>1, TxnRests
  <2>4. ASSUME UNCHANGED <<work, store>>, phase[t] \notin Waiting, NEW to, phase' = [phase EXCEPT ![t] = to],
               to \notin Waiting
        PROVE  TxnsGood'
    <3>1. UNCHANGED <<work, txn>> /\ phase'[t] \notin Waiting
      BY <1>0, <2>4 DEF store, Shapes
    <3>2. TxnGood(t)'
      <4>1. TxnGood(t) /\ ProcOf(t)' = ProcOf(t)
        BY <3>1 DEF TxnsGood, ProcOf
      <4> QED BY <3>1, <4>1 DEF TxnGood
    <3> QED BY <2>1, <2>4, <3>1, <3>2
  <2> QED BY <1>0, <1>2, <2>2, <2>3, <2>4, Requests
<1>3. ASSUME UNCHANGED work,
             \A u \in Clients : /\ txn'[u] = txn[u] \/ txn'[u].stage = "none"
                                /\ \/ phase'[u] = phase[u] /\ txn'[u] = txn[u]
                                   \/ phase'[u] = "gone"
                                   \/ phase'[u] = "ready" /\ txn'[u].stage = "none"
      PROVE  TxnsGood'
  <2>1. ASSUME NEW u \in Clients PROVE TxnGood(u)'
    <3>1. CASE phase'[u] = phase[u] /\ txn'[u] = txn[u]
      BY <1>3, <3>1, TxnElsewhere DEF TxnsGood
    <3>2. CASE phase'[u] = "gone" /\ txn'[u] = txn[u]
      <4>1. TxnGood(u) /\ ProcOf(u)' = ProcOf(u) /\ phase'[u] \notin Waiting
        BY <1>3, <3>2 DEF TxnsGood, ProcOf, Waiting
      <4> QED BY <1>3, <3>2, <4>1 DEF TxnGood
    <3>3. CASE txn'[u].stage = "none" /\ phase'[u] \in {"gone", "ready"}
      BY <3>3, TxnRests DEF Waiting
    <3> QED BY <1>3, <3>1, <3>2, <3>3
  <2> QED BY <2>1 DEF TxnsGood
<1>4. ASSUME NEW t \in Clients, Drop(t) PROVE TxnsGood'
  <2>1. UNCHANGED work
    BY <1>4 DEF Drop, Dropped
  <2>2. ASSUME NEW u \in Clients
        PROVE  /\ txn'[u] = txn[u] \/ txn'[u].stage = "none"
               /\ \/ phase'[u] = phase[u] /\ txn'[u] = txn[u]
                  \/ phase'[u] = "gone"
    BY <1>0, <1>4 DEF Drop, Dropped, Shapes, NoTxn
  <2> QED BY <1>3, <2>1, <2>2
<1>5. ASSUME NEW p \in Procs, Crash(p) PROVE TxnsGood'
  <2>1. UNCHANGED work
    BY <1>5 DEF Crash
  <2>2. ASSUME NEW u \in Clients
        PROVE  /\ txn'[u] = txn[u] \/ txn'[u].stage = "none"
               /\ \/ phase'[u] = phase[u] /\ txn'[u] = txn[u]
                  \/ phase'[u] = "gone"
                  \/ phase'[u] = "ready" /\ txn'[u].stage = "none"
    BY <1>0, <1>5 DEF Crash, ProcessEnds, Shapes, NoTxn
  <2> QED BY <1>3, <2>1, <2>2
<1>6. ASSUME UNCHANGED <<work, txn, phase>> PROVE TxnsGood'
  BY <1>6, TxnElsewhere DEF TxnsGood
<1> QED BY <1>1, <1>2, <1>4, <1>5, <1>6 DEF Next, Restart, open, sessions, AllDone, vars, store

(* A replacement of the file is one change of what it replaces.            *)
LEMMA Persisted ==
  ASSUME StoreInvariant, SessionInvariant, NEW t \in Clients, Persist(t)
  PROVE  /\ txn[t].out.name \in Names /\ txn[t].snap = file.profiles
         /\ OneChange(file.profiles, file'.profiles, txn[t].out.name)
         /\ FileGood'
<1> DEFINE req == txn[t].req
           snap == file.profiles
           v == file.version
           out == txn[t].out
           now == work.clock[ProcOf(t)]
<1>1. /\ txn[t].snap = snap /\ txn[t].version = v /\ v \in Nat /\ txn[t].stage = "writing"
      /\ file' = Shows(v + 1, out.next)
  BY DEF Persist, StoreInvariant, Exclusive, Shapes, FileShape
<1>2. now \in Nat
  BY StoreAssumption DEF StoreInvariant, Shapes, ProcOf
<1>3. /\ Asked(req) /\ ProfilesOf(snap, v)
      /\ req.kind = "generate" => NameLeft(snap)
      /\ out = apply(req, snap, now, v + 1) /\ out.status = "write"
  BY <1>1 DEF SessionInvariant, TxnsGood, TxnGood, FileGood
<1>4. file'.version = v + 1 /\ file'.profiles = out.next
  BY <1>1 DEF Shows
<1> HIDE DEF req, snap, v, out, now
<1>5. /\ out.name \in Names
      /\ \/ Created(snap, out, v + 1)
         \/ Deleted(snap, out)
         \/ IsRevised(snap, out, Author(req), v + 1)
         \/ Used(snap, out)
  BY <1>1, <1>2, <1>3, ApplyWrites
<1>6. ProfilesOf(out.next, v + 1) /\ OneChange(snap, out.next, out.name)
  BY <1>1, <1>3, <1>5, ApplyKeeps
<1>7. FileGood'
  BY <1>4, <1>6 DEF FileGood
<1> QED BY <1>1, <1>4, <1>5, <1>6, <1>7 DEF snap, out

LEMMA FileMoves ==
  ASSUME Next PROVE UNCHANGED file \/ \E t \in Clients : Persist(t)
BY StoreMoves DEF TxnStep, EnterMutation, AcquireAndLoad, Apply, WriteFails, Publish, Submitted, Answered, Dropped,
   ProcessEnds, open, store, storeIdle

LEMMA SessionStep ==
  ASSUME StoreInvariant, SessionInvariant, [Next]_vars PROVE SessionInvariant'
<1>1. CASE Next
  <2>1. ConnsGood' /\ PlansGood' /\ Places'
    BY <1>1, SessionsKeep DEF Kept, StoreInvariant
  <2>2. TxnsGood'
    BY <1>1, TxnsKeep
  <2>3. FileGood'
    BY <1>1, FileMoves, Persisted DEF SessionInvariant, FileGood
  <2> QED BY <2>1, <2>2, <2>3 DEF SessionInvariant
<1>2. CASE UNCHANGED vars
  <2>1. ConnsGood' /\ PlansGood' /\ Places' /\ FileGood'
    BY <1>2 DEF SessionInvariant, vars, sessions, store, ConnsGood, PlansGood, Places, FileGood
  <2>2. ASSUME NEW u \in Clients PROVE TxnGood(u)'
    BY <1>2, TxnElsewhere DEF SessionInvariant, TxnsGood, vars, sessions, store
  <2> QED BY <2>1, <2>2 DEF SessionInvariant, TxnsGood
<1> QED BY <1>1, <1>2

LEMMA SessionInit ==
  ASSUME Init PROVE SessionInvariant
<1>1. ConnsGood
  BY NoConnGood DEF Init, ConnsGood
<1>2. PlansGood
  BY DEF Init, PlansGood, PlanGood, NoPlan
<1>3. Places
  BY DEF Init, Places
<1>4. TxnsGood
  BY DEF Init, TxnsGood, TxnGood, NoTxn, Waiting
<1>5. FileGood
  BY StoreAssumption DEF Init, FileGood, Shows
<1> QED BY <1>1, <1>2, <1>3, <1>4, <1>5 DEF SessionInvariant

LEMMA SessionHolds == Spec => [](StoreInvariant /\ SessionInvariant)
BY StoreInit, StoreStep, SessionInit, SessionStep, PTL DEF Spec

(* Each replacement of the profile file changes one profile of the file it *)
(* replaces (run_conditional_mutation).                                    *)
THEOREM NoUpdateIsLost == Spec => NoLostUpdate
<1>1. StoreInvariant /\ SessionInvariant /\ [Next]_vars =>
        [file' # file => \E n \in Names : OneChange(file.profiles, file'.profiles, n)]_file
  BY FileMoves, Persisted DEF vars, store
<1> QED BY <1>1, SessionHolds, PTL DEF Spec, NoLostUpdate

-----------------------------------------------------------------------------
(* The listing of the ports and the plans of opens.                        *)

Agrees(pl, ports, profiles) ==
  LET announced == compute_profile_matches(pl.port, ports, profiles)
  IN  /\ pl.how = "profile" <=> announced.outcome = "selected"
      /\ pl.how = "profile" => announced.selected = pl.name
      /\ pl.how = "generate" <=> announced.outcome = "none" /\ identity_confidence(pl.port) = "high"

Recognised(port) == HighConfidence(port) /\ Cardinality(Duplicates(port, work.ports)) <= 1

LEMMA MatchIs ==
  ASSUME NEW o, NEW n PROVE Match(o, n).outcome = o /\ Match(o, n).selected = n
BY DEF Match

LEMMA ConfidenceIs ==
  ASSUME NEW port PROVE identity_confidence(port) = "high" <=> HighConfidence(port)
BY DEF identity_confidence

LEMMA DuplicatesCounted ==
  ASSUME NEW port, NEW ports, IsFiniteSet(ports) PROVE Cardinality(Duplicates(port, ports)) \in Nat
<1>1. IsFiniteSet(Duplicates(port, ports))
  BY FS_Subset DEF Duplicates
<1> QED BY <1>1, FS_CardinalityType

(* The store resolves a recognised port as the listing announces it.       *)
LEMMA ResolveAgrees ==
  ASSUME NEW pl, NEW ports, NEW profiles, NEW req, NEW out,
         DOMAIN profiles \subseteq Names, IsFiniteSet(ports),
         HighConfidence(pl.port), Cardinality(Duplicates(pl.port, ports)) <= 1,
         req.port = pl.port, out = resolve_automatic(req, profiles),
         pl.name = out.name,
         pl.how = IF out.name \in {"generate", "transient"} THEN out.name ELSE "profile"
  PROVE  Agrees(pl, ports, profiles)
<1> DEFINE candidates == Candidates(profiles, pl.port)
           latest == rank_candidates(profiles, candidates)
           n == CHOOSE n \in latest : TRUE
           announced == compute_profile_matches(pl.port, ports, profiles)
<1>0. identity_confidence(pl.port) = "high" /\ Cardinality(Duplicates(pl.port, ports)) \in Nat
  BY ConfidenceIs, DuplicatesCounted
<1>1. CASE candidates = {}
  <2>1. out = Answers(profiles, "generate", NoProfile)
    BY <1>1 DEF resolve_automatic
  <2>2. out.name = "generate"
    BY <2>1, AnswersIs
  <2>3. announced = Match("none", "none")
    BY <1>1 DEF compute_profile_matches
  <2>4. announced.outcome = "none"
    BY <2>3, MatchIs
  <2> HIDE DEF announced
  <2> QED BY <1>0, <2>2, <2>4 DEF Agrees, announced
<1>2. CASE candidates # {} /\ Cardinality(latest) = 1
  <2>1. latest # {}
    BY <1>2, FS_EmptySet
  <2>2. n \in DOMAIN profiles
    BY <2>1 DEF rank_candidates, Candidates
  <2>3. out = Answers(profiles, n, profiles[n])
    BY <1>2 DEF resolve_automatic
  <2>4. announced = Match("selected", n)
    BY <1>0, <1>2 DEF compute_profile_matches, ranked_profile_match
  <2> HIDE DEF n, announced
  <2>5. out.name = n /\ announced.outcome = "selected" /\ announced.selected = n
    BY <2>3, <2>4, AnswersIs, MatchIs
  <2>6. n \notin {"generate", "transient"}
    BY <2>2, StoreAssumption
  <2> QED BY <2>5, <2>6 DEF Agrees, announced
<1>3. CASE candidates # {} /\ Cardinality(latest) # 1
  <2>1. out = Answers(profiles, "transient", NoProfile)
    BY <1>3 DEF resolve_automatic
  <2>2. announced = Match("ambiguous", "none")
    BY <1>0, <1>3 DEF compute_profile_matches, ranked_profile_match
  <2> HIDE DEF announced
  <2>3. out.name = "transient" /\ announced.outcome = "ambiguous"
    BY <2>1, <2>2, AnswersIs, MatchIs
  <2> QED BY <2>3 DEF Agrees, announced
<1> QED BY <1>1, <1>2, <1>3

(* A session without a profile is planned for a port it announces none for.*)
LEMMA TransientAgrees ==
  ASSUME NEW pl, NEW ports, NEW profiles, IsFiniteSet(ports), pl.how = "transient",
         ~HighConfidence(pl.port) \/ Cardinality(Duplicates(pl.port, ports)) > 1
  PROVE  Agrees(pl, ports, profiles)
<1> DEFINE announced == compute_profile_matches(pl.port, ports, profiles)
<1>1. CASE ~HighConfidence(pl.port)
  <2>1. identity_confidence(pl.port) # "high"
    BY <1>1, ConfidenceIs
  <2>2. announced = weak_identity_profile_match(pl.port, profiles)
    BY <1>1 DEF compute_profile_matches
  <2>3. announced.outcome \in {"ineligible", "none"}
    BY <2>2, MatchIs DEF weak_identity_profile_match
  <2> HIDE DEF announced
  <2> QED BY <2>1, <2>3 DEF Agrees, announced
<1>2. CASE HighConfidence(pl.port) /\ Cardinality(Duplicates(pl.port, ports)) > 1
  <2>1. announced = Match("duplicate", "none")
    BY <1>2, DuplicatesCounted DEF compute_profile_matches
  <2>2. announced.outcome = "duplicate"
    BY <2>1, MatchIs
  <2> HIDE DEF announced
  <2> QED BY <2>2 DEF Agrees, announced
<1> QED BY <1>1, <1>2

(* A read shows the file unless it was replaced since, an open waits for   *)
(* the resolution of the port it recognised, and what it has planned       *)
(* agrees with the listing unless the file was replaced since.             *)
ReadShows(t) ==
  txn[t].stage = "answered" /\ txn[t].out.status = "noop" =>
    /\ txn[t].version \in Nat /\ txn[t].version <= file.version
    /\ txn[t].version = file.version => txn[t].snap = file.profiles
Resolving(t) == phase[t] = "planning" => Recognised(plan[t].port) /\ txn[t].req.port = plan[t].port
Planned(t) ==
  phase[t] = "planned" /\ Call(t).op = "open" =>
    /\ plan[t].version \in Nat /\ plan[t].version <= file.version
    /\ plan[t].version = file.version => Agrees(plan[t], work.ports, file.profiles)
PreviewInvariant == \A t \in Clients : ReadShows(t) /\ Resolving(t) /\ Planned(t)

(* A client that does nothing while the file stays or is replaced.         *)
FileGrows == UNCHANGED file \/ file'.version = file.version + 1
Rests(u) == txn'[u] = txn[u] /\ phase'[u] = phase[u] /\ plan'[u] = plan[u] /\ at'[u] = at[u]

LEMMA PreviewElsewhere ==
  ASSUME Shapes, UNCHANGED work, FileGrows, NEW u \in Clients, ReadShows(u), Resolving(u), Planned(u), Rests(u)
  PROVE  ReadShows(u)' /\ Resolving(u)' /\ Planned(u)'
<1> USE DEF Rests
<1>0. file.version \in Nat
  BY DEF Shapes, FileShape
<1>1. ReadShows(u)'
  BY <1>0 DEF ReadShows, FileGrows
<1>2. Resolving(u)'
  BY DEF Resolving, Recognised
<1>3. Call(u)' = Call(u)
  BY DEF Call
<1>4. CASE UNCHANGED file
  BY <1>1, <1>2, <1>3, <1>4 DEF Planned
<1>5. CASE file'.version = file.version + 1
  <2>1. phase[u] = "planned" /\ Call(u).op = "open" =>
          plan[u].version \in Nat /\ plan[u].version <= file'.version /\ plan[u].version # file'.version
    BY <1>0, <1>5 DEF Planned
  <2>2. Planned(u)'
    BY <1>3, <2>1 DEF Planned
  <2> QED BY <1>1, <1>2, <2>2
<1> QED BY <1>4, <1>5 DEF FileGrows

(* A client that goes on to something else than a plan.                    *)
LEMMA PreviewPast ==
  ASSUME NEW t \in Clients, phase'[t] \notin {"planning", "planned"}, ReadShows(t)'
  PROVE  ReadShows(t)' /\ Resolving(t)' /\ Planned(t)'
BY DEF Resolving, Planned

LEMMA PreviewTxn ==
  ASSUME StoreInvariant, SessionInvariant, PreviewInvariant, NEW t \in Clients, TxnStep(t), UNCHANGED sessions
  PROVE  ReadShows(t)' /\ Resolving(t)' /\ Planned(t)'
<1> USE DEF StoreInvariant
<1>1. /\ UNCHANGED <<work, phase, plan, at>> /\ txn[t].stage # "none"
      /\ txn'[t].req = txn[t].req
  BY DEF TxnStep, EnterMutation, AcquireAndLoad, Apply, WriteFails, Persist, Publish, sessions, Shapes, TxnShape
<1>2. Resolving(t)'
  BY <1>1 DEF PreviewInvariant, Resolving, Recognised
<1>3. Planned(t)'
  BY <1>1 DEF Attended, Waiting, Planned
<1>4. file.version \in Nat
  BY DEF Shapes, FileShape
<1>5. CASE EnterMutation(t) \/ AcquireAndLoad(t) \/ Persist(t)
  BY <1>2, <1>3, <1>5 DEF EnterMutation, AcquireAndLoad, Persist, Shapes, TxnShape, ReadShows
<1>6. CASE Apply(t)
  <2>1. txn[t].version = file.version /\ txn[t].snap = file.profiles /\ UNCHANGED file
    BY <1>6 DEF Apply, Exclusive
  <2>2. PICK x, st : Ends(t, st, x)
    BY <1>6 DEF Apply, Ends
  <2>3. txn'[t].snap = txn[t].snap /\ txn'[t].version = txn[t].version
    BY <2>2, TxnEnds
  <2> QED BY <1>2, <1>3, <1>4, <2>1, <2>3 DEF ReadShows
<1>7. CASE WriteFails(t)
  <2>1. PICK x : x.status = "err" /\ Ends(t, "answered", x)
    BY <1>7, FailsIs DEF WriteFails, Ends
  <2>2. txn'[t].out.status = "err"
    BY <2>1, TxnEnds
  <2> QED BY <1>2, <1>3, <2>2 DEF ReadShows
<1>8. CASE Publish(t)
  <2>1. txn'[t].out.status = "write"
    BY <1>8 DEF Publish, SessionInvariant, TxnsGood, TxnGood, Shapes, TxnShape
  <2> QED BY <1>2, <1>3, <2>1 DEF ReadShows
<1> QED BY <1>5, <1>6, <1>7, <1>8 DEF TxnStep

(* The plans of opens.                                                     *)
Plans(t) == PlanDisabled(t) \/ PlanTransient(t) \/ PlanSession(t) \/ PlanDone(t) \/ PlanExplicit(t)

LEMMA PreviewPlans ==
  ASSUME StoreInvariant, SessionInvariant, PreviewInvariant, NEW t \in Clients, Plans(t)
  PROVE  ReadShows(t)' /\ Resolving(t)' /\ Planned(t)'
<1> USE DEF StoreInvariant, SessionInvariant
<1>0. /\ file.version \in Nat /\ IsFiniteSet(work.ports) /\ DOMAIN phase = Clients
      /\ DOMAIN plan = Clients /\ DOMAIN txn = Clients
  BY StoreAssumption DEF Shapes, FileShape, PlansGood
<1>1. CASE PlanDisabled(t) \/ PlanExplicit(t)
  <2>1. /\ UNCHANGED <<work, file, txn>>
        /\ phase'[t] = "ready" \/ (phase'[t] = "planned" /\ UNCHANGED at /\ Call(t).op # "open")
    BY <1>0, <1>1 DEF PlanDisabled, PlanExplicit, PlanWithout, Goes, Done, Idle, store
  <2>2. phase'[t] = "planned" => Call(t)'.op # "open"
    BY <2>1 DEF Call
  <2> QED BY <2>1, <2>2 DEF PreviewInvariant, ReadShows, Resolving, Planned
<1>2. CASE PlanTransient(t)
  <2>1. PICK port : /\ PlanWithout(t, "transient", port)
                    /\ ~HighConfidence(port) \/ Cardinality(Duplicates(port, work.ports)) > 1
    <3>1. ~HighConfidence(NoPort)
      BY DEF HighConfidence, NoPort, AnySelector, SelectorFields, IdentityFields
    <3> QED BY <1>2, <3>1 DEF PlanTransient
  <2>2. /\ UNCHANGED <<work, file, txn>> /\ phase'[t] = "planned"
        /\ plan'[t].how = "transient" /\ plan'[t].port = port /\ plan'[t].version = file.version
    BY <1>0, <2>1 DEF PlanWithout, Goes, NoPlan, store
  <2>3. Agrees(plan'[t], work'.ports, file'.profiles)
    BY <1>0, <2>1, <2>2, TransientAgrees
  <2> QED BY <1>0, <2>2, <2>3 DEF PreviewInvariant, ReadShows, Resolving, Planned
<1>3. CASE PlanSession(t)
  <2>1. PICK port : /\ Recognised(port)
                    /\ plan' = [plan EXCEPT ![t] = [NoPlan EXCEPT !.port = port]]
                    /\ Submits(t, [Request("resolve", "none") EXCEPT !.port = port], "planning")
    BY <1>3 DEF PlanSession, Recognised
  <2>2. /\ phase'[t] = "planning" /\ UNCHANGED work /\ plan'[t].port = port
        /\ txn'[t].stage = "queued" /\ txn'[t].req.port = port
    BY <1>0, <1>3, <2>1 DEF PlanSession, Submits, Goes, Queued, NoTxn, NoPlan, Request, storeIdle
  <2> QED BY <2>1, <2>2 DEF ReadShows, Resolving, Planned, Recognised
<1>4. CASE PlanDone(t)
  <2> DEFINE out == txn[t].out
  <2>1. /\ phase[t] = "planning" /\ txn[t].stage = "answered" /\ UNCHANGED <<work, file>>
        /\ phase'[t] = "planned" /\ txn'[t].stage = "none"
    BY <1>0, <1>4 DEF PlanDone, Returns, Answered, Goes, Collected, NoTxn
  <2>2. /\ plan'[t].port = plan[t].port /\ plan'[t].name = out.name
        /\ plan'[t].how = IF out.name \in {"generate", "transient"} THEN out.name ELSE "profile"
        /\ plan'[t].version = txn[t].version
    BY <1>0, <1>4 DEF PlanDone, Result, NoPlan
  <2>3. txn[t].req.kind = "resolve"
    BY <2>1 DEF TxnsGood, TxnGood, Waiting, AskedBy
  <2>4. out = resolve_automatic(txn[t].req, txn[t].snap) /\ DOMAIN txn[t].snap \subseteq Names
    BY <2>1, <2>3 DEF TxnsGood, TxnGood
  <2>5. Recognised(plan[t].port) /\ txn[t].req.port = plan[t].port
    BY <2>1 DEF PreviewInvariant, Resolving
  <2>6. Agrees(plan'[t], work.ports, txn[t].snap)
    <3> DEFINE pl == plan'[t]
               req == txn[t].req
               snap == txn[t].snap
    <3>1. /\ DOMAIN snap \subseteq Names /\ HighConfidence(pl.port)
          /\ Cardinality(Duplicates(pl.port, work.ports)) <= 1
          /\ req.port = pl.port /\ out = resolve_automatic(req, snap) /\ pl.name = out.name
          /\ pl.how = IF out.name \in {"generate", "transient"} THEN out.name ELSE "profile"
      BY <2>2, <2>4, <2>5 DEF Recognised
    <3> HIDE DEF pl, req, snap, out
    <3>2. Agrees(pl, work.ports, snap)
      BY <1>0, <3>1, ResolveAgrees
    <3> QED BY <3>2 DEF pl, snap
  <2>7. out.status = "noop"
    BY <2>4, ResolveIs
  <2>8. /\ txn[t].version \in Nat /\ txn[t].version <= file.version
        /\ txn[t].version = file.version => txn[t].snap = file.profiles
    BY <2>1, <2>7 DEF PreviewInvariant, ReadShows
  <2>9. Planned(t)'
    BY <2>1, <2>2, <2>6, <2>8 DEF Planned
  <2> QED BY <2>1, <2>9 DEF ReadShows, Resolving
<1> QED BY <1>1, <1>2, <1>3, <1>4 DEF Plans

(* The other steps of sessions leave the plans alone.                      *)
LEMMA PlanMoves ==
  ASSUME NEW t \in Clients, OpenStep(t) \/ LearnStep(t) \/ ProfileStep(t)
  PROVE  \/ Plans(t)
         \/ \E to : phase' = [phase EXCEPT ![t] = to] /\ to \notin {"planning", "planned"}
<1>1. \/ Plans(t)
      \/ Done(t) \/ Goes(t, "attaching") \/ Goes(t, "learn") \/ Goes(t, "locking") \/ Goes(t, "learning")
      \/ Goes(t, "saving") \/ Goes(t, "storing") \/ Goes(t, "rolling")
  <2>1. CASE OpenStep(t)
    BY <2>1 DEF OpenStep, Plans, OpenConnection, AttachBinding, Submits
  <2>2. CASE LearnStep(t)
    BY <2>2 DEF LearnStep, lookup_connection, ConfigureConnection, Reconfigure, reconfigure, Close, NothingToLearn,
       Changes, FailsLocked, Learn, LearnDone, Submits
  <2>3. CASE ProfileStep(t)
    BY <2>3 DEF ProfileStep, Save, SaveDone, ConfigureProfile, DeleteProfile, ListFresh, Stored, RollbackProfile,
       RollbackDone, Submits
  <2> QED BY <2>1, <2>2, <2>3
<1> QED BY <1>1, GoesIs, DoneIs

LEMMA OthersRest ==
  ASSUME Shapes, SessionInvariant, NEW t \in Clients, OpenStep(t) \/ LearnStep(t) \/ ProfileStep(t),
         NEW u \in Clients \ {t}
  PROVE  Rests(u)
<1> USE DEF SessionInvariant
<1>1. txn'[u] = txn[u] /\ phase'[u] = phase[u]
  <2>1. \A req, to : Files(t, req, to) => txn'[u] = txn[u] /\ phase'[u] = phase[u]
    BY DEF Files, Queued, Shapes
  <2>2. \A to : Collected(t) /\ phase' = [phase EXCEPT ![t] = to] => txn'[u] = txn[u] /\ phase'[u] = phase[u]
    BY DEF Collected, Shapes
  <2>3. \A to : UNCHANGED store /\ phase' = [phase EXCEPT ![t] = to] => txn'[u] = txn[u] /\ phase'[u] = phase[u]
    BY DEF store, Shapes
  <2> QED BY <2>1, <2>2, <2>3, Requests
<1>2. UNCHANGED at \/ at' = [at EXCEPT ![t] = @ + 1]
  <2>1. CASE OpenStep(t)
    BY <2>1 DEF OpenStep, PlanDisabled, PlanTransient, PlanSession, PlanDone, PlanExplicit, PlanWithout,
       OpenConnection, AttachBinding, Submits, Goes, Done
  <2>2. CASE LearnStep(t)
    BY <2>2 DEF LearnStep, lookup_connection, ConfigureConnection, Reconfigure, reconfigure, Close, NothingToLearn,
       Changes, FailsLocked, Learn, LearnDone, Submits, Goes, Done
  <2>3. CASE ProfileStep(t)
    BY <2>3 DEF ProfileStep, Save, SaveDone, ConfigureProfile, DeleteProfile, ListFresh, Stored, RollbackProfile,
       RollbackDone, Submits, Goes, Done
  <2> QED BY <2>1, <2>2, <2>3
<1>3. at'[u] = at[u]
  BY <1>2 DEF Places
<1>4. UNCHANGED plan \/ \E x : plan' = [plan EXCEPT ![t] = x]
  <2>1. CASE OpenStep(t)
    BY <2>1 DEF OpenStep, PlanDisabled, PlanTransient, PlanSession, PlanDone, PlanExplicit, PlanWithout,
       OpenConnection, AttachBinding
  <2>2. CASE LearnStep(t)
    BY <2>2 DEF LearnStep, lookup_connection, ConfigureConnection, Reconfigure, reconfigure, Close, NothingToLearn,
       Changes, FailsLocked, Learn, LearnDone
  <2>3. CASE ProfileStep(t)
    BY <2>3 DEF ProfileStep, Save, SaveDone, ConfigureProfile, DeleteProfile, ListFresh, Stored, RollbackProfile,
       RollbackDone
  <2> QED BY <2>1, <2>2, <2>3
<1>5. plan'[u] = plan[u]
  BY <1>4 DEF PlansGood
<1> QED BY <1>1, <1>3, <1>5 DEF Rests

LEMMA PreviewStep ==
  ASSUME StoreInvariant, SessionInvariant, PreviewInvariant, [Next]_vars PROVE PreviewInvariant'
<1>0. Shapes /\ file.version \in Nat /\ \A u \in Clients : ReadShows(u) /\ Resolving(u) /\ Planned(u)
  BY DEF StoreInvariant, Shapes, FileShape, PreviewInvariant
<1> SUFFICES ASSUME NEW u \in Clients PROVE ReadShows(u)' /\ Resolving(u)' /\ Planned(u)'
  BY DEF PreviewInvariant
<1>1. ASSUME NEW t \in Clients, TxnStep(t), UNCHANGED sessions
      PROVE  ReadShows(u)' /\ Resolving(u)' /\ Planned(u)'
  <2>1. CASE u = t
    BY <1>1, <2>1, PreviewTxn
  <2>2. CASE u # t
    <3>1. Rests(u) /\ UNCHANGED work
      BY <1>0, <1>1, <2>2 DEF Rests, sessions, Shapes, TxnStep, EnterMutation, AcquireAndLoad, Apply, WriteFails,
         Persist, Publish
    <3>2. FileGrows
      BY <1>1 DEF FileGrows, TxnStep, EnterMutation, AcquireAndLoad, Apply, WriteFails, Persist, Publish, Shows
    <3> QED BY <1>0, <3>1, <3>2, PreviewElsewhere
  <2> QED BY <2>1, <2>2
<1>2. ASSUME NEW t \in Clients, OpenStep(t) \/ LearnStep(t) \/ ProfileStep(t)
      PROVE  ReadShows(u)' /\ Resolving(u)' /\ Planned(u)'
  <2>1. UNCHANGED <<work, file>>
    BY <1>0, <1>2, Requests DEF Files, storeIdle, store, Answered
  <2>2. CASE u # t
    BY <1>0, <1>2, <2>1, <2>2, OthersRest, PreviewElsewhere DEF FileGrows
  <2>3. CASE u = t /\ Plans(t)
    BY <2>3, PreviewPlans
  <2>4. CASE u = t /\ \E to : phase' = [phase EXCEPT ![t] = to] /\ to \notin {"planning", "planned"}
    <3>1. phase'[t] \notin {"planning", "planned"}
      BY <1>0, <2>4 DEF Shapes
    <3>2. txn'[t] = txn[t] \/ txn'[t].stage \in {"none", "queued"}
      <4>1. \A req, to : Files(t, req, to) => txn'[t].stage = "queued"
        BY <1>0 DEF Files, Queued, NoTxn, Shapes
      <4>2. Collected(t) => txn'[t].stage = "none"
        BY <1>0 DEF Collected, NoTxn, Shapes
      <4>3. UNCHANGED store => txn'[t] = txn[t]
        BY DEF store
      <4> QED BY <1>0, <1>2, <4>1, <4>2, <4>3, Requests
    <3>3. ReadShows(t)'
      BY <1>0, <2>1, <3>2 DEF ReadShows
    <3> QED BY <2>4, <3>1, <3>3, PreviewPast
  <2> QED BY <1>2, <2>2, <2>3, <2>4, PlanMoves
<1>3. ASSUME UNCHANGED <<work, file>>,
             \/ Rests(u)
             \/ phase'[u] \in {"gone", "ready"} /\ (txn'[u] = txn[u] \/ txn'[u].stage = "none")
      PROVE  ReadShows(u)' /\ Resolving(u)' /\ Planned(u)'
  <2>1. CASE Rests(u)
    BY <1>0, <1>3, <2>1, PreviewElsewhere DEF FileGrows
  <2>2. CASE phase'[u] \in {"gone", "ready"} /\ (txn'[u] = txn[u] \/ txn'[u].stage = "none")
    <3>1. ReadShows(u)'
      BY <1>0, <1>3, <2>2 DEF ReadShows
    <3> QED BY <2>2, <3>1, PreviewPast
  <2> QED BY <1>3, <2>1, <2>2
<1>4. ASSUME NEW t \in Clients, Drop(t) PROVE ReadShows(u)' /\ Resolving(u)' /\ Planned(u)'
  <2>1. UNCHANGED <<work, file>>
    BY <1>4 DEF Drop, Dropped
  <2>2. \/ Rests(u)
        \/ phase'[u] \in {"gone", "ready"} /\ (txn'[u] = txn[u] \/ txn'[u].stage = "none")
    BY <1>0, <1>4 DEF Drop, Dropped, NoTxn, Shapes, Rests
  <2> QED BY <1>3, <2>1, <2>2
<1>5. ASSUME NEW p \in Procs, Crash(p) PROVE ReadShows(u)' /\ Resolving(u)' /\ Planned(u)'
  <2>1. UNCHANGED <<work, file>>
    BY <1>5 DEF Crash, ProcessEnds
  <2>2. \/ Rests(u)
        \/ phase'[u] \in {"gone", "ready"} /\ (txn'[u] = txn[u] \/ txn'[u].stage = "none")
    BY <1>0, <1>5 DEF Crash, ProcessEnds, NoTxn, Shapes, Rests
  <2> QED BY <1>3, <2>1, <2>2
<1>6. ASSUME UNCHANGED <<work, file, txn, sessions>> PROVE ReadShows(u)' /\ Resolving(u)' /\ Planned(u)'
  BY <1>3, <1>6 DEF Rests, sessions
<1> QED BY <1>1, <1>2, <1>4, <1>5, <1>6 DEF Next, Restart, open, AllDone, vars, store

LEMMA PreviewInit ==
  ASSUME Init PROVE PreviewInvariant
BY DEF Init, PreviewInvariant, ReadShows, Resolving, Planned, NoTxn

(* The listing predicts the open (compute_profile_matches, plan_session,   *)
(* resolve_automatic), from a file that was not replaced in between.       *)
THEOREM PreviewAlwaysAgrees == Spec => []PreviewAgrees
<1>1. PreviewInvariant => PreviewAgrees
  BY DEF PreviewInvariant, Planned, PreviewAgrees, Agrees
<1> QED BY <1>1, SessionHolds, PreviewInit, PreviewStep, PTL DEF Spec

-----------------------------------------------------------------------------
(* Learning and the states it replaces.                                    *)

(* In f, profile n is not the one created as version i, or it is past      *)
(* revision r, or it still is at r and has been since version v or by the  *)
(* hand of one of who.                                                     *)
BoundIn(f, n, i, r, v, who) ==
  /\ i \in Nat /\ r \in Nat /\ v \in Nat /\ i <= f.version
  /\ n \in DOMAIN f.profiles /\ f.profiles[n].inc = i =>
       /\ f.profiles[n].revision >= r
       /\ f.profiles[n].revision = r => f.profiles[n].since <= v \/ f.profiles[n].author \in who
Seen(n, p, v) == BoundIn(file, n, p.inc, p.revision, v, {})
BoundTo(k, n, r) == BoundIn(file, n, conns[k].bound.inc, r, conns[k].bound.version, {k})

BindingBound(k) == conns[k].binding.persistent => BoundTo(k, conns[k].binding.name, conns[k].binding.revision)

(* What a transaction to learn expects and what it has written.            *)
Pending(t) == txn[t].stage # "none" /\ txn[t].req.kind = "learn"
Written(t) == txn[t].stage \in {"persisted", "answered"} /\ txn[t].out.status = "write"
LearningBound(t) ==
  Pending(t) => /\ txn[t].req.conn \in Conns
                /\ BoundTo(txn[t].req.conn, txn[t].req.name, txn[t].req.expected)
                /\ Written(t) => BoundTo(txn[t].req.conn, txn[t].req.name, txn[t].out.profile.revision)
LearnsOwn(t) ==
  phase[t] = "learning" =>
    /\ txn[t].req.conn = Call(t).conn
    /\ Conn(t).binding.persistent => Conn(t).binding.name = txn[t].req.name

(* What an open has seen of the profile it binds its connection to.        *)
PlanSeen(t) ==
  phase[t] \in {"planned", "attaching"} /\ plan[t].how = "profile" =>
    Seen(plan[t].name, plan[t].profile, plan[t].version)
AnswerSeen(t) ==
  /\ txn[t].stage = "answered" /\ txn[t].req.kind = "resolve" /\ txn[t].out.name \notin {"generate", "transient"} =>
       Seen(txn[t].out.name, txn[t].out.profile, txn[t].version)
  /\ Written(t) /\ txn[t].req.kind \in {"mark_used", "generate"} =>
       Seen(txn[t].out.name, txn[t].out.profile, txn[t].version + 1)
CacheSeen(p) == \A n \in DOMAIN cache[p].profiles : Seen(n, cache[p].profiles[n], cache[p].version)
Replaced(t) == txn[t].stage = "persisted" => txn[t].out.next = file.profiles

(* A connection is bound once, by the call that opens it.                  *)
Opening(t) == phase[t] \in {"planning", "planned", "attaching"}
Fresh(k) == ~conns[k].binding.persistent /\ \A t \in Clients : Pending(t) => txn[t].req.conn # k
OpensFresh(t) ==
  /\ Opening(t) => Opens(Call(t))
  /\ \A i \in 1 .. Len(work.scripts[t]) :
       Opens(work.scripts[t][i]) /\ (at[t] < i \/ (at[t] = i /\ (Opening(t) \/ phase[t] = "ready"))) =>
         Fresh(work.scripts[t][i].conn)

ConnsBound == \A k \in Conns : BindingBound(k)
LearnsBound == \A t \in Clients : LearningBound(t) /\ LearnsOwn(t)
OpensSeen == \A t \in Clients : PlanSeen(t) /\ AnswerSeen(t) /\ Replaced(t)
CachesSeen == \A p \in Procs : CacheSeen(p)
ConnsOnce == \A t \in Clients : OpensFresh(t)

BoundInvariant == ConnsBound /\ LearnsBound /\ OpensSeen /\ CachesSeen /\ ConnsOnce

(* What a replacement makes of each profile.                               *)
Grown(f, g) ==
  \/ g = f
  \/ /\ g.version = f.version + 1
     /\ \A n \in DOMAIN g.profiles :
          \/ g.profiles[n].inc = f.version + 1
          \/ /\ n \in DOMAIN f.profiles /\ g.profiles[n].inc = f.profiles[n].inc
             /\ \/ g.profiles[n].revision = f.profiles[n].revision + 1
                \/ /\ g.profiles[n].revision = f.profiles[n].revision
                   /\ g.profiles[n].since = f.profiles[n].since /\ g.profiles[n].author = f.profiles[n].author

LEMMA BoundGrows ==
  ASSUME NEW f, NEW g, f.version \in Nat, ProfilesOf(f.profiles, f.version), Grown(f, g),
         NEW n, NEW i, NEW r, NEW v, NEW who, BoundIn(f, n, i, r, v, who)
  PROVE  BoundIn(g, n, i, r, v, who)
<1>1. CASE g = f
  BY <1>1
<1>2. CASE g # f
  <2>1. g.version = f.version + 1 /\ i \in Nat /\ r \in Nat /\ v \in Nat /\ i <= f.version
    BY <1>2 DEF Grown, BoundIn
  <2>2. ASSUME n \in DOMAIN g.profiles, g.profiles[n].inc = i
        PROVE  /\ g.profiles[n].revision >= r
               /\ g.profiles[n].revision = r => g.profiles[n].since <= v \/ g.profiles[n].author \in who
    <3>1. n \in DOMAIN f.profiles /\ f.profiles[n].inc = i
      BY <1>2, <2>1, <2>2 DEF Grown
    <3>2. f.profiles[n].revision \in Nat
      BY <3>1 DEF ProfilesOf, ProfileOf
    <3>3. /\ f.profiles[n].revision >= r
          /\ f.profiles[n].revision = r => f.profiles[n].since <= v \/ f.profiles[n].author \in who
      BY <3>1 DEF BoundIn
    <3>4. \/ g.profiles[n].revision = f.profiles[n].revision + 1
          \/ /\ g.profiles[n].revision = f.profiles[n].revision
             /\ g.profiles[n].since = f.profiles[n].since /\ g.profiles[n].author = f.profiles[n].author
      BY <1>2, <2>1, <2>2 DEF Grown
    <3> QED BY <2>1, <3>2, <3>3, <3>4
  <2>3. i <= g.version
    BY <2>1
  <2> QED BY <2>1, <2>2, <2>3 DEF BoundIn
<1> QED BY <1>1, <1>2

(* What the task inside the lock is about to write.                        *)
LEMMA AboutToWrite ==
  ASSUME StoreInvariant, SessionInvariant, NEW t \in Clients, txn[t].stage = "writing"
  PROVE  /\ txn[t].snap = file.profiles /\ txn[t].version = file.version /\ file.version \in Nat
         /\ Asked(txn[t].req) /\ ProfilesOf(file.profiles, file.version)
         /\ txn[t].out = apply(txn[t].req, file.profiles, work.clock[ProcOf(t)], file.version + 1)
         /\ txn[t].out.status = "write" /\ txn[t].out.name \in Names
         /\ txn[t].req.kind \notin {"resolve", "list"}
         /\ txn[t].req.kind # "generate" => txn[t].out.name = txn[t].req.name
         /\ \/ /\ Created(file.profiles, txn[t].out, file.version + 1)
               /\ txn[t].req.kind \notin {"learn", "rollback", "mark_used"}
            \/ Deleted(file.profiles, txn[t].out) /\ txn[t].req.kind = "delete"
            \/ /\ IsRevised(file.profiles, txn[t].out, Author(txn[t].req), file.version + 1)
               /\ txn[t].req.kind \notin {"generate", "mark_used"}
            \/ Used(file.profiles, txn[t].out) /\ txn[t].req.kind = "mark_used"
<1> DEFINE req == txn[t].req
           snap == file.profiles
           v == file.version
           out == txn[t].out
           now == work.clock[ProcOf(t)]
<1>1. txn[t].snap = snap /\ txn[t].version = v /\ v \in Nat
  BY DEF StoreInvariant, Exclusive, Shapes, FileShape
<1>2. now \in Nat
  BY StoreAssumption DEF StoreInvariant, Shapes, ProcOf
<1>3. /\ Asked(req) /\ ProfilesOf(snap, v)
      /\ req.kind = "generate" => NameLeft(snap)
      /\ out = apply(req, snap, now, v + 1) /\ out.status = "write"
  BY <1>1 DEF SessionInvariant, TxnsGood, TxnGood, FileGood
<1> HIDE DEF req, snap, v, out, now
<1>4. /\ out.name \in Names /\ req.kind \notin {"resolve", "list"}
      /\ req.kind # "generate" => out.name = req.name
      /\ \/ Created(snap, out, v + 1) /\ req.kind \notin {"learn", "rollback", "mark_used"}
         \/ Deleted(snap, out) /\ req.kind = "delete"
         \/ IsRevised(snap, out, Author(req), v + 1) /\ req.kind \notin {"generate", "mark_used"}
         \/ Used(snap, out) /\ req.kind = "mark_used"
  BY <1>1, <1>2, <1>3, ApplyWrites
<1> QED BY <1>1, <1>3, <1>4 DEF req, snap, v, out, now

(* How the profile that is written comes from the one it replaces.         *)
Outdoes(profiles, out, author, v) ==
  /\ ProfileOf(out.profile, v)
  /\ \A m \in DOMAIN out.next : m = out.name \/ (m \in DOMAIN profiles /\ out.next[m] = profiles[m])
  /\ out.name \in DOMAIN out.next => out.next[out.name] = out.profile
  /\ \/ out.profile.inc = v
     \/ /\ out.name \in DOMAIN profiles /\ out.profile.inc = profiles[out.name].inc
        /\ \/ out.profile.revision = profiles[out.name].revision + 1 /\ out.profile.author = author
           \/ /\ out.profile.revision = profiles[out.name].revision
              /\ out.profile.since = profiles[out.name].since /\ out.profile.author = profiles[out.name].author

LEMMA WrittenOutdoes ==
  ASSUME NEW v \in Nat, NEW profiles, ProfilesOf(profiles, v), NEW out, NEW author,
         \/ Created(profiles, out, v + 1)
         \/ IsRevised(profiles, out, author, v + 1)
         \/ Used(profiles, out)
  PROVE  Outdoes(profiles, out, author, v + 1)
<1>1. /\ DOMAIN out.next = DOMAIN profiles \cup {out.name} /\ out.next[out.name] = out.profile
      /\ \A m \in DOMAIN profiles \ {out.name} : out.next[m] = profiles[m]
  BY WithNext DEF Created, IsRevised, Used
<1>2. CASE Created(profiles, out, v + 1)
  BY <1>1, <1>2 DEF Created, Outdoes
<1>3. CASE IsRevised(profiles, out, author, v + 1)
  <2>1. out.name \in DOMAIN profiles /\ ProfileOf(profiles[out.name], v)
    BY <1>3 DEF IsRevised, ProfilesOf
  <2>2. /\ ProfileOf(out.profile, v + 1) /\ OneRevision(profiles[out.name], out.profile)
        /\ out.profile.author = author
    BY <1>3, <2>1, RevisedIs DEF IsRevised
  <2> QED BY <1>1, <2>1, <2>2 DEF Outdoes, OneRevision
<1>4. CASE Used(profiles, out)
  <2>1. out.name \in DOMAIN profiles /\ ProfileOf(profiles[out.name], v)
    BY <1>4 DEF Used, ProfilesOf
  <2>2. /\ ProfileOf(out.profile, v + 1)
        /\ out.profile.revision = profiles[out.name].revision /\ out.profile.inc = profiles[out.name].inc
        /\ out.profile.since = profiles[out.name].since /\ out.profile.author = profiles[out.name].author
    BY <1>4, <2>1, UsedIs
  <2> QED BY <1>1, <2>1, <2>2 DEF Outdoes
<1> QED BY <1>2, <1>3, <1>4

LEMMA PersistGrows ==
  ASSUME StoreInvariant, SessionInvariant, NEW t \in Clients, Persist(t)
  PROVE  Grown(file, file')
<1> DEFINE out == txn[t].out
           author == Author(txn[t].req)
<1>1. /\ file' = Shows(file.version + 1, out.next) /\ file.version \in Nat /\ ProfilesOf(file.profiles, file.version)
      /\ \/ Created(file.profiles, out, file.version + 1)
         \/ Deleted(file.profiles, out)
         \/ IsRevised(file.profiles, out, author, file.version + 1)
         \/ Used(file.profiles, out)
  BY AboutToWrite DEF Persist
<1> HIDE DEF out, author
<1>2. file'.version = file.version + 1 /\ file'.profiles = out.next
  BY <1>1 DEF Shows
<1>3. CASE Deleted(file.profiles, out)
  BY <1>2, <1>3 DEF Deleted, Grown
<1>4. CASE Outdoes(file.profiles, out, author, file.version + 1)
  BY <1>2, <1>4 DEF Outdoes, Grown
<1> QED BY <1>1, <1>3, <1>4, WrittenOutdoes

LEMMA FileGrown ==
  ASSUME StoreInvariant, SessionInvariant, Next PROVE Grown(file, file')
BY FileMoves, PersistGrows DEF Grown

(* A binding that was made of nothing is bound.                            *)
LEMMA BoundToNothing ==
  ASSUME NEW f, f.version \in Nat, ProfilesOf(f.profiles, f.version), NEW n, NEW r \in Nat, NEW who
  PROVE  BoundIn(f, n, 0, r, 0, who)
BY DEF BoundIn, ProfilesOf, ProfileOf

(* A profile of the file was seen.                                         *)
LEMMA FileSeen ==
  ASSUME NEW f, f.version \in Nat, ProfilesOf(f.profiles, f.version), NEW n \in DOMAIN f.profiles
  PROVE  BoundIn(f, n, f.profiles[n].inc, f.profiles[n].revision, f.version, {})
<1>1. ProfileOf(f.profiles[n], f.version)
  BY DEF ProfilesOf
<1> QED BY <1>1 DEF BoundIn, ProfileOf

LEMMA SeenIsBound ==
  ASSUME NEW f, NEW n, NEW i, NEW r, NEW v, NEW who, BoundIn(f, n, i, r, v, {})
  PROVE  BoundIn(f, n, i, r, v, who)
BY DEF BoundIn

(* What is learned is learned from the revision that was expected.         *)
LEMMA LearnWrites ==
  ASSUME NEW req, req.kind = "learn", NEW profiles, NEW now, NEW v, NEW out, out = apply(req, profiles, now, v),
         out.status = "write"
  PROVE  req.name \in DOMAIN profiles /\ profiles[req.name].revision = req.expected
<1>1. out = update_learned_defaults(req, profiles, v)
  BY ApplyKinds
<1> QED BY <1>1, FailsIs DEF update_learned_defaults

(* Whose turn it is, as one client sees it.                                *)
Leaves(t) ==
  /\ at'[t] = at[t] /\ plan'[t] = plan[t] /\ (txn'[t] = txn[t] \/ txn'[t].stage = "none")
  /\ phase'[t] = "gone" \/ (phase'[t] = "ready" /\ phase[t] = "ready")
LEMMA Turns ==
  ASSUME StoreInvariant, SessionInvariant, Next, NEW u \in Clients
  PROVE  /\ UNCHANGED work
         /\ \/ Rests(u)
            \/ TxnStep(u) /\ UNCHANGED sessions
            \/ OpenStep(u) \/ LearnStep(u) \/ ProfileStep(u)
            \/ Leaves(u)
<1>0. Shapes
  BY DEF StoreInvariant
<1>1. ASSUME NEW t \in Clients, TxnStep(t), UNCHANGED sessions PROVE UNCHANGED work /\ (u # t => Rests(u))
  BY <1>0, <1>1 DEF Rests, sessions, Shapes, TxnStep, EnterMutation, AcquireAndLoad, Apply, WriteFails, Persist,
     Publish
<1>2. ASSUME NEW t \in Clients, OpenStep(t) \/ LearnStep(t) \/ ProfileStep(t)
      PROVE  UNCHANGED work /\ (u # t => Rests(u))
  <2>1. UNCHANGED work
    BY <1>0, <1>2, Requests DEF Files, storeIdle, Answered
  <2> QED BY <1>0, <1>2, <2>1, OthersRest
<1>3. ASSUME NEW t \in Clients, Drop(t) PROVE UNCHANGED work /\ (Rests(u) \/ Leaves(u))
  BY <1>0, <1>3 DEF Drop, Dropped, NoTxn, Shapes, Rests, Leaves
<1>4. ASSUME NEW p \in Procs, Crash(p) PROVE UNCHANGED work /\ (Rests(u) \/ Leaves(u))
  BY <1>0, <1>4 DEF Crash, ProcessEnds, NoTxn, Shapes, Rests, Leaves
<1>5. ASSUME UNCHANGED <<work, txn, sessions>> PROVE UNCHANGED work /\ Rests(u)
  BY <1>5 DEF Rests, sessions
<1> QED BY <1>1, <1>2, <1>3, <1>4, <1>5 DEF Next, Restart, open, AllDone, vars, store

LEMMA QueuedIs ==
  ASSUME Shapes, NEW t \in Clients, NEW req, Queued(t, req) PROVE txn'[t].stage = "queued" /\ txn'[t].req = req
<1>1. DOMAIN txn = Clients
  BY DEF Shapes
<1>2. txn'[t] = [NoTxn EXCEPT !.stage = "queued", !.req = req]
  BY <1>1 DEF Queued
<1> QED BY <1>2 DEF NoTxn

LEMMA LearnQueues ==
  ASSUME Shapes, NEW t \in Clients, Learn(t) PROVE txn'[t].stage = "queued"
<1>1. \E req : Queued(t, req)
  BY DEF Learn, Submits
<1> QED BY <1>1, QueuedIs

(* What becomes of a transaction of a client that acts itself.             *)
LEMMA ActorTxn ==
  ASSUME StoreInvariant, SessionInvariant, NEW t \in Clients, OpenStep(t) \/ LearnStep(t) \/ ProfileStep(t)
  PROVE  /\ UNCHANGED <<work, file, cache>>
         /\ \/ txn'[t] = txn[t] /\ phase'[t] # "learning"
            \/ txn'[t].stage = "none" /\ phase'[t] # "learning"
            \/ txn'[t].stage = "queued" /\ txn'[t].req.kind # "learn" /\ phase'[t] # "learning"
            \/ Learn(t)
<1>0. Shapes
  BY DEF StoreInvariant
<1>1. Learn(t) \/ \E to : phase' = [phase EXCEPT ![t] = to] /\ to # "learning"
  <2>1. \/ Learn(t)
        \/ Done(t) \/ Goes(t, "planning") \/ Goes(t, "planned") \/ Goes(t, "attaching") \/ Goes(t, "learn")
        \/ Goes(t, "locking") \/ Goes(t, "saving") \/ Goes(t, "storing") \/ Goes(t, "rolling")
    <3>1. CASE OpenStep(t)
      BY <3>1 DEF OpenStep, PlanDisabled, PlanTransient, PlanSession, PlanDone, PlanExplicit, PlanWithout,
         OpenConnection, AttachBinding, Submits
    <3>2. CASE LearnStep(t)
      BY <3>2 DEF LearnStep, lookup_connection, ConfigureConnection, Reconfigure, reconfigure, Close, NothingToLearn,
         Changes, FailsLocked, LearnDone
    <3>3. CASE ProfileStep(t)
      BY <3>3 DEF ProfileStep, Save, SaveDone, ConfigureProfile, DeleteProfile, ListFresh, Stored, RollbackProfile,
         RollbackDone, Submits
    <3> QED BY <3>1, <3>2, <3>3
  <2> QED BY <2>1, GoesIs, DoneIs
<1>2. Learn(t) \/ phase'[t] # "learning"
  BY <1>0, <1>1 DEF Shapes
<1>3. \A req, to : Files(t, req, to) => /\ txn'[t].stage = "queued" /\ txn'[t].req = req /\ phase'[t] = to
                                       /\ UNCHANGED <<work, file, cache>>
  <2> SUFFICES ASSUME NEW req, NEW to, Files(t, req, to)
               PROVE  /\ txn'[t].stage = "queued" /\ txn'[t].req = req /\ phase'[t] = to
                      /\ UNCHANGED <<work, file, cache>>
    OBVIOUS
  <2>1. Queued(t, req) /\ phase' = [phase EXCEPT ![t] = to] /\ UNCHANGED <<work, file, cache>>
    BY DEF Files, storeIdle
  <2>2. phase'[t] = to
    BY <1>0, <2>1 DEF Shapes
  <2> QED BY <1>0, <2>1, <2>2, QueuedIs
<1>4. \A req, to : Files(t, req, to) /\ to # "learning" => req.kind # "learn"
  BY DEF Files
<1>5. Answered(t) /\ Collected(t) => txn'[t].stage = "none" /\ UNCHANGED <<work, file, cache>>
  BY <1>0 DEF Answered, Collected, NoTxn, Shapes
<1>6. UNCHANGED <<work, store>> => txn'[t] = txn[t] /\ UNCHANGED <<work, file, cache>>
  BY DEF store
<1>7. \/ \E req, to : Files(t, req, to)
      \/ Answered(t) /\ Collected(t)
      \/ UNCHANGED <<work, store>>
  BY <1>0, Requests
<1> QED BY <1>2, <1>3, <1>4, <1>5, <1>6, <1>7

LEMMA TxnStepKeeps ==
  ASSUME Shapes, NEW t \in Clients, TxnStep(t)
  PROVE  txn'[t].req = txn[t].req /\ txn[t].stage # "none" /\ txn'[t].stage # "none"
BY DEF TxnStep, EnterMutation, AcquireAndLoad, Apply, WriteFails, Persist, Publish, Shapes, TxnShape

(* What becomes of the binding of a connection.                            *)
SameBound(k) == conns'[k].bound = conns[k].bound
SameBinding(k) ==
  /\ conns'[k].binding.persistent = conns[k].binding.persistent /\ conns'[k].binding.name = conns[k].binding.name
SameConn(k) == SameBound(k) /\ SameBinding(k) /\ conns'[k].binding.revision = conns[k].binding.revision
Unbound(k) == conns'[k].bound = Point(0, 0) /\ ~conns'[k].binding.persistent

LEMMA ConnMoves ==
  ASSUME StoreInvariant, SessionInvariant, Next, NEW k \in Conns
  PROVE  \/ SameConn(k) \/ Unbound(k)
         \/ \E t \in Clients : Call(t).conn = k /\ (AttachBinding(t) \/ LearnDone(t))
<1> USE DEF SessionInvariant, StoreInvariant
<1>0. /\ DOMAIN conns = Conns /\ DOMAIN conns[k] = {"open", "port", "live", "binding", "learning_lock", "bound"}
      /\ DOMAIN conns[k].binding = {"some", "persistent", "name", "revision", "dirty", "stale"}
  BY DEF ConnsGood, ConnGood
<1>1. ASSUME UNCHANGED conns PROVE SameConn(k)
  BY <1>1 DEF SameConn, SameBound, SameBinding
<1>2. ASSUME NEW t \in Clients, NEW x, WithConn(t, x), Call(t).conn # k PROVE SameConn(k)
  BY <1>0, <1>2 DEF WithConn, SameConn, SameBound, SameBinding
<1>3. ASSUME NEW t \in Clients, NEW x, WithConn(t, x), Call(t).conn = k, x.bound = Conn(t).bound,
             x.binding.persistent = Conn(t).binding.persistent, x.binding.name = Conn(t).binding.name,
             x.binding.revision = Conn(t).binding.revision
      PROVE  SameConn(k)
  BY <1>0, <1>3 DEF WithConn, SameConn, SameBound, SameBinding, Conn
<1>4. ASSUME NEW t \in Clients, OpenStep(t)
      PROVE  SameConn(k) \/ Unbound(k) \/ (AttachBinding(t) /\ Call(t).conn = k)
  <2>1. CASE OpenConnection(t)
    <3>1. \/ UNCHANGED conns
          \/ \E p, l, b : WithConn(t, [NoConn EXCEPT !.open = TRUE, !.port = p, !.live = l, !.binding.some = b])
      BY <2>1 DEF OpenConnection
    <3>2. ASSUME NEW p, NEW l, NEW b,
                 WithConn(t, [NoConn EXCEPT !.open = TRUE, !.port = p, !.live = l, !.binding.some = b])
          PROVE  SameConn(k) \/ Unbound(k)
      <4> DEFINE x == [NoConn EXCEPT !.open = TRUE, !.port = p, !.live = l, !.binding.some = b]
      <4>1. x.bound = Point(0, 0) /\ ~x.binding.persistent
        BY DEF NoConn, NoBinding
      <4>2. WithConn(t, x)
        BY <3>2
      <4> HIDE DEF x
      <4>3. Call(t).conn = k => conns'[k] = x
        BY <1>0, <4>2 DEF WithConn
      <4> QED BY <1>2, <4>1, <4>2, <4>3 DEF Unbound
    <3> QED BY <1>1, <3>1, <3>2
  <2>2. CASE AttachBinding(t)
    <3>1. \E x : WithConn(t, x)
      BY <2>2 DEF AttachBinding
    <3> QED BY <1>2, <2>2, <3>1
  <2> QED BY <1>1, <1>4, <2>1, <2>2 DEF OpenStep, PlanDisabled, PlanTransient, PlanSession, PlanDone, PlanExplicit,
       PlanWithout
<1>5. ASSUME NEW t \in Clients, LearnStep(t) PROVE SameConn(k) \/ (LearnDone(t) /\ Call(t).conn = k)
  <2>1. CASE LearnDone(t)
    <3>1. \E x : WithConn(t, x)
      BY <2>1 DEF LearnDone
    <3> QED BY <1>2, <2>1, <3>1
  <2>2. ASSUME NEW x, NEW l, Changes(t, x), Call(t).conn = k,
               x = Conn(t) \/ x = [Conn(t) EXCEPT !.live.setting = l] \/ x = [Conn(t) EXCEPT !.open = l]
        PROVE  SameConn(k)
    <3> DEFINE y == [x EXCEPT !.learning_lock = {t}]
    <3>1. Conn(t) = conns[k]
      BY <2>2 DEF Conn
    <3>2. x.bound = Conn(t).bound /\ x.binding = Conn(t).binding /\ DOMAIN x = DOMAIN Conn(t)
      BY <1>0, <2>2, <3>1
    <3>3. y.bound = Conn(t).bound /\ y.binding = Conn(t).binding
      BY <1>0, <3>1, <3>2
    <3>4. WithConn(t, y)
      BY <2>2 DEF Changes
    <3> HIDE DEF y
    <3> QED BY <1>3, <2>2, <3>3, <3>4
  <2>3. ASSUME NEW x, Changes(t, x), Call(t).conn # k PROVE SameConn(k)
    BY <1>2, <2>3 DEF Changes
  <2>4. CASE ConfigureConnection(t) \/ Reconfigure(t) \/ Close(t)
    <3>1. \/ UNCHANGED conns
          \/ Changes(t, [Conn(t) EXCEPT !.live.setting = Call(t).value])
          \/ Changes(t, [Conn(t) EXCEPT !.open = FALSE])
      BY <2>4 DEF ConfigureConnection, Reconfigure, reconfigure, Close, FailsLocked
    <3>2. CASE Changes(t, [Conn(t) EXCEPT !.live.setting = Call(t).value])
      <4> DEFINE x == [Conn(t) EXCEPT !.live.setting = Call(t).value]
      <4>1. Changes(t, x) /\ x = [Conn(t) EXCEPT !.live.setting = Call(t).value]
        BY <3>2
      <4> HIDE DEF x
      <4> QED BY <2>2, <2>3, <4>1
    <3>3. CASE Changes(t, [Conn(t) EXCEPT !.open = FALSE])
      <4> DEFINE x == [Conn(t) EXCEPT !.open = FALSE]
      <4>1. Changes(t, x) /\ x = [Conn(t) EXCEPT !.open = FALSE]
        BY <3>3
      <4> HIDE DEF x
      <4> QED BY <2>2, <2>3, <4>1
    <3> QED BY <1>1, <3>1, <3>2, <3>3
  <2>5. CASE NothingToLearn(t)
    <3> DEFINE x == [Unlocked(Conn(t), t) EXCEPT !.binding.dirty = @ \/ Conn(t).binding.stale]
    <3>1. WithConn(t, x)
      BY <2>5 DEF NothingToLearn
    <3>2. Call(t).conn = k =>
            /\ x.bound = Conn(t).bound /\ x.binding.persistent = Conn(t).binding.persistent
            /\ x.binding.name = Conn(t).binding.name /\ x.binding.revision = Conn(t).binding.revision
      BY <1>0 DEF Conn, Unlocked
    <3> HIDE DEF x
    <3> QED BY <1>2, <1>3, <3>1, <3>2
  <2> QED BY <1>1, <1>5, <2>1, <2>4, <2>5 DEF LearnStep, lookup_connection, Learn
<1>6. ASSUME NEW t \in Clients, ProfileStep(t) PROVE SameConn(k)
  <2>1. CASE Save(t) \/ SaveDone(t)
    <3>1. PICK x : WithConn(t, [Conn(t) EXCEPT !.learning_lock = x])
      BY <2>1 DEF Save, SaveDone, Unlocked
    <3> DEFINE y == [Conn(t) EXCEPT !.learning_lock = x]
    <3>2. WithConn(t, y)
      BY <3>1
    <3>3. Call(t).conn = k => y.bound = Conn(t).bound /\ y.binding = Conn(t).binding
      BY <1>0 DEF Conn
    <3> HIDE DEF y
    <3> QED BY <1>2, <1>3, <3>2, <3>3
  <2>2. CASE RollbackDone(t)
    <3>1. conns'[k] = conns[k] \/ conns'[k] = [conns[k] EXCEPT !.binding.stale = TRUE, !.binding.dirty = TRUE]
      BY <2>2 DEF RollbackDone
    <3> DEFINE x == [conns[k] EXCEPT !.binding.stale = TRUE, !.binding.dirty = TRUE]
    <3>2. /\ x.bound = conns[k].bound /\ x.binding.persistent = conns[k].binding.persistent
          /\ x.binding.name = conns[k].binding.name /\ x.binding.revision = conns[k].binding.revision
      BY <1>0
    <3>3. conns'[k] = conns[k] \/ conns'[k] = x
      BY <3>1
    <3> HIDE DEF x
    <3> QED BY <3>2, <3>3 DEF SameConn, SameBound, SameBinding
  <2> QED BY <1>1, <1>6, <2>1, <2>2
      DEF ProfileStep, ConfigureProfile, DeleteProfile, ListFresh, Stored, RollbackProfile
<1>7. ASSUME NEW t \in Clients, Drop(t) PROVE SameConn(k)
  <2>1. conns'[k] = Unlocked(conns[k], t)
    BY <1>7 DEF Drop
  <2> QED BY <1>0, <2>1 DEF Unlocked, SameConn, SameBound, SameBinding
<1>8. ASSUME NEW p \in Procs, Crash(p) PROVE SameConn(k) \/ Unbound(k)
  <2>1. conns'[k] = NoConn \/ conns'[k] = conns[k]
    BY <1>8 DEF Crash
  <2> QED BY <2>1 DEF SameConn, SameBound, SameBinding, Unbound, NoConn, NoBinding
<1> QED BY <1>1, <1>4, <1>5, <1>6, <1>7, <1>8 DEF Next, Restart, AllDone, vars, sessions

LEMMA LearnDoneIs ==
  ASSUME StoreInvariant, SessionInvariant, NEW t \in Clients, LearnDone(t), NEW k \in Conns, k = Call(t).conn
  PROVE  /\ SameBound(k) /\ SameBinding(k) /\ UNCHANGED file
         /\ phase[t] = "learning" /\ txn[t].stage = "answered"
         /\ \/ conns'[k].binding.revision = conns[k].binding.revision
            \/ txn[t].out.status = "write" /\ conns'[k].binding.revision = txn[t].out.profile.revision
<1> USE DEF SessionInvariant
<1>0. /\ DOMAIN conns = Conns /\ DOMAIN conns[k] = {"open", "port", "live", "binding", "learning_lock", "bound"}
      /\ DOMAIN conns[k].binding = {"some", "persistent", "name", "revision", "dirty", "stale"}
  BY DEF ConnsGood, ConnGood
<1>1. PICK d, s, r : /\ WithConn(t, [Unlocked(Conn(t), t) EXCEPT !.binding.dirty = d, !.binding.stale = s,
                                      !.binding.revision = r])
                     /\ r = IF txn[t].out.status = "write" THEN txn[t].out.profile.revision
                            ELSE Unlocked(Conn(t), t).binding.revision
  BY DEF LearnDone, Result
<1> DEFINE y == Unlocked(Conn(t), t)
           x == [y EXCEPT !.binding.dirty = d, !.binding.stale = s, !.binding.revision = r]
<1>2. /\ DOMAIN y = DOMAIN conns[k] /\ y.binding = conns[k].binding /\ y.bound = conns[k].bound
  BY <1>0 DEF Unlocked, Conn
<1>3. WithConn(t, x) /\ r = IF txn[t].out.status = "write" THEN txn[t].out.profile.revision ELSE y.binding.revision
  BY <1>1
<1> HIDE DEF y
<1>4. /\ x.bound = conns[k].bound /\ x.binding.persistent = conns[k].binding.persistent
      /\ x.binding.name = conns[k].binding.name /\ x.binding.revision = r
  BY <1>0, <1>2
<1> HIDE DEF x
<1>5. conns'[k] = x
  BY <1>0, <1>3 DEF WithConn
<1>6. phase[t] = "learning" /\ txn[t].stage = "answered" /\ UNCHANGED file
  BY DEF LearnDone, Returns, Answered
<1> QED BY <1>2, <1>3, <1>4, <1>5, <1>6 DEF SameBound, SameBinding

BoundFrom(k, n, p, v) ==
  /\ conns'[k].bound = Point(p.inc, v)
  /\ conns'[k].binding.name = n /\ conns'[k].binding.revision = p.revision
LEMMA AttachIs ==
  ASSUME StoreInvariant, SessionInvariant, NEW t \in Clients, AttachBinding(t), NEW k \in Conns, k = Call(t).conn
  PROVE  /\ phase[t] = "attaching" /\ txn[t].stage = "answered" /\ UNCHANGED file
         /\ \/ txn[t].out.status = "write" /\ BoundFrom(k, txn[t].out.name, txn[t].out.profile, txn[t].version + 1)
            \/ plan[t].how = "profile" /\ BoundFrom(k, plan[t].name, plan[t].profile, plan[t].version)
            \/ ~conns'[k].binding.persistent
<1> USE DEF SessionInvariant
<1>0. /\ DOMAIN conns = Conns /\ DOMAIN conns[k] = {"open", "port", "live", "binding", "learning_lock", "bound"}
  BY DEF ConnsGood, ConnGood
<1>1. phase[t] = "attaching" /\ txn[t].stage = "answered" /\ UNCHANGED file
  BY DEF AttachBinding, Returns, Answered
<1>2. ASSUME NEW n, NEW p, NEW v, NEW d,
             WithConn(t, [Conn(t) EXCEPT !.binding = persistent_binding(n, p, d), !.bound = Point(p.inc, v)])
      PROVE  BoundFrom(k, n, p, v)
  <2> DEFINE b == persistent_binding(n, p, d)
             q == Point(p.inc, v)
             x == [Conn(t) EXCEPT !.binding = b, !.bound = q]
  <2>1. b.name = n /\ b.revision = p.revision
    BY DEF persistent_binding
  <2>2. WithConn(t, x)
    BY <1>2
  <2> HIDE DEF b, q
  <2>3. x.binding = b /\ x.bound = q
    BY <1>0 DEF Conn
  <2> HIDE DEF x
  <2>4. conns'[k] = x
    BY <1>0, <2>2 DEF WithConn
  <2> QED BY <2>1, <2>3, <2>4 DEF BoundFrom, q
<1>3. ASSUME WithConn(t, [Conn(t) EXCEPT !.binding = [NoBinding EXCEPT !.some = TRUE]])
      PROVE  ~conns'[k].binding.persistent
  <2> DEFINE b == [NoBinding EXCEPT !.some = TRUE]
             x == [Conn(t) EXCEPT !.binding = b]
  <2>1. ~b.persistent
    BY DEF NoBinding
  <2>2. WithConn(t, x)
    BY <1>3
  <2> HIDE DEF b
  <2>3. x.binding = b
    BY <1>0 DEF Conn
  <2> HIDE DEF x
  <2>4. conns'[k] = x
    BY <1>0, <2>2 DEF WithConn
  <2> QED BY <2>1, <2>3, <2>4
<1> DEFINE out == txn[t].out
           pl == plan[t]
           answered == [Conn(t) EXCEPT !.binding = persistent_binding(out.name, out.profile, pl.dirty),
                                       !.bound = Point(out.profile.inc, txn[t].version + 1)]
           planned == [Conn(t) EXCEPT !.binding = persistent_binding(pl.name, pl.profile, pl.dirty),
                                      !.bound = Point(pl.profile.inc, pl.version)]
           transient == [Conn(t) EXCEPT !.binding = [NoBinding EXCEPT !.some = TRUE]]
<1>4. WithConn(t, CASE out.status = "write" -> answered
                    [] out.status = "err" /\ pl.how = "profile" -> planned
                    [] OTHER -> transient)
  BY DEF AttachBinding, Result
<1>5. \/ out.status = "write" /\ WithConn(t, answered)
      \/ pl.how = "profile" /\ WithConn(t, planned)
      \/ WithConn(t, transient)
  <2> HIDE DEF answered, planned, transient
  <2> QED BY <1>4
<1>6. CASE out.status = "write" /\ WithConn(t, answered)
  BY <1>1, <1>2, <1>6
<1>7. CASE pl.how = "profile" /\ WithConn(t, planned)
  BY <1>1, <1>2, <1>7
<1>8. CASE WithConn(t, transient)
  BY <1>1, <1>3, <1>8
<1> QED BY <1>5, <1>6, <1>7, <1>8

(* The connection somebody is learning for is not bound a second time.     *)
LEMMA OpenedOnce ==
  ASSUME StoreInvariant, SessionInvariant, ConnsOnce, NEW t \in Clients, Opening(t)
  PROVE  /\ at[t] \in 1 .. Len(work.scripts[t]) /\ Opens(Call(t)) /\ Call(t).conn \in Conns
         /\ Fresh(Call(t).conn)
<1>1. at[t] \in 1 .. Len(work.scripts[t]) /\ Call(t).conn \in Conns
  <2>1. at[t] <= Len(work.scripts[t])
    BY DEF SessionInvariant, Places, Opening
  <2> QED BY <2>1, CallTyped DEF StoreInvariant, SessionInvariant
<1>2. Opens(Call(t))
  BY DEF ConnsOnce, OpensFresh
<1>3. Fresh(Call(t).conn)
  BY <1>1, <1>2 DEF ConnsOnce, OpensFresh, Call
<1> QED BY <1>1, <1>2, <1>3

LEMMA PendingStays ==
  ASSUME StoreInvariant, SessionInvariant, ConnsOnce, Next, NEW t \in Clients, Pending(t),
         NEW k \in Conns, k = txn[t].req.conn
  PROVE  (SameBound(k) /\ SameBinding(k)) \/ Unbound(k)
<1>1. ASSUME NEW u \in Clients, AttachBinding(u), Call(u).conn = k PROVE FALSE
  <2>1. Opening(u)
    BY <1>1 DEF AttachBinding, Returns, Opening
  <2> QED BY <1>1, <2>1, OpenedOnce DEF Fresh
<1>2. ASSUME NEW u \in Clients, LearnDone(u), Call(u).conn = k PROVE SameBound(k) /\ SameBinding(k)
  BY <1>2, LearnDoneIs
<1> QED BY <1>1, <1>2, ConnMoves DEF SameConn

(* What is bound stays bound while the file is replaced.                   *)
LEMMA BoundStays ==
  ASSUME StoreInvariant, SessionInvariant, Next, NEW k \in Conns, NEW n, NEW r, BoundTo(k, n, r),
         SameBound(k) \/ Unbound(k)
  PROVE  BoundIn(file', n, conns'[k].bound.inc, r, conns'[k].bound.version, {k})
<1>1. /\ file.version \in Nat /\ ProfilesOf(file.profiles, file.version)
      /\ file'.version \in Nat /\ ProfilesOf(file'.profiles, file'.version)
  BY StoreStep, SessionStep DEF StoreInvariant, SessionInvariant, FileGood, Shapes, FileShape
<1>2. Grown(file, file')
  BY FileGrown
<1>3. CASE SameBound(k)
  <2>1. BoundIn(file', n, conns[k].bound.inc, r, conns[k].bound.version, {k})
    BY <1>1, <1>2, BoundGrows DEF BoundTo
  <2> QED BY <1>3, <2>1 DEF SameBound
<1>4. CASE Unbound(k)
  <2>1. r \in Nat
    BY DEF BoundTo, BoundIn
  <2>2. BoundIn(file', n, 0, r, 0, {k})
    BY <1>1, <2>1, BoundToNothing
  <2>3. conns'[k].bound.inc = 0 /\ conns'[k].bound.version = 0
    BY <1>4 DEF Unbound, Point
  <2> QED BY <2>2, <2>3
<1> QED BY <1>3, <1>4

LEMMA SeenStays ==
  ASSUME StoreInvariant, SessionInvariant, Next, NEW n, NEW p, NEW v, Seen(n, p, v)
  PROVE  BoundIn(file', n, p.inc, p.revision, v, {})
<1>1. file.version \in Nat /\ ProfilesOf(file.profiles, file.version) /\ Grown(file, file')
  BY FileGrown DEF StoreInvariant, SessionInvariant, FileGood, Shapes, FileShape
<1> QED BY <1>1, BoundGrows DEF Seen

LEMMA ConnsStayBound ==
  ASSUME StoreInvariant, SessionInvariant, BoundInvariant, Next PROVE ConnsBound'
<1> SUFFICES ASSUME NEW k \in Conns, conns'[k].binding.persistent
             PROVE  BoundIn(file', conns'[k].binding.name, conns'[k].bound.inc, conns'[k].binding.revision,
                            conns'[k].bound.version, {k})
  BY DEF ConnsBound, BindingBound, BoundTo
<1> USE DEF BoundInvariant
<1>1. CASE SameConn(k)
  <2>1. BoundTo(k, conns[k].binding.name, conns[k].binding.revision)
    BY <1>1 DEF ConnsBound, BindingBound, SameConn, SameBinding
  <2> DEFINE n == conns[k].binding.name
             r == conns[k].binding.revision
  <2>3. BoundIn(file', n, conns'[k].bound.inc, r, conns'[k].bound.version, {k})
    <3>1. Grown(file, file') /\ file.version \in Nat /\ ProfilesOf(file.profiles, file.version)
      BY FileGrown DEF StoreInvariant, SessionInvariant, FileGood, Shapes, FileShape
    <3>2. conns'[k].bound = conns[k].bound
      BY <1>1 DEF SameConn, SameBound
    <3> QED BY <2>1, <3>1, <3>2, BoundGrows DEF BoundTo
  <2> QED BY <1>1, <2>3 DEF SameConn, SameBinding
<1>2. CASE Unbound(k)
  BY <1>2 DEF Unbound
<1>3. ASSUME NEW t \in Clients, Call(t).conn = k, AttachBinding(t)
      PROVE  BoundIn(file', conns'[k].binding.name, conns'[k].bound.inc, conns'[k].binding.revision,
                            conns'[k].bound.version, {k})
  <2>1. phase[t] = "attaching" /\ txn[t].stage = "answered" /\ UNCHANGED file
    BY <1>3, AttachIs
  <2>2. ASSUME NEW n, NEW p, NEW v, BoundFrom(k, n, p, v), Seen(n, p, v)
        PROVE  BoundIn(file', conns'[k].binding.name, conns'[k].bound.inc, conns'[k].binding.revision,
                            conns'[k].bound.version, {k})
    <3>1. BoundIn(file, n, p.inc, p.revision, v, {k})
      BY <2>2, SeenIsBound DEF Seen
    <3>2. /\ conns'[k].bound.inc = p.inc /\ conns'[k].bound.version = v
          /\ conns'[k].binding.name = n /\ conns'[k].binding.revision = p.revision
      BY <2>2 DEF BoundFrom, Point
    <3> QED BY <2>1, <3>1, <3>2 DEF BoundTo
  <2>3. CASE /\ txn[t].out.status = "write"
             /\ BoundFrom(k, txn[t].out.name, txn[t].out.profile, txn[t].version + 1)
    <3>1. txn[t].req.kind \in {"mark_used", "generate"}
      BY <2>1 DEF SessionInvariant, TxnsGood, TxnGood, Waiting, AskedBy
    <3>2. Seen(txn[t].out.name, txn[t].out.profile, txn[t].version + 1)
      BY <2>1, <2>3, <3>1 DEF OpensSeen, AnswerSeen, Written
    <3> QED BY <2>2, <2>3, <3>2
  <2>4. CASE plan[t].how = "profile" /\ BoundFrom(k, plan[t].name, plan[t].profile, plan[t].version)
    <3>1. Seen(plan[t].name, plan[t].profile, plan[t].version)
      BY <2>1, <2>4 DEF OpensSeen, PlanSeen
    <3> QED BY <2>2, <2>4, <3>1
  <2> QED BY <1>3, <2>3, <2>4, AttachIs
<1>4. ASSUME NEW t \in Clients, Call(t).conn = k, LearnDone(t)
      PROVE  BoundIn(file', conns'[k].binding.name, conns'[k].bound.inc, conns'[k].binding.revision,
                            conns'[k].bound.version, {k})
  <2>1. /\ SameBound(k) /\ SameBinding(k) /\ UNCHANGED file
        /\ phase[t] = "learning" /\ txn[t].stage = "answered"
        /\ \/ conns'[k].binding.revision = conns[k].binding.revision
           \/ txn[t].out.status = "write" /\ conns'[k].binding.revision = txn[t].out.profile.revision
    BY <1>4, LearnDoneIs
  <2>2. conns[k].binding.persistent /\ BoundTo(k, conns[k].binding.name, conns[k].binding.revision)
    BY <2>1 DEF ConnsBound, BindingBound, SameBinding
  <2>3. Pending(t)
    BY <2>1 DEF Pending, SessionInvariant, TxnsGood, TxnGood, Waiting, AskedBy
  <2>4. txn[t].req.conn = k /\ conns[k].binding.name = txn[t].req.name
    BY <1>4, <2>1, <2>2 DEF LearnsBound, LearnsOwn, Conn
  <2>5. txn[t].out.status = "write" => BoundTo(k, conns[k].binding.name, txn[t].out.profile.revision)
    BY <2>1, <2>3, <2>4 DEF LearnsBound, LearningBound, Written
  <2>6. BoundTo(k, conns[k].binding.name, conns'[k].binding.revision)
    BY <2>1, <2>2, <2>5
  <2> QED BY <2>1, <2>6 DEF BoundTo, SameBound, SameBinding
<1> QED BY <1>1, <1>2, <1>3, <1>4, ConnMoves

(* The transactions to learn.                                              *)
LEMMA LearningStep ==
  ASSUME StoreInvariant, SessionInvariant, BoundInvariant, NEW t \in Clients, TxnStep(t), UNCHANGED sessions,
         Pending(t)
  PROVE  LearningBound(t)'
<1> USE DEF BoundInvariant
<1> DEFINE k == txn[t].req.conn
           n == txn[t].req.name
           e == txn[t].req.expected
<1>1. Shapes /\ UNCHANGED conns /\ txn'[t].req = txn[t].req /\ Next
  BY TxnStepKeeps DEF StoreInvariant, sessions, Next
<1>2. k \in Conns /\ BoundTo(k, n, e) /\ (Written(t) => BoundTo(k, n, txn[t].out.profile.revision))
  BY DEF LearnsBound, LearningBound
<1>3. Grown(file, file') /\ file.version \in Nat /\ ProfilesOf(file.profiles, file.version)
  BY <1>1, FileGrown DEF StoreInvariant, SessionInvariant, FileGood, Shapes, FileShape
<1>4. BoundIn(file', n, conns[k].bound.inc, e, conns[k].bound.version, {k})
  <2> HIDE DEF k, n, e
  <2>1. BoundIn(file, n, conns[k].bound.inc, e, conns[k].bound.version, {k})
    BY <1>2 DEF BoundTo
  <2> QED BY <1>3, <2>1, BoundGrows
<1>5. ASSUME Written(t)' =>
               BoundIn(file', n, conns[k].bound.inc, txn'[t].out.profile.revision, conns[k].bound.version, {k})
      PROVE  LearningBound(t)'
  BY <1>1, <1>2, <1>4, <1>5 DEF LearningBound, BoundTo
<1>6. CASE EnterMutation(t) \/ AcquireAndLoad(t)
  <2>1. txn'[t].stage \in {"blocking", "loaded"}
    BY <1>1, <1>6 DEF EnterMutation, AcquireAndLoad, Shapes, TxnShape
  <2> QED BY <1>5, <2>1 DEF Written
<1>7. CASE Apply(t)
  <2>1. PICK x : \/ x.status = "write" /\ Ends(t, "writing", x)
                 \/ x.status # "write" /\ Ends(t, "answered", x)
    BY <1>7 DEF Apply, Ends
  <2>2. txn'[t].stage = "writing" \/ txn'[t].out.status # "write"
    BY <1>1, <2>1, TxnEnds
  <2> QED BY <1>5, <2>2 DEF Written
<1>8. CASE WriteFails(t)
  <2>1. PICK x : x.status = "err" /\ Ends(t, "answered", x)
    BY <1>8, FailsIs DEF WriteFails, Ends
  <2>2. txn'[t].out.status = "err"
    BY <1>1, <2>1, TxnEnds
  <2> QED BY <1>5, <2>2 DEF Written
<1>9. CASE Publish(t)
  <2>1. Written(t) /\ txn'[t].out = txn[t].out /\ UNCHANGED file
    BY <1>1, <1>9 DEF Publish, Written, Shapes, TxnShape, SessionInvariant, TxnsGood, TxnGood
  <2> QED BY <1>2, <1>5, <2>1 DEF BoundTo
<1>10. CASE Persist(t)
  <2> DEFINE out == txn[t].out
  <2>1. /\ txn'[t].out = out /\ file' = Shows(file.version + 1, out.next)
    BY <1>1, <1>10 DEF Persist, Shapes, TxnShape
  <2>2. file'.version = file.version + 1 /\ file'.profiles = out.next
    BY <2>1 DEF Shows
  <2>3. IsRevised(file.profiles, out, Author(txn[t].req), file.version + 1) /\ out.name = n
    BY <1>10, AboutToWrite DEF Persist, Pending
  <2>4. Author(txn[t].req) = k
    BY DEF Author, Pending
  <2>5. out.name \in DOMAIN file.profiles /\ ProfileOf(file.profiles[out.name], file.version)
    BY <1>3, <2>3 DEF IsRevised, ProfilesOf
  <2> HIDE DEF out, k, n, e
  <2>6. ProfileOf(out.profile, file.version + 1) /\ out.profile.author = k
    BY <1>3, <2>3, <2>4, <2>5, RevisedIs DEF IsRevised
  <2>7. out.next[n] = out.profile
    BY <2>3, WithNext DEF IsRevised
  <2>8. out.profile.revision \in Nat
    BY <2>6 DEF ProfileOf
  <2>9. /\ conns[k].bound.inc \in Nat /\ conns[k].bound.version \in Nat
        /\ conns[k].bound.inc <= file'.version
    BY <1>4 DEF BoundIn
  <2>10. BoundIn(file', n, conns[k].bound.inc, out.profile.revision, conns[k].bound.version, {k})
    BY <2>2, <2>6, <2>7, <2>8, <2>9 DEF BoundIn
  <2> QED BY <1>5, <2>1, <2>10 DEF k, n
<1> QED BY <1>6, <1>7, <1>8, <1>9, <1>10 DEF TxnStep

LEMMA LearnsStayBound ==
  ASSUME StoreInvariant, SessionInvariant, BoundInvariant, Next PROVE LearnsBound'
<1> USE DEF BoundInvariant
<1> SUFFICES ASSUME NEW t \in Clients PROVE LearningBound(t)' /\ LearnsOwn(t)'
  BY DEF LearnsBound
<1>0. LearningBound(t) /\ LearnsOwn(t) /\ Shapes /\ UNCHANGED work
  BY Turns DEF LearnsBound, StoreInvariant
<1>1. ASSUME txn'[t] = txn[t] PROVE LearningBound(t)'
  <2> SUFFICES ASSUME Pending(t) PROVE LearningBound(t)'
    BY <1>1 DEF LearningBound, Pending
  <2> DEFINE k == txn[t].req.conn
             n == txn[t].req.name
             e == txn[t].req.expected
             r == txn[t].out.profile.revision
  <2>1. k \in Conns /\ BoundTo(k, n, e) /\ (Written(t) => BoundTo(k, n, r))
    BY <1>0 DEF LearningBound
  <2>2. SameBound(k) \/ Unbound(k)
    BY <2>1, PendingStays
  <2> HIDE DEF k, n, e, r
  <2>3. BoundIn(file', n, conns'[k].bound.inc, e, conns'[k].bound.version, {k})
    BY <2>1, <2>2, BoundStays
  <2>4. Written(t) => BoundIn(file', n, conns'[k].bound.inc, r, conns'[k].bound.version, {k})
    BY <2>1, <2>2, BoundStays
  <2> QED BY <1>1, <2>1, <2>3, <2>4 DEF k, n, e, r, LearningBound, BoundTo, Written
<1>2. ASSUME txn'[t].stage = "none" PROVE LearningBound(t)'
  BY <1>2 DEF LearningBound, Pending
<1>3. ASSUME phase'[t] # "learning" PROVE LearnsOwn(t)'
  BY <1>3 DEF LearnsOwn
<1>4. ASSUME phase'[t] = phase[t], at'[t] = at[t], txn'[t].req = txn[t].req PROVE LearnsOwn(t)'
  <2> SUFFICES ASSUME phase[t] = "learning" PROVE LearnsOwn(t)'
    BY <1>4 DEF LearnsOwn
  <2> DEFINE k == txn[t].req.conn
  <2>1. Pending(t)
    BY DEF Pending, SessionInvariant, TxnsGood, TxnGood, Waiting, AskedBy
  <2>2. k \in Conns /\ k = Call(t).conn /\ (conns[k].binding.persistent => conns[k].binding.name = txn[t].req.name)
    BY <1>0, <2>1 DEF LearningBound, LearnsOwn, Conn
  <2>3. SameBinding(k) \/ Unbound(k)
    BY <2>1, <2>2, PendingStays
  <2>4. Call(t)' = Call(t)
    BY <1>0, <1>4 DEF Call
  <2>5. conns'[k].binding.persistent => conns'[k].binding.name = txn[t].req.name
    BY <2>2, <2>3 DEF SameBinding, Unbound
  <2> QED BY <1>4, <2>2, <2>4, <2>5 DEF LearnsOwn, Conn
<1>5. CASE Rests(t)
  BY <1>1, <1>4, <1>5 DEF Rests
<1>6. CASE Leaves(t)
  BY <1>1, <1>2, <1>3, <1>6 DEF Leaves
<1>7. CASE TxnStep(t) /\ UNCHANGED sessions
  <2>1. LearnsOwn(t)'
    BY <1>0, <1>4, <1>7, TxnStepKeeps DEF sessions
  <2>2. CASE Pending(t)
    BY <1>7, <2>1, <2>2, LearningStep
  <2>3. CASE ~Pending(t)
    BY <1>0, <1>7, <2>1, <2>3, TxnStepKeeps DEF LearningBound, Pending
  <2> QED BY <2>2, <2>3
<1>8. CASE Learn(t)
  <2> DEFINE k == Call(t).conn
  <2>1. at[t] <= Len(work.scripts[t])
    BY <1>8 DEF Learn, SessionInvariant, Places
  <2>2. k \in Conns
    BY <1>0, <2>1, CallTyped DEF SessionInvariant
  <2>3. BoundTo(k, conns[k].binding.name, conns[k].binding.revision)
    BY <1>8, <2>2 DEF Learn, Conn, ConnsBound, BindingBound
  <2>4. /\ txn'[t].stage = "queued" /\ txn'[t].req.conn = k /\ txn'[t].req.name = conns[k].binding.name
        /\ txn'[t].req.expected = conns[k].binding.revision
    BY <1>0, <1>8 DEF Learn, Submits, Queued, NoTxn, Request, Shapes, Conn
  <2>5. UNCHANGED <<work, conns, file, at>>
    BY <1>8 DEF Learn, Submits, Goes, storeIdle
  <2>6. Call(t)' = Call(t)
    BY <2>5 DEF Call
  <2>7. LearningBound(t)'
    BY <2>2, <2>3, <2>4, <2>5 DEF LearningBound, BoundTo, Written
  <2>8. LearnsOwn(t)'
    BY <2>4, <2>5, <2>6 DEF LearnsOwn, Conn
  <2> QED BY <2>7, <2>8
<1>9. CASE (OpenStep(t) \/ LearnStep(t) \/ ProfileStep(t)) /\ ~Learn(t)
  <2>1. /\ phase'[t] # "learning"
        /\ txn'[t] = txn[t] \/ txn'[t].stage = "none" \/ txn'[t].req.kind # "learn"
    BY <1>9, ActorTxn
  <2> QED BY <1>1, <1>2, <1>3, <2>1 DEF LearningBound, Pending
<1> QED BY <1>5, <1>6, <1>7, <1>8, <1>9, Turns

(* Where the steps go that are not about planning an open.                *)
LEMMA PastOpening ==
  ASSUME NEW t \in Clients, AttachBinding(t) \/ LearnStep(t) \/ ProfileStep(t)
  PROVE  \/ Done(t) \/ Goes(t, "learn") \/ Goes(t, "locking") \/ Goes(t, "learning")
         \/ Goes(t, "saving") \/ Goes(t, "storing") \/ Goes(t, "rolling")
<1>1. CASE AttachBinding(t)
  BY <1>1 DEF AttachBinding
<1>2. CASE LearnStep(t)
  BY <1>2 DEF LearnStep, lookup_connection, ConfigureConnection, Reconfigure, reconfigure, Close, NothingToLearn,
     Changes, FailsLocked, Learn, LearnDone, Submits
<1>3. CASE ProfileStep(t)
  BY <1>3 DEF ProfileStep, Save, SaveDone, ConfigureProfile, DeleteProfile, ListFresh, Stored, RollbackProfile,
     RollbackDone, Submits
<1> QED BY <1>1, <1>2, <1>3

(* What opens have seen.                                                   *)
LEMMA PlansSeen ==
  ASSUME StoreInvariant, SessionInvariant, BoundInvariant, Next, NEW t \in Clients PROVE PlanSeen(t)'
<1> USE DEF BoundInvariant
<1>0. /\ DOMAIN phase = Clients /\ DOMAIN plan = Clients /\ PlanSeen(t) /\ AnswerSeen(t)
      /\ DOMAIN plan[t] = {"how", "port", "name", "profile", "version", "dirty"}
  BY DEF StoreInvariant, SessionInvariant, Shapes, PlansGood, PlanGood, OpensSeen
<1>1. ASSUME phase'[t] \notin {"planned", "attaching"} PROVE PlanSeen(t)'
  BY <1>1 DEF PlanSeen
<1>2. ASSUME phase[t] \in {"planned", "attaching"}, plan'[t].how = plan[t].how, plan'[t].name = plan[t].name,
             plan'[t].profile = plan[t].profile, plan'[t].version = plan[t].version
      PROVE  PlanSeen(t)'
  <2> SUFFICES ASSUME plan[t].how = "profile" PROVE PlanSeen(t)'
    BY <1>2 DEF PlanSeen
  <2> DEFINE n == plan[t].name
             p == plan[t].profile
             v == plan[t].version
  <2>1. Seen(n, p, v)
    BY <1>0, <1>2 DEF PlanSeen
  <2> HIDE DEF n, p, v
  <2>2. BoundIn(file', n, p.inc, p.revision, v, {})
    BY <2>1, SeenStays
  <2> QED BY <1>2, <2>2 DEF PlanSeen, Seen, n, p, v
<1>3. CASE Rests(t) \/ UNCHANGED sessions
  BY <1>1, <1>2, <1>3 DEF Rests, sessions
<1>4. CASE Leaves(t)
  BY <1>1, <1>4 DEF Leaves
<1>5. CASE PlanDisabled(t) \/ PlanTransient(t)
  <2>1. plan'[t].how \in {"disabled", "transient"}
    <3>1. PICK how, port : how \in {"disabled", "transient"} /\ PlanWithout(t, how, port)
      BY <1>5 DEF PlanDisabled, PlanTransient
    <3>2. plan'[t] = [NoPlan EXCEPT !.how = how, !.port = port, !.version = file.version]
      BY <1>0, <3>1 DEF PlanWithout
    <3> QED BY <3>1, <3>2 DEF NoPlan
  <2> QED BY <2>1 DEF PlanSeen
<1>6. CASE PlanSession(t)
  <2>1. phase'[t] = "planning"
    BY <1>0, <1>6 DEF PlanSession, Submits, Goes
  <2> QED BY <1>1, <2>1
<1>7. CASE PlanDone(t)
  <2> DEFINE out == txn[t].out
  <2>1. phase[t] = "planning" /\ txn[t].stage = "answered" /\ UNCHANGED file
    BY <1>7 DEF PlanDone, Returns, Answered
  <2>2. /\ plan'[t].name = out.name /\ plan'[t].profile = out.profile /\ plan'[t].version = txn[t].version
        /\ plan'[t].how = IF out.name \in {"generate", "transient"} THEN out.name ELSE "profile"
    BY <1>0, <1>7 DEF PlanDone, Result, NoPlan
  <2>3. txn[t].req.kind = "resolve"
    BY <2>1 DEF SessionInvariant, TxnsGood, TxnGood, Waiting, AskedBy
  <2>4. plan'[t].how = "profile" => out.name \notin {"generate", "transient"}
    BY <2>2
  <2>5. plan'[t].how = "profile" => Seen(out.name, out.profile, txn[t].version)
    BY <1>0, <2>1, <2>3, <2>4 DEF AnswerSeen
  <2> HIDE DEF out
  <2> QED BY <2>1, <2>2, <2>5 DEF PlanSeen, Seen
<1>8. CASE PlanExplicit(t)
  <2> DEFINE n == Call(t).name
             shown == cache[ProcOf(t)]
  <2>1. UNCHANGED file
    BY <1>8 DEF PlanExplicit, store
  <2>2. ProcOf(t) \in Procs
    BY StoreAssumption DEF StoreInvariant, Shapes, ProcOf
  <2>3. PICK matched : /\ matched = {p \in work.ports : /\ n \in DOMAIN shown.profiles
                                                       /\ matches(shown.profiles[n].selector, p)}
                       /\ IF Cardinality(matched) = 1
                          THEN /\ plan' = [plan EXCEPT ![t] = [how |-> "profile", name |-> n, dirty |-> FALSE,
                                             port |-> CHOOSE p \in matched : TRUE,
                                             profile |-> shown.profiles[n], version |-> shown.version]]
                               /\ Goes(t, "planned")
                          ELSE Done(t) /\ UNCHANGED plan
    BY <1>8 DEF PlanExplicit
  <2>4. CASE Cardinality(matched) # 1
    <3>1. phase'[t] = "ready"
      BY <1>0, <2>3, <2>4, DoneIs
    <3> QED BY <1>1, <3>1
  <2>5. CASE Cardinality(matched) = 1
    <3>1. n \in DOMAIN shown.profiles
      <4>1. matched # {}
        BY <2>5, FS_EmptySet
      <4> QED BY <2>3, <4>1
    <3>2. Seen(n, shown.profiles[n], shown.version)
      BY <2>2, <3>1 DEF CachesSeen, CacheSeen
    <3>3. plan'[t].name = n /\ plan'[t].profile = shown.profiles[n] /\ plan'[t].version = shown.version
      BY <1>0, <2>3, <2>5
    <3> HIDE DEF n, shown
    <3> QED BY <2>1, <3>2, <3>3 DEF PlanSeen, Seen
  <2> QED BY <2>4, <2>5
<1>9. CASE OpenConnection(t)
  <2>1. phase[t] = "planned" /\ (UNCHANGED plan \/ \E d : plan' = [plan EXCEPT ![t].dirty = d])
    BY <1>9 DEF OpenConnection
  <2>2. /\ plan'[t].how = plan[t].how /\ plan'[t].name = plan[t].name
        /\ plan'[t].profile = plan[t].profile /\ plan'[t].version = plan[t].version
    BY <1>0, <2>1
  <2> QED BY <1>2, <2>1, <2>2
<1>10. CASE AttachBinding(t) \/ LearnStep(t) \/ ProfileStep(t)
  <2>1. \/ Done(t) \/ Goes(t, "learn") \/ Goes(t, "locking") \/ Goes(t, "learning")
        \/ Goes(t, "saving") \/ Goes(t, "storing") \/ Goes(t, "rolling")
    BY <1>10, PastOpening
  <2>2. phase'[t] \notin {"planned", "attaching"}
    BY <1>0, <2>1, GoesIs, DoneIs
  <2> QED BY <1>1, <2>2
<1> QED BY <1>3, <1>4, <1>5, <1>6, <1>7, <1>8, <1>9, <1>10, Turns DEF OpenStep

LEMMA ReplacedStays ==
  ASSUME StoreInvariant, SessionInvariant, BoundInvariant, Next, NEW t \in Clients PROVE Replaced(t)'
<1>0. Shapes /\ Replaced(t)
  BY DEF StoreInvariant, BoundInvariant, OpensSeen
<1>1. ASSUME txn'[t] = txn[t] PROVE Replaced(t)'
  <2> SUFFICES ASSUME txn[t].stage = "persisted" PROVE UNCHANGED file
    BY <1>0, <1>1 DEF Replaced
  <2>1. ASSUME NEW u \in Clients, Persist(u) PROVE FALSE
    <3>1. u = t
      BY <2>1 DEF Persist, StoreInvariant, Exclusive
    <3> QED BY <2>1, <3>1 DEF Persist
  <2> QED BY <2>1, FileMoves
<1>2. ASSUME txn'[t].stage # "persisted" PROVE Replaced(t)'
  BY <1>2 DEF Replaced
<1>3. CASE Rests(t) \/ Leaves(t)
  BY <1>1, <1>2, <1>3 DEF Rests, Leaves
<1>4. CASE OpenStep(t) \/ LearnStep(t) \/ ProfileStep(t)
  <2>1. Learn(t) => txn'[t].stage = "queued"
    BY <1>0, LearnQueues
  <2> QED BY <1>1, <1>2, <1>4, <2>1, ActorTxn
<1>5. CASE Persist(t)
  <2>1. file'.profiles = txn[t].out.next
    BY <1>5 DEF Persist, Shows
  <2>2. txn'[t].out = txn[t].out
    BY <1>0, <1>5 DEF Persist, Shapes, TxnShape
  <2> QED BY <2>1, <2>2 DEF Replaced
<1>6. CASE EnterMutation(t) \/ AcquireAndLoad(t) \/ Apply(t) \/ WriteFails(t) \/ Publish(t)
  <2>1. txn'[t].stage \in {"blocking", "loaded", "writing", "answered"}
    BY <1>0, <1>6 DEF EnterMutation, AcquireAndLoad, Apply, WriteFails, Publish, Shapes, TxnShape
  <2> QED BY <1>2, <2>1
<1> QED BY <1>3, <1>4, <1>5, <1>6, Turns DEF TxnStep

LEMMA AnswersSeen ==
  ASSUME StoreInvariant, SessionInvariant, BoundInvariant, Next, NEW t \in Clients PROVE AnswerSeen(t)'
<1>0. Shapes /\ AnswerSeen(t)
  BY DEF StoreInvariant, BoundInvariant, OpensSeen
<1> DEFINE n == txn[t].out.name
           p == txn[t].out.profile
           v == txn[t].version
<1>1. ASSUME txn'[t].stage = txn[t].stage \/ txn[t].stage = "persisted", txn'[t].out = txn[t].out,
             txn'[t].version = txn[t].version, txn'[t].req = txn[t].req, txn[t].stage \in {"persisted", "answered"}
      PROVE  AnswerSeen(t)'
  <2>1. /\ txn'[t].req.kind = "resolve" => txn[t].stage = "answered"
        /\ Written(t)' => Written(t)
    BY <1>1 DEF Written, SessionInvariant, TxnsGood, TxnGood
  <2> HIDE DEF n, p, v
  <2>2. \A w : Seen(n, p, w) => BoundIn(file', n, p.inc, p.revision, w, {})
    BY SeenStays
  <2> QED BY <1>0, <1>1, <2>1, <2>2 DEF AnswerSeen, Seen, n, p, v
<1>2. ASSUME txn'[t].stage \notin {"persisted", "answered"} PROVE AnswerSeen(t)'
  BY <1>2 DEF AnswerSeen, Written
<1>3. CASE Rests(t) \/ Leaves(t)
  BY <1>1, <1>2, <1>3 DEF Rests, Leaves
<1>4. CASE OpenStep(t) \/ LearnStep(t) \/ ProfileStep(t)
  <2>1. Learn(t) => txn'[t].stage = "queued"
    BY <1>0, LearnQueues
  <2> QED BY <1>1, <1>2, <1>4, <2>1, ActorTxn
<1>5. CASE EnterMutation(t) \/ AcquireAndLoad(t)
  <2>1. txn'[t].stage \in {"blocking", "loaded"}
    BY <1>0, <1>5 DEF EnterMutation, AcquireAndLoad, Shapes, TxnShape
  <2> QED BY <1>2, <2>1
<1>6. CASE Apply(t) \/ WriteFails(t)
  <2>1. PICK x : \/ x.status = "write" /\ Ends(t, "writing", x)
                 \/ x.status # "write" /\ Ends(t, "answered", x)
    BY <1>6, FailsIs DEF Apply, WriteFails, Ends
  <2>2. CASE x.status = "write"
    BY <1>0, <1>2, <2>1, <2>2, TxnEnds
  <2>3. CASE x.status # "write"
    <3>1. txn'[t].stage = "answered" /\ txn'[t].out.status # "write" /\ UNCHANGED file
          /\ txn'[t].snap = txn[t].snap /\ txn'[t].version = txn[t].version
      BY <1>0, <1>6, <2>1, <2>3, TxnEnds DEF Apply, WriteFails
    <3>2. txn[t].snap = file.profiles /\ txn[t].version = file.version
      BY <1>6 DEF Apply, WriteFails, StoreInvariant, Exclusive
    <3>3. SessionInvariant'
      BY SessionStep
    <3> DEFINE m == txn'[t].out.name
               q == txn'[t].out.profile
    <3> SUFFICES ASSUME txn'[t].req.kind = "resolve", m \notin {"generate", "transient"}
                 PROVE  BoundIn(file, m, q.inc, q.revision, file.version, {})
      BY <3>1, <3>2 DEF AnswerSeen, Seen, Written
    <3>4. txn'[t].out = resolve_automatic(txn'[t].req, file.profiles)
      BY <3>1, <3>2, <3>3 DEF SessionInvariant, TxnsGood, TxnGood
    <3>5. m \in DOMAIN file.profiles /\ q = file.profiles[m]
      BY <3>4, ResolveIs
    <3>6. file.version \in Nat /\ ProfilesOf(file.profiles, file.version)
      BY <1>0 DEF SessionInvariant, FileGood, Shapes, FileShape
    <3> HIDE DEF m, q
    <3> QED BY <3>5, <3>6, FileSeen
  <2> QED BY <2>2, <2>3
<1>7. CASE Publish(t)
  <2>1. /\ txn[t].stage = "persisted" /\ txn'[t].out = txn[t].out /\ txn'[t].version = txn[t].version
        /\ txn'[t].req = txn[t].req
    BY <1>0, <1>7 DEF Publish, Shapes, TxnShape
  <2> QED BY <1>1, <2>1
<1>8. CASE Persist(t)
  <2>1. /\ txn'[t].stage = "persisted" /\ txn'[t].out = txn[t].out /\ txn'[t].version = txn[t].version
        /\ txn'[t].req = txn[t].req
    BY <1>0, <1>8 DEF Persist, Shapes, TxnShape
  <2>2. file' = Shows(file.version + 1, txn[t].out.next)
    BY <1>8 DEF Persist
  <2>3. file'.version = v + 1 /\ file'.profiles = txn[t].out.next /\ file'.version \in Nat
    BY <1>8, <2>2, AboutToWrite DEF Persist, Shows
  <2>4. ProfilesOf(file'.profiles, file'.version)
    BY SessionStep DEF SessionInvariant, FileGood
  <2>5. ASSUME txn[t].req.kind \in {"mark_used", "generate"} PROVE n \in DOMAIN file'.profiles /\ file'.profiles[n] = p
    <3> DEFINE out == txn[t].out
    <3>1. Created(file.profiles, out, file.version + 1) \/ Used(file.profiles, out)
      BY <1>8, <2>5, AboutToWrite DEF Persist
    <3> HIDE DEF out
    <3>2. out.next = With(file.profiles, out.name, out.profile)
      BY <3>1 DEF Created, Used
    <3>3. out.name \in DOMAIN out.next /\ out.next[out.name] = out.profile
      BY <3>2, WithNext
    <3> QED BY <2>3, <3>3 DEF out
  <2> HIDE DEF n, p, v
  <2>6. ASSUME txn[t].req.kind \in {"mark_used", "generate"} PROVE BoundIn(file', n, p.inc, p.revision, v + 1, {})
    <3> DEFINE f == file'
    <3>1. f.version \in Nat /\ ProfilesOf(f.profiles, f.version) /\ n \in DOMAIN f.profiles /\ f.profiles[n] = p
          /\ f.version = v + 1
      BY <2>3, <2>4, <2>5, <2>6
    <3> HIDE DEF f
    <3>2. BoundIn(f, n, p.inc, p.revision, v + 1, {})
      BY <3>1, FileSeen
    <3> QED BY <3>2 DEF f
  <2> QED BY <2>1, <2>6 DEF AnswerSeen, Seen, n, p, v
<1> QED BY <1>3, <1>4, <1>5, <1>6, <1>7, <1>8, Turns DEF TxnStep

(* A cache is refreshed with the file.                                     *)
LEMMA CacheMoves ==
  ASSUME StoreInvariant, SessionInvariant, OpensSeen, Next, NEW p \in Procs
  PROVE  \/ cache'[p] = cache[p]
         \/ cache'[p].version = file'.version /\ cache'[p].profiles = file'.profiles
<1>0. Shapes /\ DOMAIN cache = Procs
  BY DEF StoreInvariant, Shapes
<1>1. ASSUME NEW t \in Clients, NEW shown, Refresh(t, shown), shown.version = file.version,
             shown.profiles = file.profiles, UNCHANGED file
      PROVE  \/ cache'[p] = cache[p]
             \/ cache'[p].version = file'.version /\ cache'[p].profiles = file'.profiles
  BY <1>0, <1>1 DEF Refresh
<1>2. ASSUME NEW t \in Clients, TxnStep(t)
      PROVE  \/ UNCHANGED cache
             \/ \E shown : /\ Refresh(t, shown) /\ shown.version = file.version
                           /\ shown.profiles = file.profiles /\ UNCHANGED file
  <2>1. CASE EnterMutation(t) \/ AcquireAndLoad(t) \/ Persist(t)
    BY <2>1 DEF EnterMutation, AcquireAndLoad, Persist
  <2>2. CASE Apply(t)
    <3>1. txn[t].version = file.version /\ txn[t].snap = file.profiles
      BY <2>2 DEF Apply, StoreInvariant, Exclusive
    <3>2. /\ Shows(txn[t].version, txn[t].snap).version = file.version
          /\ Shows(txn[t].version, txn[t].snap).profiles = file.profiles
      BY <3>1 DEF Shows
    <3> QED BY <2>2, <3>2 DEF Apply
  <2>3. CASE WriteFails(t)
    BY <2>3 DEF WriteFails
  <2>4. CASE Publish(t)
    <3>1. txn[t].out.next = file.profiles
      BY <2>4 DEF Publish, OpensSeen, Replaced
    <3> QED BY <2>4, <3>1 DEF Publish, Shows
  <2> QED BY <1>2, <2>1, <2>2, <2>3, <2>4 DEF TxnStep
<1>3. ASSUME NEW q \in Procs, open(q)
      PROVE  \/ cache'[p] = cache[p]
             \/ cache'[p].version = file'.version /\ cache'[p].profiles = file'.profiles
  BY <1>0, <1>3 DEF open
<1> QED BY <1>1, <1>2, <1>3, StoreMoves DEF Submitted, Answered, Dropped, ProcessEnds, store, storeIdle

LEMMA CachesStaySeen ==
  ASSUME StoreInvariant, SessionInvariant, BoundInvariant, Next PROVE CachesSeen'
<1> SUFFICES ASSUME NEW p \in Procs, NEW n \in DOMAIN cache'[p].profiles
             PROVE  BoundIn(file', n, cache'[p].profiles[n].inc, cache'[p].profiles[n].revision, cache'[p].version, {})
  BY DEF CachesSeen, CacheSeen, Seen
<1>1. CASE cache'[p] = cache[p]
  <2>1. Seen(n, cache[p].profiles[n], cache[p].version)
    BY <1>1 DEF BoundInvariant, CachesSeen, CacheSeen
  <2> QED BY <1>1, <2>1, SeenStays
<1>2. CASE cache'[p].version = file'.version /\ cache'[p].profiles = file'.profiles
  <2> DEFINE f == file'
  <2>1. f.version \in Nat /\ ProfilesOf(f.profiles, f.version)
    BY StoreStep, SessionStep DEF StoreInvariant, SessionInvariant, FileGood, Shapes, FileShape
  <2>2. n \in DOMAIN f.profiles
    BY <1>2
  <2> HIDE DEF f
  <2>3. BoundIn(f, n, f.profiles[n].inc, f.profiles[n].revision, f.version, {})
    BY <2>1, <2>2, FileSeen
  <2> QED BY <1>2, <2>3 DEF f
<1> QED BY <1>1, <1>2, CacheMoves DEF BoundInvariant

(* A call that has not bound its connection had not done so before.        *)
Ahead(t, i) == at[t] < i \/ (at[t] = i /\ (Opening(t) \/ phase[t] = "ready"))
LEMMA OpenProceeds ==
  ASSUME StoreInvariant, SessionInvariant, ConnsOnce, NEW t \in Clients,
         OpenStep(t) \/ LearnStep(t) \/ ProfileStep(t)
  PROVE  /\ at'[t] = at[t] \/ at'[t] = at[t] + 1
         /\ at'[t] = at[t] => phase'[t] # "ready"
         /\ Opening(t)' => at'[t] = at[t] /\ Opens(Call(t)) /\ (Opening(t) \/ phase[t] = "ready")
         /\ AttachBinding(t) => at'[t] = at[t] + 1 \/ ~Opening(t)'
<1>0. /\ DOMAIN phase = Clients /\ at \in [Clients -> Nat \ {0}] /\ (Opening(t) => Opens(Call(t)))
  BY DEF StoreInvariant, SessionInvariant, Shapes, Places, ConnsOnce, OpensFresh
<1>1. Done(t) => at'[t] = at[t] + 1 /\ phase'[t] = "ready"
  BY <1>0 DEF Done
<1>2. \A to : Goes(t, to) => at'[t] = at[t] /\ phase'[t] = to
  BY <1>0 DEF Goes
<1>3. CASE OpenStep(t) /\ ~AttachBinding(t)
  <2>1. \/ Done(t)
        \/ /\ Opens(Call(t)) /\ (Opening(t) \/ phase[t] = "ready")
           /\ Goes(t, "planning") \/ Goes(t, "planned") \/ Goes(t, "attaching")
    BY <1>0, <1>3 DEF OpenStep, PlanDisabled, PlanTransient, PlanSession, PlanDone, PlanExplicit, PlanWithout,
       OpenConnection, Submits, Returns, Idle, Opens, Opening
  <2> QED BY <1>0, <1>1, <1>2, <1>3, <2>1 DEF Opening
<1>4. CASE AttachBinding(t) \/ LearnStep(t) \/ ProfileStep(t)
  <2>1. \/ Done(t) \/ Goes(t, "learn") \/ Goes(t, "locking") \/ Goes(t, "learning")
        \/ Goes(t, "saving") \/ Goes(t, "storing") \/ Goes(t, "rolling")
    BY <1>4, PastOpening
  <2> QED BY <1>0, <1>1, <1>2, <2>1 DEF Opening
<1> QED BY <1>3, <1>4

LEMMA StaysAhead ==
  ASSUME StoreInvariant, SessionInvariant, ConnsOnce, Next, NEW t \in Clients, NEW i \in Nat, Ahead(t, i)'
  PROVE  Ahead(t, i) /\ ~(AttachBinding(t) /\ at[t] = i)
<1>0. at[t] \in Nat
  BY DEF SessionInvariant, Places
<1>1. CASE Rests(t) \/ UNCHANGED sessions
  <2>1. phase'[t] = phase[t] /\ at'[t] = at[t]
    BY <1>1 DEF Rests, sessions
  <2>2. ~AttachBinding(t)
    <3> SUFFICES ASSUME AttachBinding(t) PROVE FALSE
      OBVIOUS
    <3>1. OpenStep(t) /\ phase[t] = "attaching"
      BY DEF OpenStep, AttachBinding, Returns
    <3>2. at'[t] = at[t] + 1 \/ ~Opening(t)'
      BY <3>1, OpenProceeds
    <3> QED BY <1>0, <2>1, <3>1, <3>2 DEF Opening
  <2> QED BY <2>1, <2>2 DEF Ahead, Opening
<1>2. CASE Leaves(t)
  <2>1. at'[t] = at[t] /\ ~Opening(t)' /\ (phase'[t] = "ready" => phase[t] = "ready")
    BY <1>2 DEF Leaves, Opening
  <2>2. at[t] = i => phase[t] = "ready"
    BY <1>0, <2>1 DEF Ahead
  <2> QED BY <2>1, <2>2 DEF Ahead, AttachBinding, Returns
<1>3. CASE OpenStep(t) \/ LearnStep(t) \/ ProfileStep(t)
  BY <1>0, <1>3, OpenProceeds DEF Ahead
<1> QED BY <1>1, <1>2, <1>3, Turns

LEMMA StaysFresh ==
  ASSUME StoreInvariant, SessionInvariant, BoundInvariant, Next, NEW t \in Clients,
         NEW i \in 1 .. Len(work.scripts[t]), Opens(work.scripts[t][i]), Ahead(t, i)',
         NEW k, k = work.scripts[t][i].conn
  PROVE  Fresh(k)'
<1>0. Shapes /\ Places /\ UNCHANGED work /\ Len(work.scripts[t]) \in Nat
  BY Turns, ScriptAssumption DEF StoreInvariant, SessionInvariant, Shapes
<1>1. k \in Conns
  BY <1>0, ScriptAssumption DEF Shapes
<1>2. Ahead(t, i) /\ ~(AttachBinding(t) /\ at[t] = i)
  BY <1>0, StaysAhead DEF BoundInvariant
<1>3. Fresh(k)
  BY <1>2 DEF BoundInvariant, ConnsOnce, OpensFresh, Ahead
<1>4. ASSUME NEW u \in Clients, AttachBinding(u), Call(u).conn = k PROVE FALSE
  <2>1. Opening(u)
    BY <1>4 DEF AttachBinding, Returns, Opening
  <2>2. at[u] \in 1 .. Len(work.scripts[u]) /\ Opens(Call(u))
    BY <2>1, OpenedOnce DEF BoundInvariant
  <2> DEFINE scripts == work.scripts
  <2>3. \A j \in 1 .. Len(scripts[u]) :
          Opens(scripts[u][j]) /\ Opens(scripts[t][i]) /\ scripts[u][j].conn = scripts[t][i].conn => u = t /\ j = i
    BY <1>0, ScriptAssumption DEF Shapes
  <2>4. Call(u) = scripts[u][at[u]]
    BY DEF Call
  <2> HIDE DEF scripts
  <2>5. Opens(scripts[t][i]) /\ k = scripts[t][i].conn /\ at[u] \in 1 .. Len(scripts[u])
    BY <2>2 DEF scripts
  <2>6. u = t /\ at[u] = i
    BY <1>4, <2>2, <2>3, <2>4, <2>5
  <2> QED BY <1>2, <1>4, <2>6
<1>5. ~conns'[k].binding.persistent
  <2>1. ASSUME NEW u \in Clients, LearnDone(u), Call(u).conn = k PROVE SameBinding(k)
    BY <1>1, <2>1, LearnDoneIs
  <2>2. SameBinding(k) \/ Unbound(k)
    BY <1>1, <1>4, <2>1, ConnMoves DEF SameConn
  <2> QED BY <1>3, <2>2 DEF Fresh, SameBinding, Unbound
<1>6. ASSUME NEW u \in Clients, Pending(u)' PROVE txn'[u].req.conn # k
  <2>1. Pending(u) => txn[u].req.conn # k
    BY <1>3 DEF Fresh
  <2>2. CASE Rests(u) \/ Leaves(u)
    BY <1>6, <2>1, <2>2 DEF Rests, Leaves, Pending
  <2>3. CASE TxnStep(u)
    BY <1>0, <1>6, <2>1, <2>3, TxnStepKeeps DEF Pending
  <2>4. CASE Learn(u)
    <3>1. txn'[u].req.conn = Call(u).conn /\ conns[Call(u).conn].binding.persistent
      BY <1>0, <2>4 DEF Learn, Submits, Queued, NoTxn, Request, Shapes, Conn
    <3> QED BY <1>3, <3>1 DEF Fresh
  <2>5. CASE (OpenStep(u) \/ LearnStep(u) \/ ProfileStep(u)) /\ ~Learn(u)
    BY <1>6, <2>1, <2>5, ActorTxn DEF Pending
  <2> QED BY <2>2, <2>3, <2>4, <2>5, Turns
<1> QED BY <1>5, <1>6 DEF Fresh

LEMMA OpensOnce ==
  ASSUME StoreInvariant, SessionInvariant, BoundInvariant, Next PROVE ConnsOnce'
<1> SUFFICES ASSUME NEW t \in Clients PROVE OpensFresh(t)'
  BY DEF ConnsOnce
<1>0. UNCHANGED work
  BY Turns
<1>1. Opening(t)' => Opens(Call(t))'
  <2>1. ASSUME at'[t] = at[t] PROVE Call(t)' = Call(t)
    BY <1>0, <2>1 DEF Call
  <2>2. Opening(t) => Opens(Call(t))
    BY DEF BoundInvariant, ConnsOnce, OpensFresh
  <2>3. CASE Rests(t) \/ UNCHANGED sessions
    <3>1. at'[t] = at[t] /\ phase'[t] = phase[t]
      BY <2>3 DEF Rests, sessions
    <3> QED BY <2>1, <2>2, <3>1 DEF Opening, Opens
  <2>4. CASE Leaves(t)
    BY <2>4 DEF Leaves, Opening
  <2>5. CASE OpenStep(t) \/ LearnStep(t) \/ ProfileStep(t)
    <3>1. Opening(t)' => at'[t] = at[t] /\ Opens(Call(t))
      BY <2>5, OpenProceeds DEF BoundInvariant
    <3> QED BY <2>1, <3>1 DEF Opens
  <2> QED BY <2>3, <2>4, <2>5, Turns
<1>2. ASSUME NEW i \in 1 .. Len(work.scripts[t]), Opens(work.scripts[t][i]), Ahead(t, i)'
      PROVE  /\ ~conns'[work.scripts[t][i].conn].binding.persistent
             /\ \A u \in Clients : Pending(u)' => txn'[u].req.conn # work.scripts[t][i].conn
  BY <1>2, StaysFresh DEF Fresh
<1> QED BY <1>0, <1>1, <1>2 DEF OpensFresh, Ahead, Opens, Fresh

LEMMA BoundStep ==
  ASSUME StoreInvariant, SessionInvariant, BoundInvariant, [Next]_vars PROVE BoundInvariant'
<1>1. CASE Next
  <2>1. OpensSeen'
    BY <1>1, PlansSeen, AnswersSeen, ReplacedStays DEF OpensSeen
  <2> QED BY <1>1, <2>1, ConnsStayBound, LearnsStayBound, CachesStaySeen, OpensOnce DEF BoundInvariant
<1>2. CASE UNCHANGED vars
  <2>0. UNCHANGED <<work, file, cache, txn, at, phase, plan, conns>>
    BY <1>2 DEF vars, store, sessions
  <2>1. ConnsBound'
    BY <2>0 DEF BoundInvariant, ConnsBound, BindingBound, BoundTo
  <2>2. LearnsBound'
    BY <2>0 DEF BoundInvariant, LearnsBound, LearningBound, LearnsOwn, Pending, Written, BoundTo, Conn, Call
  <2>3. OpensSeen' /\ CachesSeen'
    BY <2>0 DEF BoundInvariant, OpensSeen, PlanSeen, AnswerSeen, Written, Replaced, CachesSeen, CacheSeen, Seen
  <2>4. ConnsOnce'
    BY <2>0 DEF BoundInvariant, ConnsOnce, OpensFresh, Opening, Fresh, Pending, Call, Opens
  <2> QED BY <2>1, <2>2, <2>3, <2>4 DEF BoundInvariant
<1> QED BY <1>1, <1>2

LEMMA BoundInit ==
  ASSUME Init PROVE BoundInvariant
<1>1. ASSUME NEW k \in Conns PROVE ~conns[k].binding.persistent
  BY DEF Init, NoConn, NoBinding
<1>2. ASSUME NEW t \in Clients PROVE phase[t] = "ready" /\ at[t] = 1 /\ txn[t].stage = "none"
  BY DEF Init, NoTxn
<1>3. ConnsBound /\ LearnsBound
  BY <1>1, <1>2 DEF ConnsBound, BindingBound, LearnsBound, LearningBound, LearnsOwn, Pending
<1>4. OpensSeen
  BY <1>2 DEF OpensSeen, PlanSeen, AnswerSeen, Written, Replaced
<1>5. CachesSeen
  <2>1. file.version \in Nat /\ ProfilesOf(file.profiles, file.version) /\ (\A p \in Procs : cache[p] = file)
    BY StoreInit, SessionInit DEF Init, StoreInvariant, SessionInvariant, FileGood, Shapes, FileShape
  <2> QED BY <2>1, FileSeen DEF CachesSeen, CacheSeen, Seen
<1>6. ConnsOnce
  <2>1. \A t \in Clients : \A i \in 1 .. Len(work.scripts[t]) : work.scripts[t][i].conn \in Conns
    BY ScriptAssumption DEF Init
  <2> QED BY <1>1, <1>2, <2>1 DEF ConnsOnce, OpensFresh, Fresh, Opening, Pending
<1> QED BY <1>3, <1>4, <1>5, <1>6 DEF BoundInvariant

LEMMA BoundHolds == Spec => [](StoreInvariant /\ SessionInvariant /\ BoundInvariant)
BY SessionHolds, BoundInit, BoundStep, PTL DEF Spec

(* Learning never overwrites a state of the profile that someone else has  *)
(* committed after the connection was bound to it                          *)
(* (update_learned_defaults, rollback_profile).                            *)
THEOREM LearningNeverOverwrites == Spec => BoundNotOverwritten
<1>1. ASSUME StoreInvariant, SessionInvariant, BoundInvariant, NEW t \in Clients, Learns(t)
      PROVE  \/ Replaces(t).inc # LearningConn(t).bound.inc
             \/ Replaces(t).since <= LearningConn(t).bound.version
             \/ Replaces(t).author = txn[t].req.conn
  <2> DEFINE req == txn[t].req
             k == req.conn
  <2>1. txn[t].stage = "writing" /\ Pending(t) /\ req.kind = "learn"
    BY <1>1 DEF Learns, Pending
  <2>2. /\ txn[t].out = apply(req, file.profiles, work.clock[ProcOf(t)], file.version + 1)
        /\ txn[t].out.status = "write"
    BY <1>1, <2>1, AboutToWrite
  <2>3. req.name \in DOMAIN file.profiles /\ file.profiles[req.name].revision = req.expected
    BY <2>1, <2>2, LearnWrites
  <2>4. BoundIn(file, req.name, conns[k].bound.inc, req.expected, conns[k].bound.version, {k})
    BY <1>1, <2>1 DEF BoundInvariant, LearnsBound, LearningBound, BoundTo
  <2> QED BY <2>3, <2>4 DEF BoundIn, Replaces, LearningConn
<1>2. StoreInvariant /\ SessionInvariant /\ BoundInvariant /\ [Next]_vars =>
        [\A t \in Clients : Learns(t) =>
           \/ Replaces(t).inc # LearningConn(t).bound.inc
           \/ Replaces(t).since <= LearningConn(t).bound.version
           \/ Replaces(t).author = txn[t].req.conn]_vars
  BY <1>1
<1> QED BY <1>2, BoundHolds, PTL DEF Spec, BoundNotOverwritten
=============================================================================
