---------------------------- MODULE CaptureStore ----------------------------
(***************************************************************************)
(* The capture store (capture_store.rs) and the connection log it exports  *)
(* (log_buffer.rs).  Several server processes share one capture root.      *)
(* Each has a connection whose bounded log the pump fills; its export_log  *)
(* calls take a snapshot of the log and commit it as a new file, under the *)
(* mutex of the process and, in a blocking task, under the advisory lock   *)
(* of the root.  A call that is dropped gives the mutex back and leaves    *)
(* its blocking task running; a process that dies leaves its temporary     *)
(* file behind and its lock to the operating system.  The owner of the     *)
(* directory may put entries of his own into it at any time.               *)
(*                                                                         *)
(* A file name is a model value, a log line its length.  The log is        *)
(* enabled: a disabled one records nothing.                                *)
(***************************************************************************)
EXTENDS Naturals, Sequences, SequencesExt, FiniteSets, FiniteSetsExt, Functions

CONSTANTS
    Processes,      \* server processes over the same root
    Disabled,       \* those started without a capture directory
    Requests,       \* export_log calls
    Nobody,         \* not a call
    Names,          \* file names a call may ask for
    PortableNames,  \* those that satisfy the filename contract
    LineLengths,    \* lengths of a log line with its newline
    LogCapacity,
    max_file_bytes, max_total_bytes, max_files,
    MaxRecords,     \* bound: events recorded in all logs
    MaxCrashes,     \* bound: processes killed
    MaxForeign      \* bound: entries placed by the owner of the directory

ASSUME CaptureAssumption ==
    /\ Nobody \notin Requests \cup Names \cup Processes
    /\ Disabled \subseteq Processes
    /\ PortableNames \subseteq Names
    /\ LineLengths \subseteq Nat \ {0}
    /\ {LogCapacity, max_file_bytes, max_total_bytes, max_files} \subseteq Nat \ {0}
    /\ max_file_bytes <= max_total_bytes

VARIABLES
    log,       \* each process's connection log
    call,      \* the calls: where they are, name asked for, bytes to commit
    mutex,     \* CaptureStore.lock of each process
    rootLock,  \* the call whose blocking task holds the advisory lock
    root,      \* the directory
    temps,     \* calls whose temporary file is in the directory
    records, crashes, foreign

vars == <<log, call, mutex, rootLock, root, temps, records, crashes, foreign>>

Absent == [kind |-> "none", bytes |-> 0, by |-> Nobody]

(* A call's commit runs in a blocking task once its place is one of these. *)
Committing == {"root", "scan", "temp", "persist"}

Places == {"idle", "snapshot", "local", "ok", "error", "dropped", "killed"} \cup Committing

Init ==
    /\ log = [p \in Processes |-> <<>>]
    /\ call = [r \in Requests |->
                 [at |-> "idle", home |-> Nobody, name |-> Nobody, bytes |-> 0, waits |-> TRUE]]
    /\ mutex = [p \in Processes |-> Nobody]
    /\ rootLock = Nobody
    /\ root = [n \in Names |-> Absent]
    /\ temps = {}
    /\ records = 0 /\ crashes = 0 /\ foreign = 0

(***************************************************************************)
(* The connection log.                                                     *)
(***************************************************************************)

(* record pushes, then drops the oldest beyond the capacity. *)
record(events, line) ==
    LET pushed == Append(events, line)
    IN  SubSeq(pushed, IF Len(pushed) > LogCapacity THEN Len(pushed) - LogCapacity + 1 ELSE 1,
               Len(pushed))

(* jsonl_snapshot fails as soon as the lines so far exceed the limit. *)
jsonl_snapshot(events) == FoldSeq(+, 0, events)

Record(p, line) ==
    /\ records < MaxRecords
    /\ records' = records + 1
    /\ log' = [log EXCEPT ![p] = record(@, line)]
    /\ UNCHANGED <<call, mutex, rootLock, root, temps, crashes, foreign>>

clear_log(p) ==
    /\ log[p] # <<>>
    /\ log' = [log EXCEPT ![p] = <<>>]
    /\ UNCHANGED <<call, mutex, rootLock, root, temps, records, crashes, foreign>>

(***************************************************************************)
(* The tool export_log up to the commit.                                   *)
(***************************************************************************)

validate_capture_filename(n) == n \in PortableNames

Go(r, place) == call' = [call EXCEPT ![r].at = place]

Gone(place) == [at |-> place, home |-> Nobody, name |-> Nobody, bytes |-> 0, waits |-> FALSE]

(* A dropped call's answer has nobody to go to; only a success keeps what
   was exported. *)
Answer(r, place) ==
    call' = [call EXCEPT ![r] = IF ~@.waits THEN Gone("dropped")
                                ELSE IF place = "ok" THEN [@ EXCEPT !.at = "ok"]
                                ELSE Gone("error")]

(* The store must be enabled, the name valid and the connection known
   before anything is touched. *)
export_log(r, p, n, known) ==
    /\ call[r].at = "idle"
    /\ IF p \notin Disabled /\ validate_capture_filename(n) /\ known
       THEN call' = [call EXCEPT ![r].home = p, ![r].name = n, ![r].at = "snapshot"]
       ELSE Answer(r, "error")
    /\ UNCHANGED <<log, mutex, rootLock, root, temps, records, crashes, foreign>>

(* The snapshot holds the log's lock once; write_new then checks the size
   again before it asks for the mutex. *)
TakeSnapshot(r) ==
    /\ call[r].at = "snapshot"
    /\ \E bytes \in {jsonl_snapshot(log[call[r].home])} :
          IF bytes > max_file_bytes
          THEN Answer(r, "error")
          ELSE call' = [call EXCEPT ![r].bytes = bytes, ![r].at = "local"]
    /\ UNCHANGED <<log, mutex, rootLock, root, temps, records, crashes, foreign>>

write_new(r) ==
    /\ call[r].at = "local"
    /\ mutex[call[r].home] = Nobody
    /\ mutex' = [mutex EXCEPT ![call[r].home] = r]
    /\ Go(r, "root")
    /\ UNCHANGED <<log, rootLock, root, temps, records, crashes, foreign>>

FreeMutex(r) == mutex' = [p \in Processes |-> IF mutex[p] = r THEN Nobody ELSE mutex[p]]

(* The request future is dropped: a spawned commit goes on without it. *)
DropRequest(r) ==
    /\ call[r].waits
    /\ call[r].at \in {"snapshot", "local"} \cup Committing
    /\ call' = [call EXCEPT ![r] = IF @.at \in Committing THEN [@ EXCEPT !.waits = FALSE]
                                   ELSE Gone("dropped")]
    /\ FreeMutex(r)
    /\ UNCHANGED <<log, rootLock, root, temps, records, crashes, foreign>>

(***************************************************************************)
(* The blocking commit.                                                    *)
(***************************************************************************)

(* Every return drops the lock file, the temporary file and, through the
   end of write_new, the mutex. *)
Return(r, place) ==
    /\ Answer(r, place)
    /\ FreeMutex(r)
    /\ rootLock' = IF rootLock = r THEN Nobody ELSE rootLock
    /\ temps' = temps \ {r}

(* Slip: the root is scanned without its advisory lock. *)
AcquireWithoutLock(r) ==
    /\ call[r].at = "root"
    /\ Go(r, "scan")
    /\ UNCHANGED <<log, mutex, rootLock, root, temps, records, crashes, foreign>>

acquire_root_lock(r) ==
    /\ call[r].at = "root"
    /\ rootLock = Nobody
    /\ rootLock' = r
    /\ Go(r, "scan")
    /\ UNCHANGED <<log, mutex, root, temps, records, crashes, foreign>>

(* The lock path is a symbolic link, no regular file, or cannot be opened. *)
LockFails(r) ==
    /\ call[r].at = "root"
    /\ Return(r, "error")
    /\ UNCHANGED <<log, root, records, crashes, foreign>>

(* scan_managed_usage looks at entries with a valid name only. *)
Managed(kind) == {n \in PortableNames : root[n].kind = kind}

FilesInUse == Cardinality(Managed("file"))

Sizes == [n \in Names |-> root[n].bytes]

BytesInUse == SumFunctionOnSet(Sizes, Managed("file"))

(* The checks in their order: a link with a managed name fails the scan, an
   entry of any kind at the destination, the count, the total. *)
Admissible(r) ==
    /\ Managed("link") = {}
    /\ root[call[r].name].kind = "none"
    /\ FilesInUse + 1 <= max_files
    /\ BytesInUse + call[r].bytes <= max_total_bytes

commit_new_file(r) ==
    /\ call[r].at = "scan"
    /\ IF Admissible(r)
       THEN Go(r, "temp") /\ UNCHANGED <<mutex, rootLock, temps>>
       ELSE Return(r, "error")
    /\ UNCHANGED <<log, root, records, crashes, foreign>>

WriteTemp(r) ==
    /\ call[r].at = "temp"
    /\ temps' = temps \cup {r}
    /\ Go(r, "persist")
    /\ UNCHANGED <<log, mutex, rootLock, root, records, crashes, foreign>>

(* Creating, writing or syncing the temporary file fails. *)
TempFails(r) ==
    /\ call[r].at = "temp"
    /\ Return(r, "error")
    /\ UNCHANGED <<log, root, records, crashes, foreign>>

(* Slip: a rename that replaces what is at the destination. *)
RenameOver(r) ==
    /\ call[r].at = "persist"
    /\ root' = [root EXCEPT ![call[r].name] =
                  [kind |-> "file", bytes |-> call[r].bytes, by |-> r]]
    /\ Return(r, "ok")
    /\ UNCHANGED <<log, records, crashes, foreign>>

(* Slip: the failed sync of the directory is returned as the call's error. *)
SyncFailureIsError(r) ==
    /\ call[r].at = "persist"
    /\ root[call[r].name].kind = "none"
    /\ root' = [root EXCEPT ![call[r].name] =
                  [kind |-> "file", bytes |-> call[r].bytes, by |-> r]]
    /\ \E synced \in BOOLEAN : Return(r, IF synced THEN "ok" ELSE "error")
    /\ UNCHANGED <<log, records, crashes, foreign>>

(* persist_noclobber, then the sync of the directory, whose failure is only
   a warning in the result. *)
persist_noclobber(r) ==
    /\ call[r].at = "persist"
    /\ root[call[r].name].kind = "none"
    /\ root' = [root EXCEPT ![call[r].name] =
                  [kind |-> "file", bytes |-> call[r].bytes, by |-> r]]
    /\ Return(r, "ok")
    /\ UNCHANGED <<log, records, crashes, foreign>>

(* Something is at the destination by now, or the rename fails. *)
PersistFails(r) ==
    /\ call[r].at = "persist"
    /\ Return(r, "error")
    /\ UNCHANGED <<log, root, records, crashes, foreign>>

(***************************************************************************)
(* The environment.                                                        *)
(***************************************************************************)

(* A process dies and is started again: its calls and its log are gone, the
   advisory lock is released by the operating system, temporary files stay. *)
Crash(p) ==
    /\ crashes < MaxCrashes
    /\ \E r \in Requests : call[r].home = p /\ call[r].at \in {"snapshot", "local"} \cup Committing
    /\ crashes' = crashes + 1
    /\ call' = [r \in Requests |->
                  IF call[r].home = p /\ call[r].at \in {"snapshot", "local"} \cup Committing
                  THEN Gone("killed") ELSE call[r]]
    /\ log' = [log EXCEPT ![p] = <<>>]
    /\ mutex' = [mutex EXCEPT ![p] = Nobody]
    /\ rootLock' = IF rootLock \in Requests /\ call[rootLock].home = p THEN Nobody ELSE rootLock
    /\ UNCHANGED <<root, temps, records, foreign>>

(* Somebody who does not take the lock puts an entry into the directory. *)
PlaceEntry(n, kind, bytes) ==
    /\ foreign < MaxForeign
    /\ root[n].kind = "none"
    /\ foreign' = foreign + 1
    /\ root' = [root EXCEPT ![n] = [kind |-> kind, bytes |-> bytes, by |-> Nobody]]
    /\ UNCHANGED <<log, call, mutex, rootLock, temps, records, crashes>>

Next ==
    \/ \E p \in Processes :
          \/ \E line \in LineLengths : Record(p, line)
          \/ clear_log(p)
          \/ Crash(p)
    \/ \E r \in Requests :
          \/ \E p \in Processes, n \in Names, known \in BOOLEAN : export_log(r, p, n, known)
          \/ TakeSnapshot(r)
          \/ write_new(r)
          \/ DropRequest(r)
          \/ acquire_root_lock(r)
          \/ LockFails(r)
          \/ commit_new_file(r)
          \/ WriteTemp(r)
          \/ TempFails(r)
          \/ persist_noclobber(r)
          \/ PersistFails(r)
    \/ \E n \in PortableNames :
          \/ \E bytes \in LineLengths : PlaceEntry(n, "file", bytes)
          \/ \E kind \in {"dir", "link"} : PlaceEntry(n, kind, 0)

Spec == Init /\ [][Next]_vars

(***************************************************************************)
(* Properties.                                                             *)
(***************************************************************************)

CaptureTypeOK ==
    /\ log \in [Processes -> Seq(LineLengths)]
    /\ call \in [Requests -> [at : Places, home : Processes \cup {Nobody},
                          name : Names \cup {Nobody}, bytes : Nat, waits : BOOLEAN]]
    /\ mutex \in [Processes -> Requests \cup {Nobody}]
    /\ rootLock \in Requests \cup {Nobody}
    /\ root \in [Names -> [kind : {"none", "file", "dir", "link"}, bytes : Nat,
                           by : Requests \cup {Nobody}]]
    /\ temps \subseteq Requests

Exported == {n \in Names : root[n].by \in Requests}

(* Whatever processes export at the same time, die or lose their client, the
   captures in the root stay within the count and the byte quota of
   commit_new_file. *)
QuotasHold ==
    /\ Cardinality(Exported) <= max_files
    /\ SumFunctionOnSet(Sizes, Exported) <= max_total_bytes

(* An entry of the capture root, a capture or a file of the directory's
   owner, is never replaced by a later export, even when it appears between
   the scan and the rename. *)
NeverOverwritten == [][\A n \in Names : root[n].kind # "none" => root'[n] = root[n]]_vars

(* A call that reports success has committed exactly the bytes of its
   snapshot, and one that reports an error has left no capture: a failed
   sync of the directory after the rename is no error, and no capture comes
   from a call that has not passed all checks. *)
ExportsTruthful ==
    \A r \in Requests :
        /\ call[r].at = "ok" =>
              /\ root[call[r].name] = [kind |-> "file", bytes |-> call[r].bytes, by |-> r]
              /\ call[r].bytes <= max_file_bytes
        /\ call[r].at = "error" => \A n \in Names : root[n].by # r

=============================================================================
