------------------------- MODULE CaptureStoreProofs -------------------------
(***************************************************************************)
(* The quotas of the capture root, the truth of export_log's answers and   *)
(* that nothing is overwritten, for any number of processes, calls, names, *)
(* crashes and entries of the directory's owner.                           *)
(*                                                                         *)
(* The quotas are not inductive.  Between its scan and its rename a commit *)
(* holds the advisory lock of the root, so that nobody else adds a capture *)
(* and what it found to be free stays free (Reserved).                     *)
(***************************************************************************)
EXTENDS CaptureStore, FiniteSetTheorems, SequenceTheorems, WellFoundedInduction, TLAPS

Locked  == {"scan", "temp", "persist"}
Pending == {"idle", "snapshot", "local"} \cup Committing

(* What a call knows: its name is valid, its bytes within the limit.       *)
CallsChecked ==
  \A r \in Requests :
    /\ call[r].at \in {"snapshot", "local", "ok"} \cup Committing =>
         call[r].name \in PortableNames /\ call[r].home \in Processes
    /\ call[r].at \in {"local", "ok"} \cup Committing => call[r].bytes <= max_file_bytes

(* Who made the entries of the root.                                       *)
EntriesOwned ==
  /\ \A n \in Names : root[n].by \in Requests => n \in PortableNames /\ root[n].kind = "file"
  /\ \A r \in Requests : call[r].at \in Pending \cup {"error"} => \A n \in Names : root[n].by # r
  /\ \A r \in Requests : call[r].at = "ok" =>
       root[call[r].name] = [kind |-> "file", bytes |-> call[r].bytes, by |-> r]

(* Who is between its scan and its return has the advisory lock.           *)
LockHeld == \A r \in Requests : call[r].at \in Locked => rootLock = r

(* What a scan has found to be free stays free until the rename.           *)
Reserved ==
  \A r \in Requests : call[r].at \in {"temp", "persist"} =>
    /\ Cardinality(Exported) + 1 <= max_files
    /\ SumFunctionOnSet(Sizes, Exported) + call[r].bytes <= max_total_bytes

TruthInvariant == CallsChecked /\ EntriesOwned
QuotaInvariant == LockHeld /\ IsFiniteSet(Managed("file")) /\ QuotasHold /\ Reserved

-----------------------------------------------------------------------------
(* Lemmas about sums over finite sets.  SumFunctionOnSet takes the elements*)
(* in the order CHOOSE gives them, by a recursive function on the subsets. *)

LEMMA LeastExists ==
  ASSUME NEW S \in SUBSET Nat, S # {}
  PROVE  \E i \in S : \A j \in S : i <= j
<1> DEFINE R == OpToRel(<, Nat)
<1>1. IsWellFoundedOn(R, Nat)
  BY NatLessThanWellFounded
<1>2. PICK i \in S : \A j \in S : ~ (<<j, i>> \in R)
  <2> HIDE DEF R
  <2> QED BY <1>1, WFMin
<1>3. \A j \in S : ~ (j < i)
  BY <1>2 DEF OpToRel
<1> QED BY <1>3

Pick(s) == CHOOSE x \in s : TRUE

(* The recursion of SumFunctionOnSet, as a condition on its function.      *)
SumOf(g, f, s) == IF s = {} THEN 0 ELSE f[Pick(s)] + g[s \ {Pick(s)}]
Summing(g, f, S) == g = [s \in SUBSET S |-> SumOf(g, f, s)]

(* The same for the subsets with at most n elements.                       *)
UpTo(n, S) == {s \in SUBSET S : Cardinality(s) <= n}
SummingUpTo(n, g, f, S) == g = [s \in UpTo(n, S) |-> SumOf(g, f, s)]

LEMMA Picked ==
  ASSUME NEW s, s # {}, IsFiniteSet(s)
  PROVE  /\ Pick(s) \in s
         /\ IsFiniteSet(s \ {Pick(s)})
         /\ Cardinality(s) \in Nat
         /\ Cardinality(s \ {Pick(s)}) = Cardinality(s) - 1
<1>1. Pick(s) \in s
  BY DEF Pick
<1> QED BY <1>1, FS_RemoveElement, FS_CardinalityType

(* The recursion has a solution: one for n + 1 extends the one for n.      *)
LEMMA SummingExists ==
  ASSUME NEW S, IsFiniteSet(S), NEW f
  PROVE  \E g : Summing(g, f, S)
<1>1. ASSUME NEW s \in SUBSET S PROVE IsFiniteSet(s) /\ Cardinality(s) \in Nat
  BY FS_Subset, FS_CardinalityType
<1>2. ASSUME NEW n \in Nat PROVE \E g : SummingUpTo(n, g, f, S)
  <2> DEFINE Bad == {m \in Nat : ~ \E g : SummingUpTo(m, g, f, S)}
  <2>1. SUFFICES ASSUME Bad # {} PROVE FALSE
    OBVIOUS
  <2>2. PICK m \in Bad : \A k \in Bad : m <= k
    <3>1. Bad \in SUBSET Nat
      OBVIOUS
    <3> HIDE DEF Bad
    <3> QED BY <2>1, <3>1, LeastExists
  <2>3. m # 0
    <3>1. SUFFICES ASSUME m = 0 PROVE \E g : SummingUpTo(m, g, f, S)
      BY <2>2
    <3> DEFINE g == [s \in UpTo(m, S) |-> 0]
    <3>2. \A s \in UpTo(m, S) : s = {}
      <4> TAKE s \in UpTo(m, S)
      <4>1. s \in SUBSET S /\ Cardinality(s) <= 0
        BY <3>1 DEF UpTo
      <4>2. Cardinality(s) = 0
        BY <1>1, <4>1
      <4> QED BY <1>1, <4>1, <4>2, FS_EmptySet
    <3>3. SummingUpTo(m, g, f, S)
      BY <3>2 DEF SummingUpTo, SumOf
    <3> QED BY <3>3
  <2>4. m - 1 \in Nat /\ m - 1 \notin Bad
    BY <2>2, <2>3
  <2>5. PICK h : SummingUpTo(m - 1, h, f, S)
    BY <2>4
  <2> DEFINE g == [s \in UpTo(m, S) |-> SumOf(h, f, s)]
  <2>6. ASSUME NEW s \in UpTo(m - 1, S) PROVE s \in UpTo(m, S) /\ g[s] = h[s]
    <3>1. s \in UpTo(m, S)
      BY <1>1, <2>4 DEF UpTo
    <3> QED BY <2>5, <3>1 DEF SummingUpTo
  <2>7. ASSUME NEW s \in UpTo(m, S) PROVE SumOf(h, f, s) = SumOf(g, f, s)
    <3>1. CASE s = {}
      BY <3>1 DEF SumOf
    <3>2. CASE s # {}
      <4> DEFINE r == s \ {Pick(s)}
      <4>1. r \in SUBSET S /\ Cardinality(s) \in Nat /\ Cardinality(s) <= m /\ Cardinality(r) = Cardinality(s) - 1
        BY <1>1, <3>2, Picked DEF UpTo
      <4>2. r \in UpTo(m - 1, S)
        BY <2>4, <4>1 DEF UpTo
      <4>3. g[r] = h[r]
        BY <2>6, <4>2
      <4> HIDE DEF g
      <4> QED BY <3>2, <4>3 DEF SumOf
    <3> QED BY <3>1, <3>2
  <2>8. SummingUpTo(m, g, f, S)
    BY <2>7, Zenon DEF SummingUpTo
  <2> QED BY <2>2, <2>8
<1>3. PICK g : SummingUpTo(Cardinality(S), g, f, S)
  BY <1>1, <1>2
<1>4. UpTo(Cardinality(S), S) = SUBSET S
  BY FS_Subset, FS_CardinalityType DEF UpTo
<1> QED BY <1>3, <1>4 DEF SummingUpTo, Summing

(* Its value depends only on what is summed.                               *)
LEMMA SummingAgree ==
  ASSUME NEW S, NEW R, NEW T, IsFiniteSet(T), T \subseteq S, T \subseteq R,
         NEW e, NEW f, \A x \in T : f[x] = e[x] /\ f[x] \in Nat,
         NEW g, NEW h, Summing(g, f, S), Summing(h, e, R)
  PROVE  g[T] = h[T] /\ g[T] \in Nat
<1> DEFINE Good(s) == g[s] = h[s] /\ g[s] \in Nat
           Bad == {n \in Nat : \E s \in SUBSET T : Cardinality(s) = n /\ ~Good(s)}
<1>1. ASSUME NEW s \in SUBSET T PROVE IsFiniteSet(s) /\ Cardinality(s) \in Nat
  BY FS_Subset, FS_CardinalityType
<1>2. SUFFICES ASSUME Bad # {} PROVE FALSE
  BY <1>1
<1>3. PICK n \in Bad : \A k \in Bad : n <= k
  <2>1. Bad \in SUBSET Nat
    OBVIOUS
  <2> HIDE DEF Bad
  <2> QED BY <1>2, <2>1, LeastExists
<1>4. PICK s \in SUBSET T : Cardinality(s) = n /\ ~Good(s)
  BY <1>3
<1>5. g[s] = SumOf(g, f, s) /\ h[s] = SumOf(h, e, s)
  BY <1>4 DEF Summing
<1>6. CASE s = {}
  BY <1>4, <1>5, <1>6 DEF SumOf
<1>7. CASE s # {}
  <2> DEFINE r == s \ {Pick(s)}
  <2>1. r \in SUBSET T /\ Pick(s) \in T /\ Cardinality(r) = n - 1 /\ n \in Nat
    BY <1>1, <1>4, <1>7, Picked
  <2>2. Cardinality(r) \in Nat
    BY <1>1, <2>1
  <2>3. Good(r)
    BY <1>3, <2>1, <2>2
  <2>4. g[s] = f[Pick(s)] + g[r] /\ h[s] = e[Pick(s)] + h[r]
    BY <1>5, <1>7 DEF SumOf
  <2> HIDE DEF r
  <2> QED BY <1>4, <2>1, <2>3, <2>4
<1> QED BY <1>6, <1>7

(* SumFunctionOnSet is a solution of the recursion.                        *)
LEMMA SumSolves ==
  ASSUME NEW S, IsFiniteSet(S), NEW f
  PROVE  \E g : Summing(g, f, S) /\ SumFunctionOnSet(f, S) = g[S]
<1> DEFINE g == CHOOSE g : Summing(g, f, S)
<1>1. Summing(g, f, S)
  BY SummingExists
<1>2. SumFunctionOnSet(f, S) = g[S]
  BY DEF SumFunctionOnSet, FoldFunctionOnSet, MapThenFoldSet, Summing, SumOf, Pick
<1> QED BY <1>1, <1>2

LEMMA SumsAgree ==
  ASSUME NEW S, IsFiniteSet(S), NEW e, NEW f, \A x \in S : f[x] = e[x] /\ f[x] \in Nat
  PROVE  SumFunctionOnSet(f, S) = SumFunctionOnSet(e, S) /\ SumFunctionOnSet(f, S) \in Nat
<1>1. PICK g : Summing(g, f, S) /\ SumFunctionOnSet(f, S) = g[S]
  BY SumSolves
<1>2. PICK h : Summing(h, e, S) /\ SumFunctionOnSet(e, S) = h[S]
  BY SumSolves
<1>3. g[S] = h[S] /\ g[S] \in Nat
  BY <1>1, <1>2, SummingAgree
<1> QED BY <1>1, <1>2, <1>3

LEMMA SumPicks ==
  ASSUME NEW S, IsFiniteSet(S), NEW f, \A x \in S : f[x] \in Nat
  PROVE  SumFunctionOnSet(f, S) =
           IF S = {} THEN 0 ELSE f[Pick(S)] + SumFunctionOnSet(f, S \ {Pick(S)})
<1>1. PICK g : Summing(g, f, S) /\ SumFunctionOnSet(f, S) = g[S]
  BY SumSolves
<1>2. g[S] = SumOf(g, f, S)
  BY <1>1 DEF Summing
<1>3. CASE S = {}
  BY <1>1, <1>2, <1>3 DEF SumOf
<1>4. CASE S # {}
  <2> DEFINE R == S \ {Pick(S)}
  <2>1. IsFiniteSet(R)
    BY <1>4, Picked
  <2>2. PICK h : Summing(h, f, R) /\ SumFunctionOnSet(f, R) = h[R]
    BY <2>1, SumSolves
  <2>3. g[R] = h[R]
    <3>1. R \subseteq S /\ \A x \in R : f[x] = f[x] /\ f[x] \in Nat
      OBVIOUS
    <3> HIDE DEF R
    <3> QED BY <1>1, <2>1, <2>2, <3>1, SummingAgree
  <2> QED BY <1>1, <1>2, <1>4, <2>2, <2>3 DEF SumOf
<1> QED BY <1>3, <1>4

(* Any element can be taken out of the sum.                                *)
LEMMA SumRemoves ==
  ASSUME NEW S, IsFiniteSet(S), NEW f, \A x \in S : f[x] \in Nat, NEW x \in S
  PROVE  SumFunctionOnSet(f, S) = f[x] + SumFunctionOnSet(f, S \ {x})
<1> DEFINE Sum(s) == SumFunctionOnSet(f, s)
           Good(s) == \A y \in s : Sum(s) = f[y] + Sum(s \ {y})
           Bad == {n \in Nat : \E s \in SUBSET S : Cardinality(s) = n /\ ~Good(s)}
<1>1. ASSUME NEW s \in SUBSET S PROVE IsFiniteSet(s) /\ Cardinality(s) \in Nat /\ Sum(s) \in Nat
  <2>1. IsFiniteSet(s)
    BY FS_Subset
  <2>2. \A y \in s : f[y] = f[y] /\ f[y] \in Nat
    OBVIOUS
  <2> QED BY <2>1, <2>2, FS_CardinalityType, SumsAgree
<1>2. SUFFICES ASSUME Bad # {} PROVE FALSE
  BY <1>1
<1>3. PICK n \in Bad : \A k \in Bad : n <= k
  <2>1. Bad \in SUBSET Nat
    OBVIOUS
  <2> HIDE DEF Bad
  <2> QED BY <1>2, <2>1, LeastExists
<1>4. PICK s \in SUBSET S : Cardinality(s) = n /\ ~Good(s)
  BY <1>3
<1>5. PICK y \in s : ~(Sum(s) = f[y] + Sum(s \ {y}))
  BY <1>4
<1>6. ASSUME NEW r \in SUBSET S, Cardinality(r) = n - 1 PROVE Good(r)
  <2>1. Cardinality(r) \in Nat /\ n \in Nat
    BY <1>1
  <2> QED BY <1>3, <1>6, <2>1
<1> DEFINE p == Pick(s)
<1>7. p \in s /\ Sum(s) = f[p] + Sum(s \ {p})
  <2>1. s # {} /\ IsFiniteSet(s) /\ \A z \in s : f[z] \in Nat
    BY <1>1, <1>4, <1>5
  <2> QED BY <2>1, Picked, SumPicks
<1> HIDE DEF p
<1>8. y # p
  BY <1>5, <1>7
<1>9. Good(s \ {p}) /\ Good(s \ {y})
  <2>1. Cardinality(s \ {p}) = n - 1 /\ Cardinality(s \ {y}) = n - 1
    BY <1>1, <1>4, <1>5, <1>7, FS_RemoveElement
  <2> QED BY <1>4, <1>6, <2>1
<1>10. (s \ {p}) \ {y} = (s \ {y}) \ {p}
  OBVIOUS
<1>11. Sum(s \ {p}) = f[y] + Sum((s \ {p}) \ {y}) /\ Sum(s \ {y}) = f[p] + Sum((s \ {p}) \ {y})
  BY <1>7, <1>8, <1>9, <1>10
<1>12. f[p] \in Nat /\ f[y] \in Nat /\ Sum((s \ {p}) \ {y}) \in Nat
  BY <1>1, <1>7
<1> HIDE DEF Sum
<1> QED BY <1>5, <1>7, <1>11, <1>12

(* A part sums to no more than the whole.                                  *)
LEMMA SumMonotone ==
  ASSUME NEW S, IsFiniteSet(S), NEW f, \A x \in S : f[x] \in Nat, NEW T \in SUBSET S
  PROVE  SumFunctionOnSet(f, T) <= SumFunctionOnSet(f, S)
<1> DEFINE Sum(s) == SumFunctionOnSet(f, s)
           Bad == {n \in Nat : \E s \in SUBSET S : Cardinality(s) = n /\ T \subseteq s /\ ~(Sum(T) <= Sum(s))}
<1>1. ASSUME NEW s \in SUBSET S PROVE IsFiniteSet(s) /\ Cardinality(s) \in Nat /\ Sum(s) \in Nat
  <2>1. IsFiniteSet(s)
    BY FS_Subset
  <2>2. \A y \in s : f[y] = f[y] /\ f[y] \in Nat
    OBVIOUS
  <2> QED BY <2>1, <2>2, FS_CardinalityType, SumsAgree
<1>2. SUFFICES ASSUME Bad # {} PROVE FALSE
  BY <1>1
<1>3. PICK n \in Bad : \A k \in Bad : n <= k
  <2>1. Bad \in SUBSET Nat
    OBVIOUS
  <2> HIDE DEF Bad
  <2> QED BY <1>2, <2>1, LeastExists
<1>4. PICK s \in SUBSET S : Cardinality(s) = n /\ T \subseteq s /\ ~(Sum(T) <= Sum(s))
  BY <1>3
<1>5. s # T
  BY <1>1, <1>4
<1>6. PICK y \in s : y \notin T
  BY <1>4, <1>5
<1>7. Cardinality(s \ {y}) = n - 1 /\ n - 1 \in Nat
  <2>1. Cardinality(s \ {y}) = n - 1
    BY <1>1, <1>4, <1>6, FS_RemoveElement
  <2>2. Cardinality(s \ {y}) \in Nat
    BY <1>1, <1>6
  <2> QED BY <2>1, <2>2
<1>8. Sum(T) <= Sum(s \ {y})
  <2>1. s \ {y} \in SUBSET S /\ T \subseteq s \ {y}
    BY <1>4, <1>6
  <2>2. n - 1 \notin Bad
    BY <1>3, <1>7
  <2> QED BY <1>7, <2>1, <2>2
<1>9. Sum(s) = f[y] + Sum(s \ {y})
  <2>1. \A z \in s : f[z] \in Nat
    OBVIOUS
  <2> QED BY <1>1, <1>4, <1>6, <2>1, SumRemoves
<1>10. f[y] \in Nat /\ Sum(s) \in Nat /\ Sum(s \ {y}) \in Nat /\ Sum(T) \in Nat
  BY <1>1, <1>4, <1>6
<1> HIDE DEF Sum
<1> QED BY <1>4, <1>8, <1>9, <1>10

-----------------------------------------------------------------------------
(* The steps, by what they do to the calls.                                *)

CallRecord == [at : Places, home : Processes \cup {Nobody}, name : Names \cup {Nobody},
               bytes : Nat, waits : BOOLEAN]

(* Call r is replaced by the given one.                                    *)
Becomes(r, new) == \A q \in Requests : call'[q] = IF q = r THEN new ELSE call[q]

LEMMA GoBecomes ==
  ASSUME CaptureTypeOK, NEW r \in Requests, NEW place \in Places, Go(r, place)
  PROVE  /\ Becomes(r, [call[r] EXCEPT !.at = place])
         /\ call' \in [Requests -> CallRecord]
BY DEF CaptureTypeOK, Go, Becomes, CallRecord

(* An answer is a success that keeps what was exported, or nothing is left.*)
LEMMA AnswerBecomes ==
  ASSUME CaptureTypeOK, NEW r \in Requests, NEW place \in {"ok", "error"}, Answer(r, place)
  PROVE  /\ \/ Becomes(r, Gone("dropped"))
            \/ place = "ok" /\ Becomes(r, [call[r] EXCEPT !.at = "ok"])
            \/ place = "error" /\ Becomes(r, Gone("error"))
         /\ call' \in [Requests -> CallRecord]
<1>1. Gone("dropped") \in CallRecord /\ Gone("error") \in CallRecord
  BY DEF Gone, CallRecord, Places
<1>2. [call[r] EXCEPT !.at = "ok"] \in CallRecord
  BY DEF CallRecord, Places, CaptureTypeOK
<1>3. call \in [Requests -> CallRecord]
  BY DEF CaptureTypeOK, CallRecord
<1>4. CASE ~call[r].waits
  <2>1. call' = [call EXCEPT ![r] = Gone("dropped")]
    BY <1>4 DEF Answer
  <2> QED BY <1>1, <1>3, <2>1 DEF Becomes
<1>5. CASE call[r].waits /\ place = "ok"
  <2>1. call' = [call EXCEPT ![r] = [call[r] EXCEPT !.at = "ok"]]
    BY <1>5 DEF Answer
  <2> QED BY <1>2, <1>3, <1>5, <2>1 DEF Becomes
<1>6. CASE call[r].waits /\ place = "error"
  <2>1. call' = [call EXCEPT ![r] = Gone("error")]
    BY <1>6 DEF Answer
  <2> QED BY <1>1, <1>3, <1>6, <2>1 DEF Becomes
<1> QED BY <1>4, <1>5, <1>6

(* A snapshot has a length.                                                *)
LEMMA SnapshotTyped ==
  ASSUME NEW events \in Seq(LineLengths)
  PROVE  jsonl_snapshot(events) \in Nat
<1>1. IsFiniteSet(DOMAIN events) /\ \A i \in DOMAIN events : events[i] = events[i] /\ events[i] \in Nat
  <2>1. DOMAIN events = 1..Len(events) /\ Len(events) \in Nat
    OBVIOUS
  <2>2. IsFiniteSet(1..Len(events))
    BY <2>1, FS_Interval
  <2>3. \A i \in DOMAIN events : events[i] \in LineLengths
    OBVIOUS
  <2>4. LineLengths \subseteq Nat
    BY CaptureAssumption
  <2> QED BY <2>1, <2>2, <2>3, <2>4
<1>2. SumFunctionOnSet(events, DOMAIN events) \in Nat
  BY <1>1, SumsAgree
<1> QED BY <1>2 DEF jsonl_snapshot, FoldSeq, FoldFunction, SumFunctionOnSet

(* record keeps a log of lines.                                            *)
LEMMA RecordTyped ==
  ASSUME NEW events \in Seq(LineLengths), NEW line \in LineLengths
  PROVE  record(events, line) \in Seq(LineLengths)
<1> DEFINE pushed == Append(events, line)
           from == IF Len(pushed) > LogCapacity THEN Len(pushed) - LogCapacity + 1 ELSE 1
<1>1. pushed \in Seq(LineLengths) /\ Len(pushed) \in Nat
  OBVIOUS
<1>2. from \in 1..(Len(pushed) + 1)
  BY <1>1, CaptureAssumption
<1>3. SubSeq(pushed, from, Len(pushed)) \in Seq(LineLengths)
  <2> HIDE DEF from, pushed
  <2> QED BY <1>1, <1>2, SubSeqProperties
<1> QED BY <1>3 DEF record

(* What FreeMutex and Return leave.                                        *)
LEMMA ReturnTyped ==
  ASSUME CaptureTypeOK, NEW r \in Requests, NEW place \in {"ok", "error"}, Return(r, place)
  PROVE  /\ call' \in [Requests -> CallRecord]
         /\ mutex' \in [Processes -> Requests \cup {Nobody}]
         /\ rootLock' \in Requests \cup {Nobody}
         /\ temps' \subseteq Requests
<1>1. call' \in [Requests -> CallRecord]
  BY AnswerBecomes DEF Return
<1>2. mutex' \in [Processes -> Requests \cup {Nobody}]
  BY DEF Return, FreeMutex, CaptureTypeOK
<1>3. rootLock' \in Requests \cup {Nobody} /\ temps' \subseteq Requests
  BY DEF Return, CaptureTypeOK
<1> QED BY <1>1, <1>2, <1>3

(* Every step of export_log, the log and the environment keeps the types.  *)
LEMMA TypesKept ==
  /\ Init => CaptureTypeOK
  /\ CaptureTypeOK /\ CallsChecked /\ [Next]_vars => CaptureTypeOK'
<1> DEFINE Entry == [kind : {"none", "file", "dir", "link"}, bytes : Nat, by : Requests \cup {Nobody}]
           Typed(l, c, m, rl, ro, te) ==
             /\ l \in [Processes -> Seq(LineLengths)]
             /\ c \in [Requests -> CallRecord]
             /\ m \in [Processes -> Requests \cup {Nobody}]
             /\ rl \in Requests \cup {Nobody}
             /\ ro \in [Names -> Entry]
             /\ te \subseteq Requests
<1>1. CaptureTypeOK <=> Typed(log, call, mutex, rootLock, root, temps)
  BY DEF CaptureTypeOK, CallRecord
<1>2. CaptureTypeOK' <=> Typed(log', call', mutex', rootLock', root', temps')
  BY DEF CaptureTypeOK, CallRecord
<1>3. Init => CaptureTypeOK
  <2> SUFFICES ASSUME Init PROVE CaptureTypeOK
    OBVIOUS
  <2>1. call \in [Requests -> CallRecord]
    BY DEF Init, CallRecord, Places
  <2>2. root \in [Names -> Entry]
    BY DEF Init, Absent
  <2>3. log \in [Processes -> Seq(LineLengths)]
    BY DEF Init
  <2> QED BY <1>1, <2>1, <2>2, <2>3 DEF Init
<1>4. CaptureTypeOK /\ CallsChecked /\ [Next]_vars => CaptureTypeOK'
  <2> SUFFICES ASSUME CaptureTypeOK, CallsChecked, [Next]_vars PROVE CaptureTypeOK'
    OBVIOUS
  <2>0. Typed(log, call, mutex, rootLock, root, temps)
    BY <1>1
  <2> HIDE DEF Entry
  <2>1. ASSUME NEW p \in Processes, NEW line \in LineLengths, Record(p, line) PROVE CaptureTypeOK'
    <3>1. record(log[p], line) \in Seq(LineLengths)
      BY <2>0, RecordTyped
    <3>2. log' \in [Processes -> Seq(LineLengths)]
      BY <2>0, <2>1, <3>1 DEF Record
    <3> QED BY <1>2, <2>0, <2>1, <3>2 DEF Record
  <2>2. ASSUME NEW p \in Processes, clear_log(p) PROVE CaptureTypeOK'
    BY <1>2, <2>0, <2>2 DEF clear_log
  <2>3. ASSUME NEW p \in Processes, Crash(p) PROVE CaptureTypeOK'
    <3>1. Gone("killed") \in CallRecord
      BY DEF Gone, CallRecord, Places
    <3>2. call' \in [Requests -> CallRecord]
      BY <2>0, <2>3, <3>1 DEF Crash
    <3>3. log' \in [Processes -> Seq(LineLengths)] /\ mutex' \in [Processes -> Requests \cup {Nobody}]
      BY <2>0, <2>3 DEF Crash
    <3>4. rootLock' \in Requests \cup {Nobody}
      BY <2>0, <2>3 DEF Crash
    <3> QED BY <1>2, <2>0, <2>3, <3>2, <3>3, <3>4 DEF Crash
  <2>4. ASSUME NEW r \in Requests, NEW p \in Processes, NEW n \in Names, NEW known \in BOOLEAN,
               export_log(r, p, n, known)
        PROVE  CaptureTypeOK'
    <3>1. call' \in [Requests -> CallRecord]
      <4>1. CASE call' = [call EXCEPT ![r].home = p, ![r].name = n, ![r].at = "snapshot"]
        <5> DEFINE new == [call[r] EXCEPT !.home = p, !.name = n, !.at = "snapshot"]
        <5>1. new \in CallRecord
          BY <2>0 DEF CallRecord, Places
        <5>2. call' = [call EXCEPT ![r] = new]
          BY <2>0, <4>1 DEF CallRecord
        <5> HIDE DEF new
        <5> QED BY <2>0, <5>1, <5>2
      <4>2. CASE Answer(r, "error")
        BY <4>2, AnswerBecomes
      <4> QED BY <2>4, <4>1, <4>2 DEF export_log
    <3> QED BY <1>2, <2>0, <2>4, <3>1 DEF export_log
  <2>5. ASSUME NEW r \in Requests, TakeSnapshot(r) PROVE CaptureTypeOK'
    <3>1. call' \in [Requests -> CallRecord]
      <4>1. CASE Answer(r, "error")
        BY <4>1, AnswerBecomes
      <4>2. ASSUME NEW bytes \in Nat, call' = [call EXCEPT ![r].bytes = bytes, ![r].at = "local"]
            PROVE  call' \in [Requests -> CallRecord]
        <5> DEFINE new == [call[r] EXCEPT !.bytes = bytes, !.at = "local"]
        <5>1. new \in CallRecord
          BY <2>0 DEF CallRecord, Places
        <5>2. call' = [call EXCEPT ![r] = new]
          BY <2>0, <4>2 DEF CallRecord
        <5> HIDE DEF new
        <5> QED BY <2>0, <5>1, <5>2
      <4>3. jsonl_snapshot(log[call[r].home]) \in Nat
        BY <2>0, <2>5, SnapshotTyped DEF TakeSnapshot, CallsChecked
      <4> QED BY <2>5, <4>1, <4>2, <4>3 DEF TakeSnapshot
    <3> QED BY <1>2, <2>0, <2>5, <3>1 DEF TakeSnapshot
  <2>6. ASSUME NEW r \in Requests, write_new(r) PROVE CaptureTypeOK'
    <3>1. call' \in [Requests -> CallRecord]
      BY <2>6, GoBecomes DEF write_new, Places, Committing
    <3> QED BY <1>2, <2>0, <2>6, <3>1 DEF write_new
  <2>7. ASSUME NEW r \in Requests, DropRequest(r) PROVE CaptureTypeOK'
    <3>1. [call[r] EXCEPT !.waits = FALSE] \in CallRecord /\ Gone("dropped") \in CallRecord
      BY <2>0 DEF Gone, CallRecord, Places
    <3>2. call' \in [Requests -> CallRecord]
      BY <2>0, <2>7, <3>1 DEF DropRequest
    <3> QED BY <1>2, <2>0, <2>7, <3>2 DEF DropRequest, FreeMutex
  <2>8. ASSUME NEW r \in Requests, acquire_root_lock(r) PROVE CaptureTypeOK'
    <3>1. call' \in [Requests -> CallRecord]
      BY <2>8, GoBecomes DEF acquire_root_lock, Places, Committing
    <3> QED BY <1>2, <2>0, <2>8, <3>1 DEF acquire_root_lock
  <2>9. ASSUME NEW r \in Requests, LockFails(r) PROVE CaptureTypeOK'
    BY <1>2, <2>0, <2>9, ReturnTyped DEF LockFails
  <2>10. ASSUME NEW r \in Requests, commit_new_file(r) PROVE CaptureTypeOK'
    <3>1. CASE Go(r, "temp") /\ UNCHANGED <<mutex, rootLock, temps>>
      <4>1. call' \in [Requests -> CallRecord]
        BY <3>1, GoBecomes DEF Places, Committing
      <4> QED BY <1>2, <2>0, <2>10, <3>1, <4>1 DEF commit_new_file
    <3>2. CASE Return(r, "error")
      BY <1>2, <2>0, <2>10, <3>2, ReturnTyped DEF commit_new_file
    <3> QED BY <2>10, <3>1, <3>2 DEF commit_new_file
  <2>11. ASSUME NEW r \in Requests, WriteTemp(r) PROVE CaptureTypeOK'
    <3>1. call' \in [Requests -> CallRecord]
      BY <2>11, GoBecomes DEF WriteTemp, Places, Committing
    <3> QED BY <1>2, <2>0, <2>11, <3>1 DEF WriteTemp
  <2>12. ASSUME NEW r \in Requests, TempFails(r) \/ PersistFails(r) PROVE CaptureTypeOK'
    BY <1>2, <2>0, <2>12, ReturnTyped DEF TempFails, PersistFails
  <2>13. ASSUME NEW r \in Requests, persist_noclobber(r) PROVE CaptureTypeOK'
    <3>1. [kind |-> "file", bytes |-> call[r].bytes, by |-> r] \in Entry
      BY <2>0 DEF Entry, CallRecord
    <3>2. root' \in [Names -> Entry]
      BY <2>0, <2>13, <3>1 DEF persist_noclobber
    <3> QED BY <1>2, <2>0, <2>13, <3>2, ReturnTyped DEF persist_noclobber
  <2>14. ASSUME NEW n \in PortableNames, NEW kind \in {"file", "dir", "link"}, NEW bytes \in Nat,
                PlaceEntry(n, kind, bytes)
         PROVE  CaptureTypeOK'
    <3>1. [kind |-> kind, bytes |-> bytes, by |-> Nobody] \in Entry
      BY DEF Entry
    <3>2. root' \in [Names -> Entry]
      BY <2>0, <2>14, <3>1 DEF PlaceEntry
    <3> QED BY <1>2, <2>0, <2>14, <3>2 DEF PlaceEntry
  <2>15. CASE UNCHANGED vars
    BY <1>2, <2>0, <2>15 DEF vars
  <2>16. LineLengths \subseteq Nat
    BY CaptureAssumption
  <2> QED BY <2>1, <2>2, <2>3, <2>4, <2>5, <2>6, <2>7, <2>8, <2>9, <2>10, <2>11, <2>12, <2>13, <2>14,
             <2>15, <2>16 DEF Next
<1> QED BY <1>3, <1>4

-----------------------------------------------------------------------------
(* Nothing is overwritten.                                                 *)

LEMMA RootGrows ==
  ASSUME CaptureTypeOK, [Next]_vars
  PROVE  \A n \in Names : root[n].kind # "none" => root'[n] = root[n]
<1>1. root \in [Names -> [kind : {"none", "file", "dir", "link"}, bytes : Nat,
                          by : Requests \cup {Nobody}]]
  BY DEF CaptureTypeOK
<1>2. CASE root' = root
  BY <1>2
<1>3. ASSUME NEW m, root[m].kind = "none", NEW entry, root' = [root EXCEPT ![m] = entry]
      PROVE  \A n \in Names : root[n].kind # "none" => root'[n] = root[n]
  BY <1>1, <1>3
<1>4. ASSUME NEW p \in Processes,
             (\E line \in LineLengths : Record(p, line)) \/ clear_log(p) \/ Crash(p)
      PROVE  root' = root
  BY <1>4 DEF Record, clear_log, Crash
<1>5. ASSUME NEW r \in Requests,
             \/ \E p \in Processes, n \in Names, known \in BOOLEAN : export_log(r, p, n, known)
             \/ TakeSnapshot(r) \/ write_new(r) \/ DropRequest(r) \/ acquire_root_lock(r)
             \/ LockFails(r) \/ commit_new_file(r) \/ WriteTemp(r) \/ TempFails(r) \/ PersistFails(r)
      PROVE  root' = root
  BY <1>5 DEF export_log, TakeSnapshot, write_new, DropRequest, acquire_root_lock, LockFails,
              commit_new_file, WriteTemp, TempFails, PersistFails
<1>6. ASSUME NEW r \in Requests, persist_noclobber(r)
      PROVE  \A n \in Names : root[n].kind # "none" => root'[n] = root[n]
  BY <1>3, <1>6 DEF persist_noclobber
<1>7. ASSUME NEW m, NEW kind, NEW bytes, PlaceEntry(m, kind, bytes)
      PROVE  \A n \in Names : root[n].kind # "none" => root'[n] = root[n]
  BY <1>3, <1>7 DEF PlaceEntry
<1>8. UNCHANGED vars => root' = root
  BY DEF vars
<1> QED BY <1>2, <1>4, <1>5, <1>6, <1>7, <1>8 DEF Next

-----------------------------------------------------------------------------
(* Answers are true.                                                       *)

(* A call goes on, fails or is dropped, and the root is left alone.        *)
LEMMA TruthOfMove ==
  ASSUME TruthInvariant, root' = root, NEW r \in Requests, NEW new, Becomes(r, new),
         new.at # "ok",
         new.at \in {"snapshot", "local"} \cup Committing =>
           new.name \in PortableNames /\ new.home \in Processes,
         new.at \in {"local"} \cup Committing => new.bytes <= max_file_bytes,
         new.at \in Pending \cup {"error"} => call[r].at \in Pending
  PROVE  TruthInvariant'
<1>1. CallsChecked'
  BY DEF TruthInvariant, CallsChecked, Becomes
<1>2. EntriesOwned'
  BY DEF TruthInvariant, EntriesOwned, Becomes
<1> QED BY <1>1, <1>2 DEF TruthInvariant

LEMMA TruthOfError ==
  ASSUME CaptureTypeOK, TruthInvariant, root' = root, NEW r \in Requests, call[r].at \in Pending,
         Answer(r, "error")
  PROVE  TruthInvariant'
<1>1. PICK place \in {"dropped", "error"} : Becomes(r, Gone(place))
  BY AnswerBecomes
<1>2. Gone(place).at = place
  BY DEF Gone
<1>3. Gone(place).at # "ok" /\ Gone(place).at \notin {"snapshot", "local"} \cup Committing
  BY <1>2 DEF Committing
<1> QED BY <1>1, <1>3, TruthOfMove

(* Moving on within the commit.                                            *)
LEMMA TruthOfGo ==
  ASSUME CaptureTypeOK, TruthInvariant, root' = root, NEW r \in Requests,
         call[r].at \in {"local"} \cup Committing, NEW place \in Committing, Go(r, place)
  PROVE  TruthInvariant'
<1> DEFINE new == [call[r] EXCEPT !.at = place]
<1>1. Becomes(r, new)
  BY GoBecomes DEF Places
<1>2. new.at = place /\ new.name = call[r].name /\ new.home = call[r].home /\ new.bytes = call[r].bytes
  BY DEF CaptureTypeOK
<1>3. /\ new.name \in PortableNames /\ new.home \in Processes
      /\ new.bytes <= max_file_bytes
      /\ call[r].at \in Pending /\ new.at # "ok"
  BY <1>2 DEF TruthInvariant, CallsChecked, Pending, Committing
<1> HIDE DEF new
<1> QED BY <1>1, <1>3, TruthOfMove

(* A success has its file.                                                 *)
LEMMA ExportedIsFile ==
  ASSUME TruthInvariant, NEW q \in Requests, call[q].at = "ok"
  PROVE  call[q].name \in Names /\ root[call[q].name].kind = "file"
<1>1. call[q].name \in Names
  BY CaptureAssumption DEF TruthInvariant, CallsChecked
<1>2. root[call[q].name] = [kind |-> "file", bytes |-> call[q].bytes, by |-> q]
  BY DEF TruthInvariant, EntriesOwned
<1>3. root[call[q].name].kind = "file"
  BY <1>2
<1> QED BY <1>1, <1>3

(* Every step keeps it so.                                                 *)
LEMMA TruthKept ==
  ASSUME CaptureTypeOK, TruthInvariant, [Next]_vars
  PROVE  TruthInvariant'
<1>1. ASSUME NEW p \in Processes, (\E line \in LineLengths : Record(p, line)) \/ clear_log(p)
      PROVE  TruthInvariant'
  BY <1>1 DEF Record, clear_log, TruthInvariant, CallsChecked, EntriesOwned
<1>2. ASSUME NEW p \in Processes, Crash(p) PROVE TruthInvariant'
  <2>1. root' = root /\ \A q \in Requests : call'[q] = call[q] \/ call'[q] = Gone("killed")
    BY <1>2 DEF Crash
  <2>2. Gone("killed").at = "killed"
    BY DEF Gone
  <2>3. CallsChecked'
    BY <2>1, <2>2 DEF TruthInvariant, CallsChecked, Committing
  <2>4. EntriesOwned'
    BY <2>1, <2>2 DEF TruthInvariant, EntriesOwned, Pending, Committing
  <2> QED BY <2>3, <2>4 DEF TruthInvariant
<1>3. ASSUME NEW r \in Requests, NEW p \in Processes, NEW n \in Names, NEW known \in BOOLEAN,
             export_log(r, p, n, known)
      PROVE  TruthInvariant'
  <2>1. root' = root /\ call[r].at \in Pending
    BY <1>3 DEF export_log, Pending
  <2>2. CASE Answer(r, "error")
    BY <2>1, <2>2, TruthOfError
  <2>3. CASE /\ n \in PortableNames
             /\ call' = [call EXCEPT ![r].home = p, ![r].name = n, ![r].at = "snapshot"]
    <3> DEFINE new == [call[r] EXCEPT !.home = p, !.name = n, !.at = "snapshot"]
    <3>1. Becomes(r, new)
      BY <2>3 DEF Becomes, CaptureTypeOK
    <3>2. new.at = "snapshot" /\ new.name = n /\ new.home = p
      BY DEF CaptureTypeOK
    <3>3. new.at # "ok" /\ new.at \notin {"local"} \cup Committing
      BY <3>2 DEF Committing
    <3> HIDE DEF new
    <3> QED BY <2>1, <2>3, <3>1, <3>2, <3>3, TruthOfMove
  <2> QED BY <1>3, <2>2, <2>3 DEF export_log, validate_capture_filename
<1>4. ASSUME NEW r \in Requests, TakeSnapshot(r) PROVE TruthInvariant'
  <2>1. root' = root /\ call[r].at = "snapshot" /\ call[r].at \in Pending
    BY <1>4 DEF TakeSnapshot, Pending
  <2>2. CASE Answer(r, "error")
    BY <2>1, <2>2, TruthOfError
  <2>3. ASSUME NEW bytes, ~(bytes > max_file_bytes), bytes \in Nat,
               call' = [call EXCEPT ![r].bytes = bytes, ![r].at = "local"]
        PROVE  TruthInvariant'
    <3> DEFINE new == [call[r] EXCEPT !.bytes = bytes, !.at = "local"]
    <3>1. Becomes(r, new)
      BY <2>3 DEF Becomes, CaptureTypeOK
    <3>2. new.at = "local" /\ new.name = call[r].name /\ new.home = call[r].home /\ new.bytes = bytes
      BY DEF CaptureTypeOK
    <3>3. new.name \in PortableNames /\ new.home \in Processes
      BY <2>1, <3>2 DEF TruthInvariant, CallsChecked
    <3>4. new.at # "ok" /\ new.bytes <= max_file_bytes
      BY <2>3, <3>2, CaptureAssumption
    <3> HIDE DEF new
    <3> QED BY <2>1, <3>1, <3>3, <3>4, TruthOfMove
  <2>4. jsonl_snapshot(log[call[r].home]) \in Nat
    BY <2>1, SnapshotTyped DEF TruthInvariant, CallsChecked, CaptureTypeOK
  <2> QED BY <1>4, <2>2, <2>3, <2>4 DEF TakeSnapshot
<1>5. ASSUME NEW r \in Requests, write_new(r) \/ acquire_root_lock(r) \/ WriteTemp(r)
      PROVE  TruthInvariant'
  <2>1. /\ root' = root
        /\ call[r].at \in {"local"} \cup Committing
        /\ \E place \in Committing : Go(r, place)
    BY <1>5 DEF write_new, acquire_root_lock, WriteTemp, Committing
  <2> QED BY <2>1, TruthOfGo
<1>6. ASSUME NEW r \in Requests, DropRequest(r) PROVE TruthInvariant'
  <2> DEFINE new == IF call[r].at \in Committing THEN [call[r] EXCEPT !.waits = FALSE] ELSE Gone("dropped")
  <2>1. root' = root /\ Becomes(r, new)
    BY <1>6 DEF DropRequest, Becomes, CaptureTypeOK
  <2>2. CASE call[r].at \in Committing
    <3>1. new.at = call[r].at /\ new.name = call[r].name /\ new.home = call[r].home /\ new.bytes = call[r].bytes
      BY <2>2 DEF CaptureTypeOK
    <3>2. /\ new.name \in PortableNames /\ new.home \in Processes
          /\ new.bytes <= max_file_bytes
          /\ call[r].at \in Pending /\ new.at # "ok"
      BY <2>2, <3>1 DEF TruthInvariant, CallsChecked, Pending, Committing
    <3> HIDE DEF new
    <3> QED BY <2>1, <3>2, TruthOfMove
  <2>3. CASE call[r].at \notin Committing
    <3>1. new.at = "dropped"
      BY <2>3 DEF Gone
    <3>2. new.at # "ok" /\ new.at \notin {"snapshot", "local"} \cup Committing /\ new.at \notin Pending \cup {"error"}
      BY <3>1 DEF Committing, Pending
    <3> HIDE DEF new
    <3> QED BY <2>1, <3>2, TruthOfMove
  <2> QED BY <2>2, <2>3
<1>7. ASSUME NEW r \in Requests, LockFails(r) \/ TempFails(r) \/ PersistFails(r) PROVE TruthInvariant'
  <2>1. root' = root /\ call[r].at \in Pending /\ Answer(r, "error")
    BY <1>7 DEF LockFails, TempFails, PersistFails, Return, Pending, Committing
  <2> QED BY <2>1, TruthOfError
<1>8. ASSUME NEW r \in Requests, commit_new_file(r) PROVE TruthInvariant'
  <2>1. root' = root /\ call[r].at \in Committing /\ call[r].at \in Pending
    BY <1>8 DEF commit_new_file, Pending, Committing
  <2>2. CASE Go(r, "temp")
    BY <2>1, <2>2, TruthOfGo DEF Committing
  <2>3. CASE Answer(r, "error")
    BY <2>1, <2>3, TruthOfError
  <2> QED BY <1>8, <2>2, <2>3 DEF commit_new_file, Return
<1>9. ASSUME NEW r \in Requests, persist_noclobber(r) PROVE TruthInvariant'
  <2> DEFINE n == call[r].name
             new == [call[r] EXCEPT !.at = "ok"]
             entry == [kind |-> "file", bytes |-> call[r].bytes, by |-> r]
  <2>1. n \in PortableNames /\ n \in Names /\ call[r].home \in Processes /\ call[r].bytes <= max_file_bytes
    BY <1>9, CaptureAssumption DEF persist_noclobber, TruthInvariant, CallsChecked, Committing
  <2>2. \A m \in Names : root'[m] = IF m = n THEN entry ELSE root[m]
    BY <1>9 DEF persist_noclobber, CaptureTypeOK
  <2>3. \E after \in {Gone("dropped"), new} : Becomes(r, after)
    BY <1>9, AnswerBecomes DEF persist_noclobber, Return
  <2>4. PICK after \in {Gone("dropped"), new} : Becomes(r, after)
    BY <2>3
  <2>5. new.at = "ok" /\ new.name = n /\ new.home = call[r].home /\ new.bytes = call[r].bytes
    BY DEF CaptureTypeOK
  <2>6. Gone("dropped").at = "dropped"
    BY DEF Gone
  <2>7. \/ after.at = "dropped"
        \/ after.at = "ok" /\ after.name = n /\ after.home = call[r].home /\ after.bytes = call[r].bytes
    BY <2>4, <2>5, <2>6
  <2>8. entry.kind = "file" /\ entry.by = r
    OBVIOUS
  <2>9. \A q \in Requests : call[q].at = "ok" => call[q].name # n
    <3>1. root[n].kind = "none"
      BY <1>9 DEF persist_noclobber
    <3> HIDE DEF n
    <3> QED BY <3>1, ExportedIsFile
  <2>10. \A q \in Requests : call[q].at = "ok" => call[q].name \in Names
    BY ExportedIsFile
  <2> HIDE DEF new
  <2>11. CallsChecked'
    BY <2>1, <2>4, <2>7 DEF TruthInvariant, CallsChecked, Becomes, Committing
  <2>12. \A q \in Requests : call'[q].at = "ok" =>
           root'[call'[q].name] = [kind |-> "file", bytes |-> call'[q].bytes, by |-> q]
    <3> TAKE q \in Requests
    <3>1. CASE q = r
      <4>1. call'[q].at = "ok" => call'[q].name = n /\ call'[q].bytes = call[r].bytes
        BY <2>4, <2>7, <3>1 DEF Becomes
      <4> QED BY <2>1, <2>2, <3>1, <4>1
    <3>2. CASE q # r
      <4>1. call'[q] = call[q]
        BY <2>4, <3>2 DEF Becomes
      <4> QED BY <2>2, <2>9, <2>10, <4>1 DEF TruthInvariant, EntriesOwned
    <3> QED BY <3>1, <3>2
  <2> HIDE DEF n, entry
  <2>13. EntriesOwned'
    <3>1. \A m \in Names : root'[m].by \in Requests => m \in PortableNames /\ root'[m].kind = "file"
      BY <2>1, <2>2, <2>8 DEF TruthInvariant, EntriesOwned
    <3>2. \A q \in Requests : call'[q].at \in Pending \cup {"error"} => \A m \in Names : root'[m].by # q
      BY <2>1, <2>2, <2>4, <2>7, <2>8 DEF TruthInvariant, EntriesOwned, Becomes, Pending, Committing
    <3> QED BY <2>12, <3>1, <3>2 DEF EntriesOwned
  <2> QED BY <2>11, <2>13 DEF TruthInvariant
<1>10. ASSUME NEW n \in PortableNames, NEW kind, NEW bytes, PlaceEntry(n, kind, bytes)
       PROVE  TruthInvariant'
  <2> DEFINE entry == [kind |-> kind, bytes |-> bytes, by |-> Nobody]
  <2>1. n \in Names /\ Nobody \notin Requests
    BY CaptureAssumption
  <2>2. call' = call /\ root[n].kind = "none" /\ \A m \in Names : root'[m] = IF m = n THEN entry ELSE root[m]
    BY <1>10 DEF PlaceEntry, CaptureTypeOK
  <2>3. entry.by = Nobody
    OBVIOUS
  <2> HIDE DEF entry
  <2>4. CallsChecked'
    BY <2>2 DEF TruthInvariant, CallsChecked
  <2>5. \A q \in Requests : call[q].at = "ok" => call[q].name \in Names /\ call[q].name # n
    BY <2>2, ExportedIsFile
  <2>6. EntriesOwned'
    BY <2>1, <2>2, <2>3, <2>5 DEF TruthInvariant, EntriesOwned
  <2> QED BY <2>4, <2>6 DEF TruthInvariant
<1>11. CASE UNCHANGED vars
  BY <1>11 DEF vars, TruthInvariant, CallsChecked, EntriesOwned
<1> QED BY <1>1, <1>2, <1>3, <1>4, <1>5, <1>6, <1>7, <1>8, <1>9, <1>10, <1>11 DEF Next

(* What every call and every entry of the root satisfies.                  *)
LEMMA CaptureTruth == Spec => [](CaptureTypeOK /\ TruthInvariant)
<1>1. Init => CaptureTypeOK
  BY TypesKept
<1>2. Init => TruthInvariant
  <2> SUFFICES ASSUME Init PROVE TruthInvariant
    OBVIOUS
  <2>1. \A r \in Requests : call[r].at = "idle"
    BY DEF Init
  <2>2. \A n \in Names : root[n].by = Nobody
    BY DEF Init, Absent
  <2> QED BY <2>1, <2>2, CaptureAssumption DEF TruthInvariant, CallsChecked, EntriesOwned, Committing
<1>3. CaptureTypeOK /\ TruthInvariant /\ [Next]_vars => CaptureTypeOK' /\ TruthInvariant'
  BY TypesKept, TruthKept DEF TruthInvariant
<1> QED BY <1>1, <1>2, <1>3, PTL DEF Spec

(* A call of export_log that reports success has committed exactly the     *)
(* bytes of its snapshot, within the limit of a file, and they are still   *)
(* there; one that reports an error has left no capture, whatever other    *)
(* calls, processes and the owner of the directory do.                     *)
THEOREM ExportsAreTruthful == Spec => []ExportsTruthful
<1>1. TruthInvariant => ExportsTruthful
  BY DEF TruthInvariant, CallsChecked, EntriesOwned, ExportsTruthful, Pending
<1> QED BY <1>1, CaptureTruth, PTL

(* persist_noclobber and the checks of commit_new_file never replace an    *)
(* entry of the capture root, whoever made it.                             *)
THEOREM CapturesNeverOverwritten == Spec => NeverOverwritten
<1>1. CaptureTypeOK /\ [Next]_vars =>
        [\A n \in Names : root[n].kind # "none" => root'[n] = root[n]]_vars
  BY RootGrows
<1> QED BY <1>1, CaptureTruth, PTL DEF Spec, NeverOverwritten

-----------------------------------------------------------------------------
(* The quotas.                                                             *)

(* The captures are among the files that the scan counts.                  *)
LEMMA ExportedFinite ==
  ASSUME CaptureTypeOK, TruthInvariant, IsFiniteSet(Managed("file"))
  PROVE  /\ Exported \subseteq Managed("file")
         /\ IsFiniteSet(Exported)
         /\ Cardinality(Exported) \in Nat
         /\ Cardinality(Exported) <= FilesInUse
         /\ \A n \in Names : Sizes[n] \in Nat
         /\ SumFunctionOnSet(Sizes, Exported) \in Nat
         /\ SumFunctionOnSet(Sizes, Exported) <= BytesInUse
<1>1. Exported \subseteq Managed("file") /\ Managed("file") \subseteq Names
  BY CaptureAssumption DEF Exported, Managed, TruthInvariant, EntriesOwned
<1>2. /\ IsFiniteSet(Exported) /\ Cardinality(Exported) \in Nat
      /\ Cardinality(Exported) <= Cardinality(Managed("file"))
  BY <1>1, FS_Subset, FS_CardinalityType
<1>3. \A n \in Names : Sizes[n] \in Nat
  BY DEF Sizes, CaptureTypeOK
<1>4. Exported \subseteq Names
  BY DEF Exported
<1>5. SumFunctionOnSet(Sizes, Exported) \in Nat
  <2>1. \A n \in Exported : Sizes[n] = Sizes[n] /\ Sizes[n] \in Nat
    BY <1>3, <1>4
  <2> QED BY <1>2, <2>1, SumsAgree
<1>6. SumFunctionOnSet(Sizes, Exported) <= BytesInUse
  <2>1. \A n \in Managed("file") : Sizes[n] \in Nat
    BY <1>1, <1>3
  <2> QED BY <1>1, <2>1, SumMonotone DEF BytesInUse
<1> QED BY <1>1, <1>2, <1>3, <1>5, <1>6 DEF FilesInUse

(* What the checks of commit_new_file establish.                           *)
LEMMA ScanReserves ==
  ASSUME CaptureTypeOK, TruthInvariant, IsFiniteSet(Managed("file")), NEW r \in Requests, Admissible(r)
  PROVE  /\ Cardinality(Exported) + 1 <= max_files
         /\ SumFunctionOnSet(Sizes, Exported) + call[r].bytes <= max_total_bytes
<1> DEFINE count == Cardinality(Exported)
           total == SumFunctionOnSet(Sizes, Exported)
<1>1. count \in Nat /\ count <= FilesInUse /\ total \in Nat /\ total <= BytesInUse
  BY ExportedFinite
<1>2. FilesInUse \in Nat /\ BytesInUse \in Nat
  <2>1. FilesInUse \in Nat
    BY FS_CardinalityType DEF FilesInUse
  <2>2. \A n \in Managed("file") : Sizes[n] = Sizes[n] /\ Sizes[n] \in Nat
    BY ExportedFinite, CaptureAssumption DEF Managed
  <2>3. BytesInUse \in Nat
    BY <2>2, SumsAgree DEF BytesInUse
  <2> QED BY <2>1, <2>3
<1>3. FilesInUse + 1 <= max_files /\ BytesInUse + call[r].bytes <= max_total_bytes
  BY DEF Admissible
<1>4. call[r].bytes \in Nat /\ max_files \in Nat /\ max_total_bytes \in Nat
  BY CaptureAssumption DEF CaptureTypeOK
<1> HIDE DEF count, total
<1>5. count + 1 <= max_files /\ total + call[r].bytes <= max_total_bytes
  BY <1>1, <1>2, <1>3, <1>4
<1> QED BY <1>5 DEF count, total

(* The root is left alone, and nobody comes to the rename unchecked.       *)
LEMMA QuotaOfMove ==
  ASSUME QuotaInvariant, root' = root,
         \A q \in Requests : call'[q].at \in Locked => rootLock' = q,
         \A q \in Requests : call'[q].at \in {"temp", "persist"} =>
           call[q].at \in {"temp", "persist"} /\ call'[q].bytes = call[q].bytes
  PROVE  QuotaInvariant'
<1>1. Sizes' = Sizes /\ Exported' = Exported /\ Managed("file")' = Managed("file")
  BY DEF Sizes, Exported, Managed
<1>2. LockHeld'
  BY DEF LockHeld
<1>3. IsFiniteSet(Managed("file"))' /\ QuotasHold'
  BY <1>1 DEF QuotaInvariant, QuotasHold
<1>4. Reserved'
  BY <1>1 DEF QuotaInvariant, Reserved
<1> QED BY <1>2, <1>3, <1>4 DEF QuotaInvariant

(* A call gives its place up, and the lock with it.                        *)
LEMMA QuotaOfReturn ==
  ASSUME CaptureTypeOK, QuotaInvariant, root' = root, NEW r \in Requests, Return(r, "error")
  PROVE  QuotaInvariant'
<1>1. PICK place \in {"dropped", "error"} : Becomes(r, Gone(place))
  BY AnswerBecomes DEF Return
<1>2. Gone(place).at \notin Locked /\ Gone(place).at \notin {"temp", "persist"}
  BY DEF Gone, Locked
<1>3. rootLock' = IF rootLock = r THEN Nobody ELSE rootLock
  BY DEF Return
<1>4. \A q \in Requests : call'[q].at \in Locked => rootLock' = q
  BY <1>1, <1>2, <1>3 DEF QuotaInvariant, LockHeld, Becomes
<1>5. \A q \in Requests : call'[q].at \in {"temp", "persist"} =>
        call[q].at \in {"temp", "persist"} /\ call'[q].bytes = call[q].bytes
  BY <1>1, <1>2 DEF Becomes
<1> QED BY <1>4, <1>5, QuotaOfMove

(* A call that has not scanned moves, and the lock does not.               *)
LEMMA QuotaOfStart ==
  ASSUME QuotaInvariant, root' = root, rootLock' = rootLock, NEW r \in Requests, NEW new,
         Becomes(r, new), new.at \notin Locked
  PROVE  QuotaInvariant'
<1>1. \A q \in Requests : call'[q].at \in Locked => rootLock' = q
  BY DEF QuotaInvariant, LockHeld, Becomes
<1>2. \A q \in Requests : call'[q].at \in {"temp", "persist"} =>
        call[q].at \in {"temp", "persist"} /\ call'[q].bytes = call[q].bytes
  BY DEF Becomes, Locked
<1> QED BY <1>1, <1>2, QuotaOfMove

(* Every step keeps the quotas.                                            *)
LEMMA QuotaKept ==
  ASSUME CaptureTypeOK, TruthInvariant, QuotaInvariant, [Next]_vars
  PROVE  QuotaInvariant'
<1>1. CASE call' = call /\ root' = root /\ rootLock' = rootLock
  BY <1>1, QuotaOfMove DEF QuotaInvariant, LockHeld
<1>2. ASSUME NEW p \in Processes, Crash(p) PROVE QuotaInvariant'
  <2>1. root' = root /\ \A q \in Requests :
          \/ call'[q] = call[q] /\ ~(call[q].home = p /\ call[q].at \in {"snapshot", "local"} \cup Committing)
          \/ call'[q] = Gone("killed")
    BY <1>2 DEF Crash
  <2>2. Gone("killed").at \notin Locked
    BY DEF Gone, Locked
  <2>3. ASSUME NEW q \in Requests, call'[q].at \in Locked PROVE rootLock' = q
    <3>1. call[q].at \in Locked /\ call[q].home # p /\ rootLock = q
      BY <2>1, <2>2, <2>3 DEF Locked, Committing, QuotaInvariant, LockHeld
    <3> QED BY <1>2, <3>1 DEF Crash
  <2>4. \A q \in Requests : call'[q].at \in {"temp", "persist"} =>
          call[q].at \in {"temp", "persist"} /\ call'[q].bytes = call[q].bytes
    BY <2>1, <2>2 DEF Locked
  <2> QED BY <2>1, <2>3, <2>4, QuotaOfMove
<1>3. ASSUME NEW r \in Requests, NEW p \in Processes, NEW n \in Names, NEW known \in BOOLEAN,
             export_log(r, p, n, known)
      PROVE  QuotaInvariant'
  <2>1. root' = root /\ rootLock' = rootLock
    BY <1>3 DEF export_log
  <2>2. \E new : Becomes(r, new) /\ new.at \notin Locked
    <3>1. CASE Answer(r, "error")
      <4>1. Becomes(r, Gone("dropped")) \/ Becomes(r, Gone("error"))
        BY <3>1, AnswerBecomes
      <4>2. Gone("dropped").at \notin Locked /\ Gone("error").at \notin Locked
        BY DEF Gone, Locked
      <4> QED BY <4>1, <4>2
    <3>2. CASE call' = [call EXCEPT ![r].home = p, ![r].name = n, ![r].at = "snapshot"]
      <4> DEFINE new == [call[r] EXCEPT !.home = p, !.name = n, !.at = "snapshot"]
      <4>1. Becomes(r, new)
        BY <3>2 DEF Becomes, CaptureTypeOK
      <4>2. new.at = "snapshot"
        BY DEF CaptureTypeOK
      <4> HIDE DEF new
      <4> QED BY <4>1, <4>2 DEF Locked
    <3> QED BY <1>3, <3>1, <3>2 DEF export_log
  <2> QED BY <2>1, <2>2, QuotaOfStart
<1>4. ASSUME NEW r \in Requests, TakeSnapshot(r) PROVE QuotaInvariant'
  <2>1. root' = root /\ rootLock' = rootLock
    BY <1>4 DEF TakeSnapshot
  <2>2. \E new : Becomes(r, new) /\ new.at \notin Locked
    <3>1. CASE Answer(r, "error")
      <4>1. Becomes(r, Gone("dropped")) \/ Becomes(r, Gone("error"))
        BY <3>1, AnswerBecomes
      <4>2. Gone("dropped").at \notin Locked /\ Gone("error").at \notin Locked
        BY DEF Gone, Locked
      <4> QED BY <4>1, <4>2
    <3>2. ASSUME NEW bytes, call' = [call EXCEPT ![r].bytes = bytes, ![r].at = "local"]
          PROVE  \E new : Becomes(r, new) /\ new.at \notin Locked
      <4> DEFINE new == [call[r] EXCEPT !.bytes = bytes, !.at = "local"]
      <4>1. Becomes(r, new)
        BY <3>2 DEF Becomes, CaptureTypeOK
      <4>2. new.at = "local"
        BY DEF CaptureTypeOK
      <4> HIDE DEF new
      <4> QED BY <4>1, <4>2 DEF Locked
    <3> QED BY <1>4, <3>1, <3>2 DEF TakeSnapshot
  <2> QED BY <2>1, <2>2, QuotaOfStart
<1>5. ASSUME NEW r \in Requests, write_new(r) PROVE QuotaInvariant'
  <2>1. root' = root /\ rootLock' = rootLock /\ Becomes(r, [call[r] EXCEPT !.at = "root"])
    BY <1>5, GoBecomes DEF write_new, Places, Committing
  <2>2. [call[r] EXCEPT !.at = "root"].at \notin Locked
    BY DEF Locked, CaptureTypeOK
  <2> QED BY <2>1, <2>2, QuotaOfStart
<1>6. ASSUME NEW r \in Requests, DropRequest(r) PROVE QuotaInvariant'
  <2>1. root' = root /\ rootLock' = rootLock
    BY <1>6 DEF DropRequest
  <2>2. CASE call[r].at \in Committing
    <3>1. Becomes(r, [call[r] EXCEPT !.waits = FALSE])
      BY <1>6, <2>2 DEF DropRequest, Becomes, CaptureTypeOK
    <3>2. [call[r] EXCEPT !.waits = FALSE].at = call[r].at /\ [call[r] EXCEPT !.waits = FALSE].bytes = call[r].bytes
      BY DEF CaptureTypeOK
    <3>3. \A q \in Requests : call'[q].at = call[q].at /\ call'[q].bytes = call[q].bytes
      BY <3>1, <3>2 DEF Becomes
    <3> QED BY <2>1, <3>3, QuotaOfMove DEF QuotaInvariant, LockHeld
  <2>3. CASE call[r].at \notin Committing
    <3>1. Becomes(r, Gone("dropped"))
      BY <1>6, <2>3 DEF DropRequest, Becomes, CaptureTypeOK
    <3>2. Gone("dropped").at \notin Locked
      BY DEF Gone, Locked
    <3> QED BY <2>1, <3>1, <3>2, QuotaOfStart
  <2> QED BY <2>2, <2>3
<1>7. ASSUME NEW r \in Requests, acquire_root_lock(r) PROVE QuotaInvariant'
  <2> DEFINE new == [call[r] EXCEPT !.at = "scan"]
  <2>1. root' = root /\ rootLock = Nobody /\ rootLock' = r /\ Becomes(r, new)
    BY <1>7, GoBecomes DEF acquire_root_lock, Places, Committing
  <2>2. new.at = "scan"
    BY DEF CaptureTypeOK
  <2> HIDE DEF new
  <2>3. \A q \in Requests : call[q].at \notin Locked
    BY <2>1, CaptureAssumption DEF QuotaInvariant, LockHeld
  <2>4. \A q \in Requests : call'[q].at \in Locked => rootLock' = q
    BY <2>1, <2>3 DEF Becomes
  <2>5. \A q \in Requests : call'[q].at \notin {"temp", "persist"}
    BY <2>1, <2>2, <2>3 DEF Becomes, Locked
  <2> QED BY <2>1, <2>4, <2>5, QuotaOfMove
<1>8. ASSUME NEW r \in Requests, LockFails(r) \/ TempFails(r) \/ PersistFails(r) PROVE QuotaInvariant'
  BY <1>8, QuotaOfReturn DEF LockFails, TempFails, PersistFails
<1>9. ASSUME NEW r \in Requests, commit_new_file(r) PROVE QuotaInvariant'
  <2>1. root' = root
    BY <1>9 DEF commit_new_file
  <2>2. CASE Return(r, "error")
    BY <2>1, <2>2, QuotaOfReturn
  <2>3. CASE Admissible(r) /\ Go(r, "temp") /\ rootLock' = rootLock
    <3> DEFINE new == [call[r] EXCEPT !.at = "temp"]
    <3>1. Becomes(r, new) /\ call[r].at \in Locked
      BY <1>9, <2>3, GoBecomes DEF commit_new_file, Places, Committing, Locked
    <3>2. new.at = "temp" /\ new.bytes = call[r].bytes
      BY DEF CaptureTypeOK
    <3> HIDE DEF new
    <3>3. Sizes' = Sizes /\ Exported' = Exported /\ Managed("file")' = Managed("file")
      BY <2>1 DEF Sizes, Exported, Managed
    <3>4. LockHeld'
      BY <2>3, <3>1 DEF QuotaInvariant, LockHeld, Becomes
    <3>5. IsFiniteSet(Managed("file"))' /\ QuotasHold'
      BY <3>3 DEF QuotaInvariant, QuotasHold
    <3>6. Reserved'
      <4>1. /\ Cardinality(Exported) + 1 <= max_files
            /\ SumFunctionOnSet(Sizes, Exported) + call[r].bytes <= max_total_bytes
        BY <2>3, ScanReserves DEF QuotaInvariant
      <4>2. ASSUME NEW q \in Requests, call'[q].at \in {"temp", "persist"}
            PROVE  /\ Cardinality(Exported) + 1 <= max_files
                   /\ SumFunctionOnSet(Sizes, Exported) + call'[q].bytes <= max_total_bytes
        BY <3>1, <3>2, <4>1, <4>2 DEF QuotaInvariant, Reserved, Becomes
      <4> QED BY <3>3, <4>2 DEF Reserved
    <3> QED BY <3>4, <3>5, <3>6 DEF QuotaInvariant
  <2> QED BY <1>9, <2>2, <2>3 DEF commit_new_file
<1>10. ASSUME NEW r \in Requests, WriteTemp(r) PROVE QuotaInvariant'
  <2> DEFINE new == [call[r] EXCEPT !.at = "persist"]
  <2>1. root' = root /\ rootLock' = rootLock /\ Becomes(r, new) /\ call[r].at = "temp"
    BY <1>10, GoBecomes DEF WriteTemp, Places, Committing
  <2>2. new.at = "persist" /\ new.bytes = call[r].bytes
    BY DEF CaptureTypeOK
  <2> HIDE DEF new
  <2>3. \A q \in Requests : call'[q].at \in Locked => rootLock' = q
    BY <2>1 DEF QuotaInvariant, LockHeld, Becomes, Locked
  <2>4. \A q \in Requests : call'[q].at \in {"temp", "persist"} =>
          call[q].at \in {"temp", "persist"} /\ call'[q].bytes = call[q].bytes
    BY <2>1, <2>2 DEF Becomes
  <2> QED BY <2>1, <2>3, <2>4, QuotaOfMove
<1>11. ASSUME NEW r \in Requests, persist_noclobber(r) PROVE QuotaInvariant'
  <2> DEFINE n == call[r].name
             entry == [kind |-> "file", bytes |-> call[r].bytes, by |-> r]
  <2>1. n \in PortableNames /\ n \in Names
    BY <1>11, CaptureAssumption DEF persist_noclobber, TruthInvariant, CallsChecked, Committing
  <2>2. /\ root[n].kind = "none" /\ call[r].at = "persist"
        /\ \A m \in Names : root'[m] = IF m = n THEN entry ELSE root[m]
    BY <1>11 DEF persist_noclobber, CaptureTypeOK
  <2>3. entry.kind = "file" /\ entry.bytes = call[r].bytes /\ entry.by = r
    OBVIOUS
  <2>4. \A q \in Requests : call[q].at \in Locked => q = r
    BY <2>2 DEF QuotaInvariant, LockHeld, Locked
  <2>5. \A q \in Requests : call'[q].at \notin Locked
    <3>1. \E place \in {"dropped", "ok"} : call'[r].at = place
      <4>1. Becomes(r, Gone("dropped")) \/ Becomes(r, [call[r] EXCEPT !.at = "ok"])
        BY <1>11, AnswerBecomes DEF persist_noclobber, Return
      <4>2. Gone("dropped").at = "dropped" /\ [call[r] EXCEPT !.at = "ok"].at = "ok"
        BY DEF Gone, CaptureTypeOK
      <4>3. call'[r] = Gone("dropped") \/ call'[r] = [call[r] EXCEPT !.at = "ok"]
        BY <4>1 DEF Becomes
      <4> QED BY <4>2, <4>3
    <3>2. \A q \in Requests \ {r} : call'[q] = call[q]
      BY <1>11, AnswerBecomes DEF persist_noclobber, Return, Becomes
    <3> QED BY <2>4, <3>1, <3>2 DEF Locked
  <2>6. LockHeld' /\ Reserved'
    BY <2>5 DEF LockHeld, Reserved, Locked
  <2> HIDE DEF n, entry
  <2>7. Exported' = Exported \cup {n} /\ n \notin Exported
    <3>1. n \notin Exported
      BY <2>2 DEF Exported, TruthInvariant, EntriesOwned
    <3>2. \A m : m \in Exported' <=> m \in Exported \cup {n}
      BY <2>1, <2>2, <2>3 DEF Exported
    <3> QED BY <3>1, <3>2
  <2>8. Managed("file")' = Managed("file") \cup {n}
    <3>1. \A m : m \in Managed("file")' <=> m \in Managed("file") \cup {n}
      BY <2>1, <2>2, <2>3, CaptureAssumption DEF Managed
    <3> QED BY <3>1
  <2>9. IsFiniteSet(Managed("file"))'
    BY <2>8, FS_AddElement DEF QuotaInvariant
  <2>10. /\ IsFiniteSet(Exported) /\ Cardinality(Exported) \in Nat
         /\ \A m \in Names : Sizes[m] \in Nat
         /\ SumFunctionOnSet(Sizes, Exported) \in Nat
    BY ExportedFinite DEF QuotaInvariant
  <2>11. IsFiniteSet(Exported') /\ Cardinality(Exported') = Cardinality(Exported) + 1
    BY <2>7, <2>10, FS_AddElement
  <2>12. \A m \in Names : Sizes'[m] = IF m = n THEN call[r].bytes ELSE Sizes[m]
    BY <2>2, <2>3 DEF Sizes
  <2>13. call[r].bytes \in Nat
    BY DEF CaptureTypeOK
  <2>14. SumFunctionOnSet(Sizes, Exported)' = call[r].bytes + SumFunctionOnSet(Sizes, Exported)
    <3> DEFINE before == Exported
               sizes == Sizes
    <3>0. before \subseteq Names
      BY DEF Exported
    <3>1. Exported' \ {n} = before /\ n \in Exported' /\ before \subseteq Names /\ n \notin before
      BY <2>7, <3>0
    <3>2. \A m \in Exported' : Sizes'[m] \in Nat
      BY <2>1, <2>7, <2>10, <2>12, <2>13, <3>0
    <3>3. SumFunctionOnSet(Sizes', Exported') = Sizes'[n] + SumFunctionOnSet(Sizes', Exported' \ {n})
      BY <2>11, <3>1, <3>2, SumRemoves
    <3>4. \A m \in before : Sizes'[m] = sizes[m] /\ Sizes'[m] \in Nat
      BY <2>10, <2>12, <3>1
    <3>5. SumFunctionOnSet(Sizes', before) = SumFunctionOnSet(sizes, before)
      <4>1. IsFiniteSet(before)
        BY <2>10
      <4> HIDE DEF before, sizes
      <4> QED BY <3>4, <4>1, SumsAgree
    <3>6. Sizes'[n] = call[r].bytes
      BY <2>1, <2>12
    <3> QED BY <3>1, <3>3, <3>5, <3>6
  <2>15. QuotasHold'
    <3>1. /\ Cardinality(Exported) + 1 <= max_files
          /\ SumFunctionOnSet(Sizes, Exported) + call[r].bytes <= max_total_bytes
      BY <2>2 DEF QuotaInvariant, Reserved
    <3>2. Cardinality(Exported)' <= max_files
      BY <2>11, <3>1
    <3>3. SumFunctionOnSet(Sizes, Exported)' <= max_total_bytes
      BY <2>10, <2>13, <2>14, <3>1, CaptureAssumption
    <3> QED BY <3>2, <3>3 DEF QuotasHold
  <2> QED BY <2>6, <2>9, <2>15 DEF QuotaInvariant
<1>12. ASSUME NEW n \in PortableNames, NEW kind, NEW bytes \in Nat, PlaceEntry(n, kind, bytes)
       PROVE  QuotaInvariant'
  <2> DEFINE entry == [kind |-> kind, bytes |-> bytes, by |-> Nobody]
  <2>1. n \in Names /\ Nobody \notin Requests
    BY CaptureAssumption
  <2>2. /\ call' = call /\ rootLock' = rootLock /\ root[n].kind = "none"
        /\ \A m \in Names : root'[m] = IF m = n THEN entry ELSE root[m]
    BY <1>12 DEF PlaceEntry, CaptureTypeOK
  <2>3. entry.by = Nobody
    OBVIOUS
  <2> HIDE DEF entry
  <2>4. Exported' = Exported /\ n \notin Exported /\ Exported \subseteq Names
    <3>1. n \notin Exported
      BY <2>2 DEF Exported, TruthInvariant, EntriesOwned
    <3>2. \A m : m \in Exported' <=> m \in Exported
      BY <2>1, <2>2, <2>3, <3>1 DEF Exported
    <3> QED BY <3>1, <3>2 DEF Exported
  <2>5. IsFiniteSet(Managed("file"))'
    <3>1. \A m : m \in Managed("file")' => m \in Managed("file") \cup {n}
      BY <2>1, <2>2, CaptureAssumption DEF Managed
    <3>2. IsFiniteSet(Managed("file") \cup {n})
      BY FS_AddElement DEF QuotaInvariant
    <3>3. Managed("file")' \subseteq Managed("file") \cup {n}
      BY <3>1
    <3> QED BY <3>2, <3>3, FS_Subset
  <2>6. \A m \in Exported : Sizes'[m] = Sizes[m] /\ Sizes'[m] \in Nat
    <3>1. \A m \in Names : Sizes[m] \in Nat
      BY ExportedFinite DEF QuotaInvariant
    <3>2. \A m \in Names \ {n} : Sizes'[m] = Sizes[m]
      BY <2>2 DEF Sizes
    <3> QED BY <2>4, <3>1, <3>2
  <2>7. SumFunctionOnSet(Sizes', Exported) = SumFunctionOnSet(Sizes, Exported)
    <3>1. IsFiniteSet(Exported)
      BY ExportedFinite DEF QuotaInvariant
    <3> QED BY <2>6, <3>1, SumsAgree
  <2>8. SumFunctionOnSet(Sizes, Exported)' = SumFunctionOnSet(Sizes, Exported)
    BY <2>4, <2>7
  <2>9. LockHeld'
    BY <2>2 DEF QuotaInvariant, LockHeld
  <2>10. QuotasHold'
    BY <2>4, <2>8 DEF QuotaInvariant, QuotasHold
  <2>11. Reserved'
    BY <2>2, <2>4, <2>8 DEF QuotaInvariant, Reserved
  <2> QED BY <2>5, <2>9, <2>10, <2>11 DEF QuotaInvariant
<1>13. ASSUME NEW p \in Processes, (\E line \in LineLengths : Record(p, line)) \/ clear_log(p)
       PROVE  QuotaInvariant'
  BY <1>1, <1>13 DEF Record, clear_log
<1>14. CASE UNCHANGED vars
  BY <1>1, <1>14 DEF vars
<1>15. LineLengths \subseteq Nat
  BY CaptureAssumption
<1> QED BY <1>2, <1>3, <1>4, <1>5, <1>6, <1>7, <1>8, <1>9, <1>10, <1>11, <1>12, <1>13, <1>14, <1>15 DEF Next

(* The captures in the root stay within the count and the byte quota of    *)
(* commit_new_file, whatever processes export at the same time, die or     *)
(* lose their client, and whatever the owner puts into the directory.      *)
THEOREM QuotasAlwaysHold == Spec => []QuotasHold
<1>1. Init => QuotaInvariant
  <2> SUFFICES ASSUME Init PROVE QuotaInvariant
    OBVIOUS
  <2>1. Exported = {} /\ Managed("file") = {}
    BY CaptureAssumption DEF Init, Absent, Exported, Managed
  <2>2. IsFiniteSet({}) /\ Cardinality({}) = 0
    BY FS_EmptySet
  <2>3. SumFunctionOnSet(Sizes, {}) = 0
    BY <2>2, SumPicks
  <2>4. LockHeld /\ Reserved
    BY DEF Init, LockHeld, Reserved, Locked
  <2> QED BY <2>1, <2>2, <2>3, <2>4, CaptureAssumption DEF QuotaInvariant, QuotasHold
<1>2. CaptureTypeOK /\ TruthInvariant /\ QuotaInvariant /\ [Next]_vars => QuotaInvariant'
  BY QuotaKept
<1>3. QuotaInvariant => QuotasHold
  BY DEF QuotaInvariant
<1> QED BY <1>1, <1>2, <1>3, CaptureTruth, PTL DEF Spec

=============================================================================
