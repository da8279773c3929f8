-------------------------- MODULE BufferBudgetProofs --------------------------
(***************************************************************************)
(* The compare-exchange loop never underflows the counter, implements the  *)
(* atomic pool of BudgetPool and neither loses nor creates a byte, for any *)
(* number of tasks and any limits.                                         *)
(***************************************************************************)
EXTENDS BufferBudget, FiniteSetTheorems, WellFoundedInduction, TLAPS

(* What the proofs carry from step to step: types, and that a loaded value *)
(* covers an admissible request.                                           *)
RequestOK ==
  \A t \in Tasks : pc[t] # "idle" => bytes[t] \in Requests /\ bytes[t] # 0 /\ bytes[t] <= tool_limit

BudgetInvariant == TypeOK /\ LoadCovers /\ RequestOK

LEMMA BudgetInit == Init => BudgetInvariant
BY BudgetAssumption DEF Init, BudgetInvariant, TypeOK, LoadCovers, RequestOK

LEMMA BudgetStep == BudgetInvariant /\ [Next]_vars => BudgetInvariant'
<1> SUFFICES ASSUME BudgetInvariant, [Next]_vars PROVE BudgetInvariant'
  OBVIOUS
<1> USE BudgetAssumption DEF BudgetInvariant, TypeOK, LoadCovers, RequestOK, Goto, Leave
<1>1. ASSUME NEW t \in Tasks, NEW n \in Requests, TryReserve(t, n) PROVE BudgetInvariant'
  BY <1>1 DEF TryReserve
<1>2. ASSUME NEW t \in Tasks, Load(t) PROVE BudgetInvariant'
  BY <1>2 DEF Load
<1>3. ASSUME NEW t \in Tasks, CompareExchange(t) PROVE BudgetInvariant'
  BY <1>3 DEF CompareExchange
<1>4. ASSUME NEW t \in Tasks, Swap(t) PROVE BudgetInvariant'
  BY <1>4 DEF Swap
<1>5. ASSUME NEW t \in Tasks, FetchAdd(t) PROVE BudgetInvariant'
  BY <1>5 DEF FetchAdd
<1>6. CASE UNCHANGED vars
  BY <1>6 DEF vars
<1> QED BY <1>1, <1>2, <1>3, <1>4, <1>5, <1>6 DEF Next

(* The counter of AtomicBudget stays a natural number: no interleaving of  *)
(* compare-exchange loops and drops makes available underflow.             *)
THEOREM BudgetTyped == Spec => []TypeOK
<1>1. BudgetInvariant => TypeOK
  BY DEF BudgetInvariant
<1> QED BY BudgetInit, BudgetStep, <1>1, PTL DEF Spec

LEMMA PoolInit == Init => Pool!PInit
BY BudgetAssumption DEF Init, Pool!PInit, Charged

LEMMA PoolStep == BudgetInvariant /\ [Next]_vars => [Pool!PNext]_<<available, Charged>>
<1> SUFFICES ASSUME BudgetInvariant, [Next]_vars,
                    ~ UNCHANGED <<available, Charged>>
             PROVE  Pool!PNext
  OBVIOUS
<1> USE BudgetAssumption DEF BudgetInvariant, TypeOK, LoadCovers, RequestOK, Goto, Leave
<1>1. ASSUME NEW t \in Tasks, NEW n \in Requests, TryReserve(t, n) PROVE FALSE
  BY <1>1 DEF TryReserve, Charged
<1>2. ASSUME NEW t \in Tasks, Load(t) PROVE FALSE
  BY <1>2 DEF Load, Charged
<1>3. ASSUME NEW t \in Tasks, CompareExchange(t) PROVE Pool!PNext
  <2>1. CASE available = current[t]
    <3>1. Charged[t] = 0
      BY <1>3 DEF CompareExchange, Charged
    <3>2. Charged' = [Charged EXCEPT ![t] = bytes[t]]
      BY <1>3, <2>1 DEF CompareExchange, Charged
    <3>3. bytes[t] \in Requests /\ bytes[t] > 0 /\ bytes[t] <= tool_limit
      BY <1>3 DEF CompareExchange
    <3>4. bytes[t] <= available /\ available' = available - bytes[t]
      BY <1>3, <2>1 DEF CompareExchange
    <3>5. Pool!Reserve(t, bytes[t])
      BY <3>1, <3>2, <3>3, <3>4 DEF Pool!Reserve, Pool!CanReserve, Pool!Admissible
    <3> QED BY <3>3, <3>5 DEF Pool!PNext
  <2>2. CASE available # current[t]
    BY <1>3, <2>2 DEF CompareExchange, Charged
  <2> QED BY <2>1, <2>2
<1>4. ASSUME NEW t \in Tasks, Swap(t) PROVE FALSE
  BY <1>4 DEF Swap, Charged
<1>5. ASSUME NEW t \in Tasks, FetchAdd(t) PROVE Pool!PNext
  <2>1. Pool!Release(t)
    BY <1>5 DEF FetchAdd, Charged, Pool!Release
  <2> QED BY <2>1 DEF Pool!PNext
<1>6. CASE UNCHANGED vars
  BY <1>6 DEF vars, Charged
<1> QED BY <1>1, <1>2, <1>3, <1>4, <1>5, <1>6 DEF Next

(* AtomicBudget implements the pool: the load, the exchange and its        *)
(* retries, the flag and the fetch_add look to every other task like one   *)
(* indivisible reservation and one indivisible return.                     *)
THEOREM BudgetImplementsPool == Spec => ImplementsPool
<1>1. Spec => []BudgetInvariant
  BY BudgetInit, BudgetStep, PTL DEF Spec
<1> QED BY <1>1, PoolInit, PoolStep, PTL DEF Spec, ImplementsPool, Pool!PSpec

-----------------------------------------------------------------------------
(* Sums.  MapThenSumSet takes the elements in the order CHOOSE gives them, *)
(* by a recursive function on the subsets; SumOf is its recursion.         *)

LEMMA LeastExists ==
  ASSUME NEW S \in SUBSET Nat, S # {}
  PROVE  \E i \in S : \A j \in S : i <= j
<1> DEFINE R == OpToRel(<, Nat)
<1>1. IsWellFoundedOn(R, Nat)
  BY NatLessThanWellFounded
<1>2. PICK i \in S : \A j \in S : ~ (<<j, i>> \in R)
  <2> HIDE DEF R
  <2> QED BY <1>1, WFMin
<1>3. \A j \in S : ~ (j < i)
  BY <1>2 DEF OpToRel
<1> QED BY <1>3

Pick(s) == CHOOSE x \in s : TRUE

SumOf(g, f, s) == IF s = {} THEN 0 ELSE f[Pick(s)] + g[s \ {Pick(s)}]
Summing(g, f, S) == g = [s \in SUBSET S |-> SumOf(g, f, s)]

(* The same for the subsets with at most n elements.                       *)
UpTo(n, S) == {s \in SUBSET S : Cardinality(s) <= n}
SummingUpTo(n, g, f, S) == g = [s \in UpTo(n, S) |-> SumOf(g, f, s)]

LEMMA Picked ==
  ASSUME NEW s, s # {}, IsFiniteSet(s)
  PROVE  /\ Pick(s) \in s
         /\ IsFiniteSet(s \ {Pick(s)})
         /\ Cardinality(s) \in Nat
         /\ Cardinality(s \ {Pick(s)}) = Cardinality(s) - 1
<1>1. Pick(s) \in s
  BY DEF Pick
<1> QED BY <1>1, FS_RemoveElement, FS_CardinalityType

(* The recursion has a solution: one for n + 1 extends the one for n.      *)
LEMMA SummingExists ==
  ASSUME NEW S, IsFiniteSet(S), NEW f
  PROVE  \E g : Summing(g, f, S)
<1>1. ASSUME NEW s \in SUBSET S PROVE IsFiniteSet(s) /\ Cardinality(s) \in Nat
  BY FS_Subset, FS_CardinalityType
<1>2. ASSUME NEW n \in Nat PROVE \E g : SummingUpTo(n, g, f, S)
  <2> DEFINE Bad == {m \in Nat : ~ \E g : SummingUpTo(m, g, f, S)}
  <2>1. SUFFICES ASSUME Bad # {} PROVE FALSE
    OBVIOUS
  <2>2. PICK m \in Bad : \A k \in Bad : m <= k
    <3>1. Bad \in SUBSET Nat
      OBVIOUS
    <3> HIDE DEF Bad
    <3> QED BY <2>1, <3>1, LeastExists
  <2>3. m # 0
    <3>1. SUFFICES ASSUME m = 0 PROVE \E g : SummingUpTo(m, g, f, S)
      BY <2>2
    <3> DEFINE g == [s \in UpTo(m, S) |-> 0]
    <3>2. \A s \in UpTo(m, S) : s = {}
      <4> TAKE s \in UpTo(m, S)
      <4>1. s \in SUBSET S /\ Cardinality(s) <= 0
        BY <3>1 DEF UpTo
      <4>2. Cardinality(s) = 0
        BY <1>1, <4>1
      <4> QED BY <1>1, <4>1, <4>2, FS_EmptySet
    <3>3. SummingUpTo(m, g, f, S)
      BY <3>2 DEF SummingUpTo, SumOf
    <3> QED BY <3>3
  <2>4. m - 1 \in Nat /\ m - 1 \notin Bad
    BY <2>2, <2>3
  <2>5. PICK h : SummingUpTo(m - 1, h, f, S)
    BY <2>4
  <2> DEFINE g == [s \in UpTo(m, S) |-> SumOf(h, f, s)]
  <2>6. ASSUME NEW s \in UpTo(m - 1, S) PROVE s \in UpTo(m, S) /\ g[s] = h[s]
    <3>1. s \in UpTo(m, S)
      BY <1>1, <2>4 DEF UpTo
    <3> QED BY <2>5, <3>1 DEF SummingUpTo
  <2>7. ASSUME NEW s \in UpTo(m, S) PROVE SumOf(h, f, s) = SumOf(g, f, s)
    <3>1. CASE s = {}
      BY <3>1 DEF SumOf
    <3>2. CASE s # {}
      <4> DEFINE r == s \ {Pick(s)}
      <4>1. r \in SUBSET S /\ Cardinality(s) \in Nat /\ Cardinality(s) <= m /\ Cardinality(r) = Cardinality(s) - 1
        BY <1>1, <3>2, Picked DEF UpTo
      <4>2. r \in UpTo(m - 1, S)
        BY <2>4, <4>1 DEF UpTo
      <4>3. g[r] = h[r]
        BY <2>6, <4>2
      <4> HIDE DEF g
      <4> QED BY <3>2, <4>3 DEF SumOf
    <3> QED BY <3>1, <3>2
  <2>8. SummingUpTo(m, g, f, S)
    BY <2>7, Zenon DEF SummingUpTo
  <2> QED BY <2>2, <2>8
<1>3. PICK g : SummingUpTo(Cardinality(S), g, f, S)
  BY <1>1, <1>2
<1>4. UpTo(Cardinality(S), S) = SUBSET S
  BY FS_Subset, FS_CardinalityType DEF UpTo
<1> QED BY <1>3, <1>4 DEF SummingUpTo, Summing

(* The total charge is a solution of the recursion.                        *)
LEMMA TotalSolves ==
  ASSUME NEW f PROVE \E g : Summing(g, f, Tasks) /\ Total(f) = g[Tasks]
<1> DEFINE g == CHOOSE g : Summing(g, f, Tasks)
<1>1. Summing(g, f, Tasks)
  BY SummingExists, BudgetAssumption
<1>2. Total(f) = g[Tasks]
  BY DEF Total, MapThenSumSet, MapThenFoldSet, Summing, SumOf, Pick
<1> QED BY <1>1, <1>2

(* A change of one charge changes the sum over every set that has it.      *)
LEMMA SummingMoves ==
  ASSUME NEW S, IsFiniteSet(S), NEW x \in S, NEW f, NEW e, \A y \in S : f[y] \in Int /\ e[y] \in Int,
         \A y \in S \ {x} : e[y] = f[y],
         NEW g, NEW h, Summing(g, f, S), Summing(h, e, S)
  PROVE  g[S] \in Int /\ h[S] = g[S] + (e[x] - f[x])
<1> DEFINE Moved(s) == IF x \in s THEN e[x] - f[x] ELSE 0
           Good(s) == g[s] \in Int /\ h[s] = g[s] + Moved(s)
           Bad == {n \in Nat : \E s \in SUBSET S : Cardinality(s) = n /\ ~Good(s)}
<1>1. ASSUME NEW s \in SUBSET S PROVE IsFiniteSet(s) /\ Cardinality(s) \in Nat
  BY FS_Subset, FS_CardinalityType
<1>2. SUFFICES ASSUME Bad # {} PROVE FALSE
  BY <1>1
<1>3. PICK n \in Bad : \A k \in Bad : n <= k
  <2>1. Bad \in SUBSET Nat
    OBVIOUS
  <2> HIDE DEF Bad
  <2> QED BY <1>2, <2>1, LeastExists
<1>4. PICK s \in SUBSET S : Cardinality(s) = n /\ ~Good(s)
  BY <1>3
<1>5. g[s] = SumOf(g, f, s) /\ h[s] = SumOf(h, e, s)
  BY <1>4 DEF Summing
<1>6. CASE s = {}
  BY <1>4, <1>5, <1>6 DEF SumOf
<1>7. CASE s # {}
  <2> DEFINE p == Pick(s)
             r == s \ {p}
  <2>1. r \in SUBSET S /\ p \in s /\ p \in S /\ Cardinality(r) = n - 1 /\ n \in Nat
    BY <1>1, <1>4, <1>7, Picked
  <2>2. Cardinality(r) \in Nat
    BY <1>1, <2>1
  <2>3. Good(r)
    BY <1>3, <2>1, <2>2
  <2>4. g[s] = f[p] + g[r] /\ h[s] = e[p] + h[r]
    BY <1>5, <1>7 DEF SumOf
  <2>5. f[p] \in Int /\ e[p] \in Int /\ f[x] \in Int /\ e[x] \in Int /\ (p # x => e[p] = f[p])
    BY <2>1
  <2>6. (x \in s <=> p = x \/ x \in r) /\ (p = x => x \notin r)
    BY <2>1
  <2> HIDE DEF p, r
  <2> QED BY <1>4, <2>3, <2>4, <2>5, <2>6
<1> QED BY <1>6, <1>7

LEMMA TotalMoves ==
  ASSUME NEW f \in [Tasks -> Int], NEW t \in Tasks, NEW n \in Int
  PROVE  Total(f) \in Int /\ Total([f EXCEPT ![t] = n]) = Total(f) + (n - f[t])
<1> DEFINE e == [f EXCEPT ![t] = n]
<1>1. /\ \A y \in Tasks : f[y] \in Int /\ e[y] \in Int
      /\ \A y \in Tasks \ {t} : e[y] = f[y]
      /\ e[t] = n
  OBVIOUS
<1>2. PICK g : Summing(g, f, Tasks) /\ Total(f) = g[Tasks]
  BY TotalSolves
<1> HIDE DEF e
<1>3. PICK h : Summing(h, e, Tasks) /\ Total(e) = h[Tasks]
  BY TotalSolves
<1>4. g[Tasks] \in Int /\ h[Tasks] = g[Tasks] + (e[t] - f[t])
  BY <1>1, <1>2, <1>3, SummingMoves, BudgetAssumption
<1> QED BY <1>1, <1>2, <1>3, <1>4 DEF e

(* Nobody holds anything.                                                  *)
LEMMA TotalOfNothing ==
  ASSUME NEW f, \A t \in Tasks : f[t] = 0 PROVE Total(f) = 0
<1>1. PICK g : Summing(g, f, Tasks) /\ Total(f) = g[Tasks]
  BY TotalSolves
<1> DEFINE Bad == {n \in Nat : \E s \in SUBSET Tasks : Cardinality(s) = n /\ g[s] # 0}
<1>2. ASSUME NEW s \in SUBSET Tasks PROVE IsFiniteSet(s) /\ Cardinality(s) \in Nat
  BY FS_Subset, FS_CardinalityType, BudgetAssumption
<1>3. SUFFICES ASSUME Bad # {} PROVE FALSE
  BY <1>1, <1>2
<1>4. PICK n \in Bad : \A k \in Bad : n <= k
  <2>1. Bad \in SUBSET Nat
    OBVIOUS
  <2> HIDE DEF Bad
  <2> QED BY <1>3, <2>1, LeastExists
<1>5. PICK s \in SUBSET Tasks : Cardinality(s) = n /\ g[s] # 0
  BY <1>4
<1>6. g[s] = SumOf(g, f, s)
  BY <1>1, <1>5 DEF Summing
<1>7. CASE s = {}
  BY <1>5, <1>6, <1>7 DEF SumOf
<1>8. CASE s # {}
  <2> DEFINE r == s \ {Pick(s)}
  <2>1. r \in SUBSET Tasks /\ Pick(s) \in Tasks /\ Cardinality(r) = n - 1 /\ n \in Nat
    BY <1>2, <1>5, <1>8, Picked
  <2>2. g[r] = 0
    BY <1>2, <1>4, <2>1
  <2>3. g[s] = f[Pick(s)] + g[r]
    BY <1>6, <1>8 DEF SumOf
  <2> HIDE DEF r
  <2> QED BY <1>5, <2>1, <2>2, <2>3
<1> QED BY <1>7, <1>8

(* Conservation is the pool's: a reservation takes from the counter what   *)
(* it charges, and a return gives it back.                                 *)
LEMMA ConservedInit == Init => Conserved
<1> SUFFICES ASSUME Init PROVE Conserved
  OBVIOUS
<1>1. available = program_limit /\ \A t \in Tasks : Charged[t] = 0
  BY DEF Init, Charged
<1>2. Total(Charged) = 0
  BY <1>1, TotalOfNothing
<1> QED BY <1>1, <1>2, BudgetAssumption DEF Conserved

LEMMA ConservedStep == BudgetInvariant /\ Conserved /\ [Next]_vars => Conserved'
<1> SUFFICES ASSUME BudgetInvariant, Conserved, [Next]_vars PROVE available' + Total(Charged') = program_limit
  BY DEF Conserved
<1>1. available \in Int /\ Charged \in [Tasks -> Int] /\ \A n \in Requests : n \in Int
  BY BudgetAssumption DEF BudgetInvariant, TypeOK, Charged
<1>2. available + Total(Charged) = program_limit
  BY DEF Conserved
<1>3. CASE UNCHANGED <<available, Charged>>
  BY <1>2, <1>3
<1> HIDE DEF Charged
<1>4. ASSUME NEW o \in Tasks, NEW n \in Int, available' = available - (n - Charged[o]),
             Charged' = [Charged EXCEPT ![o] = n]
      PROVE  available' + Total(Charged') = program_limit
  <2> DEFINE held == Charged
  <2>1. Total(held) \in Int /\ Total([held EXCEPT ![o] = n]) = Total(held) + (n - held[o]) /\ held[o] \in Int
    BY <1>1, TotalMoves
  <2> QED BY <1>1, <1>2, <1>4, <2>1
<1>5. CASE Pool!PNext
  <2>1. ASSUME NEW o \in Tasks, NEW n \in Requests, Pool!Reserve(o, n)
        PROVE  available' + Total(Charged') = program_limit
    <3>1. n \in Int /\ Charged[o] = 0 /\ available' = available - n /\ Charged' = [Charged EXCEPT ![o] = n]
      BY <1>1, <2>1 DEF Pool!Reserve
    <3>2. available' = available - (n - Charged[o])
      BY <1>1, <3>1
    <3> QED BY <1>4, <3>1, <3>2
  <2>2. ASSUME NEW o \in Tasks, Pool!Release(o)
        PROVE  available' + Total(Charged') = program_limit
    <3>1. Charged[o] \in Int /\ available' = available + Charged[o] /\ Charged' = [Charged EXCEPT ![o] = 0]
      BY <1>1, <2>2 DEF Pool!Release
    <3>2. available' = available - (0 - Charged[o]) /\ 0 \in Int
      BY <1>1, <3>1
    <3> QED BY <1>4, <3>1, <3>2
  <2> QED BY <1>5, <2>1, <2>2 DEF Pool!PNext
<1> QED BY <1>3, <1>5, PoolStep

(* No byte of the budget is lost or created by any interleaving of the     *)
(* compare-exchange loops and drops of any number of tasks (AtomicBudget). *)
THEOREM BudgetConserved == Spec => []Conserved
<1>1. BudgetInvariant /\ Conserved /\ [Next]_vars => (BudgetInvariant /\ Conserved)'
  BY BudgetStep, ConservedStep
<1> QED BY <1>1, BudgetInit, ConservedInit, PTL DEF Spec
===============================================================================
