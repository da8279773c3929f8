---------------------------- MODULE BufferBudget ----------------------------
(***************************************************************************)
(* AtomicBudget (src/src/buffer_budget.rs): the pool is one atomic counter *)
(* shared by every tool call and RX session of the process.  try_reserve   *)
(* is a compare-exchange loop, dropping a reservation is a swap of its     *)
(* flag followed by a fetch_add; each atomic operation is one step.        *)
(***************************************************************************)
EXTENDS Integers, FiniteSets, FiniteSetsExt

CONSTANTS
  Tasks,          \* the threads of control that reserve and release
  Requests,       \* the sizes they ask for
  program_limit,  \* bytes in the pool
  tool_limit      \* ceiling of one reservation

(* AtomicBudget::new asserts the three conditions on the limits.           *)
ASSUME BudgetAssumption ==
  /\ IsFiniteSet(Tasks)
  /\ Requests \subseteq Nat
  /\ program_limit \in Nat \ {0}
  /\ tool_limit \in Nat \ {0}
  /\ tool_limit <= program_limit

VARIABLES
  available,  \* the atomic counter
  pc,         \* where each task is in try_reserve or drop
  bytes,      \* the size each task asks for or holds
  current     \* the value each task loaded last

vars == <<available, pc, bytes, current>>

Init ==
  /\ available = program_limit
  /\ pc = [t \in Tasks |-> "idle"]
  /\ bytes = [t \in Tasks |-> 0]
  /\ current = [t \in Tasks |-> 0]

Goto(t, label) == pc' = [pc EXCEPT ![t] = label]

(* try_reserve refuses, or the reservation is gone.                        *)
Leave(t) ==
  /\ Goto(t, "idle")
  /\ bytes' = [bytes EXCEPT ![t] = 0]
  /\ current' = [current EXCEPT ![t] = 0]

(* try_reserve: a request of zero bytes or above the ceiling is refused.   *)
TryReserve(t, n) ==
  /\ pc[t] = "idle"
  /\ n # 0
  /\ n <= tool_limit
  /\ Goto(t, "load")
  /\ bytes' = [bytes EXCEPT ![t] = n]
  /\ UNCHANGED <<available, current>>

(* The loop's load; too little in the pool refuses the request.            *)
Load(t) ==
  /\ pc[t] = "load"
  /\ IF available < bytes[t]
       THEN Leave(t)
       ELSE /\ Goto(t, "exchange")
            /\ current' = [current EXCEPT ![t] = available]
            /\ UNCHANGED bytes
  /\ UNCHANGED available

(* Slip: a store instead of the compare-exchange.                          *)
Store(t) ==
  /\ pc[t] = "exchange"
  /\ available' = current[t] - bytes[t]
  /\ Goto(t, "held")
  /\ UNCHANGED <<bytes, current>>

(* compare_exchange: it fails, and the loop starts over, when another task *)
(* changed the counter since the load.                                     *)
CompareExchange(t) ==
  /\ pc[t] = "exchange"
  /\ IF available = current[t]
       THEN /\ available' = current[t] - bytes[t]
            /\ Goto(t, "held")
       ELSE /\ Goto(t, "load")
            /\ UNCHANGED available
  /\ UNCHANGED <<bytes, current>>

(* AtomicReservation::drop takes the reservation's released flag ...       *)
Swap(t) ==
  /\ pc[t] = "held"
  /\ Goto(t, "released")
  /\ UNCHANGED <<available, bytes, current>>

(* ... and returns its bytes.                                              *)
FetchAdd(t) ==
  /\ pc[t] = "released"
  /\ available' = available + bytes[t]
  /\ Leave(t)

Next ==
  \E t \in Tasks :
    \/ \E n \in Requests : TryReserve(t, n)
    \/ Load(t)
    \/ CompareExchange(t)
    \/ Swap(t)
    \/ FetchAdd(t)

Spec == Init /\ [][Next]_vars

-----------------------------------------------------------------------------
(* Properties.                                                             *)

TypeOK ==
  /\ available \in Nat
  /\ pc \in [Tasks -> {"idle", "load", "exchange", "held", "released"}]
  /\ bytes \in [Tasks -> Nat]
  /\ current \in [Tasks -> Nat]

(* The bytes a task has taken out of the pool and not returned.            *)
Charged == [t \in Tasks |-> IF pc[t] \in {"held", "released"} THEN bytes[t] ELSE 0]
Total(charges) == MapThenSumSet(LAMBDA t : charges[t], Tasks)

(* No byte of the budget is lost or created, whatever load and exchange    *)
(* steps of other tasks fall between two steps of a reservation: the pool  *)
(* is never overdrawn and every drop returns what was taken, once.         *)
Conserved == available + Total(Charged) = program_limit

(* A compare-exchange that will succeed covers its request: the counter    *)
(* cannot underflow although it was checked an earlier step.               *)
LoadCovers == \A t \in Tasks : pc[t] = "exchange" => bytes[t] <= current[t]

(* The counter and the reservations behave as the pool of BudgetPool, in   *)
(* which a reservation is taken in one step.                               *)
Pool == INSTANCE BudgetPool WITH Owners <- Tasks, free <- available, held <- Charged

ImplementsPool == Pool!PSpec

=============================================================================
