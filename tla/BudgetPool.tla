----------------------------- MODULE BudgetPool -----------------------------
(***************************************************************************)
(* What the program-wide buffer budget promises (trait BufferBudget in     *)
(* src/src/buffer_budget.rs): a pool of bytes from which a reservation is  *)
(* taken at once or not at all, and to which exactly those bytes return    *)
(* when the reservation is dropped.  AtomicBudget implements it (module    *)
(* BufferBudget); the sessions use it (module RxSessions).                 *)
(***************************************************************************)
EXTENDS Integers

CONSTANTS
  Owners,         \* the reservations that may exist
  Requests,       \* the sizes that may be asked for
  program_limit,  \* bytes in the pool
  tool_limit      \* ceiling of one reservation

VARIABLES
  free,           \* bytes that can be reserved now
  held            \* the bytes of each reservation, 0 when there is none

PInit ==
  /\ free = program_limit
  /\ held = [o \in Owners |-> 0]

(* The sizes a reservation may have: neither zero nor over the ceiling.    *)
Admissible(n) == n > 0 /\ n <= tool_limit

(* try_reserve can succeed now.                                            *)
CanReserve(n) == Admissible(n) /\ n <= free

Reserve(o, n) ==
  /\ held[o] = 0
  /\ CanReserve(n)
  /\ free' = free - n
  /\ held' = [held EXCEPT ![o] = n]

(* The reservation is dropped.                                             *)
Release(o) ==
  /\ held[o] # 0
  /\ free' = free + held[o]
  /\ held' = [held EXCEPT ![o] = 0]

PNext == \E o \in Owners : Release(o) \/ \E n \in Requests : Reserve(o, n)

PSpec == PInit /\ [][PNext]_<<free, held>>

=============================================================================
