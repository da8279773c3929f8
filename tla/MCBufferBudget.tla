--------------------------- MODULE MCBufferBudget ---------------------------
(***************************************************************************)
(* Three tasks, a pool of four bytes with a ceiling of three, and requests *)
(* of every kind: zero, small, the ceiling itself, and above the ceiling.  *)
(***************************************************************************)
EXTENDS BufferBudget

=============================================================================
