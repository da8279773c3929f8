---------------------------- MODULE MCTxSession ----------------------------
(***************************************************************************)
(* Two calls, a channel of one request, and a device that goes away once   *)
(* and may be reconnected.  The second call flushes in the session of the  *)
(* first, where one is queued while the other is served, or writes in      *)
(* another handler, with a session and a worker of its own.                *)
(***************************************************************************)
EXTENDS TxSession

CONSTANTS c1, c2, h1, h2

MCRequests == {<<c1, h1, "write">>, <<c2, h1, "flush">>, <<c2, h2, "write">>}

=============================================================================
