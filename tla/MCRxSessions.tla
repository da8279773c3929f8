---------------------------- MODULE MCRxSessions ----------------------------
(***************************************************************************)
(* Four calls on one port: enough for two opens of the port and a close of *)
(* the first to overlap, and for a read to overlap the close of its        *)
(* connection.                                                             *)
(***************************************************************************)
EXTENDS RxSessions

=============================================================================
