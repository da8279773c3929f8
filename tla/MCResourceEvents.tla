------------------------- MODULE MCResourceEvents -------------------------
(***************************************************************************)
(* One connection, two handlers or pumps at a time, one listener and a hub *)
(* of two events, so that a change of the pump alone overruns a listener.  *)
(* The listener asks for one resource, or for several with a repetition    *)
(* and a template that cannot be subscribed to.                            *)
(***************************************************************************)
EXTENDS ResourceEvents

CONSTANT c1

MCRequested ==
    { <<Ports>>, <<detail_uri("{id}"), ConnectionsList, raw_uri(c1), ConnectionsList>> }

=============================================================================
