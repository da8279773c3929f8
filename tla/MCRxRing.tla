------------------------------ MODULE MCRxRing ------------------------------
(* A ring of two bytes, chunks shorter than, equal to and longer than the  *)
(* ring, two readers.                                                  *)
EXTENDS RxRing

MCChunks == {<<"a">>, <<"b", "a">>, <<"a", "b", "b">>}

=============================================================================
