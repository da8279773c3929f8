------------------------------ MODULE RxStream ------------------------------
(***************************************************************************)
(* What the receive buffer of one connection promises to its readers,      *)
(* without a buffer: an append-only stream of received bytes of which the  *)
(* newest Capacity bytes, less what was flushed, can be read by absolute   *)
(* offset.  RxRing implements this module.                                 *)
(***************************************************************************)
EXTENDS Naturals, Sequences, Unsigned

CONSTANTS
  Chunks,    \* what one read of the port can return: sequences of bytes
  Capacity,  \* bytes of history the connection retains
  Cursors,   \* the offsets a call may ask to read from
  MaxReads   \* the byte limits a call may ask for

VARIABLES
  stream,    \* every byte ever received, oldest first
  lo,        \* offset of the oldest byte that can still be read
  out        \* the answer given last

svars == <<stream, lo, out>>

EmptySlice == [bytes |-> <<>>, from_offset |-> 0, next_offset |-> 0, bytes_lost |-> 0]

SInit ==
  /\ stream = <<>>
  /\ lo = 0
  /\ out = EmptySlice

(* A chunk arrives; only what exceeds the capacity is forgotten.           *)
Receive(chunk) ==
  /\ chunk # <<>>
  /\ stream' = stream \o chunk
  /\ lo' = Larger(lo, Monus(Len(stream'), Capacity))
  /\ UNCHANGED out

(* The history is discarded; offsets keep counting.                        *)
Forget ==
  /\ lo' = Len(stream)
  /\ UNCHANGED <<stream, out>>

(* A reader gets at most max bytes from where it asked, or from the oldest *)
(* readable byte together with the number of bytes it missed; a reader     *)
(* ahead of the stream gets nothing and is told where the stream ends.     *)
Answer(cursor, max) ==
  LET from  == Smaller(Larger(cursor, lo), Len(stream))
      count == Smaller(max, Len(stream) - from)
  IN /\ out' = [bytes       |-> [k \in 1..count |-> stream[from + k]],
                from_offset |-> from,
                next_offset |-> from + count,
                bytes_lost  |-> Monus(lo, cursor)]
     /\ UNCHANGED <<stream, lo>>

SNext ==
  \/ \E chunk \in Chunks : Receive(chunk)
  \/ Forget
  \/ \E cursor \in Cursors, max \in MaxReads : Answer(cursor, max)

SSpec == SInit /\ [][SNext]_svars

=============================================================================
