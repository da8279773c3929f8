------------------------------- MODULE RxRing -------------------------------
(***************************************************************************)
(* The receive ring of one connection (src/src/rx_ring.rs): a fixed array  *)
(* of Capacity bytes addressed by absolute stream offsets, appended to by  *)
(* the pump and read by any number of tool calls, with a Notify that wakes *)
(* the readers waiting for data.                                           *)
(*                                                                         *)
(* Every lock-protected section of the code is one step.  What happens     *)
(* outside the lock is a step of its own: append() notifies after it has   *)
(* dropped the lock, and wait_for_data() registers before it takes it.     *)
(***************************************************************************)
EXTENDS Integers, Sequences, Unsigned

CONSTANTS
  Byte,      \* the values a received byte can take
  Zero,      \* the byte the buffer is initialised with
  Chunks,    \* what one read of the port can return: sequences of bytes
  Capacity,  \* ring capacity in bytes
  Readers,   \* the tool calls that may wait for data
  Waits,     \* the values of wait_for_data's after argument
  MaxReads,  \* the values of read_from's max argument
  MaxEnd     \* bound on the number of bytes received

(* RxRing::new asserts capacity > 0, and the pump reads into a buffer.     *)
ASSUME RingAssumption ==
  /\ Capacity \in Nat \ {0}
  /\ Zero \in Byte
  /\ Chunks \subseteq Seq(Byte)
  /\ Waits \subseteq Nat
  /\ MaxReads \subseteq Nat
  /\ MaxEnd \in Nat

VARIABLES
  buf,                  \* the storage, indexed by physical position
  start_offset,         \* offset of the oldest retained byte
  end_offset,           \* number of bytes ever appended
  bytes_wrapped_total,  \* lifetime count of bytes lost to wrapping
  pump,                 \* "idle", or "notify": appended, not yet notified
  pc,                   \* where each reader is inside wait_for_data
  after,                \* the offset each waiting reader waits to be passed
  signalled,            \* readers whose Notified future has been completed
  slice,                \* the RingSlice that read_from returned last
  stream,               \* history: every byte ever appended
  cleared               \* history: number of bytes discarded by clear()

ring    == <<buf, start_offset, end_offset, bytes_wrapped_total>>
waiting == <<pc, after>>
history == <<stream, cleared>>
vars    == <<ring, pump, waiting, signalled, slice, history>>

Positions == 0..(Capacity - 1)
Offsets   == 0..(MaxEnd + 1)

Slice == [bytes : Seq(Byte), from_offset : Nat, next_offset : Nat, bytes_lost : Nat]

EmptySlice == [bytes |-> <<>>, from_offset |-> 0, next_offset |-> 0, bytes_lost |-> 0]

-----------------------------------------------------------------------------
(* Helpers.                                                                *)

(* How far position i lies after position phys, going round the buffer:    *)
(* the first copy of write_ring covers the positions from phys on, the     *)
(* second one those before phys.                                           *)
Beyond(i, phys) == IF i >= phys THEN i - phys ELSE i + Capacity - phys

(* Slip: the part of the copy past the end of the buffer is lost.          *)
write_ring_no_wrap(b, phys, src) ==
  [i \in Positions |->
     IF i >= phys /\ i - phys < Len(src) THEN src[i - phys + 1] ELSE b[i]]

write_ring(b, phys, src) ==
  [i \in Positions |->
     IF Beyond(i, phys) < Len(src) THEN src[Beyond(i, phys) + 1] ELSE b[i]]

read_ring(b, phys, take) ==
  [k \in 1..take |->
     IF phys + k - 1 < Capacity THEN b[phys + k - 1] ELSE b[phys + k - 1 - Capacity]]

(* RxRing::read_from under the lock: clamp to the oldest byte and to the   *)
(* live edge, count the gap, copy.                                         *)
read_from(c, max) ==
  LET bytes_lost == Monus(start_offset, c)
      from       == IF c < start_offset THEN start_offset ELSE c
  IN IF c > end_offset /\ c >= start_offset
       THEN [bytes |-> <<>>, from_offset |-> end_offset, next_offset |-> end_offset,
             bytes_lost |-> bytes_lost]
     ELSE IF from >= end_offset \/ max = 0
       THEN [bytes |-> <<>>, from_offset |-> from, next_offset |-> from,
             bytes_lost |-> bytes_lost]
     ELSE LET take == Smaller(max, end_offset - from)
          IN [bytes |-> read_ring(buf, from % Capacity, take), from_offset |-> from,
              next_offset |-> from + take, bytes_lost |-> bytes_lost]

-----------------------------------------------------------------------------
Init ==
  /\ buf = [i \in Positions |-> Zero]
  /\ start_offset = 0
  /\ end_offset = 0
  /\ bytes_wrapped_total = 0
  /\ pump = "idle"
  /\ pc = [r \in Readers |-> "idle"]
  /\ after = [r \in Readers |-> 0]
  /\ signalled = {}
  /\ slice = EmptySlice
  /\ stream = <<>>
  /\ cleared = 0

(* The oldest bytes make room when more than the capacity is retained.     *)
new_start(new_end) == Larger(start_offset, Monus(new_end, Capacity))

(* Slip: only the bytes of the new chunk that never fit are counted.       *)
lost_of_chunk(first) == Monus(first, end_offset)

(* The bytes an append makes unreadable.                                   *)
lost(first) == Monus(first, start_offset)

(* The locked part of append(): the oldest bytes make room, the part of    *)
(* the chunk that fits is copied in, the offsets advance.  An empty chunk  *)
(* returns before the lock.                                                *)
AppendChunk(chunk) ==
  /\ pump = "idle"
  /\ chunk # <<>>
  /\ end_offset + Len(chunk) <= MaxEnd
  /\ LET new_end       == end_offset + Len(chunk)
         survive_start == Larger(new_start(new_end), end_offset)
         src           == SubSeq(chunk, survive_start - end_offset + 1, Len(chunk))
     IN /\ buf' = write_ring(buf, survive_start % Capacity, src)
        /\ start_offset' = new_start(new_end)
        /\ end_offset' = new_end
        /\ bytes_wrapped_total' = bytes_wrapped_total + lost(new_start(new_end))
  /\ pump' = "notify"
  /\ stream' = stream \o chunk
  /\ UNCHANGED <<waiting, signalled, slice, cleared>>

(* Slip: notify_one, which completes a single future.                      *)
NotifyOne ==
  /\ pump = "notify"
  /\ pump' = "idle"
  /\ \E r \in Readers : signalled' = signalled \cup {r}
  /\ UNCHANGED <<ring, waiting, slice, history>>

(* append() after the lock: notify_waiters() completes every Notified      *)
(* future that exists now and stores no permit for later ones.             *)
NotifyWaiters ==
  /\ pump = "notify"
  /\ pump' = "idle"
  /\ signalled' = {r \in Readers : pc[r] # "idle"}
  /\ UNCHANGED <<ring, waiting, slice, history>>

(* RxRing::clear: what is retained is discarded, the offsets stay.         *)
Clear ==
  /\ start_offset' = end_offset
  /\ cleared' = cleared + (end_offset - start_offset)
  /\ UNCHANGED <<buf, end_offset, bytes_wrapped_total, pump, waiting, signalled, slice,
                 stream>>

(* A tool call reads from its cursor, the live edge, the oldest byte or    *)
(* any absolute offset, past the live edge included.                       *)
ReadFrom(cursor, max) ==
  /\ slice' = read_from(cursor, max)
  /\ UNCHANGED <<ring, pump, waiting, signalled, history>>

(* The reader leaves wait_for_data and its Notified future is dropped.     *)
Return(r) ==
  /\ pc' = [pc EXCEPT ![r] = "idle"]
  /\ after' = [after EXCEPT ![r] = 0]
  /\ signalled' = signalled \ {r}

(* wait_for_data(after): the Notified future is created first ...          *)
Register(r, off) ==
  /\ pc[r] = "idle"
  /\ pc' = [pc EXCEPT ![r] = "registered"]
  /\ after' = [after EXCEPT ![r] = off]
  /\ UNCHANGED <<ring, pump, signalled, slice, history>>

(* ... then the condition is checked under the lock ...                    *)
CheckEnd(r) ==
  /\ pc[r] = "registered"
  /\ IF end_offset > after[r]
       THEN Return(r)
       ELSE /\ pc' = [pc EXCEPT ![r] = "parked"]
            /\ UNCHANGED <<after, signalled>>
  /\ UNCHANGED <<ring, pump, slice, history>>

(* ... and the future awaited; a completed one starts the loop over with a *)
(* fresh future.                                                           *)
Wake(r) ==
  /\ pc[r] = "parked"
  /\ r \in signalled
  /\ pc' = [pc EXCEPT ![r] = "registered"]
  /\ signalled' = signalled \ {r}
  /\ UNCHANGED <<ring, pump, after, slice, history>>

(* The caller selects the wait against its deadline: the future is dropped.*)
GiveUp(r) ==
  /\ pc[r] = "parked"
  /\ Return(r)
  /\ UNCHANGED <<ring, pump, slice, history>>

Next ==
  \/ \E chunk \in Chunks : AppendChunk(chunk)
  \/ NotifyWaiters
  \/ Clear
  \/ \E cursor \in Offsets, max \in MaxReads : ReadFrom(cursor, max)
  \/ \E r \in Readers :
       \/ \E off \in Waits : Register(r, off)
       \/ CheckEnd(r)
       \/ Wake(r)
       \/ GiveUp(r)

Spec == Init /\ [][Next]_vars

(* The pump task runs on after its append, and a woken task is polled.     *)
Fairness ==
  /\ WF_vars(NotifyWaiters)
  /\ \A r \in Readers : WF_vars(CheckEnd(r)) /\ WF_vars(Wake(r))

FairSpec == Spec /\ Fairness

-----------------------------------------------------------------------------
(* Properties.                                                             *)

TypeOK ==
  /\ buf \in [Positions -> Byte]
  /\ start_offset \in Nat
  /\ end_offset \in Nat
  /\ bytes_wrapped_total \in Nat
  /\ pump \in {"idle", "notify"}
  /\ pc \in [Readers -> {"idle", "registered", "parked"}]
  /\ after \in [Readers -> Nat]
  /\ signalled \subseteq Readers
  /\ slice \in Slice
  /\ stream \in Seq(Byte)
  /\ cleared \in Nat

(* The offset model of rx_ring.rs's header: end_offset counts every byte   *)
(* ever appended, and the ring holds at most its capacity.                 *)
OffsetsFit ==
  /\ end_offset = Len(stream)
  /\ start_offset <= end_offset
  /\ end_offset - start_offset <= Capacity

(* Every offset in the retained window still holds the byte the port       *)
(* delivered at that offset, whatever chunks wrapped round the buffer.     *)
RetainedIsStream ==
  \A off \in start_offset..(end_offset - 1) : buf[off % Capacity] = stream[off + 1]

RingInvariant == TypeOK /\ OffsetsFit /\ RetainedIsStream

(* What read_from returned is a contiguous piece of the received stream at *)
(* the offsets it reports, however the ring moved before and since.        *)
SliceIsStream ==
  /\ slice.next_offset = slice.from_offset + Len(slice.bytes)
  /\ slice.next_offset <= Len(stream)
  /\ \A k \in 1..Len(slice.bytes) : slice.bytes[k] = stream[slice.from_offset + k]

(* bytes_wrapped_total accounts for every unreadable byte that no clear()  *)
(* discarded, the ones an oversized chunk drops on arrival included.       *)
WrapAccounting == start_offset = bytes_wrapped_total + cleared

(* No lost wakeup: a reader parked in wait_for_data although the data it   *)
(* waits for is there has been signalled, or the append that brought the   *)
(* data has still to call notify_waiters.                                  *)
NoLostWakeup ==
  \A r \in Readers :
    pc[r] = "parked" /\ end_offset > after[r] => r \in signalled \/ pump = "notify"

(* wait_for_data returns once there is data past the reader's offset.      *)
DataWakesReader ==
  \A r \in Readers :
    pc[r] # "idle" /\ end_offset > after[r] ~> pc[r] = "idle"

(* The ring implements the promise of RxStream: a bounded window on an     *)
(* append-only stream that forgets no byte it has room for.                *)
Stream == INSTANCE RxStream WITH lo <- start_offset, out <- slice, Cursors <- Offsets

ImplementsStream == Stream!SSpec

=============================================================================
