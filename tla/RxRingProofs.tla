---------------------------- MODULE RxRingProofs ----------------------------
(***************************************************************************)
(* Proofs about RxRing for every capacity, every set of chunks and any     *)
(* number of readers.                                                      *)
(***************************************************************************)
EXTENDS RxRing, TLAPS

-----------------------------------------------------------------------------
(* Arithmetic of the physical positions.                                   *)

(* An offset falls on a position of the buffer.                            *)
LEMMA ModInRange ==
  ASSUME NEW a \in Nat
  PROVE  a % Capacity \in Positions
BY RingAssumption DEF Positions

(* The remainder is the only position that differs from a number by a      *)
(* multiple of the capacity.                                               *)
LEMMA ModUnique ==
  ASSUME NEW a \in Nat, NEW q \in Int, NEW p \in Positions, a = Capacity * q + p
  PROVE  a % Capacity = p
<1> DEFINE C == Capacity
           q2 == a \div C
           p2 == a % C
<1>1. C \in Nat /\ C > 0 /\ p \in Int /\ 0 <= p /\ p < C
  BY RingAssumption DEF Positions
<1>2. q2 \in Int /\ p2 \in Int /\ a = C * q2 + p2 /\ 0 <= p2 /\ p2 < C
  BY <1>1
<1>3. C * (q - q2) = p2 - p
  BY <1>1, <1>2
<1>4. q - q2 = 0
  <2>1. CASE q - q2 >= 1
    <3>1. C * (q - q2) >= C
      BY <2>1, <1>1, <1>2
    <3> QED BY <3>1, <1>1, <1>2, <1>3
  <2>2. CASE q - q2 <= -1
    <3>1. C * (q - q2) <= -C
      BY <2>2, <1>1, <1>2
    <3> QED BY <3>1, <1>1, <1>2, <1>3
  <2> QED BY <2>1, <2>2, <1>2
<1> QED BY <1>1, <1>2, <1>3, <1>4

(* Moving forward by less than the capacity wraps at most once.            *)
LEMMA ModShift ==
  ASSUME NEW a \in Nat, NEW d \in Nat, d < Capacity
  PROVE  (a + d) % Capacity = IF (a % Capacity) + d < Capacity
                                THEN (a % Capacity) + d
                                ELSE (a % Capacity) + d - Capacity
<1> DEFINE C == Capacity
           q == a \div C
           p == a % C
<1>1. C \in Nat /\ C > 0 /\ q \in Int /\ p \in Int /\ a = C * q + p /\ 0 <= p /\ p < C
  BY RingAssumption
<1>2. CASE p + d < C
  <2>1. a + d \in Nat /\ a + d = Capacity * q + (p + d) /\ p + d \in Positions
    BY <1>1, <1>2 DEF Positions
  <2>2. (a + d) % Capacity = p + d
    <3> HIDE DEF q, p, C
    <3> QED BY <1>1, <2>1, ModUnique
  <2> QED BY <1>2, <2>2
<1>3. CASE ~(p + d < C)
  <2> DEFINE k == q + 1
             r == p + d - C
  <2>1. a + d \in Nat /\ a + d = Capacity * k + r /\ r \in Positions /\ k \in Int
    BY <1>1, <1>3 DEF Positions
  <2>2. (a + d) % Capacity = r
    <3> HIDE DEF q, p, C, k, r
    <3> QED BY <1>1, <2>1, ModUnique
  <2> QED BY <1>3, <2>2
<1> QED BY <1>2, <1>3

(* Seen from the position of offset s, an offset in the Capacity bytes     *)
(* from s on lies as far ahead as it is later ...                          *)
LEMMA BeyondLater ==
  ASSUME NEW s \in Nat, NEW d \in Nat, d < Capacity
  PROVE  Beyond((s + d) % Capacity, s % Capacity) = d
<1> DEFINE p == s % Capacity
           p2 == (s + d) % Capacity
<1>1. p \in Int /\ 0 <= p /\ p < Capacity /\ Capacity \in Nat
  BY RingAssumption
<1>2. p2 = IF p + d < Capacity THEN p + d ELSE p + d - Capacity
  BY ModShift
<1> HIDE DEF p, p2
<1>3. Beyond(p2, p) = d
  BY <1>1, <1>2 DEF Beyond
<1> QED BY <1>3 DEF p, p2

(* ... and an earlier offset lies behind the capacity's remainder.         *)
LEMMA BeyondEarlier ==
  ASSUME NEW off \in Nat, NEW d \in Nat, 0 < d, d < Capacity
  PROVE  Beyond(off % Capacity, (off + d) % Capacity) = Capacity - d
<1> DEFINE p == off % Capacity
           p2 == (off + d) % Capacity
<1>1. p \in Int /\ 0 <= p /\ p < Capacity /\ Capacity \in Nat
  BY RingAssumption
<1>2. p2 = IF p + d < Capacity THEN p + d ELSE p + d - Capacity
  BY ModShift
<1> HIDE DEF p, p2
<1>3. Beyond(p, p2) = Capacity - d
  BY <1>1, <1>2 DEF Beyond
<1> QED BY <1>3 DEF p, p2

-----------------------------------------------------------------------------
(* What one append does to the buffer.                                     *)

(* The byte of offset off, and the buffer after a copy to offset s.        *)
ByteAt(b, off) == b[off % Capacity]
Written(b, s, src) == write_ring(b, s % Capacity, src)

(* The copy of src from the position of offset s on puts the k-th byte at  *)
(* the position of offset s + k - 1 ...                                    *)
LEMMA WriteHits ==
  ASSUME NEW b, NEW s \in Nat, NEW src \in Seq(Byte), NEW off \in Nat,
         s <= off, off - s < Len(src), Len(src) <= Capacity
  PROVE  ByteAt(Written(b, s, src), off) = src[off - s + 1]
<1> DEFINE d == off - s
<1>1. d \in Nat /\ d < Capacity /\ s + d = off /\ Len(src) \in Nat
  BY RingAssumption
<1>2. Beyond(off % Capacity, s % Capacity) = d
  BY <1>1, BeyondLater
<1>3. off % Capacity \in Positions
  BY ModInRange
<1> QED BY <1>1, <1>2, <1>3 DEF write_ring, ByteAt, Written

(* ... and leaves alone the bytes before s that are still within the       *)
(* capacity once src is in.                                                *)
LEMMA WriteMisses ==
  ASSUME NEW b, NEW s \in Nat, NEW src \in Seq(Byte), NEW off \in Nat,
         off < s, Len(src) > 0, s + Len(src) - off <= Capacity
  PROVE  ByteAt(Written(b, s, src), off) = ByteAt(b, off)
<1> DEFINE d == s - off
<1>1. d \in Nat /\ 0 < d /\ d < Capacity /\ off + d = s /\ Len(src) \in Nat
      /\ ~(Capacity - d < Len(src))
  BY RingAssumption
<1>2. Beyond(off % Capacity, s % Capacity) = Capacity - d
  BY <1>1, BeyondEarlier
<1>3. off % Capacity \in Positions
  BY ModInRange
<1> QED BY <1>1, <1>2, <1>3 DEF write_ring, ByteAt, Written

(* A buffer of bytes stays one.                                            *)
LEMMA WriteTyped ==
  ASSUME NEW b \in [Positions -> Byte], NEW phys \in Positions, NEW src \in Seq(Byte)
  PROVE  write_ring(b, phys, src) \in [Positions -> Byte]
<1> SUFFICES ASSUME NEW i \in Positions, Beyond(i, phys) < Len(src)
             PROVE  src[Beyond(i, phys) + 1] \in Byte
  BY DEF write_ring
<1>1. Beyond(i, phys) + 1 \in 1..Len(src)
  BY RingAssumption DEF Beyond, Positions
<1> QED BY <1>1

-----------------------------------------------------------------------------
(* The invariant of the ring.                                              *)

(* The numbers an append computes, for a ring that holds at most its       *)
(* capacity.                                                               *)
LEMMA AppendNumbers ==
  ASSUME RingInvariant, NEW chunk \in Chunks, AppendChunk(chunk)
  PROVE  LET s   == Larger(start_offset', end_offset)
             src == SubSeq(chunk, s - end_offset + 1, Len(chunk))
         IN /\ chunk \in Seq(Byte) /\ Len(chunk) \in Nat /\ Len(chunk) > 0
            /\ end_offset' = end_offset + Len(chunk)
            /\ start_offset' \in Nat
            /\ start_offset <= start_offset' /\ start_offset' <= end_offset'
            /\ end_offset' - start_offset' <= Capacity
            /\ start_offset' # start_offset => start_offset' = end_offset' - Capacity
            /\ s \in Nat /\ end_offset <= s /\ s <= end_offset'
            /\ src \in Seq(Byte)
            /\ Len(src) = end_offset' - s
            /\ \A k \in 1..Len(src) : src[k] = chunk[s - end_offset + k]
            /\ buf' = write_ring(buf, s % Capacity, src)
<1> DEFINE s   == Larger(start_offset', end_offset)
           src == SubSeq(chunk, s - end_offset + 1, Len(chunk))
<1>1. /\ chunk \in Seq(Byte) /\ Len(chunk) \in Nat /\ chunk # <<>>
      /\ Capacity \in Nat \ {0}
      /\ start_offset \in Nat /\ end_offset \in Nat
      /\ start_offset <= end_offset /\ end_offset - start_offset <= Capacity
  BY RingAssumption DEF RingInvariant, TypeOK, OffsetsFit, AppendChunk
<1>2. Len(chunk) > 0
  BY <1>1
<1>3. /\ end_offset' = end_offset + Len(chunk)
      /\ start_offset' = Larger(start_offset, Monus(end_offset', Capacity))
      /\ buf' = write_ring(buf, s % Capacity, src)
  BY DEF AppendChunk, new_start
<1>4. /\ start_offset' \in Nat
      /\ start_offset <= start_offset' /\ start_offset' <= end_offset'
      /\ end_offset' - start_offset' <= Capacity
      /\ start_offset' # start_offset => start_offset' = end_offset' - Capacity
  BY <1>1, <1>2, <1>3 DEF Larger, Monus
<1>5. s \in Nat /\ end_offset <= s /\ s <= end_offset'
  BY <1>1, <1>2, <1>3, <1>4 DEF Larger
<1>6. /\ src \in Seq(Byte)
      /\ Len(src) = end_offset' - s
      /\ \A k \in 1..Len(src) : src[k] = chunk[s - end_offset + k]
  <2> DEFINE m == s - end_offset + 1
  <2>1. m \in Nat /\ 1 <= m /\ m <= Len(chunk) + 1
    BY <1>1, <1>2, <1>3, <1>5
  <2> HIDE DEF m, s
  <2>2. /\ SubSeq(chunk, m, Len(chunk)) \in Seq(Byte)
        /\ Len(SubSeq(chunk, m, Len(chunk))) = Len(chunk) - m + 1
        /\ \A k \in 1..(Len(chunk) - m + 1) :
             SubSeq(chunk, m, Len(chunk))[k] = chunk[m + k - 1]
    BY <1>1, <2>1
  <2> QED BY <1>1, <1>3, <1>5, <2>1, <2>2 DEF m
<1> QED BY <1>1, <1>2, <1>3, <1>4, <1>5, <1>6

(* A slice that read_from returns is made of bytes and numbers, and it is  *)
(* the piece of the stream between the offsets it reports.                 *)
LEMMA ReadIsStream ==
  ASSUME RingInvariant, NEW cursor \in Nat, NEW max \in Nat
  PROVE  LET t == read_from(cursor, max)
         IN /\ t \in Slice
            /\ t.next_offset = t.from_offset + Len(t.bytes)
            /\ t.next_offset <= Len(stream)
            /\ t.from_offset = Smaller(Larger(cursor, start_offset), end_offset)
            /\ t.bytes_lost = Monus(start_offset, cursor)
            /\ t.bytes = [k \in 1..Smaller(max, end_offset - t.from_offset) |->
                            stream[t.from_offset + k]]
<1> DEFINE t == read_from(cursor, max)
           from == IF cursor < start_offset THEN start_offset ELSE cursor
           take == Smaller(max, end_offset - from)
           nothing == [k \in 1..0 |-> stream[k]]
<1>1. /\ Capacity \in Nat \ {0}
      /\ start_offset \in Nat /\ end_offset \in Nat /\ end_offset = Len(stream)
      /\ start_offset <= end_offset /\ end_offset - start_offset <= Capacity
      /\ stream \in Seq(Byte) /\ buf \in [Positions -> Byte]
      /\ from \in Nat
  BY RingAssumption DEF RingInvariant, TypeOK, OffsetsFit
<1>2. Monus(start_offset, cursor) \in Nat
  BY <1>1 DEF Monus
<1>3. ASSUME NEW f \in Nat, NEW n \in Nat, n = 0
      PROVE  <<>> = [k \in 1..n |-> stream[f + k]] /\ <<>> \in Seq(Byte) /\ Len(<<>>) = 0
  BY <1>3
<1>4. CASE cursor > end_offset /\ cursor >= start_offset
  <2>1. t = [bytes |-> <<>>, from_offset |-> end_offset, next_offset |-> end_offset,
             bytes_lost |-> Monus(start_offset, cursor)]
    BY <1>4 DEF read_from
  <2>2. Smaller(Larger(cursor, start_offset), end_offset) = end_offset
    BY <1>1, <1>4 DEF Smaller, Larger
  <2>3. Smaller(max, end_offset - end_offset) = 0
    BY <1>1 DEF Smaller
  <2> QED BY <2>1, <2>2, <2>3, <1>1, <1>2, <1>3 DEF Slice
<1>5. CASE ~(cursor > end_offset /\ cursor >= start_offset) /\ (from >= end_offset \/ max = 0)
  <2>1. t = [bytes |-> <<>>, from_offset |-> from, next_offset |-> from,
             bytes_lost |-> Monus(start_offset, cursor)]
    BY <1>5 DEF read_from
  <2>2. Smaller(Larger(cursor, start_offset), end_offset) = from /\ from <= end_offset
    BY <1>1, <1>5 DEF Smaller, Larger
  <2>3. Smaller(max, end_offset - from) = 0
    BY <1>1, <1>5, <2>2 DEF Smaller
  <2> QED BY <2>1, <2>2, <2>3, <1>1, <1>2, <1>3 DEF Slice
<1>6. CASE ~(cursor > end_offset /\ cursor >= start_offset) /\ ~(from >= end_offset \/ max = 0)
  <2>1. t = [bytes |-> read_ring(buf, from % Capacity, take), from_offset |-> from,
             next_offset |-> from + take, bytes_lost |-> Monus(start_offset, cursor)]
    BY <1>6 DEF read_from
  <2>2. Smaller(Larger(cursor, start_offset), end_offset) = from /\ from < end_offset
        /\ start_offset <= from
    BY <1>1, <1>6 DEF Smaller, Larger
  <2>3. take \in Nat /\ take <= end_offset - from /\ take <= Capacity
    <3>1. max \in Nat /\ end_offset - from \in Nat /\ end_offset - from <= Capacity
      BY <1>1, <2>2
    <3> HIDE DEF from
    <3> QED BY <3>1, <1>1 DEF Smaller
  <2>4. ASSUME NEW k \in 1..take
        PROVE  read_ring(buf, from % Capacity, take)[k] = stream[from + k]
    <3> DEFINE d == k - 1
               p == from % Capacity
    <3>1. d \in Nat /\ d < Capacity /\ from + d \in start_offset..(end_offset - 1)
          /\ from + d \in Nat /\ (from + d) + 1 = from + k
      BY <1>1, <2>2, <2>3, <2>4
    <3>2. (from + d) % Capacity = IF p + d < Capacity THEN p + d ELSE p + d - Capacity
      BY <1>1, <3>1, ModShift
    <3>3. buf[(from + d) % Capacity] = stream[from + k]
      BY <3>1 DEF RingInvariant, RetainedIsStream
    <3>4. p \in Int /\ Capacity \in Int
      BY <1>1
    <3>5. read_ring(buf, p, take)[k] = IF p + k - 1 < Capacity THEN buf[p + k - 1]
                                       ELSE buf[p + k - 1 - Capacity]
      BY <2>4 DEF read_ring
    <3>6. p + k - 1 = p + d /\ p + k - 1 - Capacity = p + d - Capacity
      BY <3>4, <2>3, <2>4
    <3> HIDE DEF p, d
    <3> QED BY <3>2, <3>3, <3>5, <3>6 DEF p
  <2>5. read_ring(buf, from % Capacity, take) = [k \in 1..take |-> stream[from + k]]
    BY <2>4 DEF read_ring
  <2>6. /\ [k \in 1..take |-> stream[from + k]] \in Seq(Byte)
        /\ Len([k \in 1..take |-> stream[from + k]]) = take
    <3>1. \A k \in 1..take : from + k \in 1..Len(stream)
      BY <1>1, <2>3
    <3> HIDE DEF from, take
    <3> QED BY <1>1, <2>3, <3>1
  <2> HIDE DEF from
  <2>7. t.from_offset = from /\ t.bytes_lost = Monus(start_offset, cursor)
        /\ t.next_offset = from + take /\ t.bytes = [k \in 1..take |-> stream[from + k]]
    BY <2>1, <2>5
  <2>8. t \in Slice
    BY <2>1, <2>3, <2>5, <2>6, <1>1, <1>2 DEF Slice
  <2>9. from + take <= Len(stream)
    BY <2>3, <1>1
  <2> HIDE DEF t
  <2> QED BY <2>2, <2>6, <2>7, <2>8, <2>9 DEF t
<1> QED BY <1>4, <1>5, <1>6

(* Truncated subtraction stays within the natural numbers.                 *)
LEMMA MonusNat ==
  ASSUME NEW a \in Nat, NEW b \in Nat
  PROVE  Monus(a, b) \in Nat
BY DEF Monus

(* The offsets lo..end-1 of buffer b hold the bytes of str.                *)
WindowHolds(b, str, lo, end) ==
  \A off \in Nat : lo <= off /\ off < end => ByteAt(b, off) = str[off + 1]

(* An append of chunk to a ring whose window lo..end-1 of buffer b holds   *)
(* the stream str: the window starts at lo2 and ends at end2 afterwards,   *)
(* and src, the end of the chunk from offset s on, is what is copied.      *)
AppendShape(b, str, chunk, lo, lo2, end, end2, s, src) ==
  /\ str \in Seq(Byte) /\ chunk \in Seq(Byte) /\ src \in Seq(Byte)
  /\ lo \in Nat /\ lo2 \in Nat /\ end \in Nat /\ end2 \in Nat /\ s \in Nat
  /\ end = Len(str) /\ Len(chunk) > 0 /\ end2 = end + Len(chunk)
  /\ lo <= lo2 /\ end2 - lo2 <= Capacity
  /\ (s = lo2 \/ s = end) /\ lo2 <= s /\ end <= s /\ Len(src) = end2 - s
  /\ \A k \in 1..Len(src) : src[k] = chunk[s - end + k]
  /\ WindowHolds(b, str, lo, end)

(* What such a write leaves in the window from lo2 on: the bytes of the    *)
(* chunk it put there, and the old bytes that it did not reach.            *)
LEMMA WindowAfterWrite ==
  ASSUME NEW b, NEW str, NEW chunk, NEW lo, NEW lo2, NEW end, NEW end2, NEW s, NEW src,
         AppendShape(b, str, chunk, lo, lo2, end, end2, s, src)
  PROVE  WindowHolds(Written(b, s, src), str \o chunk, lo2, end2)
<1> SUFFICES ASSUME NEW off \in Nat, lo2 <= off, off < end2
             PROVE  ByteAt(Written(b, s, src), off) = (str \o chunk)[off + 1]
  BY DEF WindowHolds
<1>0. /\ str \in Seq(Byte) /\ chunk \in Seq(Byte) /\ src \in Seq(Byte)
      /\ lo \in Nat /\ lo2 \in Nat /\ end \in Nat /\ end2 \in Nat /\ s \in Nat
      /\ end = Len(str) /\ Len(chunk) > 0 /\ end2 = end + Len(chunk)
      /\ lo <= lo2 /\ end2 - lo2 <= Capacity
      /\ (s = lo2 \/ s = end) /\ lo2 <= s /\ end <= s /\ Len(src) = end2 - s
      /\ \A k \in 1..Len(src) : src[k] = chunk[s - end + k]
      /\ WindowHolds(b, str, lo, end)
  BY DEF AppendShape
<1>t. s \in Nat /\ src \in Seq(Byte)
  BY <1>0
<1>1. Capacity \in Nat /\ Len(str) \in Nat /\ Len(chunk) \in Nat /\ Len(src) \in Nat
  BY <1>0, RingAssumption
<1>a. /\ lo \in Nat /\ lo2 \in Nat /\ end \in Nat /\ end2 \in Nat /\ s \in Nat
      /\ Len(chunk) > 0 /\ end2 = end + Len(chunk)
      /\ lo <= lo2 /\ end2 - lo2 <= Capacity
      /\ (s = lo2 \/ s = end) /\ lo2 <= s /\ end <= s /\ Len(src) = end2 - s
  BY <1>0
<1>e. end = Len(str)
  BY <1>0
<1>2. CASE s <= off
  <2>1. off - s < Len(src) /\ Len(src) <= Capacity
    BY <1>a, <1>1, <1>2
  <2>2. ByteAt(Written(b, s, src), off) = src[off - s + 1]
    BY <1>t, <1>2, <2>1, WriteHits
  <2>3. /\ off - s + 1 \in 1..Len(src)
        /\ s - end + (off - s + 1) = off - end + 1
        /\ off - end + 1 \in 1..Len(chunk)
        /\ Len(str) + (off - end + 1) = off + 1
    BY <1>a, <1>e, <1>1, <1>2, <2>1
  <2>4. src[off - s + 1] = chunk[off - end + 1]
    BY <1>0, <2>3
  <2>5. (str \o chunk)[off + 1] = chunk[off - end + 1]
    BY <1>0, <1>1, <2>3
  <2> QED BY <2>2, <2>4, <2>5
<1>3. CASE off < s
  <2>1. /\ s = end /\ Len(src) = Len(chunk) /\ Len(src) > 0
        /\ off < end /\ s + Len(src) - off <= Capacity
    BY <1>a, <1>1, <1>3
  <2>2. ByteAt(Written(b, s, src), off) = ByteAt(b, off)
    <3>1. Len(src) > 0 /\ s + Len(src) - off <= Capacity
      BY <2>1
    <3> QED BY <1>t, <1>3, <3>1, WriteMisses
  <2>3. lo <= off /\ off < end /\ off + 1 \in 1..Len(str)
    BY <1>a, <1>e, <1>1, <2>1
  <2>4. ByteAt(b, off) = str[off + 1]
    BY <1>0, <2>3 DEF WindowHolds
  <2>5. (str \o chunk)[off + 1] = str[off + 1]
    BY <1>0, <1>1, <2>3
  <2> QED BY <2>2, <2>4, <2>5
<1>4. s <= off \/ off < s
  BY <1>t
<1> QED BY <1>2, <1>3, <1>4

(* An append leaves the retained window holding the stream.                *)
LEMMA AppendRetains ==
  ASSUME RingInvariant, NEW chunk \in Chunks, AppendChunk(chunk)
  PROVE  RingInvariant'
<1> DEFINE s   == Larger(start_offset', end_offset)
           src == SubSeq(chunk, s - end_offset + 1, Len(chunk))
<1>1. /\ chunk \in Seq(Byte) /\ Len(chunk) \in Nat /\ Len(chunk) > 0
      /\ end_offset' = end_offset + Len(chunk)
      /\ start_offset' \in Nat
      /\ start_offset <= start_offset' /\ start_offset' <= end_offset'
      /\ end_offset' - start_offset' <= Capacity
      /\ s \in Nat /\ end_offset <= s /\ s <= end_offset'
      /\ src \in Seq(Byte)
      /\ Len(src) = end_offset' - s
      /\ \A k \in 1..Len(src) : src[k] = chunk[s - end_offset + k]
      /\ buf' = write_ring(buf, s % Capacity, src)
  BY AppendNumbers
<1>2. /\ Capacity \in Nat \ {0} /\ start_offset \in Nat /\ end_offset \in Nat
      /\ end_offset = Len(stream) /\ stream \in Seq(Byte) /\ bytes_wrapped_total \in Nat
      /\ buf \in [Positions -> Byte]
  BY RingAssumption DEF RingInvariant, TypeOK, OffsetsFit
<1>3. (s = start_offset' \/ s = end_offset) /\ start_offset' <= s
  BY <1>1, <1>2 DEF Larger
<1>4. stream' = stream \o chunk
  BY DEF AppendChunk
<1>5. stream' \in Seq(Byte) /\ Len(stream') = end_offset'
  BY <1>1, <1>2, <1>4
<1>n. end_offset' \in Nat
  BY <1>1, <1>2
<1> HIDE DEF s, src
<1>6. TypeOK'
  <2>1. buf' \in [Positions -> Byte]
    BY <1>1, <1>2, ModInRange, WriteTyped
  <2>2. bytes_wrapped_total' \in Nat
    <3> DEFINE n == new_start(end_offset + Len(chunk))
    <3>1. bytes_wrapped_total' = bytes_wrapped_total + lost(n) /\ n = start_offset'
      BY DEF AppendChunk
    <3> HIDE DEF n
    <3>2. lost(n) = Monus(n, start_offset)
      BY DEF lost
    <3>3. Monus(n, start_offset) \in Nat
      BY <1>1, <1>2, <3>1, MonusNat
    <3> QED BY <3>1, <3>2, <3>3, <1>2
  <2> QED
    BY <1>1, <1>5, <1>n, <2>1, <2>2 DEF RingInvariant, TypeOK, AppendChunk, waiting
<1>7. OffsetsFit'
  BY <1>1, <1>5 DEF OffsetsFit
<1>8. WindowHolds(buf', stream', start_offset', end_offset')
  <2>1. WindowHolds(buf, stream, start_offset, end_offset)
    BY <1>2 DEF RingInvariant, RetainedIsStream, WindowHolds, ByteAt
  <2>2. AppendShape(buf, stream, chunk, start_offset, start_offset', end_offset, end_offset',
                    s, src)
    BY <1>1, <1>2, <1>3, <1>n, <2>1 DEF AppendShape
  <2>3. WindowHolds(Written(buf, s, src), stream \o chunk, start_offset', end_offset')
    BY <2>2, WindowAfterWrite
  <2>4. buf' = Written(buf, s, src)
    BY <1>1 DEF Written
  <2> QED BY <1>4, <2>3, <2>4
<1>9. RetainedIsStream'
  <2> SUFFICES ASSUME NEW off \in (start_offset..(end_offset - 1))'
               PROVE  buf'[off % Capacity] = stream'[off + 1]
    BY DEF RetainedIsStream
  <2>1. off \in Nat /\ start_offset' <= off /\ off < end_offset'
    BY <1>1, <1>n
  <2> QED BY <1>8, <2>1 DEF WindowHolds, ByteAt
<1> QED BY <1>6, <1>7, <1>9 DEF RingInvariant

(* Steps that leave the ring and the history alone keep what is said of    *)
(* them.                                                                   *)
LEMMA RingUntouched ==
  ASSUME RingInvariant, UNCHANGED <<ring, history>>
  PROVE  OffsetsFit' /\ RetainedIsStream'
BY DEF RingInvariant, OffsetsFit, RetainedIsStream, ring, history

(* Every step of the ring preserves its invariant.                         *)
LEMMA RingInvariantStep ==
  RingInvariant /\ [Next]_vars => RingInvariant'
<1> SUFFICES ASSUME RingInvariant, [Next]_vars
             PROVE  RingInvariant'
  OBVIOUS
<1> USE DEF RingInvariant
<1>1. ASSUME NEW chunk \in Chunks, AppendChunk(chunk)
      PROVE  RingInvariant'
  BY <1>1, AppendRetains
<1>2. CASE NotifyWaiters
  <2>1. TypeOK'
    BY <1>2 DEF NotifyWaiters, TypeOK, ring, waiting, history
  <2> QED BY <1>2, <2>1, RingUntouched DEF NotifyWaiters
<1>3. CASE Clear
  <2>1. start_offset' \in Nat /\ cleared' \in Nat
    BY <1>3 DEF Clear, TypeOK, OffsetsFit
  <2>2. TypeOK'
    BY <1>3, <2>1 DEF Clear, TypeOK, waiting
  <2>3. OffsetsFit' /\ RetainedIsStream'
    BY <1>3, RingAssumption DEF Clear, TypeOK, OffsetsFit, RetainedIsStream
  <2> QED BY <2>2, <2>3
<1>4. ASSUME NEW cursor \in Offsets, NEW max \in MaxReads, ReadFrom(cursor, max)
      PROVE  RingInvariant'
  <2>1. cursor \in Nat /\ max \in Nat
    BY RingAssumption DEF Offsets
  <2>2. slice' \in Slice
    BY <1>4, <2>1, ReadIsStream DEF ReadFrom
  <2>3. TypeOK'
    BY <1>4, <2>2 DEF ReadFrom, TypeOK, ring, waiting, history
  <2> QED BY <1>4, <2>3, RingUntouched DEF ReadFrom
<1>5. ASSUME NEW r \in Readers, NEW off \in Waits, Register(r, off)
      PROVE  RingInvariant'
  <2>1. TypeOK'
    BY <1>5, RingAssumption DEF Register, TypeOK, ring, history
  <2> QED BY <1>5, <2>1, RingUntouched DEF Register
<1>6. ASSUME NEW r \in Readers, CheckEnd(r)
      PROVE  RingInvariant'
  <2>1. TypeOK'
    BY <1>6, SMTT(20) DEF CheckEnd, Return, TypeOK, ring, history
  <2> QED BY <1>6, <2>1, RingUntouched DEF CheckEnd
<1>7. ASSUME NEW r \in Readers, Wake(r)
      PROVE  RingInvariant'
  <2>1. TypeOK'
    BY <1>7 DEF Wake, TypeOK, ring, history
  <2> QED BY <1>7, <2>1, RingUntouched DEF Wake
<1>8. ASSUME NEW r \in Readers, GiveUp(r)
      PROVE  RingInvariant'
  <2>1. TypeOK'
    BY <1>8 DEF GiveUp, Return, TypeOK, ring, history
  <2> QED BY <1>8, <2>1, RingUntouched DEF GiveUp
<1>9. CASE UNCHANGED vars
  <2>1. TypeOK'
    BY <1>9 DEF vars, TypeOK, ring, waiting, history
  <2> QED BY <1>9, <2>1, RingUntouched DEF vars
<1> QED
  BY <1>1, <1>2, <1>3, <1>4, <1>5, <1>6, <1>7, <1>8, <1>9 DEF Next

(* The ring starts in its invariant.                                       *)
LEMMA RingInvariantInit == Init => RingInvariant
<1> SUFFICES ASSUME Init PROVE RingInvariant
  OBVIOUS
<1>1. TypeOK
  BY RingAssumption DEF Init, TypeOK, Slice, EmptySlice
<1> QED
  BY <1>1, RingAssumption DEF Init, RingInvariant, OffsetsFit, RetainedIsStream

(* The ring's variables keep their types, end_offset counts every byte     *)
(* received, at most Capacity of them are retained, and every retained     *)
(* offset holds the byte received there.                                   *)
THEOREM RingCorrect == Spec => [](TypeOK /\ OffsetsFit /\ RetainedIsStream)
<1>1. RingInvariant => TypeOK /\ OffsetsFit /\ RetainedIsStream
  BY DEF RingInvariant
<1> QED BY <1>1, RingInvariantInit, RingInvariantStep, PTL DEF Spec

-----------------------------------------------------------------------------
(* Readers.                                                                *)

(* A reader parked although its data is there has been signalled, or is    *)
(* about to be: registering before the check loses no wakeup.              *)
THEOREM WakeupCorrect == Spec => []NoLostWakeup
<1>1. Init => NoLostWakeup
  BY DEF Init, NoLostWakeup
<1>2. RingInvariant /\ NoLostWakeup /\ [Next]_vars => NoLostWakeup'
  <2> SUFFICES ASSUME RingInvariant, NoLostWakeup, [Next]_vars
               PROVE  NoLostWakeup'
    OBVIOUS
  <2>1. ASSUME NEW chunk \in Chunks, AppendChunk(chunk)
        PROVE  NoLostWakeup'
    BY <2>1 DEF AppendChunk, NoLostWakeup
  <2>2. CASE NotifyWaiters
    BY <2>2 DEF NotifyWaiters, NoLostWakeup, ring, waiting
  <2>3. CASE Clear
    BY <2>3 DEF Clear, NoLostWakeup, waiting
  <2>4. ASSUME NEW cursor \in Offsets, NEW max \in MaxReads, ReadFrom(cursor, max)
        PROVE  NoLostWakeup'
    BY <2>4 DEF ReadFrom, NoLostWakeup, ring, waiting
  <2>5. ASSUME NEW r \in Readers, NEW off \in Waits, Register(r, off)
        PROVE  NoLostWakeup'
    BY <2>5 DEF Register, NoLostWakeup, ring, RingInvariant, TypeOK
  <2>6. ASSUME NEW r \in Readers, CheckEnd(r)
        PROVE  NoLostWakeup'
    <3>1. CASE end_offset > after[r]
      BY <2>6, <3>1 DEF CheckEnd, Return, NoLostWakeup, ring, RingInvariant, TypeOK
    <3>2. CASE ~(end_offset > after[r])
      BY <2>6, <3>2 DEF CheckEnd, NoLostWakeup, ring, RingInvariant, TypeOK
    <3> QED BY <3>1, <3>2
  <2>7. ASSUME NEW r \in Readers, Wake(r)
        PROVE  NoLostWakeup'
    BY <2>7 DEF Wake, NoLostWakeup, ring, RingInvariant, TypeOK
  <2>8. ASSUME NEW r \in Readers, GiveUp(r)
        PROVE  NoLostWakeup'
    BY <2>8 DEF GiveUp, Return, NoLostWakeup, ring, RingInvariant, TypeOK
  <2>9. CASE UNCHANGED vars
    BY <2>9 DEF vars, NoLostWakeup, ring, waiting
  <2> QED
    BY <2>1, <2>2, <2>3, <2>4, <2>5, <2>6, <2>7, <2>8, <2>9 DEF Next
<1> QED BY <1>1, <1>2, RingInvariantInit, RingInvariantStep, PTL DEF Spec

(* What a reader holds stays a piece of the received stream, while appends *)
(* and clears move the ring on.                                            *)
THEOREM SliceCorrect == Spec => []SliceIsStream
<1>1. Init => SliceIsStream
  BY DEF Init, SliceIsStream, EmptySlice
<1>2. RingInvariant /\ SliceIsStream /\ [Next]_vars => SliceIsStream'
  <2> SUFFICES ASSUME RingInvariant, SliceIsStream, [Next]_vars
               PROVE  SliceIsStream'
    OBVIOUS
  <2>1. ASSUME NEW chunk \in Chunks, AppendChunk(chunk)
        PROVE  SliceIsStream'
    <3>1. slice' = slice /\ slice \in Slice /\ stream' = stream \o chunk
          /\ stream \in Seq(Byte) /\ chunk \in Seq(Byte)
      BY <2>1, RingAssumption DEF AppendChunk, RingInvariant, TypeOK
    <3>2. Len(stream') >= Len(stream)
          /\ \A j \in 1..Len(stream) : stream'[j] = stream[j]
      BY <3>1
    <3>3. ASSUME NEW k \in 1..Len(slice.bytes)
          PROVE  slice.from_offset + k \in 1..Len(stream)
      BY <3>1 DEF SliceIsStream, Slice
    <3> QED BY <3>1, <3>2, <3>3 DEF SliceIsStream, Slice
  <2>2. ASSUME NEW cursor \in Offsets, NEW max \in MaxReads, ReadFrom(cursor, max)
        PROVE  SliceIsStream'
    <3> DEFINE t == read_from(cursor, max)
               n == Smaller(max, end_offset - t.from_offset)
    <3>1. cursor \in Nat /\ max \in Nat
      BY RingAssumption DEF Offsets
    <3>2. /\ t \in Slice
          /\ t.next_offset = t.from_offset + Len(t.bytes)
          /\ t.next_offset <= Len(stream)
          /\ t.bytes = [k \in 1..n |-> stream[t.from_offset + k]]
      BY <3>1, ReadIsStream
    <3>3. slice' = t /\ stream' = stream
      BY <2>2 DEF ReadFrom, history
    <3> HIDE DEF t, n
    <3>4. ASSUME NEW k \in 1..Len(t.bytes)
          PROVE  t.bytes[k] = stream[t.from_offset + k]
      <4> DEFINE b == t.bytes
      <4>0. b \in Seq(Byte)
        BY <3>2 DEF Slice
      <4> HIDE DEF b
      <4>a. DOMAIN b = 1..Len(b)
        BY <4>0
      <4>1. k \in DOMAIN t.bytes
        BY <4>a, <3>4 DEF b
      <4>2. DOMAIN t.bytes = 1..n
        BY <3>2
      <4>3. k \in 1..n
        BY <4>1, <4>2
      <4> QED BY <3>2, <4>3
    <3> QED BY <3>2, <3>3, <3>4 DEF SliceIsStream
  <2>3. CASE Clear \/ NotifyWaiters
    BY <2>3 DEF Clear, NotifyWaiters, SliceIsStream, history
  <2>4. ASSUME NEW r \in Readers,
               \/ \E off \in Waits : Register(r, off)
               \/ CheckEnd(r)
               \/ Wake(r)
               \/ GiveUp(r)
        PROVE  SliceIsStream'
    BY <2>4 DEF Register, CheckEnd, Wake, GiveUp, SliceIsStream, history
  <2>5. CASE UNCHANGED vars
    BY <2>5 DEF vars, SliceIsStream, history
  <2> QED
    BY <2>1, <2>2, <2>3, <2>4, <2>5 DEF Next
<1> QED BY <1>1, <1>2, RingInvariantInit, RingInvariantStep, PTL DEF Spec

(* Every byte that can no longer be read was counted as wrapped or was     *)
(* discarded by a clear.                                                   *)
THEOREM WrapAccountingCorrect == Spec => []WrapAccounting
<1>1. Init => WrapAccounting
  BY DEF Init, WrapAccounting
<1>2. RingInvariant /\ WrapAccounting /\ [Next]_vars => WrapAccounting'
  <2> SUFFICES ASSUME RingInvariant, WrapAccounting, [Next]_vars
               PROVE  WrapAccounting'
    OBVIOUS
  <2>0. start_offset \in Nat /\ bytes_wrapped_total \in Nat /\ cleared \in Nat
        /\ end_offset \in Nat
    BY DEF RingInvariant, TypeOK
  <2>1. ASSUME NEW chunk \in Chunks, AppendChunk(chunk)
        PROVE  WrapAccounting'
    <3> DEFINE n == new_start(end_offset + Len(chunk))
    <3>1. /\ bytes_wrapped_total' = bytes_wrapped_total + lost(n)
          /\ n = start_offset' /\ cleared' = cleared
      BY <2>1 DEF AppendChunk
    <3>2. start_offset' \in Nat /\ start_offset <= start_offset'
      BY <2>1, AppendNumbers
    <3> HIDE DEF n
    <3>3. lost(n) = Monus(n, start_offset)
      BY DEF lost
    <3>4. Monus(n, start_offset) = start_offset' - start_offset
      BY <3>1, <3>2, <2>0 DEF Monus
    <3> QED BY <2>0, <3>1, <3>2, <3>3, <3>4 DEF WrapAccounting
  <2>2. CASE Clear
    BY <2>0, <2>2 DEF Clear, WrapAccounting
  <2>3. CASE NotifyWaiters \/ \E cursor \in Offsets, max \in MaxReads : ReadFrom(cursor, max)
    BY <2>3 DEF NotifyWaiters, ReadFrom, WrapAccounting, ring, history
  <2>4. ASSUME NEW r \in Readers,
               \/ \E off \in Waits : Register(r, off)
               \/ CheckEnd(r)
               \/ Wake(r)
               \/ GiveUp(r)
        PROVE  WrapAccounting'
    BY <2>4 DEF Register, CheckEnd, Wake, GiveUp, WrapAccounting, ring, history
  <2>5. CASE UNCHANGED vars
    BY <2>5 DEF vars, WrapAccounting, ring, history
  <2> QED
    BY <2>1, <2>2, <2>3, <2>4, <2>5 DEF Next
<1> QED BY <1>1, <1>2, RingInvariantInit, RingInvariantStep, PTL DEF Spec

-----------------------------------------------------------------------------
(* The ring implements RxStream.                                           *)

(* The ring starts as an empty stream.                                     *)
LEMMA StreamInit == Init => Stream!SInit
BY DEF Init, Stream!SInit, EmptySlice, Stream!EmptySlice

(* Every step of the ring is a step of the stream or leaves it alone.      *)
LEMMA StreamStep == RingInvariant /\ [Next]_vars => [Stream!SNext]_Stream!svars
<1> SUFFICES ASSUME RingInvariant, [Next]_vars
             PROVE  Stream!SNext \/ UNCHANGED <<stream, start_offset, slice>>
  BY DEF Stream!svars
<1>1. ASSUME NEW chunk \in Chunks, AppendChunk(chunk)
      PROVE  Stream!SNext
  <2>1. chunk # <<>> /\ stream' = stream \o chunk /\ UNCHANGED slice
    BY <1>1 DEF AppendChunk
  <2>2. start_offset' = Larger(start_offset, Monus(end_offset', Capacity))
    BY <1>1 DEF AppendChunk, new_start
  <2>3. end_offset' = Len(stream')
    BY <1>1, AppendRetains DEF RingInvariant, OffsetsFit
  <2>4. Stream!Receive(chunk)
    BY <2>1, <2>2, <2>3 DEF Stream!Receive, Stream!Larger, Stream!Monus, Larger, Monus
  <2> QED BY <2>4 DEF Stream!SNext
<1>2. CASE Clear
  BY <1>2 DEF Clear, Stream!SNext, Stream!Forget, RingInvariant, OffsetsFit
<1>3. ASSUME NEW cursor \in Offsets, NEW max \in MaxReads, ReadFrom(cursor, max)
      PROVE  Stream!SNext
  <2> DEFINE t == read_from(cursor, max)
             from == Smaller(Larger(cursor, start_offset), Len(stream))
             count == Smaller(max, Len(stream) - from)
  <2>1. cursor \in Nat /\ max \in Nat /\ end_offset = Len(stream)
    BY RingAssumption DEF Offsets, RingInvariant, OffsetsFit
  <2>2. /\ t \in Slice
        /\ t.next_offset = t.from_offset + Len(t.bytes)
        /\ t.from_offset = from
        /\ t.bytes_lost = Monus(start_offset, cursor)
        /\ t.bytes = [k \in 1..count |-> stream[from + k]]
    <3>1. /\ t \in Slice
          /\ t.next_offset = t.from_offset + Len(t.bytes)
          /\ t.from_offset = Smaller(Larger(cursor, start_offset), end_offset)
          /\ t.bytes_lost = Monus(start_offset, cursor)
          /\ t.bytes = [k \in 1..Smaller(max, end_offset - t.from_offset) |->
                          stream[t.from_offset + k]]
      BY <2>1, ReadIsStream
    <3>2. t.from_offset = from
      BY <3>1, <2>1
    <3> HIDE DEF t, from
    <3> QED BY <3>1, <3>2, <2>1
  <2>3. count \in Nat
    BY <2>1 DEF Smaller, Larger, RingInvariant, TypeOK
  <2>4. Len(t.bytes) = count
    <3> HIDE DEF t, from, count
    <3> QED BY <2>2, <2>3 DEF Slice
  <2>5. t = [bytes |-> [k \in 1..count |-> stream[from + k]], from_offset |-> from,
             next_offset |-> from + count, bytes_lost |-> Monus(start_offset, cursor)]
    <3> HIDE DEF t, from, count
    <3> QED BY <2>2, <2>4 DEF Slice
  <2>6. slice' = t /\ UNCHANGED <<stream, start_offset>>
    BY <1>3 DEF ReadFrom, ring, history
  <2>7. Stream!Answer(cursor, max)
    BY <2>5, <2>6
    DEF Stream!Answer, Stream!Smaller, Stream!Larger, Stream!Monus, Smaller, Larger, Monus
  <2> QED BY <2>7 DEF Stream!SNext
<1>4. CASE NotifyWaiters
  BY <1>4 DEF NotifyWaiters, ring, history
<1>5. ASSUME NEW r \in Readers,
             \/ \E off \in Waits : Register(r, off)
             \/ CheckEnd(r)
             \/ Wake(r)
             \/ GiveUp(r)
      PROVE  UNCHANGED <<stream, start_offset, slice>>
  BY <1>5 DEF Register, CheckEnd, Wake, GiveUp, ring, history
<1>6. CASE UNCHANGED vars
  BY <1>6 DEF vars, ring, history
<1> QED
  BY <1>1, <1>2, <1>3, <1>4, <1>5, <1>6 DEF Next

(* The ring is a bounded window on an append-only stream: it forgets no    *)
(* byte it has room for and answers every read with the bytes received.    *)
THEOREM RingImplementsStream == Spec => ImplementsStream
BY StreamInit, StreamStep, RingInvariantInit, RingInvariantStep, PTL
DEF Spec, ImplementsStream, Stream!SSpec

=============================================================================
