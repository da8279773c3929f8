-------------------------- MODULE ControlLinesProofs --------------------------
(***************************************************************************)
(* What the reading tools and the boot capture promise, for any number of  *)
(* calls, any ring capacity, any script of the device and any requests.    *)
(*                                                                         *)
(* A capture is fresh because the pump stands still from its purge to its  *)
(* mark (CaptureInvariant), a pulse is undisturbed because everyone drives *)
(* the lines under the control lock (Pulse), asserted lines have an owner  *)
(* because the guard comes first (Guards, Owned), and nothing is skipped   *)
(* because every call keeps what it took next to its cursor (NoGap).       *)
(***************************************************************************)
EXTENDS ControlLines, SequenceTheorems, FiniteSetTheorems, WellFoundedInduction, TLAPS

Bytes == [kind : Kinds, nth : Nat \ {0}]

Reasons == {"none", "drained", "match_found", "framing_error", "max_frames", "connection_closed",
            "timeout", "no_new_rx_timeout", "cancelled", "max_buffered_bytes"}

BootPhase == {"gate", "purge", "mark", "assert", "hold", "settle"}
ReadPhase == {"resolved", "checking", "waiting", "completing", "storing"}
Labels == BootPhase \cup ReadPhase \cup
            {"idle", "written", "flushed", "cleared", "breaking", "done", "failed"}

Completion(S) ==
  [reason : Reasons, matched : BOOLEAN, payload : Seq(S), override : BOOLEAN, final : Nat]
Outcome(S) ==
  [bytes : Seq(S), from_offset : Nat, next_offset : Nat, bytes_lost : Nat, some : BOOLEAN]
Driver(S) ==
  [original : Nat, clocked : Nat, consumed : Nat, returned : Seq(S), undecoded : Seq(S),
   frames_seen : Nat, completion : Completion(S), outcome : Outcome(S)]

(* The offsets a call may hold: those of the stream and, in a capture,     *)
(* only the ones past its mark.                                            *)
Floor(c) == IF Boot(c) THEN mark[c] ELSE 0
Own(c) == Floor(c) .. (end_offset - 1)

Typed ==
  /\ work \in Workloads
  /\ sent \in Nat
  /\ os_input \in Seq(Bytes)
  /\ pump_buf \in Seq(Bytes)
  /\ stream \in Seq(Bytes)
  /\ ring_start \in 0 .. end_offset
  /\ read_cursor \in Nat
  /\ pc \in [Calls -> Labels]
  /\ mark \in [Calls -> Nat]
  /\ purged \in [Calls -> Nat]
  /\ \A c \in Calls : mark[c] <= end_offset

DriversTyped ==
  /\ rd = [c \in Calls |-> rd[c]]
  /\ \A c \in Calls : rd[c] \in Driver(Own(c))

(* A capture has read nothing before it has its mark, and reads from there.*)
Started ==
  \A c \in Calls :
    /\ pc[c] \in BootPhase => Boot(c)
    /\ pc[c] = "written" => Request(c).tool = "transact"
    /\ pc[c] \in {"idle"} \cup BootPhase => rd[c] = NewDriver(0, 0)
    /\ pc[c] \in ReadPhase => /\ Request(c).tool \in {"read", "transact", "capture_boot"}
                              /\ rd[c].original >= Floor(c) /\ rd[c].clocked >= Floor(c)

(* The pump stands still while a capture purges the input.                 *)
Gated == \A c \in Calls : pc[c] \in {"purge", "mark", "assert"} => pump_gate = {c} /\ pump_buf = <<>>

(* Whatever is not yet in the ring was sent after every purge, and so was  *)
(* whatever the ring has past a mark.                                      *)
Fresh ==
  \A c \in Calls :
    /\ purged[c] <= sent
    /\ \A i \in DOMAIN os_input : os_input[i].nth > purged[c]
    /\ \A i \in DOMAIN pump_buf : pump_buf[i].nth > purged[c]
    /\ pc[c] # "mark" => \A i \in DOMAIN stream : i > mark[c] => stream[i].nth > purged[c]

CaptureInvariant == Typed /\ DriversTyped /\ Started /\ Gated /\ Fresh

(* The lines belong to the call in its pulse.                              *)
Pulse ==
  \A c \in Calls :
    /\ pc[c] \in {"gate", "purge", "mark", "assert", "hold"} /\ Resets(c) => control_lock = {c}
    /\ pc[c] = "hold" => Resets(c) /\ lines \in {"reset", "gone"}

(* No byte is lost between the cursor and the calls.                       *)
AllLossless == \A c \in Calls : Request(c).tool \in {"read", "flush"} /\ Lossless(Request(c))

Holds(seq, o) == \E i \in DOMAIN seq : seq[i] = o
Covered(upto, seq) ==
  /\ upto <= end_offset
  /\ \A o \in ring_start .. (upto - 1) : o \in accounted \/ Holds(seq, o)

CoveredAt(d, label) ==
  /\ label = "resolved" => d.returned = <<>> /\ d.consumed = 0 /\ Covered(d.original, <<>>)
  /\ label \in {"checking", "waiting"} =>
       /\ d.original + d.consumed <= d.clocked
       /\ Covered(d.clocked, d.returned)
  /\ label = "completing" =>
       /\ d.completion.override => d.completion.payload = d.returned
       /\ Covered(d.completion.final, d.returned)
  /\ label = "storing" => Covered(d.completion.final, d.outcome.bytes)

NoGap == AllLossless => /\ Covered(read_cursor, <<>>)
                        /\ \A c \in Calls : CoveredAt(rd[c], pc[c])

-----------------------------------------------------------------------------
(* Lemmas about the operators of ReadLoop.                                 *)

LEMMA LeastExists ==
  ASSUME NEW S \in SUBSET Nat, S # {}
  PROVE  \E i \in S : \A j \in S : i <= j
<1> DEFINE R == OpToRel(<, Nat)
<1>1. IsWellFoundedOn(R, Nat)
  BY NatLessThanWellFounded
<1>2. PICK i \in S : \A j \in S : ~ (<<j, i>> \in R)
  <2> HIDE DEF R
  <2> QED BY <1>1, WFMin
<1>3. \A j \in S : ~ (j < i)
  BY <1>2 DEF OpToRel
<1> QED BY <1>3

LEMMA GreatestExists ==
  ASSUME NEW n \in Nat, NEW S \in SUBSET (1 .. n), S # {}
  PROVE  \E i \in S : \A j \in S : j <= i
<1> DEFINE T == {m \in 0 .. n : n - m \in S}
<1>1. T \in SUBSET Nat /\ T # {}
  <2>1. PICK i \in S : TRUE
    OBVIOUS
  <2>2. n - i \in 0 .. n /\ n - (n - i) = i
    OBVIOUS
  <2>3. n - i \in T
    BY <2>1, <2>2
  <2>4. T \subseteq Nat
    OBVIOUS
  <2> QED BY <2>3, <2>4
<1>2. PICK m \in T : \A k \in T : m <= k
  <2> HIDE DEF T
  <2> QED BY <1>1, LeastExists
<1>3. \A j \in S : n - j \in T
  OBVIOUS
<1>4. \A j \in S : m <= n - j
  BY <1>2, <1>3
<1>5. \A j \in S : j <= n - m
  BY <1>4
<1> QED BY <1>5

(* The slice read_from returns is a part of the stream not before the      *)
(* cursor, and skips nothing that is still retained.                       *)
LEMMA SliceBounds ==
  ASSUME Typed, NEW cursor \in Nat, NEW max \in Nat,
         NEW from, from = SliceFrom(cursor), NEW n, n = SliceLen(cursor, max)
  PROVE  /\ from \in 0 .. end_offset
         /\ n \in 0 .. max
         /\ from + n \in 0 .. end_offset
         /\ \A lo \in Nat : lo <= cursor /\ lo <= end_offset => lo <= from
         /\ from > cursor => from = ring_start
         /\ from < cursor => from = end_offset
<1>1. end_offset \in Nat /\ ring_start \in 0 .. end_offset
  BY LenProperties DEF Typed, end_offset
<1>2. from = IF (IF cursor >= ring_start THEN cursor ELSE ring_start) <= end_offset
             THEN (IF cursor >= ring_start THEN cursor ELSE ring_start) ELSE end_offset
  BY DEF SliceFrom, Smaller, Larger
<1>3. n = IF max <= end_offset - from THEN max ELSE end_offset - from
  BY DEF SliceLen, Smaller
<1> HIDE DEF end_offset
<1> QED BY <1>1, <1>2, <1>3

LEMMA SliceFromNat == ASSUME Typed, NEW cursor \in Nat PROVE SliceFrom(cursor) \in Nat
<1>1. end_offset \in Nat /\ ring_start \in 0 .. end_offset
  BY LenProperties DEF Typed, end_offset
<1> HIDE DEF end_offset
<1> QED BY <1>1 DEF SliceFrom, Smaller, Larger

LEMMA OffsetsInterval ==
  ASSUME NEW lo \in Nat, NEW top \in Nat, NEW from \in Nat, NEW n \in Nat,
         lo <= from, from + n <= top
  PROVE  /\ Offsets(from, n) \in Seq(lo .. (top - 1))
         /\ Len(Offsets(from, n)) = n
         /\ DOMAIN Offsets(from, n) = 1 .. n
         /\ \A i \in 1 .. n : Offsets(from, n)[i] = from + i - 1
<1>1. Offsets(from, n) \in [1 .. n -> lo .. (top - 1)]
  BY DEF Offsets
<1>2. Offsets(from, n) \in Seq(lo .. (top - 1))
  BY <1>1, SeqDef
<1>3. DOMAIN Offsets(from, n) = 1 .. n /\ \A i \in 1 .. n : Offsets(from, n)[i] = from + i - 1
  BY DEF Offsets
<1>4. Len(Offsets(from, n)) = n
  BY <1>2, <1>3, LenProperties
<1> QED BY <1>2, <1>3, <1>4

(* What is decoded out of bytes are some of those bytes.                   *)
LEMMA EndsInDomain ==
  ASSUME NEW S, NEW bytes \in Seq(S)
  PROVE  /\ Ends(bytes) \subseteq 1 .. Len(bytes)
         /\ Hits(bytes) \subseteq 1 .. Len(bytes)
         /\ \A kind : At(bytes, kind) \subseteq 1 .. Len(bytes)
         /\ Cardinality(Ends(bytes)) \in Nat
<1>1. DOMAIN bytes = 1 .. Len(bytes) /\ Len(bytes) \in Nat
  BY LenProperties
<1>2. Ends(bytes) \subseteq 1 .. Len(bytes)
  BY <1>1 DEF Ends, At
<1>3. Hits(bytes) \subseteq 1 .. Len(bytes)
  BY <1>2 DEF Hits
<1>4. \A kind : At(bytes, kind) \subseteq 1 .. Len(bytes)
  BY <1>1 DEF At
<1>5. IsFiniteSet(1 .. Len(bytes))
  BY <1>1, FS_Interval
<1>6. IsFiniteSet(Ends(bytes))
  BY <1>2, <1>5, FS_Subset
<1>7. Cardinality(Ends(bytes)) \in Nat
  BY <1>6, FS_CardinalityType
<1> QED BY <1>2, <1>3, <1>4, <1>7

LEMMA SubSeqIn ==
  ASSUME NEW S, NEW bytes \in Seq(S), NEW m \in Nat \ {0}, NEW n \in Int, n <= Len(bytes)
  PROVE  SubSeq(bytes, m, n) \in Seq(S)
<1>1. \A i \in m .. n : i \in 1 .. Len(bytes)
  BY LenProperties
<1>2. \A i \in m .. n : bytes[i] \in S
  BY <1>1, ElementOfSeq
<1> QED BY <1>2, SubSeqProperties

LEMMA FirstIn ==
  ASSUME NEW S \in SUBSET Nat, S # {}
  PROVE  First(S) \in S /\ \A j \in S : First(S) <= j
BY LeastExists DEF First

LEMMA FrameIn ==
  ASSUME NEW S, NEW bytes \in Seq(S), NEW i \in 1 .. Len(bytes)
  PROVE  FrameUpTo(bytes, i) \in Seq(S)
<1> DEFINE start == {k \in Ends(bytes) : k < i}
           last == CHOOSE k \in start : \A j \in start : j <= k
           from == IF start = {} THEN 1 ELSE 1 + last
<1>1. Len(bytes) \in Nat /\ start \in SUBSET (1 .. Len(bytes))
  BY EndsInDomain, LenProperties
<1>2. start # {} => last \in start
  <2> HIDE DEF start
  <2> QED BY <1>1, GreatestExists
<1>3. from \in Nat \ {0}
  BY <1>1, <1>2
<1>4. i - 1 \in Int /\ i - 1 <= Len(bytes)
  BY <1>1
<1>5. SubSeq(bytes, from, i - 1) \in Seq(S)
  <2> HIDE DEF from
  <2> QED BY <1>3, <1>4, SubSeqIn
<1> QED BY <1>5 DEF FrameUpTo

LEMMA UndecodedIn ==
  ASSUME NEW S, NEW bytes \in Seq(S)
  PROVE  Undecoded(bytes) \in Seq(S)
<1> DEFINE ends == Ends(bytes)
           last == CHOOSE k \in ends : \A j \in ends : j <= k
<1>1. Len(bytes) \in Nat /\ ends \in SUBSET (1 .. Len(bytes))
  BY EndsInDomain, LenProperties
<1>2. CASE ends = {}
  BY <1>2 DEF Undecoded
<1>3. CASE ends # {}
  <2>1. last \in ends
    <3> HIDE DEF ends
    <3> QED BY <1>1, <1>3, GreatestExists
  <2>2. 1 + last \in Nat \ {0}
    <3> HIDE DEF last, ends
    <3> QED BY <1>1, <2>1
  <2>3. SubSeq(bytes, 1 + last, Len(bytes)) \in Seq(S)
    <3> HIDE DEF last
    <3> QED BY <1>1, <2>2, SubSeqIn
  <2> QED BY <1>3, <2>3 DEF Undecoded
<1> QED BY <1>2, <1>3

LEMMA FramedStopTyped ==
  ASSUME NEW S, NEW bytes \in Seq(S), NEW final \in Nat, NEW c, NEW d
  PROVE  FramedStop(c, d, bytes, final) \in Completion(S)
<1>1. NoCompletion \in Completion(S) /\ \A reason \in Reasons : Plain(reason, final) \in Completion(S)
  BY EmptySeq DEF NoCompletion, Plain, Completion, Reasons
<1>2. ASSUME Hits(bytes) # {}
      PROVE  Matched(FrameUpTo(bytes, First(Hits(bytes))), final) \in Completion(S)
  <2>1. Hits(bytes) \in SUBSET Nat /\ Hits(bytes) \subseteq 1 .. Len(bytes)
    BY EndsInDomain, LenProperties
  <2>2. First(Hits(bytes)) \in 1 .. Len(bytes)
    BY <1>2, <2>1, FirstIn
  <2>3. FrameUpTo(bytes, First(Hits(bytes))) \in Seq(S)
    BY <2>2, FrameIn
  <2> QED BY <2>3 DEF Matched, Completion, Reasons
<1>3. {"framing_error", "max_frames"} \subseteq Reasons
  BY DEF Reasons
<1> QED BY <1>1, <1>2, <1>3 DEF FramedStop

-----------------------------------------------------------------------------
(* The driver of a call: what the steps of its read make of it.            *)

LEMMA RequestTyped == ASSUME Typed, NEW c \in Calls PROVE Request(c) \in Requests
BY ReadAssumption DEF Typed, Request

LEMMA FloorNat ==
  ASSUME Typed, NEW c \in Calls
  PROVE  Floor(c) \in Nat /\ end_offset \in Nat /\ Floor(c) <= end_offset
BY LenProperties DEF Typed, Floor, end_offset

(* A slice past the floor of a call has offsets the call may hold.         *)
LEMMA SliceOwn ==
  ASSUME Typed, NEW c \in Calls, NEW cursor \in Nat, cursor >= Floor(c), NEW max \in Nat,
         NEW from, from = SliceFrom(cursor), NEW n, n = SliceLen(cursor, max)
  PROVE  /\ from \in Nat /\ n \in Nat /\ from >= Floor(c) /\ from + n <= end_offset
         /\ Offsets(from, n) \in Seq(Own(c))
         /\ Len(Offsets(from, n)) = n
         /\ DOMAIN Offsets(from, n) = 1 .. n
         /\ \A i \in 1 .. n : Offsets(from, n)[i] = from + i - 1
<1>1. Floor(c) \in Nat /\ end_offset \in Nat /\ Floor(c) <= end_offset
  BY FloorNat
<1>2. /\ from \in Nat /\ n \in Nat /\ from + n <= end_offset
      /\ \A lo \in Nat : lo <= cursor /\ lo <= end_offset => lo <= from
  <2> HIDE DEF end_offset
  <2> QED BY <1>1, SliceBounds
<1>3. from >= Floor(c)
  <2> HIDE DEF end_offset
  <2> QED BY <1>1, <1>2
<1>4. /\ Offsets(from, n) \in Seq(Floor(c) .. (end_offset - 1))
      /\ Len(Offsets(from, n)) = n
      /\ DOMAIN Offsets(from, n) = 1 .. n
      /\ \A i \in 1 .. n : Offsets(from, n)[i] = from + i - 1
  BY <1>1, <1>2, <1>3, OffsetsInterval
<1> QED BY <1>2, <1>3, <1>4 DEF Own

(* Matching, framing and waiting put a completion into the driver.         *)
LEMMA CompletionTyped ==
  ASSUME NEW S, NEW final \in Nat
  PROVE  /\ NoCompletion \in Completion(S)
         /\ \A reason \in Reasons : Plain(reason, final) \in Completion(S)
         /\ \A reason \in Reasons :
              [Plain(reason, final) EXCEPT !.matched = TRUE] \in Completion(S)
         /\ \A payload \in Seq(S) : Matched(payload, final) \in Completion(S)
BY EmptySeq DEF NoCompletion, Plain, Completion, Matched, Reasons

LEMMA AdvanceNat ==
  ASSUME Typed, NEW base \in Nat, NEW consumed \in Nat
  PROVE  /\ advance_private_cursor(base, consumed) \in Nat
         /\ advance_private_cursor(base, consumed) <= end_offset
         /\ advance_private_cursor(base, consumed) <= base + consumed
<1>1. end_offset \in Nat
  BY LenProperties DEF Typed, end_offset
<1> HIDE DEF end_offset
<1> QED BY <1>1 DEF advance_private_cursor, Smaller

LEMMA DriverFields ==
  ASSUME NEW S, NEW d \in Driver(S)
  PROVE  /\ d.original \in Nat /\ d.clocked \in Nat /\ d.consumed \in Nat
         /\ d.returned \in Seq(S) /\ d.undecoded \in Seq(S) /\ d.frames_seen \in Nat
         /\ d.completion \in Completion(S) /\ d.outcome \in Outcome(S)
         /\ d.completion.payload \in Seq(S) /\ d.completion.override \in BOOLEAN
         /\ d.completion.final \in Nat
         /\ d.outcome.bytes \in Seq(S)
BY DEF Driver, Completion, Outcome

LEMMA Completed ==
  ASSUME NEW S, NEW d \in Driver(S), NEW completion \in Completion(S)
  PROVE  /\ [d EXCEPT !.completion = completion] \in Driver(S)
         /\ [d EXCEPT !.completion = completion].original = d.original
         /\ [d EXCEPT !.completion = completion].clocked = d.clocked
         /\ [d EXCEPT !.completion = completion].consumed = d.consumed
         /\ [d EXCEPT !.completion = completion].returned = d.returned
         /\ [d EXCEPT !.completion = completion].completion = completion
BY DEF Driver

LEMMA DecodedTyped ==
  ASSUME NEW S, NEW d \in Driver(S), NEW bytes \in Seq(S)
  PROVE  /\ Decoded(d, bytes) \in Driver(S)
         /\ Decoded(d, bytes).original = d.original
         /\ Decoded(d, bytes).clocked = d.clocked
         /\ Decoded(d, bytes).consumed = d.consumed
         /\ Decoded(d, bytes).returned = d.returned
<1>1. Undecoded(bytes) \in Seq(S) /\ Cardinality(Ends(bytes)) \in Nat
  BY UndecodedIn, EndsInDomain
<1>2. d.frames_seen + Cardinality(Ends(bytes)) \in Nat
  BY <1>1 DEF Driver
<1> QED BY <1>1, <1>2 DEF Decoded, Driver

(* A step of the read itself: the driver stays typed and past its floor,   *)
(* and nothing else changes but the position of the call.                  *)
Driven(c) ==
  /\ \E d \in Driver(Own(c)), l \in ReadPhase :
       /\ d.original = rd[c].original /\ d.clocked >= Floor(c)
       /\ rd' = [rd EXCEPT ![c] = d]
       /\ pc' = [pc EXCEPT ![c] = l]
  /\ UNCHANGED <<work, sent, os_input, ringv, read_cursor, link, pumpv, accounted>>

LEMMA ContinuesDriven ==
  ASSUME NEW c \in Calls, NEW d \in Driver(Own(c)), d.original = rd[c].original,
         d.clocked >= Floor(c), Continues(c, d),
         UNCHANGED <<work, sent, os_input, ringv, read_cursor, link, pumpv, accounted>>
  PROVE  Driven(c)
BY DEF Continues, Driven, ReadPhase

LEMMA CompletesDriven ==
  ASSUME NEW c \in Calls, NEW d \in Driver(Own(c)), d.original = rd[c].original,
         d.clocked >= Floor(c), NEW completion \in Completion(Own(c)), Completes(c, d, completion),
         UNCHANGED <<work, sent, os_input, ringv, read_cursor, link, pumpv, accounted>>
  PROVE  Driven(c)
<1>1. /\ [d EXCEPT !.completion = completion] \in Driver(Own(c))
      /\ [d EXCEPT !.completion = completion].original = d.original
      /\ [d EXCEPT !.completion = completion].clocked = d.clocked
  BY Completed
<1>2. "completing" \in ReadPhase
  BY DEF ReadPhase
<1> QED BY <1>1, <1>2 DEF Completes, Driven

LEMMA AfterHistoryTyped ==
  ASSUME NEW c \in Calls, NEW S, rd[c] \in Driver(S), NEW from \in Nat, NEW n \in Nat,
         Offsets(from, n) \in Seq(S)
  PROVE  /\ AfterHistory(c, from, n) \in Driver(S)
         /\ AfterHistory(c, from, n).original = rd[c].original
         /\ AfterHistory(c, from, n).clocked = from + n
         /\ AfterHistory(c, from, n).consumed = IF Matching(c) /\ Request(c).framed THEN 2 * n ELSE n
         /\ AfterHistory(c, from, n).returned =
              IF Matching(c) /\ Request(c).framed THEN Offsets(from, n) \o Offsets(from, n)
                                                  ELSE Offsets(from, n)
<1> DEFINE chunk == Offsets(from, n)
           times == IF Matching(c) /\ Request(c).framed THEN 2 ELSE 1
           twice == IF times = 2 THEN chunk \o chunk ELSE chunk
<1>1. from + n \in Nat /\ times * n \in Nat
  BY DEF Matching
<1>2. twice \in Seq(S)
  BY ConcatProperties
<1>3. AfterHistory(c, from, n) =
        [rd[c] EXCEPT !.clocked = from + n, !.consumed = times * n, !.returned = twice]
  BY DEF AfterHistory
<1>4. times * n = IF Matching(c) /\ Request(c).framed THEN 2 * n ELSE n
  OBVIOUS
<1> HIDE DEF twice, times
<1>5. /\ AfterHistory(c, from, n) \in Driver(S)
      /\ AfterHistory(c, from, n).original = rd[c].original
      /\ AfterHistory(c, from, n).clocked = from + n
      /\ AfterHistory(c, from, n).consumed = times * n
      /\ AfterHistory(c, from, n).returned = twice
  BY <1>1, <1>2, <1>3 DEF Driver
<1> QED BY <1>4, <1>5 DEF twice, times

LEMMA AfterLiveTyped ==
  ASSUME NEW c \in Calls, NEW S, rd[c] \in Driver(S), Request(c).max \in Nat,
         NEW from \in Nat, NEW n \in Nat, Offsets(from, n) \in Seq(S)
  PROVE  /\ AfterLive(c, from, n) \in Driver(S)
         /\ AfterLive(c, from, n).original = rd[c].original
         /\ AfterLive(c, from, n).clocked = from + n
         /\ AfterLive(c, from, n).consumed <= rd[c].consumed + n
         /\ AfterLive(c, from, n).returned = rd[c].returned \o Offsets(from, n)
<1>1. rd[c].returned \o Offsets(from, n) \in Seq(S)
  BY ConcatProperties, DriverFields
<1>2. /\ Smaller(rd[c].consumed + n, Request(c).max) \in Nat
      /\ Smaller(rd[c].consumed + n, Request(c).max) <= rd[c].consumed + n
  BY DriverFields DEF Smaller
<1>3. from + n \in Nat
  OBVIOUS
<1>4. AfterLive(c, from, n) =
        [rd[c] EXCEPT !.clocked = from + n,
                      !.consumed = Smaller(rd[c].consumed + n, Request(c).max),
                      !.returned = rd[c].returned \o Offsets(from, n)]
  BY DEF AfterLive, Driver
<1> QED BY <1>1, <1>2, <1>3, <1>4 DEF Driver

(* The first read of the ring.                                             *)
LEMMA BeginDriven ==
  ASSUME Typed, DriversTyped, Started, NEW c \in Calls, Begin(c)
  PROVE  Driven(c)
<1> DEFINE from == SliceFrom(rd[c].original)
           n == SliceLen(rd[c].original, Request(c).max)
           chunk == Offsets(from, n)
<1>1. Request(c).max \in Nat
  BY RequestTyped DEF Requests
<1>2. rd[c] \in Driver(Own(c)) /\ rd[c].original \in Nat
  BY DriverFields DEF DriversTyped
<1>3. rd[c].original >= Floor(c) /\ rd[c].clocked >= Floor(c)
  BY DEF Begin, Started, ReadPhase
<1>4. /\ from \in Nat /\ n \in Nat /\ from >= Floor(c) /\ from + n <= end_offset
      /\ chunk \in Seq(Own(c)) /\ Len(chunk) = n /\ DOMAIN chunk = 1 .. n
  <2>1. from = SliceFrom(rd[c].original) /\ n = SliceLen(rd[c].original, Request(c).max)
    OBVIOUS
  <2> HIDE DEF from, n
  <2> QED BY <1>1, <1>2, <1>3, <2>1, SliceOwn
<1>5. Cat(c, from, n) \/ HistoryMatch(c, from, n) \/ HistoryNoMatch(c, from, n) \/ NoHistory(c, from, n)
  BY DEF Begin
<1>6. Floor(c) \in Nat
  BY FloorNat
<1>7. from + n >= Floor(c) /\ from + n \in Nat
  BY <1>4, <1>6
<1> HIDE DEF from, n
<1>8. CASE Cat(c, from, n)
  <2> DEFINE d == [rd[c] EXCEPT !.consumed = n, !.returned = chunk]
  <2>1. d \in Driver(Own(c)) /\ d.original = rd[c].original /\ d.clocked = rd[c].clocked
    BY <1>2, <1>4 DEF Driver
  <2>2. Plain("drained", advance_private_cursor(from, n)) \in Completion(Own(c))
    BY <1>4, AdvanceNat, CompletionTyped DEF Reasons
  <2> HIDE DEF d
  <2>3. Completes(c, d, Plain("drained", advance_private_cursor(from, n)))
    BY <1>8 DEF Cat, d
  <2> QED BY <1>3, <1>8, <2>1, <2>2, <2>3, CompletesDriven DEF Cat
<1>9. CASE HistoryMatch(c, from, n)
  <2> DEFINE match_end == First(At(chunk, "m")) - 1 + MatchLen(c)
             final == advance_private_cursor(from, match_end)
  <2>1. At(chunk, "m") \in SUBSET Nat /\ At(chunk, "m") # {} /\ At(chunk, "m") \subseteq 1 .. n
    BY <1>4, <1>9, EndsInDomain DEF HistoryMatch
  <2>2. First(At(chunk, "m")) \in 1 .. n
    BY <2>1, FirstIn
  <2>3. match_end \in 0 .. n /\ (Request(c).match = "context" => match_end \in 1 .. n)
    <3> DEFINE first == First(At(chunk, "m"))
    <3>1. first \in 1 .. n /\ match_end = first - 1 + MatchLen(c)
      BY <2>2
    <3> HIDE DEF first, match_end
    <3> QED BY <3>1, <1>4 DEF MatchLen
  <2> HIDE DEF match_end
  <2>4. final \in Nat
    <3>1. match_end \in Nat
      BY <1>4, <2>3
    <3> QED BY <1>4, <3>1, AdvanceNat
  <2>5. [Plain("match_found", final) EXCEPT !.matched = TRUE] \in Completion(Own(c))
    <3> HIDE DEF final
    <3> QED BY <2>4, CompletionTyped DEF Reasons
  <2>6. CASE Request(c).match = "context"
    <3> DEFINE bytes == <<chunk[match_end]>>
               outcome == [bytes |-> bytes, some |-> TRUE, from_offset |-> from,
                           next_offset |-> from + match_end,
                           bytes_lost |-> Monus(ring_start, rd[c].original)]
               d == [rd[c] EXCEPT !.completion = [Plain("match_found", final) EXCEPT !.matched = TRUE],
                                  !.outcome = outcome]
    <3>1. bytes \in Seq(Own(c))
      <4>1. chunk[match_end] \in Own(c)
        BY <1>4, <2>3, <2>6, ElementOfSeq
      <4> QED BY <4>1
    <3>2. from + match_end \in Nat /\ Monus(ring_start, rd[c].original) \in Nat
      <4>1. ring_start \in Nat
        BY LenProperties DEF Typed, end_offset
      <4> QED BY <1>2, <1>4, <2>3, <4>1 DEF Monus
    <3>3. outcome \in Outcome(Own(c))
      <4> HIDE DEF bytes
      <4> QED BY <1>4, <3>1, <3>2 DEF Outcome
    <3>4. d \in Driver(Own(c)) /\ d.original = rd[c].original /\ d.clocked = rd[c].clocked
      <4> HIDE DEF outcome, final
      <4> QED BY <1>2, <2>5, <3>3 DEF Driver
    <3>5. rd' = [rd EXCEPT ![c] = d] /\ pc' = [pc EXCEPT ![c] = "storing"]
      BY <1>2, <1>9, <2>6 DEF HistoryMatch, match_end, Driver, DriversTyped
    <3>6. "storing" \in ReadPhase
      BY DEF ReadPhase
    <3> HIDE DEF d
    <3> QED BY <1>3, <1>9, <3>4, <3>5, <3>6 DEF HistoryMatch, Driven
  <2>7. CASE Request(c).match # "context"
    <3> DEFINE d == [rd[c] EXCEPT !.returned = SubSeq(chunk, 1, match_end)]
    <3>1. SubSeq(chunk, 1, match_end) \in Seq(Own(c))
      BY <1>4, <2>3, SubSeqIn
    <3>2. d \in Driver(Own(c)) /\ d.original = rd[c].original /\ d.clocked = rd[c].clocked
      BY <1>2, <3>1 DEF Driver
    <3>3. Completes(c, d, [Plain("match_found", final) EXCEPT !.matched = TRUE])
      BY <1>9, <2>7 DEF HistoryMatch, match_end
    <3> HIDE DEF d, final
    <3> QED BY <1>3, <1>9, <2>5, <3>2, <3>3, CompletesDriven DEF HistoryMatch
  <2> QED BY <2>6, <2>7
<1>10. CASE HistoryNoMatch(c, from, n)
  <2> DEFINE d == AfterHistory(c, from, n)
             stop == FramedStop(c, d, chunk, advance_private_cursor(from, d.consumed))
  <2>1. d \in Driver(Own(c)) /\ d.original = rd[c].original /\ d.clocked = from + n
    BY <1>2, <1>4, AfterHistoryTyped
  <2>2. UNCHANGED <<work, sent, os_input, ringv, read_cursor, link, pumpv, accounted>>
    BY <1>10 DEF HistoryNoMatch
  <2>3. CASE ~ Request(c).framed
    <3>1. Continues(c, d)
      BY <1>10, <2>3 DEF HistoryNoMatch
    <3> HIDE DEF d
    <3> QED BY <1>7, <2>1, <2>2, <3>1, ContinuesDriven
  <2>4. CASE Request(c).framed
    <3>1. stop \in Completion(Own(c))
      <4>1. d.consumed \in Nat
        BY <2>1, DriverFields
      <4> HIDE DEF d
      <4>2. advance_private_cursor(from, d.consumed) \in Nat
        BY <1>4, <4>1, AdvanceNat
      <4> QED BY <1>4, <4>2, FramedStopTyped
    <3>2. /\ Decoded(d, chunk) \in Driver(Own(c))
          /\ Decoded(d, chunk).original = rd[c].original /\ Decoded(d, chunk).clocked = from + n
      BY <1>4, <2>1, DecodedTyped
    <3>3. Continues(c, Decoded(d, chunk)) \/ Completes(c, Decoded(d, chunk), stop)
      BY <1>10, <2>4 DEF HistoryNoMatch, InitialFramed
    <3> HIDE DEF d, stop, chunk
    <3>4. CASE Continues(c, Decoded(d, chunk))
      BY <1>7, <2>2, <3>2, <3>4, ContinuesDriven
    <3>5. CASE Completes(c, Decoded(d, chunk), stop)
      BY <1>7, <2>2, <3>1, <3>2, <3>5, CompletesDriven
    <3> QED BY <3>3, <3>4, <3>5
  <2> QED BY <2>3, <2>4
<1>11. CASE NoHistory(c, from, n)
  <2> DEFINE d == [rd[c] EXCEPT !.clocked = from]
  <2>1. d \in Driver(Own(c)) /\ d.original = rd[c].original /\ d.clocked = from
    BY <1>2, <1>4 DEF Driver
  <2> HIDE DEF d
  <2>2. Continues(c, d)
    BY <1>11 DEF NoHistory, d
  <2> QED BY <1>4, <1>11, <2>1, <2>2, ContinuesDriven DEF NoHistory
<1> QED BY <1>5, <1>8, <1>9, <1>10, <1>11

(* Where a call stands still, and the conditions of run_wait.              *)
LEMMA WaitDriven ==
  ASSUME Typed, DriversTyped, Started, NEW c \in Calls,
         \/ StopClosed(c) \/ StopTimeout(c) \/ StopSilence(c) \/ StopCancelled(c)
         \/ GoWait(c) \/ Poll(c) \/ CompleteRead(c)
  PROVE  Driven(c)
<1>1. rd[c] \in Driver(Own(c))
  BY DEF DriversTyped
<1>2. ASSUME pc[c] \in ReadPhase PROVE rd[c].clocked >= Floor(c)
  BY <1>2 DEF Started
<1>3. \A reason \in Reasons : Plain(reason, Consumed(c)) \in Completion(Own(c))
  <2>1. rd[c].original \in Nat /\ rd[c].consumed \in Nat
    BY <1>1, DriverFields
  <2>2. Consumed(c) \in Nat
    BY <2>1, AdvanceNat DEF Consumed
  <2> HIDE DEF Consumed
  <2> QED BY <2>2, CompletionTyped
<1>4. ASSUME NEW reason \in Reasons, pc[c] \in {"checking", "waiting"},
             Completes(c, rd[c], Plain(reason, Consumed(c))),
             UNCHANGED <<work, sent, os_input, ringv, read_cursor, link, pumpv, accounted>>
      PROVE  Driven(c)
  <2>1. rd[c].clocked >= Floor(c)
    BY <1>2, <1>4 DEF ReadPhase
  <2> HIDE DEF Consumed
  <2> QED BY <1>1, <1>3, <1>4, <2>1, CompletesDriven
<1>5. CASE StopClosed(c) \/ StopTimeout(c) \/ StopSilence(c) \/ StopCancelled(c)
  BY <1>4, <1>5 DEF StopClosed, StopTimeout, StopSilence, StopCancelled, CheckStops, Reasons
<1>6. CASE GoWait(c) \/ Poll(c)
  <2>1. rd = [rd EXCEPT ![c] = rd[c]]
    BY DEF DriversTyped
  <2>2. pc[c] \in ReadPhase
    BY <1>6 DEF GoWait, Poll, ReadPhase
  <2>3. \E l \in ReadPhase : pc' = [pc EXCEPT ![c] = l]
    BY <1>6 DEF GoWait, Poll, ReadPhase
  <2>4. UNCHANGED <<work, sent, os_input, ringv, read_cursor, link, pumpv, accounted>> /\ rd' = rd
    BY <1>6 DEF GoWait, Poll
  <2> QED BY <1>1, <1>2, <2>1, <2>2, <2>3, <2>4 DEF Driven
<1>7. CASE CompleteRead(c)
  <2> DEFINE outcome == into_outcome(rd[c], Request(c).max)
             d == [rd[c] EXCEPT !.outcome = outcome]
  <2>1. Request(c).max \in Nat
    BY RequestTyped DEF Requests
  <2>2. rd[c].original \in Nat /\ rd[c].consumed \in Nat
    BY <1>1, DriverFields
  <2>3. SliceFrom(rd[c].original) \in Nat
    BY <2>2, SliceFromNat
  <2>4. /\ SliceFrom(rd[c].original) + Smaller(rd[c].consumed, Request(c).max) \in Nat
        /\ Monus(ring_start, rd[c].original) \in Nat
    <3>1. ring_start \in Nat
      BY FloorNat DEF Typed
    <3> QED BY <2>1, <2>2, <2>3, <3>1 DEF Smaller, Monus
  <2>5. (IF rd[c].completion.override THEN rd[c].completion.payload ELSE rd[c].returned)
          \in Seq(Own(c))
    BY <1>1, DriverFields
  <2>6. outcome \in Outcome(Own(c))
    BY <2>3, <2>4, <2>5 DEF Outcome, into_outcome
  <2>7. d \in Driver(Own(c)) /\ d.original = rd[c].original /\ d.clocked = rd[c].clocked
    <3> HIDE DEF outcome
    <3> QED BY <1>1, <2>6 DEF Driver
  <2>8. rd' = [rd EXCEPT ![c] = d]
    BY <1>7 DEF CompleteRead
  <2>9. pc' = [pc EXCEPT ![c] = "storing"] /\ pc[c] \in ReadPhase /\ "storing" \in ReadPhase
    BY <1>7 DEF CompleteRead, ReadPhase
  <2>10. UNCHANGED <<work, sent, os_input, ringv, read_cursor, link, pumpv, accounted>>
    BY <1>7 DEF CompleteRead
  <2> HIDE DEF d
  <2> QED BY <1>2, <2>7, <2>8, <2>9, <2>10 DEF Driven
<1> QED BY <1>5, <1>6, <1>7

(* Data past the cursor.                                                   *)
LEMMA DataDriven ==
  ASSUME Typed, DriversTyped, Started, NEW c \in Calls, Data(c)
  PROVE  Driven(c)
<1> DEFINE room == Monus(Request(c).max, Len(rd[c].returned))
           from == SliceFrom(rd[c].clocked)
           n == SliceLen(rd[c].clocked, room)
           chunk == Offsets(from, n)
           d == AfterLive(c, from, n)
<1>1. Request(c).max \in Nat
  BY RequestTyped DEF Requests
<1>2. rd[c] \in Driver(Own(c)) /\ rd[c].clocked \in Nat /\ rd[c].undecoded \in Seq(Own(c))
  BY DriverFields DEF DriversTyped
<1>3. room \in Nat
  <2>1. Len(rd[c].returned) \in Nat
    BY <1>2, DriverFields, LenProperties
  <2> QED BY <1>1, <2>1 DEF Monus
<1>4. rd[c].clocked >= Floor(c)
  BY DEF Data, Started, ReadPhase
<1>5. /\ from \in Nat /\ n \in Nat /\ from >= Floor(c) /\ from + n <= end_offset
      /\ chunk \in Seq(Own(c)) /\ Len(chunk) = n /\ DOMAIN chunk = 1 .. n
      /\ \A i \in 1 .. n : chunk[i] = from + i - 1
  <2>1. from = SliceFrom(rd[c].clocked) /\ n = SliceLen(rd[c].clocked, room) /\ chunk = Offsets(from, n)
    OBVIOUS
  <2>2. rd[c].clocked \in Nat
    BY <1>2
  <2> HIDE DEF from, n, room, chunk, d
  <2> QED BY <1>3, <1>4, <2>1, <2>2, SliceOwn
<1>6. Spurious(c, from, n) \/ LiveRaw(c, from, n) \/ LiveFramed(c, from, n)
  BY DEF Data
<1> HIDE DEF from, n
<1>7. from + n >= Floor(c) /\ from + n \in Nat
  BY <1>5, FloorNat
<1>8. d \in Driver(Own(c)) /\ d.original = rd[c].original /\ d.clocked = from + n
      /\ d.consumed \in Nat /\ d.original \in Nat /\ d.returned \in Seq(Own(c))
  BY <1>1, <1>2, <1>5, AfterLiveTyped, DriverFields
<1>9. CASE Spurious(c, from, n)
  <2>1. rd = [rd EXCEPT ![c] = rd[c]]
    BY DEF DriversTyped
  <2>2. "checking" \in ReadPhase
    BY DEF ReadPhase
  <2> QED BY <1>2, <1>4, <1>9, <2>1, <2>2 DEF Spurious, Driven
<1>10. CASE LiveRaw(c, from, n)
  <2> DEFINE hits == At(chunk, "m")
             shaped == <<from + First(hits) - 1>>
             final == advance_private_cursor(from, n)
             payload == IF Request(c).match = "context" THEN shaped ELSE d.returned
  <2>1. final \in Nat
    BY <1>5, AdvanceNat
  <2>2. UNCHANGED <<work, sent, os_input, ringv, read_cursor, link, pumpv, accounted>>
    BY <1>10 DEF LiveRaw
  <2>3. \/ hits # {} /\ Completes(c, d, Matched(payload, final))
        \/ Completes(c, d, Plain("max_buffered_bytes", final))
        \/ Continues(c, d)
    BY <1>10 DEF LiveRaw
  <2>4. ASSUME hits # {} PROVE payload \in Seq(Own(c))
    <3>1. hits \in SUBSET Nat /\ hits \subseteq 1 .. n
      BY <1>5, EndsInDomain
    <3>2. First(hits) \in 1 .. n
      <4> HIDE DEF hits
      <4> QED BY <2>4, <3>1, FirstIn
    <3>3. chunk[First(hits)] \in Own(c) /\ chunk[First(hits)] = from + First(hits) - 1
      <4> HIDE DEF hits, chunk
      <4> QED BY <1>5, <3>2, ElementOfSeq
    <3>4. shaped \in Seq(Own(c))
      <4> HIDE DEF hits, chunk
      <4> QED BY <3>3
    <3> HIDE DEF shaped, d
    <3> QED BY <1>8, <3>4
  <2> HIDE DEF d, final, payload, hits
  <2>5. CASE hits # {} /\ Completes(c, d, Matched(payload, final))
    <3>1. Matched(payload, final) \in Completion(Own(c))
      BY <2>1, <2>4, <2>5, CompletionTyped
    <3> QED BY <1>7, <1>8, <2>2, <2>5, <3>1, CompletesDriven
  <2>6. CASE Completes(c, d, Plain("max_buffered_bytes", final))
    <3>1. Plain("max_buffered_bytes", final) \in Completion(Own(c))
      BY <2>1, CompletionTyped DEF Reasons
    <3> QED BY <1>7, <1>8, <2>2, <2>6, <3>1, CompletesDriven
  <2>7. CASE Continues(c, d)
    BY <1>7, <1>8, <2>2, <2>7, ContinuesDriven
  <2> QED BY <2>3, <2>5, <2>6, <2>7
<1>11. CASE LiveFramed(c, from, n)
  <2> DEFINE bytes == rd[c].undecoded \o chunk
             stop == FramedStop(c, d, bytes, advance_private_cursor(from, n))
             drained == Plain("drained", advance_private_cursor(d.original, d.consumed))
  <2>1. bytes \in Seq(Own(c))
    BY <1>2, <1>5, ConcatProperties
  <2>2. stop \in Completion(Own(c)) /\ drained \in Completion(Own(c))
    <3>1. advance_private_cursor(from, n) \in Nat
      BY <1>5, AdvanceNat
    <3> HIDE DEF d, bytes
    <3>2. advance_private_cursor(d.original, d.consumed) \in Nat
      BY <1>8, AdvanceNat
    <3> QED BY <2>1, <3>1, <3>2, FramedStopTyped, CompletionTyped DEF Reasons
  <2>3. UNCHANGED <<work, sent, os_input, ringv, read_cursor, link, pumpv, accounted>>
    BY <1>11 DEF LiveFramed
  <2>4. LiveFramedStep(c, d, bytes, stop)
    BY <1>11 DEF LiveFramed
  <2> HIDE DEF d, bytes, stop
  <2>5. \/ Completes(c, Decoded(d, bytes), stop)
        \/ Completes(c, Decoded(d, bytes), drained)
        \/ Continues(c, Decoded(d, bytes))
    BY <2>4 DEF LiveFramedStep
  <2>6. /\ Decoded(d, bytes) \in Driver(Own(c))
        /\ Decoded(d, bytes).original = rd[c].original /\ Decoded(d, bytes).clocked = from + n
    BY <1>8, <2>1, DecodedTyped
  <2> HIDE DEF drained
  <2>7. CASE Completes(c, Decoded(d, bytes), stop)
    BY <1>7, <2>2, <2>3, <2>6, <2>7, CompletesDriven
  <2>8. CASE Completes(c, Decoded(d, bytes), drained)
    BY <1>7, <2>2, <2>3, <2>6, <2>8, CompletesDriven
  <2>9. CASE Continues(c, Decoded(d, bytes))
    BY <1>7, <2>3, <2>6, <2>9, ContinuesDriven
  <2> QED BY <2>5, <2>7, <2>8, <2>9
<1> QED BY <1>6, <1>9, <1>10, <1>11

-----------------------------------------------------------------------------
(* The capture invariant is kept by every step.                            *)

LEMMA DriverMonotonic ==
  ASSUME NEW S, NEW T, S \subseteq T, NEW d \in Driver(S)
  PROVE  d \in Driver(T)
<1>1. /\ d.returned \in Seq(T) /\ d.undecoded \in Seq(T)
      /\ d.completion.payload \in Seq(T) /\ d.outcome.bytes \in Seq(T)
  BY DriverFields, SeqMonotonic
<1>2. d.completion \in Completion(T)
  BY <1>1 DEF Driver, Completion
<1>3. d.outcome \in Outcome(T)
  BY <1>1 DEF Driver, Outcome
<1> QED BY <1>1, <1>2, <1>3 DEF Driver

LEMMA NewDriverTyped ==
  ASSUME NEW S, NEW a \in Nat, NEW b \in Nat
  PROVE  NewDriver(a, b) \in Driver(S) /\ NewDriver(a, b).original = a /\ NewDriver(a, b).clocked = b
<1>1. NoCompletion \in Completion(S)
  BY CompletionTyped
<1>2. NoOutcome \in Outcome(S)
  BY EmptySeq DEF NoOutcome, Outcome
<1>3. <<>> \in Seq(S)
  BY EmptySeq
<1> QED BY <1>1, <1>2, <1>3 DEF NewDriver, Driver

(* Nothing that the drivers depend on changes.                             *)
LEMMA OwnUnchanged ==
  ASSUME UNCHANGED <<work, stream, mark>>
  PROVE  \A c : /\ Request(c)' = Request(c) /\ Boot(c)' = Boot(c) /\ Resets(c)' = Resets(c)
                /\ Floor(c)' = Floor(c) /\ Own(c)' = Own(c)
                /\ end_offset' = end_offset
BY DEF Request, Boot, Resets, Floor, Own, end_offset

(* A call gets a new driver.                                               *)
LEMMA DriverKeeps ==
  ASSUME CaptureInvariant, NEW c \in Calls, pc[c] \notin {"purge", "mark", "assert"},
         NEW d \in Driver(Own(c)), d.original >= Floor(c), d.clocked >= Floor(c),
         Request(c).tool \in {"read", "transact", "capture_boot"},
         NEW l \in ReadPhase, rd' = [rd EXCEPT ![c] = d], pc' = [pc EXCEPT ![c] = l],
         UNCHANGED <<work, sent, os_input, stream, ring_start, pump_buf, pump_gate, mark, purged>>,
         read_cursor' \in Nat
  PROVE  CaptureInvariant'
<1> USE DEF CaptureInvariant
<1>1. \A k : /\ Request(k)' = Request(k) /\ Boot(k)' = Boot(k)
             /\ Floor(k)' = Floor(k) /\ Own(k)' = Own(k) /\ end_offset' = end_offset
  BY OwnUnchanged
<1>2. /\ pc \in [Calls -> Labels] /\ l \in Labels
      /\ rd'[c] = d /\ pc'[c] = l
      /\ \A k \in Calls : k # c => rd'[k] = rd[k] /\ pc'[k] = pc[k]
  BY DEF Typed, DriversTyped, Labels
<1>3. Typed'
  <2>1. pc' \in [Calls -> Labels]
    BY <1>2
  <2> QED BY <1>1, <2>1 DEF Typed
<1>4. DriversTyped'
  <2>1. rd' = [k \in Calls |-> rd'[k]]
    BY DEF DriversTyped
  <2>2. \A k \in Calls : rd'[k] \in Driver(Own(k))
    BY <1>2 DEF DriversTyped
  <2> QED BY <1>1, <2>1, <2>2 DEF DriversTyped
<1>5. Started'
  <2>1. ASSUME NEW k \in Calls, k # c
        PROVE  /\ pc'[k] \in BootPhase => Boot(k)
               /\ pc'[k] = "written" => Request(k).tool = "transact"
               /\ pc'[k] \in {"idle"} \cup BootPhase => rd'[k] = NewDriver(0, 0)
               /\ pc'[k] \in ReadPhase => /\ Request(k).tool \in {"read", "transact", "capture_boot"}
                                          /\ rd'[k].original >= Floor(k) /\ rd'[k].clocked >= Floor(k)
    BY <1>2, <2>1 DEF Started
  <2>2. pc'[c] \notin {"idle", "written"} \cup BootPhase
    BY <1>2 DEF ReadPhase, BootPhase
  <2>3. NewDriver(0, 0)' = NewDriver(0, 0)
    BY DEF NewDriver, NoCompletion, NoOutcome
  <2> QED BY <1>1, <1>2, <2>1, <2>2, <2>3 DEF Started
<1>6. Gated'
  BY <1>2 DEF Gated, ReadPhase
<1>7. Fresh'
  BY <1>2 DEF Fresh, ReadPhase
<1> QED BY <1>3, <1>4, <1>5, <1>6, <1>7

LEMMA DrivenKeeps ==
  ASSUME CaptureInvariant, NEW c \in Calls, Driven(c), pc[c] \in ReadPhase, UNCHANGED <<mark, purged>>
  PROVE  CaptureInvariant'
<1>1. UNCHANGED <<work, sent, os_input, stream, ring_start, read_cursor, pump_buf, pump_gate>>
  BY DEF Driven, ringv, pumpv
<1>2. PICK d \in Driver(Own(c)), l \in ReadPhase :
        /\ d.original = rd[c].original /\ d.clocked >= Floor(c)
        /\ rd' = [rd EXCEPT ![c] = d]
        /\ pc' = [pc EXCEPT ![c] = l]
  BY DEF Driven
<1>3. /\ pc[c] \notin {"purge", "mark", "assert"}
      /\ rd[c].original >= Floor(c)
      /\ Request(c).tool \in {"read", "transact", "capture_boot"}
      /\ read_cursor \in Nat
  BY DEF CaptureInvariant, Started, Typed, ReadPhase
<1> QED BY <1>1, <1>2, <1>3, DriverKeeps

(* A step that leaves the drivers, the ring and the marks alone, and moves *)
(* a call at most from one place outside its read to another.              *)
LEMMA AsideKeeps ==
  ASSUME CaptureInvariant, NEW c \in Calls, NEW l \in Labels \ ({"idle"} \cup ReadPhase),
         pc' = [pc EXCEPT ![c] = l], l \in {"purge", "mark", "assert"} => pump_gate' = {c} /\ pump_buf' = <<>>,
         l \in BootPhase => Boot(c) /\ pc[c] \in {"idle"} \cup BootPhase,
         l = "written" => Request(c).tool = "transact",
         \A k \in Calls : k # c /\ pc[k] \in {"purge", "mark", "assert"} => pump_gate' = pump_gate,
         UNCHANGED <<work, sent, stream, rd, mark, pump_buf>>,
         ring_start' \in 0 .. end_offset, read_cursor' \in Nat,
         \/ purged' = purged /\ (os_input' = os_input \/ os_input' = <<>>) /\ (pc[c] # "mark" \/ l = "mark")
         \/ purged' = [purged EXCEPT ![c] = sent] /\ os_input' = <<>> /\ l = "mark" /\ pump_buf = <<>>
  PROVE  CaptureInvariant'
<1> USE DEF CaptureInvariant
<1>1. \A k : /\ Request(k)' = Request(k) /\ Boot(k)' = Boot(k)
             /\ Floor(k)' = Floor(k) /\ Own(k)' = Own(k) /\ end_offset' = end_offset
  BY OwnUnchanged
<1>2. /\ pc \in [Calls -> Labels] /\ pc' \in [Calls -> Labels] /\ pc'[c] = l
      /\ \A k \in Calls : k # c => pc'[k] = pc[k]
  BY DEF Typed
<1>3. sent \in Nat /\ purged \in [Calls -> Nat] /\ purged' \in [Calls -> Nat]
      /\ \A k \in Calls : k # c => purged'[k] = purged[k]
  BY DEF Typed
<1>4. Typed'
  <2>1. os_input' \in Seq(Bytes)
    BY EmptySeq DEF Typed
  <2> QED BY <1>1, <1>2, <1>3, <2>1 DEF Typed
<1>5. DriversTyped'
  BY <1>1 DEF DriversTyped
<1>6. Started'
  <2>1. NewDriver(0, 0)' = NewDriver(0, 0)
    BY DEF NewDriver, NoCompletion, NoOutcome
  <2> QED BY <1>1, <1>2, <2>1 DEF Started
<1>7. Gated'
  BY <1>2 DEF Gated
<1>8. Fresh'
  <2>1. CASE purged' = purged /\ (os_input' = os_input \/ os_input' = <<>>) /\ (pc[c] # "mark" \/ l = "mark")
    BY <1>2, <2>1 DEF Fresh
  <2>2. CASE purged' = [purged EXCEPT ![c] = sent] /\ os_input' = <<>> /\ l = "mark" /\ pump_buf = <<>>
    <3>1. purged'[c] = sent
      BY <1>3, <2>2
    <3> QED BY <1>2, <1>3, <2>2, <3>1 DEF Fresh
  <2> QED BY <2>1, <2>2
<1> QED BY <1>4, <1>5, <1>6, <1>7, <1>8

(* The device, the pump and the link.                                      *)
LEMMA EnvironmentKeeps ==
  ASSUME CaptureInvariant, UNCHANGED <<mark, purged>>,
         \/ Emit \/ Drop \/ Reconnect \/ Close \/ PumpAppend
         \/ \E n \in 1 .. Len(os_input) : PumpRead(n)
  PROVE  CaptureInvariant'
<1> USE DEF CaptureInvariant, ringv, link, pumpv, timers
<1>1. UNCHANGED <<work, mark, purged, read_cursor, rd, pc, pump_gate>>
  BY DEF Emit, Drop, Reconnect, Close, PumpAppend, PumpRead
<1>2. \A k : Request(k)' = Request(k) /\ Boot(k)' = Boot(k) /\ Floor(k)' = Floor(k)
  BY <1>1 DEF Request, Boot, Floor
<1>3. Started'
  <2>1. NewDriver(0, 0)' = NewDriver(0, 0)
    BY DEF NewDriver, NoCompletion, NoOutcome
  <2> QED BY <1>1, <1>2, <2>1 DEF Started
<1>4. CASE UNCHANGED <<stream, ring_start>> /\ ~ PumpAppend
  <2>1. DriversTyped'
    BY <1>1, <1>2, <1>4 DEF DriversTyped, Own, end_offset
  <2>2. CASE Emit
    <3> DEFINE new == [kind |-> work.script[sent + 1], nth |-> sent + 1]
    <3>1. sent \in Nat /\ sent' = sent + 1 /\ sent + 1 \in 1 .. Len(work.script)
          /\ os_input' = Append(os_input, new) /\ pump_buf' = pump_buf
          /\ work.script \in Seq(Kinds)
      BY <2>2, ReadAssumption DEF Emit, Typed
    <3>2. new \in Bytes /\ new.nth = sent + 1
      <4>1. work.script[sent + 1] \in Kinds
        BY <3>1, ElementOfSeq
      <4> QED BY <3>1, <4>1 DEF Bytes
    <3> HIDE DEF new
    <3>3. os_input \in Seq(Bytes)
      BY DEF Typed
    <3>4. /\ os_input' \in Seq(Bytes)
          /\ DOMAIN os_input' = 1 .. (Len(os_input) + 1) /\ DOMAIN os_input = 1 .. Len(os_input)
          /\ Len(os_input) \in Nat
          /\ \A i \in 1 .. Len(os_input) : os_input'[i] = os_input[i]
          /\ os_input'[Len(os_input) + 1] = new
      BY <3>1, <3>2, <3>3, AppendProperties, LenProperties
    <3>5. Typed'
      BY <1>1, <1>4, <3>1, <3>4 DEF Typed, end_offset
    <3>6. Gated'
      BY <1>1, <3>1 DEF Gated
    <3>7. Fresh'
      <4>1. ASSUME NEW c \in Calls
            PROVE  purged[c] \in Nat /\ purged[c] <= sent /\ new.nth > purged[c]
        BY <3>1, <3>2 DEF Fresh, Typed
      <4> QED BY <1>1, <1>4, <3>1, <3>4, <4>1 DEF Fresh, Typed
    <3> QED BY <1>3, <2>1, <3>5, <3>6, <3>7
  <2>3. CASE Drop \/ Reconnect \/ Close
    <3>1. UNCHANGED <<sent, pump_buf>> /\ (os_input' = os_input \/ os_input' = <<>>)
      BY <2>3 DEF Drop, Reconnect, Close
    <3>2. os_input' \in Seq(Bytes)
      BY <3>1, EmptySeq DEF Typed
    <3>3. Typed'
      BY <1>1, <1>4, <3>1, <3>2 DEF Typed, end_offset
    <3>4. Gated' /\ Fresh'
      BY <1>1, <1>4, <3>1 DEF Gated, Fresh
    <3> QED BY <1>3, <2>1, <3>3, <3>4
  <2>4. CASE \E n \in 1 .. Len(os_input) : PumpRead(n)
    <3>1. PICK n \in 1 .. Len(os_input) : PumpRead(n)
      BY <2>4
    <3>2. os_input \in Seq(Bytes) /\ Len(os_input) \in Nat /\ DOMAIN os_input = 1 .. Len(os_input)
      BY LenProperties DEF Typed
    <3>3. /\ \A i \in 1 .. n : os_input[i] \in Bytes
          /\ \A i \in (n + 1) .. Len(os_input) : os_input[i] \in Bytes
      BY <3>2, ElementOfSeq
    <3>4. /\ pump_buf' \in Seq(Bytes) /\ Len(pump_buf') = n
          /\ \A i \in 1 .. n : pump_buf'[i] = os_input[i]
      <4>1. pump_buf' = SubSeq(os_input, 1, n)
        BY <3>1 DEF PumpRead
      <4>2. \A i \in 1 .. n - 1 + 1 : SubSeq(os_input, 1, n)[i] = os_input[1 + i - 1]
        BY <3>3, SubSeqProperties
      <4> QED BY <3>3, <4>1, <4>2, SubSeqProperties
    <3>5. /\ os_input' \in Seq(Bytes) /\ Len(os_input') = Len(os_input) - n
          /\ \A i \in 1 .. (Len(os_input) - n) : os_input'[i] = os_input[n + i]
      <4>1. os_input' = SubSeq(os_input, n + 1, Len(os_input))
        BY <3>1 DEF PumpRead
      <4>2. \A i \in 1 .. Len(os_input) - (n + 1) + 1 :
              SubSeq(os_input, n + 1, Len(os_input))[i] = os_input[(n + 1) + i - 1]
        BY <3>2, <3>3, SubSeqProperties
      <4> QED BY <3>2, <3>3, <4>1, <4>2, SubSeqProperties
    <3>6. DOMAIN pump_buf' = 1 .. n /\ DOMAIN os_input' = 1 .. (Len(os_input) - n)
      BY <3>4, <3>5, LenProperties
    <3>7. sent' = sent /\ pump_gate = {}
      BY <3>1 DEF PumpRead
    <3>8. Typed'
      BY <1>1, <1>4, <3>4, <3>5, <3>7 DEF Typed, end_offset
    <3>9. Gated'
      BY <1>1, <3>7 DEF Gated
    <3>10. Fresh'
      <4>1. ASSUME NEW c \in Calls
            PROVE  /\ \A i \in DOMAIN os_input' : os_input'[i].nth > purged[c]
                   /\ \A i \in DOMAIN pump_buf' : pump_buf'[i].nth > purged[c]
        <5>1. \A i \in 1 .. Len(os_input) : os_input[i].nth > purged[c]
          BY <3>2 DEF Fresh
        <5>2. ASSUME NEW i \in DOMAIN os_input' PROVE os_input'[i].nth > purged[c]
          <6>1. n + i \in 1 .. Len(os_input) /\ os_input'[i] = os_input[n + i]
            BY <3>2, <3>5, <3>6
          <6> QED BY <5>1, <6>1
        <5>3. ASSUME NEW i \in DOMAIN pump_buf' PROVE pump_buf'[i].nth > purged[c]
          <6>1. i \in 1 .. Len(os_input) /\ pump_buf'[i] = os_input[i]
            BY <3>2, <3>4, <3>6
          <6> QED BY <5>1, <6>1
        <5> QED BY <5>2, <5>3
      <4> QED BY <1>1, <1>4, <3>7, <4>1 DEF Fresh
    <3> QED BY <1>3, <2>1, <3>8, <3>9, <3>10
  <2> QED BY <1>4, <2>2, <2>3, <2>4
<1>5. CASE PumpAppend
  <2>1. /\ pump_buf # <<>> /\ stream' = stream \o pump_buf /\ pump_buf' = <<>>
        /\ ring_start' = Larger(ring_start, Monus(Len(stream'), Capacity))
        /\ UNCHANGED <<sent, os_input>>
    BY <1>5 DEF PumpAppend
  <2>2. stream \in Seq(Bytes) /\ pump_buf \in Seq(Bytes)
    BY DEF Typed
  <2>3. /\ stream' \in Seq(Bytes) /\ Len(stream') = Len(stream) + Len(pump_buf)
        /\ Len(stream) \in Nat /\ Len(pump_buf) \in Nat
        /\ DOMAIN stream = 1 .. Len(stream) /\ DOMAIN pump_buf = 1 .. Len(pump_buf)
        /\ DOMAIN stream' = 1 .. Len(stream')
    BY <2>1, <2>2, ConcatProperties, LenProperties
  <2>4. \A i \in 1 .. Len(stream') : stream'[i] = IF i <= Len(stream) THEN stream[i]
                                                  ELSE pump_buf[i - Len(stream)]
    BY <2>1, <2>2, <2>3, ConcatProperties
  <2>5. ring_start' \in 0 .. Len(stream')
    BY <2>1, <2>3, ReadAssumption DEF Typed, Larger, Monus, end_offset
  <2>6. Typed'
    <3>1. pump_buf' \in Seq(Bytes)
      BY <2>1, EmptySeq
    <3>2. \A c \in Calls : mark[c] <= Len(stream')
      BY <2>3 DEF Typed, end_offset
    <3> QED BY <1>1, <2>1, <2>3, <2>5, <3>1, <3>2 DEF Typed, end_offset
  <2>7. DriversTyped'
    <3>1. ASSUME NEW c \in Calls PROVE Own(c) \subseteq Own(c)'
      <4>1. Floor(c) \in Nat
        BY FloorNat
      <4> QED BY <1>2, <2>3, <4>1 DEF Own, end_offset
    <3>2. ASSUME NEW c \in Calls PROVE rd[c] \in Driver(Own(c)')
      BY <3>1, DriverMonotonic DEF DriversTyped
    <3>3. \A c \in Calls : Driver(Own(c)') = Driver(Own(c))'
      BY DEF Driver, Completion, Outcome, Reasons
    <3> QED BY <1>1, <3>2, <3>3 DEF DriversTyped
  <2>8. Gated'
    BY <1>1, <2>1 DEF Gated
  <2>9. Fresh'
    <3>1. ASSUME NEW c \in Calls, pc[c] # "mark", NEW i \in DOMAIN stream', i > mark[c]
          PROVE  stream'[i].nth > purged[c]
      <4>1. CASE i <= Len(stream)
        BY <2>3, <2>4, <3>1, <4>1 DEF Fresh
      <4>2. CASE i > Len(stream)
        <5>1. i - Len(stream) \in DOMAIN pump_buf /\ stream'[i] = pump_buf[i - Len(stream)]
          BY <2>3, <2>4, <4>2
        <5> QED BY <5>1 DEF Fresh
      <4> QED BY <2>3, <4>1, <4>2
    <3> QED BY <1>1, <2>1, <3>1 DEF Fresh
  <2> QED BY <1>3, <2>6, <2>7, <2>8, <2>9
<1> QED BY <1>4, <1>5 DEF Emit, Drop, Reconnect, Close, PumpRead

LEMMA InitialCursorNat ==
  ASSUME Typed, NEW c \in Calls
  PROVE  InitialCursor(Request(c).from, Request(c).offset) \in Nat
<1>1. Request(c).from \in {"cursor", "now", "buffer_start", "offset"} /\ Request(c).offset \in Nat
  BY RequestTyped DEF Requests
<1>2. end_offset \in Nat /\ read_cursor \in Nat /\ ring_start \in Nat
  BY FloorNat DEF Typed
<1> QED BY <1>1, <1>2 DEF InitialCursor

(* The steps of a call around its read.                                    *)
LEMMA ReadStepKeeps ==
  ASSUME CaptureInvariant, NEW c \in Calls, ReadStep(c) \/ Poll(c), UNCHANGED <<mark, purged>>
  PROVE  CaptureInvariant'
<1> USE DEF ringv, pumpv
<1>1. Typed /\ DriversTyped /\ Started
  BY DEF CaptureInvariant
<1>2. /\ end_offset \in Nat /\ read_cursor \in Nat /\ ring_start \in 0 .. end_offset
      /\ end_offset \in 0 .. end_offset
  BY <1>1, FloorNat DEF Typed
<1>3. CASE Begin(c) \/ Data(c) \/ StopClosed(c) \/ StopTimeout(c) \/ StopSilence(c) \/ StopCancelled(c)
           \/ GoWait(c) \/ Poll(c) \/ CompleteRead(c)
  <2>1. Driven(c)
    BY <1>1, <1>3, BeginDriven, DataDriven, WaitDriven
  <2>2. pc[c] \in ReadPhase
    BY <1>3 DEF Begin, Data, StopClosed, StopTimeout, StopSilence, StopCancelled, CheckStops,
                GoWait, Poll, CompleteRead, ReadPhase
  <2> QED BY <2>1, <2>2, DrivenKeeps
<1>4. CASE ResolveFrom(c)
  <2> DEFINE x == InitialCursor(Request(c).from, Request(c).offset)
  <2>1. x \in Nat
    BY <1>1, InitialCursorNat
  <2> HIDE DEF x
  <2>2. /\ read_cursor' = x /\ rd' = [rd EXCEPT ![c] = NewDriver(x, x)]
        /\ pc' = [pc EXCEPT ![c] = "resolved"]
        /\ UNCHANGED <<work, sent, os_input, stream, ring_start, pump_buf, pump_gate>>
    BY <1>4 DEF ResolveFrom, x
  <2>3. Request(c).tool \in {"read", "transact"} /\ pc[c] \notin {"purge", "mark", "assert"}
    BY <1>1, <1>4 DEF ResolveFrom, Started
  <2>4. Floor(c) = 0
    BY <2>3 DEF Floor, Boot
  <2>5. /\ NewDriver(x, x) \in Driver(Own(c)) /\ NewDriver(x, x).original = x
        /\ NewDriver(x, x).clocked = x
    BY <2>1, NewDriverTyped
  <2>6. "resolved" \in ReadPhase /\ x >= 0
    BY <2>1 DEF ReadPhase
  <2>7. NewDriver(x, x).original >= Floor(c) /\ NewDriver(x, x).clocked >= Floor(c)
    BY <2>4, <2>5, <2>6
  <2> QED BY <2>1, <2>2, <2>3, <2>5, <2>6, <2>7, DriverKeeps
<1>5. CASE TransactWrite(c) \/ Refuse(c) \/ RefuseWritten(c) \/ FlushOs(c) \/ FlushRing(c)
           \/ FlushCursor(c) \/ StoreCursor(c)
  <2>1. PICK l \in {"written", "failed", "flushed", "cleared", "done"} : pc' = [pc EXCEPT ![c] = l]
    BY <1>5 DEF TransactWrite, Refuse, RefuseWritten, FlushOs, FlushRing, FlushCursor, StoreCursor
  <2>2. l \in Labels \ ({"idle"} \cup ReadPhase) /\ l \notin BootPhase
    BY <2>1 DEF Labels, ReadPhase, BootPhase
  <2>3. UNCHANGED <<work, sent, stream, rd, pump_buf, pump_gate>> /\ pc[c] # "mark"
    BY <1>5 DEF TransactWrite, Refuse, RefuseWritten, FlushOs, FlushRing, FlushCursor, StoreCursor
  <2>4. ring_start' \in 0 .. end_offset
    BY <1>2, <1>5
       DEF TransactWrite, Refuse, RefuseWritten, FlushOs, FlushRing, FlushCursor, StoreCursor
  <2>5. read_cursor' \in Nat
    <3>1. InitialCursor(Request(c).from, Request(c).offset) \in Nat
      BY <1>1, InitialCursorNat
    <3>2. rd[c].completion.final \in Nat
      BY <1>1, DriverFields DEF DriversTyped
    <3> QED BY <1>2, <1>5, <3>1, <3>2
         DEF TransactWrite, Refuse, RefuseWritten, FlushOs, FlushRing, FlushCursor, StoreCursor
  <2>6. os_input' = os_input \/ os_input' = <<>>
    BY <1>5 DEF TransactWrite, Refuse, RefuseWritten, FlushOs, FlushRing, FlushCursor, StoreCursor
  <2>7. l = "written" => Request(c).tool = "transact"
    <3>1. ASSUME l = "written" PROVE pc'[c] = "written"
      BY <1>1, <2>1, <3>1 DEF Typed
    <3>2. TransactWrite(c) \/ (l # "written" /\ ~ TransactWrite(c))
      BY <1>1, <1>5, <3>1, <2>1 DEF TransactWrite, Refuse, RefuseWritten, FlushOs, FlushRing,
         FlushCursor, StoreCursor, Typed
    <3> QED BY <3>2 DEF TransactWrite
  <2> QED BY <2>1, <2>2, <2>3, <2>4, <2>5, <2>6, <2>7, AsideKeeps DEF BootPhase
<1> QED BY <1>3, <1>4, <1>5 DEF ReadStep

LEMMA StillKeeps ==
  ASSUME CaptureInvariant, UNCHANGED <<work, sent, os_input, pump_buf, stream, ring_start,
                                       read_cursor, pump_gate, pc, rd, mark, purged>>
  PROVE  CaptureInvariant'
<1> USE DEF CaptureInvariant
<1>1. \A k : /\ Request(k)' = Request(k) /\ Boot(k)' = Boot(k)
             /\ Floor(k)' = Floor(k) /\ Own(k)' = Own(k) /\ end_offset' = end_offset
  BY OwnUnchanged
<1>2. Typed' /\ DriversTyped'
  BY <1>1 DEF Typed, DriversTyped
<1>3. Started'
  <2>1. NewDriver(0, 0)' = NewDriver(0, 0)
    BY DEF NewDriver, NoCompletion, NoOutcome
  <2> QED BY <1>1, <2>1 DEF Started
<1>4. Gated' /\ Fresh'
  BY DEF Gated, Fresh
<1> QED BY <1>2, <1>3, <1>4

(* The steps of capture_boot and of the other control-line tools.          *)
LEMMA LineStepKeeps ==
  ASSUME CaptureInvariant, NEW c \in Calls, LineStep(c)
  PROVE  CaptureInvariant'
<1> USE DEF ringv, pumpv, timers, rest, lvars, At_
<1>1. Typed /\ DriversTyped /\ Started /\ Gated
  BY DEF CaptureInvariant
<1>2. read_cursor \in Nat /\ ring_start \in 0 .. end_offset
  BY <1>1 DEF Typed
<1>3. CASE BootLock(c) \/ BootRelease(c) \/ BootDone(c) \/ SetDtrRts(c) \/ BreakAssert(c) \/ BreakRelease(c)
  <2>1. PICK l \in {"gate", "settle", "failed", "done", "breaking"} : pc' = [pc EXCEPT ![c] = l]
    BY <1>3 DEF BootLock, BootRelease, release_reset_lines, BootDone, SetDtrRts, BreakAssert, BreakRelease
  <2>2. l \in Labels \ ({"idle"} \cup ReadPhase)
    BY <2>1 DEF Labels, ReadPhase, BootPhase
  <2>3. pc[c] \in {"idle", "hold", "storing", "breaking"}
    BY <1>3 DEF BootLock, BootRelease, release_reset_lines, BootDone, SetDtrRts, BreakAssert, BreakRelease
  <2>4. l \in BootPhase => Boot(c) /\ pc[c] \in {"idle"} \cup BootPhase
    <3>1. CASE BootLock(c) \/ BootRelease(c)
      BY <1>1, <3>1 DEF BootLock, BootRelease, release_reset_lines, Started, BootPhase
    <3>2. CASE BootDone(c) \/ SetDtrRts(c) \/ BreakAssert(c) \/ BreakRelease(c)
      <4>1. pc'[c] \in {"done", "failed", "breaking"}
        BY <1>1, <3>2 DEF BootDone, SetDtrRts, BreakAssert, BreakRelease, Typed
      <4>2. pc'[c] = l
        BY <1>1, <2>1 DEF Typed
      <4> QED BY <4>1, <4>2 DEF BootPhase
    <3> QED BY <1>3, <3>1, <3>2
  <2>5. UNCHANGED <<work, sent, os_input, stream, ring_start, read_cursor, rd, pump_buf, pump_gate, mark, purged>>
    BY <1>3 DEF BootLock, BootRelease, BootDone, SetDtrRts, BreakAssert, BreakRelease
  <2> QED BY <1>2, <2>1, <2>2, <2>3, <2>4, <2>5, AsideKeeps
<1>4. CASE BootGate(c)
  <2>1. /\ pump_gate = {} /\ pump_buf = <<>> /\ pump_gate' = {c}
        /\ pc[c] = "gate" /\ pc' = [pc EXCEPT ![c] = "purge"]
        /\ UNCHANGED <<work, sent, os_input, stream, ring_start, read_cursor, rd, pump_buf, mark, purged>>
    BY <1>4 DEF BootGate
  <2>2. "purge" \in Labels \ ({"idle"} \cup ReadPhase) /\ Boot(c) /\ pc[c] \in BootPhase
    BY <1>1, <2>1 DEF Labels, ReadPhase, BootPhase, Started
  <2>3. \A k \in Calls : pc[k] \notin {"purge", "mark", "assert"}
    BY <1>1, <2>1 DEF Gated
  <2> QED BY <1>2, <2>1, <2>2, <2>3, AsideKeeps
<1>5. CASE BootPurge(c)
  <2>1. /\ pc[c] = "purge" /\ pump_gate = {c} /\ pump_buf = <<>>
        /\ UNCHANGED <<work, sent, stream, ring_start, read_cursor, rd, pump_buf, mark>>
    BY <1>1, <1>5 DEF BootPurge, Gated
  <2>2. \A k \in Calls : k # c => pc[k] \notin {"purge", "mark", "assert"}
    BY <1>1, <2>1 DEF Gated
  <2>3. CASE /\ os_input' = <<>> /\ purged' = [purged EXCEPT ![c] = sent]
             /\ pc' = [pc EXCEPT ![c] = "mark"] /\ UNCHANGED pump_gate
    <3>1. "mark" \in Labels \ ({"idle"} \cup ReadPhase) /\ Boot(c) /\ pc[c] \in BootPhase
      BY <1>1, <2>1 DEF Labels, ReadPhase, BootPhase, Started
    <3> QED BY <1>2, <2>1, <2>2, <2>3, <3>1, AsideKeeps
  <2>4. CASE pc' = [pc EXCEPT ![c] = "failed"] /\ UNCHANGED <<os_input, purged>>
    <3>1. "failed" \in Labels \ ({"idle"} \cup ReadPhase) /\ "failed" \notin BootPhase
      BY DEF Labels, ReadPhase, BootPhase
    <3> QED BY <1>2, <2>1, <2>2, <2>4, <3>1, AsideKeeps
  <2> QED BY <1>5, <2>3, <2>4 DEF BootPurge
<1>6. CASE BootAssert(c)
  <2>1. /\ pc[c] = "assert" /\ pump_gate = {c} /\ pump_buf = <<>>
        /\ UNCHANGED <<work, sent, os_input, stream, ring_start, read_cursor, rd, pump_buf, mark, purged>>
    BY <1>1, <1>6 DEF BootAssert, Gated
  <2>2. \A k \in Calls : k # c => pc[k] \notin {"purge", "mark", "assert"}
    BY <1>1, <2>1 DEF Gated
  <2>3. PICK l \in {"hold", "failed", "settle"} : pc' = [pc EXCEPT ![c] = l]
    BY <1>6 DEF BootAssert
  <2>4. l \in Labels \ ({"idle"} \cup ReadPhase) /\ Boot(c) /\ pc[c] \in BootPhase
    BY <1>1, <2>1, <2>3 DEF Labels, ReadPhase, BootPhase, Started
  <2> QED BY <1>2, <2>1, <2>2, <2>3, <2>4, AsideKeeps
<1>7. CASE BootSettle(c)
  <2>1. /\ pc[c] = "settle" /\ pc' = [pc EXCEPT ![c] = "resolved"]
        /\ rd' = [rd EXCEPT ![c] = NewDriver(mark[c], mark[c])]
        /\ UNCHANGED <<work, sent, os_input, stream, ring_start, read_cursor, pump_buf, pump_gate, mark, purged>>
    BY <1>7 DEF BootSettle
  <2>2. mark[c] \in Nat
    BY <1>1 DEF Typed
  <2>3. Boot(c) /\ "resolved" \in ReadPhase
    BY <1>1, <2>1 DEF Started, BootPhase, ReadPhase
  <2>4. Floor(c) = mark[c] /\ Request(c).tool = "capture_boot"
    BY <2>3 DEF Floor, Boot
  <2>5. /\ NewDriver(mark[c], mark[c]) \in Driver(Own(c))
        /\ NewDriver(mark[c], mark[c]).original = mark[c] /\ NewDriver(mark[c], mark[c]).clocked = mark[c]
    BY <2>2, NewDriverTyped
  <2>6. mark[c] >= mark[c]
    BY <2>2
  <2>7. NewDriver(mark[c], mark[c]).original >= Floor(c) /\ NewDriver(mark[c], mark[c]).clocked >= Floor(c)
    BY <2>4, <2>5, <2>6
  <2> QED BY <1>2, <2>1, <2>3, <2>4, <2>5, <2>7, DriverKeeps
<1>8. CASE BootMark(c)
  <2> USE DEF CaptureInvariant
  <2>1. /\ pc[c] = "mark" /\ pc' = [pc EXCEPT ![c] = "assert"]
        /\ mark' = [mark EXCEPT ![c] = end_offset]
        /\ UNCHANGED <<work, sent, os_input, stream, ring_start, read_cursor, rd, pump_buf, pump_gate, purged>>
    BY <1>8 DEF BootMark
  <2>2. /\ end_offset \in Nat /\ pc \in [Calls -> Labels] /\ mark \in [Calls -> Nat]
        /\ "assert" \in Labels
    BY FloorNat DEF Typed, Labels, BootPhase
  <2>3. /\ pc' \in [Calls -> Labels] /\ pc'[c] = "assert" /\ mark' \in [Calls -> Nat] /\ mark'[c] = end_offset
        /\ \A k \in Calls : k # c => pc'[k] = pc[k] /\ mark'[k] = mark[k]
    BY <2>1, <2>2
  <2>4. \A k : Request(k)' = Request(k) /\ Boot(k)' = Boot(k) /\ end_offset' = end_offset
    BY <2>1 DEF Request, Boot, end_offset
  <2>5. \A k \in Calls : k # c => Floor(k)' = Floor(k) /\ Own(k)' = Own(k)
    BY <2>3, <2>4 DEF Floor, Own
  <2>6. Typed'
    <3>1. \A k \in Calls : mark[k] <= end_offset
      BY DEF Typed
    <3>2. end_offset <= end_offset
      BY <2>2
    <3>3. \A k \in Calls : mark'[k] <= end_offset
      BY <2>3, <3>1, <3>2
    <3> QED BY <2>1, <2>3, <2>4, <3>3 DEF Typed
  <2>7. rd[c] = NewDriver(0, 0) /\ Boot(c)
    BY <2>1 DEF Started, BootPhase
  <2>8. DriversTyped'
    <3>1. rd[c] \in Driver(Own(c)')
      BY <2>7, NewDriverTyped
    <3>2. \A k \in Calls : k # c => rd[k] \in Driver(Own(k)')
      BY <2>5 DEF DriversTyped
    <3>3. \A k \in Calls : Driver(Own(k)') = Driver(Own(k))'
      BY DEF Driver, Completion, Outcome, Reasons
    <3> QED BY <2>1, <3>1, <3>2, <3>3 DEF DriversTyped
  <2>9. Started'
    <3>1. NewDriver(0, 0)' = NewDriver(0, 0)
      BY DEF NewDriver, NoCompletion, NoOutcome
    <3>2. pc'[c] \notin ReadPhase \cup {"written"}
      BY <2>3 DEF ReadPhase
    <3> QED BY <2>1, <2>3, <2>4, <2>5, <2>7, <3>1, <3>2 DEF Started
  <2>10. Gated'
    BY <2>1, <2>3 DEF Gated
  <2>11. Fresh'
    <3>1. \A i \in DOMAIN stream : ~ (i > mark'[c])
      BY <2>3, LenProperties DEF Typed, end_offset
    <3> QED BY <2>1, <2>3, <3>1 DEF Fresh
  <2> QED BY <2>6, <2>8, <2>9, <2>10, <2>11
<1> QED BY <1>3, <1>4, <1>5, <1>6, <1>7, <1>8 DEF LineStep

LEMMA CaptureStep == CaptureInvariant /\ [Next]_allvars => CaptureInvariant'
<1> SUFFICES ASSUME CaptureInvariant, [Next]_allvars PROVE CaptureInvariant'
  OBVIOUS
<1> USE DEF ringv, pumpv, timers
<1>1. CASE ReadNext /\ LoseLines
  <2>1. UNCHANGED <<mark, purged>>
    BY <1>1 DEF LoseLines
  <2>2. CASE \/ Emit \/ Drop \/ Reconnect \/ Close \/ PumpAppend
             \/ \E n \in 1 .. Len(os_input) : PumpRead(n)
    BY <2>1, <2>2, EnvironmentKeeps
  <2>3. ASSUME NEW c \in Calls, ReadStep(c) \/ Poll(c) PROVE CaptureInvariant'
    BY <2>1, <2>3, ReadStepKeeps
  <2>4. ASSUME NEW c \in Calls, Deadline(c) \/ Silence(c) \/ Cancel(c) \/ PauseDisconnected(c)
        PROVE  CaptureInvariant'
    BY <2>1, <2>4, StillKeeps DEF Deadline, Silence, Cancel, PauseDisconnected
  <2> QED BY <1>1, <2>2, <2>3, <2>4 DEF ReadNext, Environment
<1>2. ASSUME NEW c \in Calls, LineStep(c) PROVE CaptureInvariant'
  BY <1>2, LineStepKeeps
<1>3. ASSUME NEW c \in Calls, Background(c) PROVE CaptureInvariant'
  BY <1>3, StillKeeps DEF Background, Cleanup, BreakCleanup
<1>4. CASE UNCHANGED allvars
  BY <1>4, StillKeeps DEF allvars, vars, lvars
<1> QED BY <1>1, <1>2, <1>3, <1>4 DEF Next

LEMMA CaptureInit == LInit => CaptureInvariant
<1> SUFFICES ASSUME LInit PROVE CaptureInvariant
  OBVIOUS
<1> USE DEF LInit, Init
<1>1. Len(<<>>) = 0 /\ <<>> \in Seq(Bytes) /\ DOMAIN <<>> = {}
  BY EmptySeq
<1>2. "idle" \in Labels
  BY DEF Labels
<1>3. Typed
  BY <1>1, <1>2 DEF Typed, end_offset
<1>4. DriversTyped
  BY NewDriverTyped DEF DriversTyped
<1>5. Started
  BY DEF Started, BootPhase, ReadPhase
<1>6. Gated /\ Fresh
  BY <1>1 DEF Gated, Fresh
<1> QED BY <1>3, <1>4, <1>5, <1>6 DEF CaptureInvariant

LEMMA FreshFromCapture == CaptureInvariant => BootCaptureFresh
<1> SUFFICES ASSUME CaptureInvariant, NEW c \in Calls, Boot(c),
                    NEW i \in DOMAIN rd[c].outcome.bytes
             PROVE  stream[rd[c].outcome.bytes[i] + 1].nth > purged[c]
  BY DEF BootCaptureFresh
<1> DEFINE o == rd[c].outcome.bytes[i]
<1> USE DEF CaptureInvariant
<1>1. rd[c].outcome.bytes \in Seq(Own(c))
  BY DriverFields DEF DriversTyped
<1>2. o \in Own(c)
  BY <1>1, LenProperties, ElementOfSeq
<1>3. o + 1 \in DOMAIN stream /\ o + 1 > mark[c]
  BY <1>2, LenProperties DEF Own, Floor, end_offset, Typed
<1>4. pc[c] # "mark"
  <2>1. SUFFICES ASSUME pc[c] = "mark" PROVE FALSE
    OBVIOUS
  <2>2. rd[c].outcome.bytes = <<>>
    BY <2>1 DEF Started, BootPhase, NewDriver, NoOutcome
  <2> QED BY <2>2, EmptySeq
<1> QED BY <1>3, <1>4 DEF Fresh

(* capture_boot returns only what the device sent after the purge, for any *)
(* number of concurrent captures, reads and flushes: the pump gate keeps   *)
(* bytes that were on their way to the ring from landing past the mark.    *)
THEOREM CapturesFresh == Spec => []BootCaptureFresh
BY CaptureInit, CaptureStep, FreshFromCapture, PTL DEF Spec

-----------------------------------------------------------------------------
(* The reset pulse: the control lock is held by the call in its pulse.     *)

(* A reading step moves no call into or within the pulse.                  *)
LEMMA ReadAside ==
  ASSUME CaptureInvariant, ReadNext
  PROVE  work' = work /\ \A c \in Calls : pc'[c] \in BootPhase => pc'[c] = pc[c]
<1>1. Typed /\ DriversTyped /\ Started /\ pc \in [Calls -> Labels]
  BY DEF CaptureInvariant, Typed
<1>2. CASE \/ Emit \/ Drop \/ Reconnect \/ Close \/ PumpAppend
           \/ \E n \in 1 .. Len(os_input) : PumpRead(n)
  BY <1>2 DEF Emit, Drop, Reconnect, Close, PumpAppend, PumpRead
<1>3. ASSUME NEW k \in Calls, Deadline(k) \/ Silence(k) \/ Cancel(k) \/ PauseDisconnected(k)
      PROVE  work' = work /\ pc' = pc
  BY <1>3 DEF Deadline, Silence, Cancel, PauseDisconnected
<1>4. ASSUME NEW k \in Calls,
             \/ Begin(k) \/ Data(k) \/ StopClosed(k) \/ StopTimeout(k) \/ StopSilence(k)
             \/ StopCancelled(k) \/ GoWait(k) \/ Poll(k) \/ CompleteRead(k)
      PROVE  work' = work /\ \E l \in ReadPhase : pc' = [pc EXCEPT ![k] = l]
  <2>1. Driven(k)
    BY <1>1, <1>4, BeginDriven, DataDriven, WaitDriven
  <2> QED BY <2>1 DEF Driven
<1>5. ASSUME NEW k \in Calls,
             \/ TransactWrite(k) \/ Refuse(k) \/ RefuseWritten(k) \/ ResolveFrom(k) \/ FlushOs(k)
             \/ FlushRing(k) \/ FlushCursor(k) \/ StoreCursor(k)
      PROVE  work' = work /\ \E l \in Labels \ BootPhase : pc' = [pc EXCEPT ![k] = l]
  BY <1>5 DEF TransactWrite, Refuse, RefuseWritten, ResolveFrom, FlushOs, FlushRing, FlushCursor,
              StoreCursor, Labels, BootPhase, ReadPhase
<1>6. \A l \in ReadPhase : l \notin BootPhase
  BY DEF ReadPhase, BootPhase
<1>7. ASSUME NEW k \in Calls, NEW l, l \notin BootPhase, pc' = [pc EXCEPT ![k] = l]
      PROVE  \A c \in Calls : pc'[c] \in BootPhase => pc'[c] = pc[c]
  BY <1>1, <1>7
<1> QED BY <1>2, <1>3, <1>4, <1>5, <1>6, <1>7 DEF ReadNext, Environment, ReadStep

LEMMA PulseStep == CaptureInvariant /\ Pulse /\ [Next]_allvars => Pulse'
<1> SUFFICES ASSUME CaptureInvariant, Pulse, [Next]_allvars PROVE Pulse'
  OBVIOUS
<1> USE DEF Pulse
<1>1. pc \in [Calls -> Labels]
  BY DEF CaptureInvariant, Typed
<1>2. CASE ReadNext /\ LoseLines
  <2>1. work' = work /\ \A c \in Calls : pc'[c] \in BootPhase => pc'[c] = pc[c]
    BY <1>2, ReadAside
  <2>2. control_lock' = control_lock /\ (lines' = lines \/ lines' = "gone")
    BY <1>2 DEF LoseLines
  <2>3. \A c : Resets(c)' = Resets(c)
    BY <2>1 DEF Resets, Boot, Request
  <2> QED BY <2>1, <2>2, <2>3 DEF BootPhase
<1>3. ASSUME NEW c \in Calls, LineStep(c) PROVE Pulse'
  <2>1. \A k : Resets(k)' = Resets(k)
    BY <1>3 DEF LineStep, BootLock, BootGate, BootPurge, BootMark, BootAssert, BootRelease, BootSettle,
                BootDone, SetDtrRts, BreakAssert, BreakRelease, rest, Resets, Boot, Request
  <2> USE DEF At_, rest, lvars
  <2>2. CASE BootLock(c)
    BY <1>1, <2>1, <2>2 DEF BootLock
  <2>3. CASE BootGate(c) \/ BootSettle(c)
    BY <1>1, <2>1, <2>3 DEF BootGate, BootSettle
  <2>4. CASE BootPurge(c)
    BY <1>1, <2>1, <2>4 DEF BootPurge
  <2>5. CASE BootMark(c) \/ BootDone(c)
    BY <1>1, <2>1, <2>5 DEF BootMark, BootDone
  <2>6. CASE BootAssert(c)
    BY <1>1, <2>1, <2>6 DEF BootAssert
  <2>7. CASE BootRelease(c)
    BY <1>1, <2>1, <2>7 DEF BootRelease, release_reset_lines
  <2>8. CASE SetDtrRts(c)
    BY <1>1, <2>1, <2>8 DEF SetDtrRts
  <2>9. CASE BreakAssert(c) \/ BreakRelease(c)
    BY <1>1, <2>1, <2>9 DEF BreakAssert, BreakRelease
  <2> QED BY <1>3, <2>2, <2>3, <2>4, <2>5, <2>6, <2>7, <2>8, <2>9 DEF LineStep
<1>4. ASSUME NEW c \in Calls, Background(c) PROVE Pulse'
  <2>1. \A k : Resets(k)' = Resets(k)
    BY <1>4 DEF Background, Cleanup, BreakCleanup, Resets, Boot, Request
  <2> QED BY <1>4, <2>1 DEF Background, Cleanup, BreakCleanup
<1>5. CASE UNCHANGED allvars
  BY <1>5 DEF allvars, vars, lvars, Resets, Boot, Request
<1> QED BY <1>2, <1>3, <1>4, <1>5 DEF Next

(* No other capture, set_dtr_rts or left-over release touches the lines    *)
(* during a reset pulse, for any number of calls: control_lock is held by  *)
(* the call in its pulse, and everyone else drives the lines under it.     *)
THEOREM PulsesUndisturbed == Spec => []PulseUndisturbed
<1>1. LInit => Pulse
  BY DEF LInit, Init, Pulse
<1>2. Pulse => PulseUndisturbed
  BY DEF Pulse, PulseUndisturbed
<1> QED BY <1>1, <1>2, CaptureInit, CaptureStep, PulseStep, PTL DEF Spec

-----------------------------------------------------------------------------
(* Whoever asserts a line leaves somebody who releases it.                 *)

GuardPhase == {"assert", "hold", "settle"} \cup ReadPhase

(* Only an open handle has asserted lines, so a guard that is dropped when *)
(* the port is gone drops nothing; a guard is armed only while its call    *)
(* can still end through DropGuard, and from before the assertion on.      *)
Guards ==
  /\ armed \subseteq Calls /\ cleanups \subseteq Calls
  /\ state # "Open" => lines # "reset" /\ ~break
  /\ \A c \in armed : \/ Boot(c) /\ pc[c] \in GuardPhase
                      \/ Request(c).tool = "send_break" /\ pc[c] = "breaking"
  /\ \A c \in Calls : pc[c] = "assert" /\ Resets(c) => c \in armed

Owned ==
  /\ lines = "reset" => abandoned \/ \E c \in armed \cup cleanups : Boot(c)
  /\ break => abandoned \/ \E c \in armed \cup cleanups : Request(c).tool = "send_break"

(* A reading step ends no capture and no BREAK.                            *)
LEMMA ReadGuarded ==
  ASSUME CaptureInvariant, ReadNext, NEW c \in Calls
  PROVE  /\ Boot(c) /\ pc[c] \in GuardPhase => pc'[c] \in GuardPhase
         /\ pc[c] = "breaking" => pc'[c] = "breaking"
<1>1. Typed /\ DriversTyped /\ Started /\ pc \in [Calls -> Labels]
  BY DEF CaptureInvariant, Typed
<1>2. CASE \/ Emit \/ Drop \/ Reconnect \/ Close \/ PumpAppend
           \/ \E n \in 1 .. Len(os_input) : PumpRead(n)
  BY <1>2 DEF Emit, Drop, Reconnect, Close, PumpAppend, PumpRead
<1>3. ASSUME NEW k \in Calls, Deadline(k) \/ Silence(k) \/ Cancel(k) \/ PauseDisconnected(k)
      PROVE  pc' = pc
  BY <1>3 DEF Deadline, Silence, Cancel, PauseDisconnected
<1>4. ASSUME NEW k \in Calls,
             \/ Begin(k) \/ Data(k) \/ StopClosed(k) \/ StopTimeout(k) \/ StopSilence(k)
             \/ StopCancelled(k) \/ GoWait(k) \/ Poll(k) \/ CompleteRead(k)
      PROVE  pc[k] \in ReadPhase /\ \E l \in ReadPhase : pc' = [pc EXCEPT ![k] = l]
  <2>1. Driven(k)
    BY <1>1, <1>4, BeginDriven, DataDriven, WaitDriven
  <2>2. pc[k] \in ReadPhase
    BY <1>4 DEF Begin, Data, StopClosed, StopTimeout, StopSilence, StopCancelled, CheckStops,
                GoWait, Poll, CompleteRead, ReadPhase
  <2> QED BY <2>1, <2>2 DEF Driven
<1>5. ASSUME NEW k \in Calls,
             \/ TransactWrite(k) \/ Refuse(k) \/ RefuseWritten(k) \/ ResolveFrom(k) \/ FlushOs(k)
             \/ FlushRing(k) \/ FlushCursor(k) \/ StoreCursor(k)
      PROVE  /\ \E l : pc' = [pc EXCEPT ![k] = l]
             /\ pc[k] \in {"idle", "written", "flushed", "cleared"} \/ (pc[k] = "storing" /\ ~ Boot(k))
  BY <1>5 DEF TransactWrite, Refuse, RefuseWritten, ResolveFrom, FlushOs, FlushRing, FlushCursor,
              StoreCursor, Boot
<1>6. "breaking" \notin ReadPhase /\ ReadPhase \subseteq GuardPhase
      /\ \A l \in {"idle", "written", "flushed", "cleared"} : l \notin GuardPhase
  BY DEF ReadPhase, GuardPhase
<1>7. ASSUME NEW k \in Calls, pc[k] \in ReadPhase, \E l \in ReadPhase : pc' = [pc EXCEPT ![k] = l]
      PROVE  /\ Boot(c) /\ pc[c] \in GuardPhase => pc'[c] \in GuardPhase
             /\ pc[c] = "breaking" => pc'[c] = "breaking"
  BY <1>1, <1>6, <1>7
<1>8. ASSUME NEW k \in Calls, \E l : pc' = [pc EXCEPT ![k] = l],
             pc[k] \in {"idle", "written", "flushed", "cleared"} \/ (pc[k] = "storing" /\ ~ Boot(k))
      PROVE  /\ Boot(c) /\ pc[c] \in GuardPhase => pc'[c] \in GuardPhase
             /\ pc[c] = "breaking" => pc'[c] = "breaking"
  BY <1>1, <1>6, <1>8
<1> QED BY <1>2, <1>3, <1>4, <1>5, <1>7, <1>8 DEF ReadNext, Environment, ReadStep

LEMMA GuardsStep == CaptureInvariant /\ Guards /\ Owned /\ [Next]_allvars => Guards' /\ Owned'
<1> SUFFICES ASSUME CaptureInvariant, Guards, Owned, [Next]_allvars PROVE Guards' /\ Owned'
  OBVIOUS
<1> USE DEF Guards, Owned
<1>1. pc \in [Calls -> Labels]
  BY DEF CaptureInvariant, Typed
<1>2. CASE ReadNext /\ LoseLines
  <2>1. work' = work /\ \A c \in Calls : pc'[c] \in BootPhase => pc'[c] = pc[c]
    BY <1>2, ReadAside
  <2>2. \A c : (Resets(c)' <=> Resets(c)) /\ (Boot(c)' <=> Boot(c)) /\ Request(c)' = Request(c)
    BY <2>1 DEF Resets, Boot, Request
  <2>3. UNCHANGED <<armed, cleanups, abandoned>>
    BY <1>2 DEF LoseLines
  <2>4. /\ state' # "Open" => lines' # "reset" /\ ~break'
        /\ lines' = "reset" => lines = "reset"
        /\ break' => break
    BY <1>2 DEF LoseLines
  <2>5. \A c \in armed : \/ Boot(c) /\ pc'[c] \in GuardPhase
                         \/ Request(c).tool = "send_break" /\ pc'[c] = "breaking"
    BY <1>2, ReadGuarded
  <2>6. \A c \in Calls : pc'[c] = "assert" => pc[c] = "assert"
    BY <2>1 DEF BootPhase
  <2>7. Owned'
    BY <2>2, <2>3, <2>4
  <2> QED BY <2>2, <2>3, <2>4, <2>5, <2>6, <2>7
<1>3. ASSUME NEW c \in Calls, LineStep(c) \/ Background(c) PROVE Guards' /\ Owned'
  <2> USE DEF At_, rest, lvars, link
  <2>1. UNCHANGED <<work, state>>
    BY <1>3 DEF LineStep, BootLock, BootGate, BootPurge, BootMark, BootAssert, BootRelease, BootSettle,
                BootDone, SetDtrRts, BreakAssert, BreakRelease, Background, Cleanup, BreakCleanup
  <2>2. \A k : (Resets(k)' <=> Resets(k)) /\ (Boot(k)' <=> Boot(k)) /\ Request(k)' = Request(k)
    BY <2>1 DEF Resets, Boot, Request
  <2>3. CASE BootLock(c) \/ BootGate(c) \/ BootPurge(c)
    <3>1. /\ UNCHANGED <<lines, break, armed, cleanups, abandoned>>
          /\ pc[c] \notin GuardPhase \cup {"breaking"}
          /\ \E l \in {"gate", "purge", "mark", "failed"} : pc' = [pc EXCEPT ![c] = l]
      BY <2>3 DEF BootLock, BootGate, BootPurge, GuardPhase, ReadPhase
    <3>2. \A k \in armed : k # c
      BY <3>1
    <3> QED BY <1>1, <2>1, <2>2, <3>1, <3>2
  <2>4. CASE BootMark(c)
    <3>1. /\ UNCHANGED <<lines, break, cleanups, abandoned>>
          /\ armed' = IF Resets(c) THEN armed \cup {c} ELSE armed
          /\ pc[c] = "mark" /\ pc' = [pc EXCEPT ![c] = "assert"]
      BY <2>4 DEF BootMark
    <3>2. c \notin armed /\ "assert" \in GuardPhase
      BY <3>1 DEF GuardPhase, ReadPhase
    <3> QED BY <1>1, <2>1, <2>2, <3>1, <3>2 DEF Resets
  <2>5. CASE BootAssert(c)
    <3>1. /\ UNCHANGED <<break, abandoned>> /\ pc[c] = "assert"
          /\ \/ /\ Resets(c) /\ state = "Open" /\ pc' = [pc EXCEPT ![c] = "hold"]
                /\ UNCHANGED <<armed, cleanups>>
             \/ /\ Resets(c) /\ pc' = [pc EXCEPT ![c] = "failed"] /\ DropGuard(c)
                /\ lines' = lines \/ state = "Open"
             \/ /\ ~ Resets(c) /\ pc' = [pc EXCEPT ![c] = "settle"] /\ UNCHANGED <<lines, armed, cleanups>>
      BY <2>5 DEF BootAssert, PortWorks
    <3>2. {"hold", "settle"} \subseteq GuardPhase
      BY DEF GuardPhase
    <3>3. Resets(c) => c \in armed /\ Boot(c)
      BY <3>1 DEF Resets
    <3>4. armed' \cup cleanups' = armed \cup cleanups
      BY <3>1 DEF DropGuard
    <3>5. Guards'
      BY <1>1, <2>1, <2>2, <3>1, <3>2 DEF DropGuard, GuardPhase, ReadPhase
    <3>6. Owned'
      BY <2>2, <3>1, <3>3, <3>4
    <3> QED BY <3>5, <3>6
  <2>6. CASE BootRelease(c)
    <3>1. UNCHANGED <<break, abandoned>> /\ pc[c] = "hold"
      BY <2>6 DEF BootRelease, release_reset_lines
    <3>2. \/ /\ lines' = "released" \/ (state # "Open" /\ lines' = lines)
             /\ armed' = armed \ {c} /\ UNCHANGED cleanups /\ pc' = [pc EXCEPT ![c] = "settle"]
          \/ /\ lines' = lines /\ armed' = armed \ {c} /\ cleanups' = cleanups \cup (armed \ armed')
             /\ pc' = [pc EXCEPT ![c] = "failed"]
          \/ /\ UNCHANGED <<lines, armed, cleanups>> /\ pc' = [pc EXCEPT ![c] = "settle"]
      BY <2>6 DEF BootRelease, release_reset_lines, PortWorks, PortClosed
    <3>3. "settle" \in GuardPhase
      BY DEF GuardPhase
    <3>4. c \in armed => Request(c).tool # "send_break"
      BY <3>1 DEF Boot
    <3>5. Guards'
      BY <1>1, <2>1, <2>2, <3>1, <3>2, <3>3
    <3>6. lines' = "reset" => abandoned' \/ \E k \in armed' \cup cleanups' : Boot(k)'
      BY <2>2, <3>1, <3>2
    <3>7. break' => abandoned' \/ \E k \in armed' \cup cleanups' : Request(k)'.tool = "send_break"
      BY <2>2, <3>1, <3>2, <3>4
    <3> QED BY <3>5, <3>6, <3>7
  <2>7. CASE BootSettle(c)
    <3>1. /\ UNCHANGED <<lines, break, armed, cleanups, abandoned>> /\ pc[c] = "settle"
          /\ pc' = [pc EXCEPT ![c] = "resolved"] /\ "resolved" \in GuardPhase
      BY <2>7 DEF BootSettle, GuardPhase, ReadPhase
    <3> QED BY <1>1, <2>1, <2>2, <3>1
  <2>8. CASE BootDone(c)
    <3>1. /\ UNCHANGED <<lines, break, abandoned>> /\ pc' = [pc EXCEPT ![c] = "done"] /\ DropGuard(c)
      BY <2>8 DEF BootDone
    <3>2. armed' \cup cleanups' = armed \cup cleanups
      BY <3>1 DEF DropGuard
    <3>3. Guards'
      BY <1>1, <2>1, <2>2, <3>1 DEF DropGuard
    <3> QED BY <2>2, <3>1, <3>2, <3>3
  <2>9. CASE SetDtrRts(c)
    <3>1. /\ UNCHANGED <<break, armed, cleanups, abandoned>> /\ (lines' = lines \/ lines' = "user")
          /\ pc[c] = "idle" /\ \E l \in {"done", "failed"} : pc' = [pc EXCEPT ![c] = l]
      BY <2>9 DEF SetDtrRts
    <3>2. c \notin armed
      BY <3>1 DEF GuardPhase, ReadPhase
    <3> QED BY <1>1, <2>1, <2>2, <3>1, <3>2
  <2>10. CASE BreakAssert(c)
    <3>1. /\ UNCHANGED <<lines, cleanups, abandoned>> /\ pc[c] = "idle" /\ Request(c).tool = "send_break"
          /\ \/ /\ state = "Open" /\ break' = TRUE /\ armed' = armed \cup {c}
                /\ pc' = [pc EXCEPT ![c] = "breaking"]
             \/ UNCHANGED <<break, armed>> /\ pc' = [pc EXCEPT ![c] = "failed"]
      BY <2>10 DEF BreakAssert, PortWorks
    <3>2. c \notin armed
      BY <3>1 DEF GuardPhase, ReadPhase
    <3> QED BY <1>1, <2>1, <2>2, <3>1, <3>2
  <2>11. CASE BreakRelease(c)
    <3>1. /\ UNCHANGED <<lines, abandoned>> /\ pc[c] = "breaking"
          /\ \/ /\ break' = FALSE /\ armed' = armed \ {c} /\ UNCHANGED cleanups
                /\ pc' = [pc EXCEPT ![c] = "done"]
             \/ UNCHANGED break /\ pc' = [pc EXCEPT ![c] = "failed"] /\ DropGuard(c)
      BY <2>11 DEF BreakRelease
    <3>2. c \in armed => ~ Boot(c)
      BY <3>1 DEF Boot, GuardPhase, ReadPhase
    <3>3. Guards'
      BY <1>1, <2>1, <2>2, <3>1 DEF DropGuard
    <3>4. lines' = "reset" => abandoned' \/ \E k \in armed' \cup cleanups' : Boot(k)'
      BY <2>2, <3>1, <3>2 DEF DropGuard
    <3>5. break' => abandoned' \/ \E k \in armed' \cup cleanups' : Request(k)'.tool = "send_break"
      BY <2>2, <3>1 DEF DropGuard
    <3> QED BY <3>3, <3>4, <3>5
  <2>12. CASE Background(c)
    <3>1. /\ cleanups' = cleanups \ {c} /\ UNCHANGED <<armed, pc>>
          /\ \/ /\ Boot(c) /\ UNCHANGED break
                /\ lines' = "released" \/ (lines' = lines /\ (state # "Open" \/ abandoned' = TRUE))
             \/ /\ ~ Boot(c) /\ UNCHANGED lines
                /\ break' = FALSE \/ (break' = break /\ (state # "Open" \/ abandoned' = TRUE))
          /\ abandoned => abandoned'
          /\ Boot(c) => Request(c).tool # "send_break"
      BY <2>12 DEF Background, Cleanup, BreakCleanup, PortWorks, PortClosed, Boot
    <3>2. Guards'
      BY <2>1, <2>2, <3>1
    <3>3. lines' = "reset" => abandoned' \/ \E k \in armed' \cup cleanups' : Boot(k)'
      BY <2>2, <3>1
    <3>4. break' => abandoned' \/ \E k \in armed' \cup cleanups' : Request(k)'.tool = "send_break"
      BY <2>2, <3>1
    <3> QED BY <3>2, <3>3, <3>4
  <2> QED BY <1>3, <2>3, <2>4, <2>5, <2>6, <2>7, <2>8, <2>9, <2>10, <2>11, <2>12 DEF LineStep
<1>4. CASE UNCHANGED allvars
  BY <1>4 DEF allvars, vars, lvars, link, Resets, Boot, Request
<1> QED BY <1>2, <1>3, <1>4 DEF Next

(* Asserted lines always have somebody who will release them, for any      *)
(* number of captures and BREAKs at once and any sequence of failures: the *)
(* guard is armed before the lines can change, an armed guard belongs to a *)
(* call that has yet to end, the end of a call hands it to a release task, *)
(* and that task gives up only with the port gone or after an error.       *)
THEOREM LinesAlwaysGuarded == Spec => []LinesGuarded
<1>1. LInit => Guards /\ Owned
  BY DEF LInit, Init, Guards, Owned
<1>2. Guards /\ Owned => LinesGuarded
  BY DEF Guards, Owned, LinesGuarded, Finished, GuardPhase, ReadPhase
<1> QED BY <1>1, <1>2, CaptureInit, CaptureStep, GuardsStep, PTL DEF Spec

-----------------------------------------------------------------------------
(* Nothing is skipped.                                                     *)

(* Once accounted for, always: the ring only forgets, the stream only      *)
(* grows and so does what was delivered.                                   *)
LEMMA CoveredLater ==
  ASSUME Typed, Typed', end_offset' >= end_offset, ring_start' >= ring_start,
         accounted \subseteq accounted', NEW upto \in Nat, NEW seq, Covered(upto, seq)
  PROVE  Covered(upto, seq)'
<1>1. end_offset \in Nat /\ end_offset' \in Nat /\ ring_start \in Nat /\ ring_start' \in Nat
  <2>1. stream \in Seq(Bytes) /\ stream' \in Seq(Bytes)
    BY DEF Typed
  <2>2. end_offset \in Nat /\ end_offset' \in Nat
    BY <2>1, LenProperties DEF end_offset
  <2> HIDE DEF end_offset
  <2> QED BY <2>2 DEF Typed
<1>2. upto <= end_offset'
  <2> HIDE DEF end_offset
  <2> QED BY <1>1 DEF Covered
<1>3. \A o \in ring_start' .. (upto - 1) : o \in accounted' \/ Holds(seq, o)
  BY <1>1 DEF Covered
<1> QED BY <1>2, <1>3 DEF Covered, Holds

LEMMA CoveredLess ==
  ASSUME Typed, NEW upto \in Nat, NEW less \in Nat, less <= upto, NEW seq, Covered(upto, seq)
  PROVE  Covered(less, seq)
<1>1. end_offset \in Nat /\ ring_start \in Nat
  BY LenProperties DEF Typed, end_offset
<1> HIDE DEF end_offset
<1> QED BY <1>1 DEF Covered

LEMMA CoveredMore ==
  ASSUME Typed, NEW upto \in Nat, NEW seq, Covered(upto, seq),
         NEW more \in Nat, more <= end_offset, NEW longer,
         \A o : Holds(seq, o) => Holds(longer, o),
         \A o \in upto .. (more - 1) : Holds(longer, o)
  PROVE  Covered(more, longer)
<1>1. end_offset \in Nat /\ ring_start \in Nat
  BY LenProperties DEF Typed, end_offset
<1> HIDE DEF end_offset, Holds
<1>2. ASSUME NEW o \in ring_start .. (more - 1) PROVE o \in accounted \/ Holds(longer, o)
  <2>1. CASE o < upto
    BY <1>1, <2>1 DEF Covered
  <2>2. CASE o >= upto
    BY <1>1, <2>2
  <2> QED BY <1>1, <2>1, <2>2
<1> QED BY <1>1, <1>2 DEF Covered

(* A slice begins where everything before is covered, and covers itself.   *)
LEMMA SliceCovers ==
  ASSUME Typed, NEW cursor \in Nat, NEW max \in Nat, NEW seq, Covered(cursor, seq),
         NEW from, from = SliceFrom(cursor), NEW n, n = SliceLen(cursor, max)
  PROVE  from >= cursor /\ Covered(from, seq)
<1>1. end_offset \in Nat /\ ring_start \in 0 .. end_offset
  BY LenProperties DEF Typed, end_offset
<1>2. from \in 0 .. end_offset /\ (from > cursor => from = ring_start) /\ (from < cursor => from = end_offset)
  BY SliceBounds
<1> HIDE DEF end_offset, Holds
<1>3. cursor <= end_offset
  BY DEF Covered
<1>4. from >= cursor
  BY <1>1, <1>2, <1>3
<1> QED BY <1>1, <1>2, <1>4 DEF Covered

LEMMA HoldsConcat ==
  ASSUME NEW S, NEW a \in Seq(S), NEW b \in Seq(S), NEW o
  PROVE  /\ Holds(a, o) => Holds(a \o b, o)
         /\ Holds(b, o) => Holds(a \o b, o)
<1>1. /\ Len(a) \in Nat /\ Len(b) \in Nat /\ DOMAIN a = 1 .. Len(a) /\ DOMAIN b = 1 .. Len(b)
      /\ DOMAIN (a \o b) = 1 .. (Len(a) + Len(b))
      /\ \A i \in 1 .. (Len(a) + Len(b)) : (a \o b)[i] = IF i <= Len(a) THEN a[i] ELSE b[i - Len(a)]
  BY ConcatProperties, LenProperties
<1>2. ASSUME NEW i \in DOMAIN a, a[i] = o PROVE Holds(a \o b, o)
  <2>1. i \in DOMAIN (a \o b) /\ (a \o b)[i] = o
    BY <1>1, <1>2
  <2> QED BY <2>1 DEF Holds
<1>3. ASSUME NEW i \in DOMAIN b, b[i] = o PROVE Holds(a \o b, o)
  <2>1. Len(a) + i \in 1 .. (Len(a) + Len(b)) /\ ~ (Len(a) + i <= Len(a)) /\ (Len(a) + i) - Len(a) = i
    BY <1>1
  <2>2. Len(a) + i \in DOMAIN (a \o b) /\ (a \o b)[Len(a) + i] = o
    BY <1>1, <1>3, <2>1
  <2> QED BY <2>2 DEF Holds
<1> QED BY <1>2, <1>3 DEF Holds

LEMMA HoldsOffsets ==
  ASSUME NEW from \in Nat, NEW n \in Nat, NEW m \in 0 .. n, NEW o \in from .. (from + m - 1)
  PROVE  Holds(Offsets(from, n), o) /\ Holds(SubSeq(Offsets(from, n), 1, m), o)
<1> DEFINE top == from + n
           S == 0 .. (top - 1)
           chunk == Offsets(from, n)
<1>1. /\ chunk \in Seq(S) /\ DOMAIN chunk = 1 .. n /\ Len(chunk) = n
      /\ \A i \in 1 .. n : chunk[i] = from + i - 1
  <2>1. top \in Nat /\ from + n <= top /\ 0 \in Nat /\ 0 <= from
    OBVIOUS
  <2> HIDE DEF top
  <2> QED BY <2>1, OffsetsInterval
<1> HIDE DEF S, chunk, top
<1>2. o - from + 1 \in 1 .. m /\ o - from + 1 \in 1 .. n /\ from + (o - from + 1) - 1 = o
  OBVIOUS
<1>3. Holds(chunk, o)
  BY <1>1, <1>2 DEF Holds
<1>4. \A i \in 1 .. m : chunk[i] \in S
  BY <1>1, ElementOfSeq
<1>5. /\ SubSeq(chunk, 1, m) \in Seq(S)
      /\ Len(SubSeq(chunk, 1, m)) = m
      /\ \A i \in 1 .. m : SubSeq(chunk, 1, m)[i] = chunk[i]
  <2>1. \A i \in 1 .. m - 1 + 1 : SubSeq(chunk, 1, m)[i] = chunk[1 + i - 1]
    BY <1>4, SubSeqProperties
  <2> QED BY <1>4, <2>1, SubSeqProperties
<1>6. DOMAIN SubSeq(chunk, 1, m) = 1 .. m
  BY <1>5, LenProperties
<1>7. SubSeq(chunk, 1, m)[o - from + 1] = o
  BY <1>1, <1>2, <1>5
<1>8. Holds(SubSeq(chunk, 1, m), o)
  BY <1>2, <1>6, <1>7 DEF Holds
<1> QED BY <1>3, <1>8 DEF chunk

(* A slice added to what a call has covers up to the end of the slice.     *)
LEMMA SliceAdds ==
  ASSUME Typed, NEW from \in Nat, NEW n \in Nat, from + n <= end_offset,
         NEW seq, Covered(from, seq), NEW m \in 0 .. n, NEW longer,
         \A o : Holds(seq, o) => Holds(longer, o),
         \A o : Holds(SubSeq(Offsets(from, n), 1, m), o) => Holds(longer, o)
  PROVE  Covered(from + m, longer)
<1>1. end_offset \in Nat
  BY LenProperties DEF Typed, end_offset
<1> HIDE DEF end_offset
<1>2. from + m \in Nat /\ from + m <= end_offset
  BY <1>1
<1>3. \A o \in from .. (from + m - 1) : Holds(longer, o)
  BY HoldsOffsets
<1> QED BY <1>2, <1>3, CoveredMore

(* A step of the read after which the call still accounts for every byte.  *)
Accounts(c) ==
  \E d, l : /\ rd' = [rd EXCEPT ![c] = d] /\ pc' = [pc EXCEPT ![c] = l]
            /\ CoveredAt(d, l)

LEMMA CompletesAccounts ==
  ASSUME NEW c \in Calls, NEW S, NEW d \in Driver(S), NEW completion \in Completion(S),
         completion.override => completion.payload = d.returned,
         Covered(completion.final, d.returned), Completes(c, d, completion)
  PROVE  Accounts(c)
<1> DEFINE e == [d EXCEPT !.completion = completion]
<1>1. e.returned = d.returned /\ e.completion = completion
  BY Completed
<1>2. rd' = [rd EXCEPT ![c] = e] /\ pc' = [pc EXCEPT ![c] = "completing"]
  BY DEF Completes
<1> HIDE DEF e
<1>3. CoveredAt(e, "completing")
  BY <1>1 DEF CoveredAt
<1> QED BY <1>2, <1>3 DEF Accounts

LEMMA ContinuesAccounts ==
  ASSUME NEW c \in Calls, NEW d, d.original + d.consumed <= d.clocked,
         Covered(d.clocked, d.returned), Continues(c, d)
  PROVE  Accounts(c)
<1>1. CoveredAt(d, "checking")
  BY DEF CoveredAt
<1> QED BY <1>1 DEF Accounts, Continues

LEMMA FramedStopPlain ==
  ASSUME NEW c, NEW d, NEW bytes, NEW final, ~ Matching(c)
  PROVE  \/ FramedStop(c, d, bytes, final) = NoCompletion
         \/ /\ FramedStop(c, d, bytes, final).final = final
            /\ FramedStop(c, d, bytes, final).override = FALSE
<1>1. \A reason : Plain(reason, final).final = final /\ Plain(reason, final).override = FALSE
  BY DEF Plain, NoCompletion
<1> HIDE DEF Plain, NoCompletion
<1>2. \/ FramedStop(c, d, bytes, final) = NoCompletion
      \/ \E reason : FramedStop(c, d, bytes, final) = Plain(reason, final)
  BY DEF FramedStop
<1> QED BY <1>1, <1>2

(* A call that is in its read when all calls are lossless is a plain read. *)
LEMMA LosslessRead ==
  ASSUME AllLossless, NEW c \in Calls, Started, pc[c] \in ReadPhase
  PROVE  /\ Request(c).tool = "read" /\ Request(c).match # "context"
         /\ ~ (Matching(c) /\ Request(c).framed)
BY DEF AllLossless, Lossless, Matching, Started

LEMMA BeginAccounts ==
  ASSUME Typed, DriversTyped, Started, AllLossless, NEW c \in Calls,
         CoveredAt(rd[c], pc[c]), Begin(c)
  PROVE  Accounts(c)
<1> DEFINE from == SliceFrom(rd[c].original)
           n == SliceLen(rd[c].original, Request(c).max)
           chunk == Offsets(from, n)
<1>1. Request(c).max \in Nat
  BY RequestTyped DEF Requests
<1>2. /\ rd[c] \in Driver(Own(c)) /\ rd[c].original \in Nat
      /\ rd[c].returned = <<>> /\ rd[c].consumed = 0 /\ Covered(rd[c].original, <<>>)
      /\ rd[c].original >= Floor(c)
  BY DriverFields DEF DriversTyped, CoveredAt, Begin, Started, ReadPhase
<1>3. /\ from \in Nat /\ n \in Nat /\ from + n <= end_offset
      /\ chunk \in Seq(Own(c)) /\ Len(chunk) = n /\ DOMAIN chunk = 1 .. n
      /\ from >= rd[c].original /\ Covered(from, <<>>)
  <2>1. from = SliceFrom(rd[c].original) /\ n = SliceLen(rd[c].original, Request(c).max)
    OBVIOUS
  <2> HIDE DEF from, n
  <2>2. /\ from \in Nat /\ n \in Nat /\ from + n <= end_offset
        /\ chunk \in Seq(Own(c)) /\ Len(chunk) = n /\ DOMAIN chunk = 1 .. n
    BY <1>1, <1>2, <2>1, SliceOwn
  <2>3. from >= rd[c].original /\ Covered(from, <<>>)
    BY <1>1, <1>2, <2>1, SliceCovers
  <2> QED BY <2>2, <2>3
<1>4. Cat(c, from, n) \/ HistoryMatch(c, from, n) \/ HistoryNoMatch(c, from, n) \/ NoHistory(c, from, n)
  BY DEF Begin
<1> HIDE DEF from, n
<1>5. \A o : ~ Holds(<<>>, o)
  BY EmptySeq DEF Holds
<1>6. ASSUME NEW m \in 0 .. n PROVE Covered(from + m, SubSeq(chunk, 1, m))
  BY <1>3, <1>5, SliceAdds
<1>7. SubSeq(chunk, 1, n) = chunk
  <2> HIDE DEF chunk
  <2> QED BY <1>3, SubSeqFull
<1>8. Covered(from + n, chunk)
  <2>1. n \in 0 .. n
    BY <1>3
  <2> HIDE DEF chunk
  <2> QED BY <1>6, <1>7, <2>1
<1>9. ASSUME NEW m \in 0 .. n
      PROVE  /\ advance_private_cursor(from, m) \in Nat
             /\ Covered(advance_private_cursor(from, m), SubSeq(chunk, 1, m))
  <2>1. m \in Nat /\ from \in Nat /\ from + m \in Nat
    BY <1>3
  <2>2. advance_private_cursor(from, m) \in Nat /\ advance_private_cursor(from, m) <= from + m
    BY <2>1, AdvanceNat
  <2> QED BY <1>6, <2>1, <2>2, CoveredLess
<1>10. /\ advance_private_cursor(from, n) \in Nat
       /\ Covered(advance_private_cursor(from, n), chunk)
  <2>1. n \in 0 .. n
    BY <1>3
  <2> HIDE DEF chunk
  <2> QED BY <1>7, <1>9, <2>1
<1>11. Request(c).match # "context" /\ ~ (Matching(c) /\ Request(c).framed)
  BY LosslessRead DEF Begin, ReadPhase
<1>12. CASE Cat(c, from, n)
  <2> DEFINE d == [rd[c] EXCEPT !.consumed = n, !.returned = chunk]
             final == advance_private_cursor(from, n)
  <2>1. d \in Driver(Own(c)) /\ d.returned = chunk
    BY <1>2, <1>3 DEF Driver
  <2>2. /\ Plain("drained", final) \in Completion(Own(c))
        /\ Plain("drained", final).final = final /\ Plain("drained", final).override = FALSE
    BY <1>10, CompletionTyped DEF Reasons, Plain, NoCompletion
  <2>3. Completes(c, d, Plain("drained", final))
    BY <1>12 DEF Cat
  <2> HIDE DEF d, chunk, final
  <2> QED BY <1>10, <2>1, <2>2, <2>3, CompletesAccounts DEF final
<1>13. CASE HistoryMatch(c, from, n)
  <2> DEFINE first == First(At(chunk, "m"))
             match_end == first - 1 + MatchLen(c)
             final == advance_private_cursor(from, match_end)
             completion == [Plain("match_found", final) EXCEPT !.matched = TRUE]
             d == [rd[c] EXCEPT !.returned = SubSeq(chunk, 1, match_end)]
  <2>1. At(chunk, "m") \in SUBSET Nat /\ At(chunk, "m") # {} /\ At(chunk, "m") \subseteq 1 .. n
    BY <1>3, <1>13, EndsInDomain DEF HistoryMatch
  <2>2. first \in 1 .. n
    BY <2>1, FirstIn
  <2>3. Completes(c, d, completion)
    BY <1>11, <1>13 DEF HistoryMatch
  <2> HIDE DEF first
  <2>4. match_end \in 0 .. n
    BY <1>3, <2>2 DEF MatchLen
  <2> HIDE DEF match_end
  <2>5. SubSeq(chunk, 1, match_end) \in Seq(Own(c))
    BY <1>3, <2>4, SubSeqIn
  <2>6. d \in Driver(Own(c)) /\ d.returned = SubSeq(chunk, 1, match_end)
    BY <1>2, <2>5 DEF Driver
  <2>7. final \in Nat /\ Covered(final, SubSeq(chunk, 1, match_end))
    BY <1>9, <2>4
  <2>8. completion \in Completion(Own(c)) /\ completion.final = final /\ completion.override = FALSE
    <3> HIDE DEF final
    <3> QED BY <2>7, CompletionTyped DEF Reasons, Plain, NoCompletion
  <2> HIDE DEF d, chunk, final, completion
  <2> QED BY <2>3, <2>6, <2>7, <2>8, CompletesAccounts
<1>14. CASE HistoryNoMatch(c, from, n)
  <2> DEFINE d == AfterHistory(c, from, n)
             final == advance_private_cursor(from, d.consumed)
             stop == FramedStop(c, d, chunk, final)
  <2>1. /\ d \in Driver(Own(c)) /\ d.original = rd[c].original /\ d.clocked = from + n
        /\ d.consumed = n /\ d.returned = chunk
    BY <1>2, <1>3, <1>11, AfterHistoryTyped
  <2>2. Covered(d.clocked, d.returned) /\ d.original + d.consumed <= d.clocked
    <3> HIDE DEF d, chunk
    <3> QED BY <1>2, <1>3, <1>8, <2>1
  <2>3. CASE ~ Request(c).framed
    <3>1. Continues(c, d)
      BY <1>14, <2>3 DEF HistoryNoMatch
    <3> HIDE DEF d
    <3> QED BY <2>2, <3>1, ContinuesAccounts
  <2>4. CASE Request(c).framed
    <3>1. ~ Matching(c)
      BY <1>11, <2>4
    <3>2. /\ Decoded(d, chunk) \in Driver(Own(c))
          /\ Decoded(d, chunk).original = d.original /\ Decoded(d, chunk).clocked = d.clocked
          /\ Decoded(d, chunk).consumed = d.consumed /\ Decoded(d, chunk).returned = d.returned
      BY <1>3, <2>1, DecodedTyped
    <3>3. \/ Continues(c, Decoded(d, chunk))
          \/ stop # NoCompletion /\ Completes(c, Decoded(d, chunk), stop)
      BY <1>14, <2>4 DEF HistoryNoMatch, InitialFramed
    <3>4. final \in Nat /\ Covered(final, d.returned)
      <4> HIDE DEF d, chunk
      <4> QED BY <1>10, <2>1
    <3>5. stop \in Completion(Own(c))
      <4> HIDE DEF d, final
      <4> QED BY <1>3, <3>4, FramedStopTyped
    <3>6. stop = NoCompletion \/ (stop.final = final /\ stop.override = FALSE)
      <4> HIDE DEF d, final, chunk
      <4> QED BY <3>1, FramedStopPlain
    <3> HIDE DEF d, chunk, stop, final
    <3>7. CASE Continues(c, Decoded(d, chunk))
      BY <2>2, <3>2, <3>7, ContinuesAccounts
    <3>8. CASE stop # NoCompletion /\ Completes(c, Decoded(d, chunk), stop)
      BY <3>2, <3>4, <3>5, <3>6, <3>8, CompletesAccounts
    <3> QED BY <3>3, <3>7, <3>8
  <2> QED BY <2>3, <2>4
<1>15. CASE NoHistory(c, from, n)
  <2> DEFINE d == [rd[c] EXCEPT !.clocked = from]
  <2>1. d.original = rd[c].original /\ d.clocked = from /\ d.consumed = 0 /\ d.returned = <<>>
    BY <1>2, <1>3 DEF Driver
  <2>2. Continues(c, d)
    BY <1>15 DEF NoHistory
  <2> HIDE DEF d
  <2>3. d.original + d.consumed <= d.clocked
    BY <1>2, <1>3, <2>1
  <2> QED BY <1>3, <2>1, <2>2, <2>3, ContinuesAccounts
<1> QED BY <1>4, <1>12, <1>13, <1>14, <1>15

LEMMA DataAccounts ==
  ASSUME Typed, DriversTyped, Started, AllLossless, NEW c \in Calls,
         CoveredAt(rd[c], pc[c]), Data(c)
  PROVE  Accounts(c)
<1> DEFINE room == Monus(Request(c).max, Len(rd[c].returned))
           from == SliceFrom(rd[c].clocked)
           n == SliceLen(rd[c].clocked, room)
           chunk == Offsets(from, n)
           d == AfterLive(c, from, n)
<1>1. Request(c).max \in Nat
  BY RequestTyped DEF Requests
<1>2. /\ rd[c] \in Driver(Own(c)) /\ rd[c].clocked \in Nat /\ rd[c].undecoded \in Seq(Own(c))
      /\ rd[c].returned \in Seq(Own(c)) /\ rd[c].original \in Nat /\ rd[c].consumed \in Nat
  BY DriverFields DEF DriversTyped
<1>3. room \in Nat
  <2>1. Len(rd[c].returned) \in Nat
    BY <1>2, LenProperties
  <2> QED BY <1>1, <2>1 DEF Monus
<1>4. /\ rd[c].clocked >= Floor(c) /\ rd[c].original + rd[c].consumed <= rd[c].clocked
      /\ Covered(rd[c].clocked, rd[c].returned)
  BY DEF Data, Started, ReadPhase, CoveredAt
<1>5. /\ from \in Nat /\ n \in Nat /\ from + n <= end_offset
      /\ chunk \in Seq(Own(c)) /\ Len(chunk) = n /\ DOMAIN chunk = 1 .. n
      /\ from >= rd[c].clocked /\ Covered(from, rd[c].returned)
  <2>1. from = SliceFrom(rd[c].clocked) /\ n = SliceLen(rd[c].clocked, room)
    OBVIOUS
  <2> HIDE DEF from, n, room
  <2>2. /\ from \in Nat /\ n \in Nat /\ from + n <= end_offset
        /\ chunk \in Seq(Own(c)) /\ Len(chunk) = n /\ DOMAIN chunk = 1 .. n
    BY <1>2, <1>3, <1>4, <2>1, SliceOwn
  <2>3. from >= rd[c].clocked /\ Covered(from, rd[c].returned)
    BY <1>2, <1>3, <1>4, <2>1, SliceCovers
  <2> QED BY <2>2, <2>3
<1>6. Spurious(c, from, n) \/ LiveRaw(c, from, n) \/ LiveFramed(c, from, n)
  BY DEF Data
<1> HIDE DEF from, n
<1>7. /\ d \in Driver(Own(c)) /\ d.original = rd[c].original /\ d.clocked = from + n
      /\ d.consumed <= rd[c].consumed + n /\ d.returned = rd[c].returned \o chunk
      /\ d.consumed \in Nat
  <2>1. /\ d \in Driver(Own(c)) /\ d.original = rd[c].original /\ d.clocked = from + n
        /\ d.consumed <= rd[c].consumed + n /\ d.returned = rd[c].returned \o chunk
    <3>1. rd[c] \in Driver(Own(c)) /\ from \in Nat /\ n \in Nat /\ Offsets(from, n) \in Seq(Own(c))
      BY <1>2, <1>5
    <3> QED BY <1>1, <3>1, AfterLiveTyped, Zenon
  <2> HIDE DEF d
  <2>2. d.consumed \in Nat
    BY <2>1, DriverFields
  <2> QED BY <2>1, <2>2
<1>8. Covered(from + n, d.returned)
  <2>1. \A o : /\ Holds(rd[c].returned, o) => Holds(rd[c].returned \o chunk, o)
               /\ Holds(chunk, o) => Holds(rd[c].returned \o chunk, o)
    <3> HIDE DEF chunk
    <3> QED BY <1>2, <1>5, HoldsConcat
  <2>2. SubSeq(chunk, 1, n) = chunk
    <3> HIDE DEF chunk
    <3> QED BY <1>5, SubSeqFull
  <2>3. \A o : Holds(SubSeq(Offsets(from, n), 1, n), o) => Holds(rd[c].returned \o chunk, o)
    BY <2>1, <2>2
  <2>4. n \in 0 .. n
    BY <1>5
  <2>5. Covered(from + n, rd[c].returned \o chunk)
    <3> DEFINE longer == rd[c].returned \o chunk
    <3>1. /\ \A o : Holds(rd[c].returned, o) => Holds(longer, o)
          /\ \A o : Holds(SubSeq(Offsets(from, n), 1, n), o) => Holds(longer, o)
      BY <2>1, <2>3
    <3> HIDE DEF longer
    <3>2. Covered(from + n, longer)
      BY <1>5, <2>4, <3>1, SliceAdds
    <3> QED BY <3>2 DEF longer
  <2> QED BY <1>7, <2>5
<1>9. d.original + d.consumed <= d.clocked
  <2> HIDE DEF d
  <2> QED BY <1>2, <1>4, <1>5, <1>7, SMTT(20)
<1>10. ASSUME NEW a \in Nat, NEW b \in Nat, a + b <= from + n
       PROVE  advance_private_cursor(a, b) \in Nat /\ Covered(advance_private_cursor(a, b), d.returned)
  <2>1. advance_private_cursor(a, b) \in Nat /\ advance_private_cursor(a, b) <= a + b
    BY AdvanceNat
  <2>2. advance_private_cursor(a, b) <= from + n /\ from + n \in Nat
    BY <1>5, <1>10, <2>1
  <2> HIDE DEF d
  <2> QED BY <1>8, <2>1, <2>2, CoveredLess
<1>11. from + n <= from + n /\ d.original \in Nat
  BY <1>2, <1>5, <1>7
<1>12. Request(c).match # "context" /\ ~ (Matching(c) /\ Request(c).framed)
  BY LosslessRead DEF Data, ReadPhase
<1> HIDE DEF d
<1>13. CASE Spurious(c, from, n)
  <2>1. rd = [rd EXCEPT ![c] = rd[c]]
    BY DEF DriversTyped
  <2>2. CoveredAt(rd[c], "checking")
    BY <1>4 DEF CoveredAt
  <2> QED BY <1>13, <2>1, <2>2 DEF Spurious, Accounts
<1>14. CASE LiveRaw(c, from, n)
  <2> DEFINE final == advance_private_cursor(from, n)
  <2>1. \/ Completes(c, d, Matched(d.returned, final))
        \/ Completes(c, d, Plain("max_buffered_bytes", final))
        \/ Continues(c, d)
    BY <1>12, <1>14 DEF LiveRaw, d
  <2>2. final \in Nat /\ Covered(final, d.returned)
    BY <1>5, <1>10, <1>11
  <2> HIDE DEF final
  <2>3. /\ Matched(d.returned, final) \in Completion(Own(c))
        /\ Plain("max_buffered_bytes", final) \in Completion(Own(c))
    BY <1>7, <2>2, CompletionTyped, DriverFields DEF Reasons
  <2>4. /\ Matched(d.returned, final).final = final /\ Matched(d.returned, final).payload = d.returned
        /\ Plain("max_buffered_bytes", final).final = final
        /\ Plain("max_buffered_bytes", final).override = FALSE
    BY DEF Matched, Plain, NoCompletion
  <2>5. CASE Completes(c, d, Matched(d.returned, final))
    BY <1>7, <2>2, <2>3, <2>4, <2>5, CompletesAccounts
  <2>6. CASE Completes(c, d, Plain("max_buffered_bytes", final))
    BY <1>7, <2>2, <2>3, <2>4, <2>6, CompletesAccounts
  <2>7. CASE Continues(c, d)
    BY <1>7, <1>8, <1>9, <2>7, ContinuesAccounts
  <2> QED BY <2>1, <2>5, <2>6, <2>7
<1>15. CASE LiveFramed(c, from, n)
  <2> DEFINE bytes == rd[c].undecoded \o chunk
             final == advance_private_cursor(from, n)
             edge == advance_private_cursor(d.original, d.consumed)
             stop == FramedStop(c, d, bytes, final)
             drained == Plain("drained", edge)
  <2>1. bytes \in Seq(Own(c))
    BY <1>2, <1>5, ConcatProperties
  <2>2. ~ Matching(c) /\ LiveFramedStep(c, d, bytes, stop)
    BY <1>12, <1>15 DEF LiveFramed, d
  <2>3. final \in Nat /\ Covered(final, d.returned)
    BY <1>5, <1>10, <1>11
  <2>4. edge \in Nat /\ Covered(edge, d.returned)
    BY <1>7, <1>9, <1>10, <1>11
  <2>5. stop = NoCompletion \/ (stop.final = final /\ stop.override = FALSE)
    <3> HIDE DEF bytes, final
    <3> QED BY <2>2, FramedStopPlain
  <2> HIDE DEF bytes, final, edge
  <2>6. stop \in Completion(Own(c))
    BY <2>1, <2>3, FramedStopTyped
  <2>7. drained \in Completion(Own(c)) /\ drained.final = edge /\ drained.override = FALSE
    BY <2>4, CompletionTyped DEF Reasons, Plain, NoCompletion
  <2>8. /\ Decoded(d, bytes) \in Driver(Own(c))
        /\ Decoded(d, bytes).original = d.original /\ Decoded(d, bytes).clocked = d.clocked
        /\ Decoded(d, bytes).consumed = d.consumed /\ Decoded(d, bytes).returned = d.returned
    BY <1>7, <2>1, DecodedTyped
  <2> HIDE DEF stop
  <2>9. \/ stop # NoCompletion /\ Completes(c, Decoded(d, bytes), stop)
        \/ Completes(c, Decoded(d, bytes), drained)
        \/ Continues(c, Decoded(d, bytes))
    BY <2>2 DEF LiveFramedStep, edge
  <2> HIDE DEF drained
  <2>10. CASE stop # NoCompletion /\ Completes(c, Decoded(d, bytes), stop)
    BY <2>3, <2>5, <2>6, <2>8, <2>10, CompletesAccounts
  <2>11. CASE Completes(c, Decoded(d, bytes), drained)
    BY <2>4, <2>7, <2>8, <2>11, CompletesAccounts
  <2>12. CASE Continues(c, Decoded(d, bytes))
    BY <1>7, <1>8, <1>9, <2>8, <2>12, ContinuesAccounts
  <2> QED BY <2>9, <2>10, <2>11, <2>12
<1> QED BY <1>6, <1>13, <1>14, <1>15

LEMMA WaitAccounts ==
  ASSUME Typed, DriversTyped, Started, NEW c \in Calls, CoveredAt(rd[c], pc[c]),
         \/ StopClosed(c) \/ StopTimeout(c) \/ StopSilence(c) \/ StopCancelled(c)
         \/ GoWait(c) \/ Poll(c) \/ CompleteRead(c)
  PROVE  Accounts(c)
<1>1. /\ rd[c] \in Driver(Own(c)) /\ rd[c].original \in Nat /\ rd[c].consumed \in Nat
      /\ rd[c].clocked \in Nat /\ rd = [rd EXCEPT ![c] = rd[c]]
  BY DriverFields DEF DriversTyped
<1>2. CASE StopClosed(c) \/ StopTimeout(c) \/ StopSilence(c) \/ StopCancelled(c)
  <2>1. /\ rd[c].original + rd[c].consumed <= rd[c].clocked /\ Covered(rd[c].clocked, rd[c].returned)
        /\ \E reason \in Reasons : Completes(c, rd[c], Plain(reason, Consumed(c)))
    BY <1>2 DEF StopClosed, StopTimeout, StopSilence, StopCancelled, CheckStops, Reasons, CoveredAt
  <2>2. /\ Consumed(c) \in Nat /\ Consumed(c) <= rd[c].original + rd[c].consumed
    BY <1>1, AdvanceNat DEF Consumed
  <2> HIDE DEF Consumed
  <2>3. Consumed(c) <= rd[c].clocked
    BY <1>1, <2>1, <2>2
  <2>4. Covered(Consumed(c), rd[c].returned)
    BY <1>1, <2>1, <2>2, <2>3, CoveredLess
  <2>5. PICK reason \in Reasons : Completes(c, rd[c], Plain(reason, Consumed(c)))
    BY <2>1
  <2>6. /\ Plain(reason, Consumed(c)) \in Completion(Own(c))
        /\ Plain(reason, Consumed(c)).final = Consumed(c) /\ Plain(reason, Consumed(c)).override = FALSE
    BY <2>2, CompletionTyped DEF Plain, NoCompletion
  <2> HIDE DEF Plain
  <2> QED BY <1>1, <2>4, <2>5, <2>6, CompletesAccounts
<1>3. CASE GoWait(c) \/ Poll(c)
  <2>1. PICK l \in {"checking", "waiting"} : pc' = [pc EXCEPT ![c] = l] /\ rd' = rd
    BY <1>3 DEF GoWait, Poll
  <2>2. CoveredAt(rd[c], l)
    BY <1>3, <2>1 DEF GoWait, Poll, CoveredAt
  <2> QED BY <1>1, <2>1, <2>2 DEF Accounts
<1>4. CASE CompleteRead(c)
  <2> DEFINE outcome == into_outcome(rd[c], Request(c).max)
             d == [rd[c] EXCEPT !.outcome = outcome]
  <2>1. rd' = [rd EXCEPT ![c] = d] /\ pc' = [pc EXCEPT ![c] = "storing"] /\ pc[c] = "completing"
    BY <1>4 DEF CompleteRead
  <2>2. outcome.bytes = IF rd[c].completion.override THEN rd[c].completion.payload ELSE rd[c].returned
    BY DEF into_outcome
  <2>3. outcome.bytes = rd[c].returned /\ Covered(rd[c].completion.final, rd[c].returned)
    BY <2>1, <2>2 DEF CoveredAt
  <2> HIDE DEF outcome
  <2>4. d.completion = rd[c].completion /\ d.outcome = outcome
    BY <1>1 DEF Driver
  <2> HIDE DEF d
  <2>5. CoveredAt(d, "storing")
    BY <2>3, <2>4 DEF CoveredAt
  <2> QED BY <2>1, <2>5 DEF Accounts
<1> QED BY <1>2, <1>3, <1>4

(* What the calls account for, they account for later.                     *)
LEMMA CoveredAtLater ==
  ASSUME Typed, Typed', end_offset' >= end_offset, ring_start' >= ring_start,
         accounted \subseteq accounted', NEW S, NEW d \in Driver(S), NEW label, CoveredAt(d, label)
  PROVE  CoveredAt(d, label)'
<1>1. d.original \in Nat /\ d.clocked \in Nat /\ d.completion.final \in Nat
  BY DriverFields
<1>2. ASSUME NEW upto \in Nat, NEW seq, Covered(upto, seq) PROVE Covered(upto, seq)'
  BY <1>2, CoveredLater
<1> QED BY <1>1, <1>2 DEF CoveredAt

(* One call moves, the others only see the ring and the results grow.      *)
LEMMA GapFrame ==
  ASSUME CaptureInvariant, CaptureInvariant', NoGap, AllLossless,
         end_offset' >= end_offset, ring_start' >= ring_start, accounted \subseteq accounted',
         Covered(read_cursor, <<>>)',
         \A k \in Calls : \/ rd'[k] = rd[k] /\ pc'[k] = pc[k]
                          \/ CoveredAt(rd[k], pc[k])'
  PROVE  NoGap'
<1>1. ASSUME NEW k \in Calls, rd'[k] = rd[k], pc'[k] = pc[k] PROVE CoveredAt(rd[k], pc[k])'
  <2>1. CoveredAt(rd[k], pc[k]) /\ rd[k] \in Driver(Own(k))
    BY DEF NoGap, CaptureInvariant, DriversTyped
  <2> DEFINE d == rd[k]
             label == pc[k]
  <2>2. \A e \in Driver(Own(k)), l \in {label} : CoveredAt(e, l) => CoveredAt(e, l)'
    BY CoveredAtLater DEF CaptureInvariant
  <2>3. rd'[k] \in Driver(Own(k)) /\ pc'[k] \in {label} /\ CoveredAt(rd'[k], pc'[k])
    BY <1>1, <2>1
  <2>4. CoveredAt(rd[k], pc[k])' <=> \E e \in {rd'[k]}, l \in {pc'[k]} : CoveredAt(e, l)'
    BY DEF CoveredAt, Covered
  <2> QED BY <2>2, <2>3, <2>4
<1> QED BY <1>1 DEF NoGap

(* The pump, the link, time, and whatever else leaves the calls alone.     *)
LEMMA GapStill ==
  ASSUME CaptureInvariant, CaptureInvariant', NoGap, AllLossless,
         UNCHANGED <<rd, pc, read_cursor, accounted>>,
         end_offset' >= end_offset, ring_start' >= ring_start
  PROVE  NoGap'
<1>1. Covered(read_cursor, <<>>) /\ read_cursor \in Nat
  BY DEF NoGap, CaptureInvariant, Typed
<1>2. \A upto \in Nat : Covered(upto, <<>>) => Covered(upto, <<>>)'
  BY CoveredLater DEF CaptureInvariant
<1>3. Covered(read_cursor, <<>>)'
  BY <1>1, <1>2 DEF Covered
<1> QED BY <1>3, GapFrame

(* A step of the read.                                                     *)
LEMMA GapAccounts ==
  ASSUME CaptureInvariant, CaptureInvariant', NoGap, AllLossless, NEW c \in Calls, Accounts(c),
         UNCHANGED <<stream, ring_start, read_cursor, accounted>>
  PROVE  NoGap'
<1>1. PICK d, l : /\ rd' = [rd EXCEPT ![c] = d] /\ pc' = [pc EXCEPT ![c] = l]
                  /\ CoveredAt(d, l)
  BY DEF Accounts
<1>2. rd'[c] = d /\ pc'[c] = l /\ \A k \in Calls \ {c} : rd'[k] = rd[k] /\ pc'[k] = pc[k]
  BY <1>1 DEF CaptureInvariant, Typed, DriversTyped
<1>3. end_offset' = end_offset /\ end_offset \in Nat /\ ring_start \in Nat
  BY FloorNat DEF end_offset, CaptureInvariant, Typed
<1>4. CoveredAt(rd[c], pc[c])'
  BY <1>1, <1>2, <1>3 DEF CoveredAt, Covered
<1>5. Covered(read_cursor, <<>>)'
  BY <1>3 DEF NoGap, Covered
<1>6. end_offset' >= end_offset /\ ring_start' >= ring_start
  <2> HIDE DEF end_offset
  <2> QED BY <1>3
<1> QED BY <1>2, <1>4, <1>5, <1>6, GapFrame

(* The steps of a call outside its read.                                   *)
LEMMA GapAside ==
  ASSUME CaptureInvariant, CaptureInvariant', NoGap, AllLossless, NEW c \in Calls,
         NEW l \in Labels \ ReadPhase, pc' = [pc EXCEPT ![c] = l],
         UNCHANGED <<stream, rd>>, ring_start' \in {ring_start, end_offset},
         accounted \subseteq accounted', Covered(read_cursor, <<>>)'
  PROVE  NoGap'
<1>1. pc'[c] = l /\ \A k \in Calls \ {c} : rd'[k] = rd[k] /\ pc'[k] = pc[k]
  BY DEF CaptureInvariant, Typed
<1>2. CoveredAt(rd[c], pc[c])'
  BY <1>1 DEF CoveredAt, ReadPhase
<1>3. end_offset' = end_offset /\ end_offset \in Nat /\ ring_start \in 0 .. end_offset
  BY FloorNat DEF end_offset, CaptureInvariant, Typed
<1>4. end_offset' >= end_offset /\ ring_start' >= ring_start
  <2> HIDE DEF end_offset
  <2> QED BY <1>3
<1> QED BY <1>1, <1>2, <1>4, GapFrame

LEMMA GapReadStep ==
  ASSUME CaptureInvariant, CaptureInvariant', NoGap, AllLossless, NEW c \in Calls,
         ReadStep(c) \/ Poll(c)
  PROVE  NoGap'
<1> USE DEF ringv
<1>1. /\ Typed /\ DriversTyped /\ Started /\ CoveredAt(rd[c], pc[c]) /\ Covered(read_cursor, <<>>)
      /\ Request(c).tool \in {"read", "flush"} /\ Lossless(Request(c))
  BY DEF CaptureInvariant, NoGap, AllLossless
<1>2. end_offset \in Nat /\ ring_start \in 0 .. end_offset
  BY <1>1, FloorNat DEF Typed
<1>3. CASE Begin(c) \/ Data(c) \/ StopClosed(c) \/ StopTimeout(c) \/ StopSilence(c) \/ StopCancelled(c)
           \/ GoWait(c) \/ Poll(c) \/ CompleteRead(c)
  <2>1. Accounts(c)
    BY <1>1, <1>3, BeginAccounts, DataAccounts, WaitAccounts
  <2>2. Driven(c)
    BY <1>1, <1>3, BeginDriven, DataDriven, WaitDriven
  <2>3. UNCHANGED <<stream, ring_start, read_cursor, accounted>>
    BY <2>2 DEF Driven
  <2> QED BY <2>1, <2>3, GapAccounts
<1>4. CASE ResolveFrom(c)
  <2> DEFINE x == InitialCursor(Request(c).from, Request(c).offset)
  <2>1. /\ read_cursor' = x /\ rd' = [rd EXCEPT ![c] = NewDriver(x, x)]
        /\ pc' = [pc EXCEPT ![c] = "resolved"]
        /\ UNCHANGED <<stream, ring_start, accounted>>
    BY <1>4 DEF ResolveFrom
  <2>2. Request(c).from \in {"cursor", "buffer_start"}
    BY <1>1, <1>4 DEF ResolveFrom, Lossless, Started
  <2>3. x \in {read_cursor, ring_start}
    BY <2>2 DEF InitialCursor
  <2> HIDE DEF x
  <2>4. Covered(ring_start, <<>>)
    <3> HIDE DEF end_offset
    <3> QED BY <1>2 DEF Covered
  <2>5. Covered(x, <<>>)
    BY <1>1, <2>3, <2>4
  <2>6. CoveredAt(NewDriver(x, x), "resolved")
    BY <2>5 DEF CoveredAt, NewDriver
  <2>7. /\ rd'[c] = NewDriver(x, x) /\ pc'[c] = "resolved"
        /\ \A k \in Calls \ {c} : rd'[k] = rd[k] /\ pc'[k] = pc[k]
    BY <1>1, <2>1 DEF Typed, DriversTyped
  <2>8. Covered(read_cursor, <<>>)'
    BY <2>1, <2>5 DEF Covered, end_offset
  <2>9. CoveredAt(rd[c], pc[c])'
    BY <2>1, <2>6, <2>7 DEF CoveredAt, Covered, end_offset
  <2>10. end_offset' >= end_offset /\ ring_start' >= ring_start
    <3>1. end_offset' = end_offset
      BY <2>1 DEF end_offset
    <3> HIDE DEF end_offset
    <3> QED BY <1>2, <2>1, <3>1
  <2> QED BY <2>1, <2>7, <2>8, <2>9, <2>10, GapFrame
<1>5. CASE TransactWrite(c) \/ RefuseWritten(c)
  BY <1>1, <1>5 DEF TransactWrite, RefuseWritten, Started
<1>6. CASE Refuse(c) \/ FlushOs(c)
  <2>1. PICK l \in {"failed", "flushed"} : pc' = [pc EXCEPT ![c] = l]
    BY <1>6 DEF Refuse, FlushOs
  <2>2. UNCHANGED <<stream, ring_start, read_cursor, rd, accounted>>
    BY <1>6 DEF Refuse, FlushOs
  <2>3. Covered(read_cursor, <<>>)'
    BY <1>1, <2>2 DEF Covered, end_offset
  <2>4. l \in Labels \ ReadPhase
    BY <2>1 DEF Labels, ReadPhase
  <2> QED BY <2>1, <2>2, <2>3, <2>4, GapAside
<1>7. CASE FlushRing(c)
  <2>1. /\ pc' = [pc EXCEPT ![c] = "cleared"] /\ ring_start' = end_offset
        /\ UNCHANGED <<stream, read_cursor, rd, accounted>>
    BY <1>7 DEF FlushRing
  <2>2. end_offset' = end_offset /\ read_cursor \in Nat
    BY <1>1, <2>1 DEF end_offset, Typed
  <2>3. read_cursor <= end_offset
    BY <1>1 DEF Covered
  <2>4. Covered(read_cursor, <<>>)'
    <3> HIDE DEF end_offset
    <3> QED BY <1>2, <2>1, <2>2, <2>3 DEF Covered
  <2>5. "cleared" \in Labels \ ReadPhase
    BY DEF Labels, ReadPhase
  <2> QED BY <2>1, <2>4, <2>5, GapAside
<1>8. CASE FlushCursor(c)
  <2>1. /\ pc' = [pc EXCEPT ![c] = "done"] /\ read_cursor' = end_offset
        /\ accounted' = accounted \cup 0 .. (end_offset - 1)
        /\ UNCHANGED <<stream, ring_start, rd>>
    BY <1>8 DEF FlushCursor
  <2>2. end_offset' = end_offset
    BY <2>1 DEF end_offset
  <2>3. Covered(read_cursor, <<>>)'
    <3> HIDE DEF end_offset
    <3> QED BY <1>2, <2>1, <2>2 DEF Covered
  <2>4. "done" \in Labels \ ReadPhase
    BY DEF Labels, ReadPhase
  <2> QED BY <2>1, <2>3, <2>4, GapAside
<1>9. CASE StoreCursor(c)
  <2> DEFINE bytes == rd[c].outcome.bytes
             final == rd[c].completion.final
  <2>1. /\ pc' = [pc EXCEPT ![c] = "done"] /\ read_cursor' = final
        /\ accounted' = accounted \cup {bytes[i] : i \in DOMAIN bytes}
        /\ UNCHANGED <<stream, ring_start, rd>>
        /\ Covered(final, bytes)
    BY <1>1, <1>9 DEF StoreCursor, CoveredAt
  <2>2. end_offset' = end_offset
    BY <2>1 DEF end_offset
  <2> HIDE DEF bytes, final
  <2>3. Covered(read_cursor, <<>>)'
    <3> HIDE DEF end_offset
    <3> QED BY <2>1, <2>2 DEF Covered, Holds
  <2>4. "done" \in Labels \ ReadPhase
    BY DEF Labels, ReadPhase
  <2> QED BY <2>1, <2>3, <2>4, GapAside
<1> QED BY <1>3, <1>4, <1>5, <1>6, <1>7, <1>8, <1>9 DEF ReadStep

LEMMA GapLineStep ==
  ASSUME CaptureInvariant, CaptureInvariant', NoGap, AllLossless, NEW c \in Calls, LineStep(c)
  PROVE  NoGap'
<1> USE DEF ringv, rest, lvars, At_
<1>1. ~ BootSettle(c)
  BY DEF BootSettle, CaptureInvariant, Started, BootPhase, Boot, AllLossless
<1>2. UNCHANGED <<stream, ring_start, read_cursor, rd, accounted>>
  BY <1>1 DEF LineStep, BootLock, BootGate, BootPurge, BootMark, BootAssert, BootRelease, BootDone,
              SetDtrRts, BreakAssert, BreakRelease
<1>3. \E l \in Labels \ ReadPhase : pc' = [pc EXCEPT ![c] = l]
  <2>1. \E l \in BootPhase \cup {"failed", "done", "breaking"} : pc' = [pc EXCEPT ![c] = l]
    BY <1>1 DEF LineStep, BootLock, BootGate, BootPurge, BootMark, BootAssert, BootRelease,
                release_reset_lines, BootDone, SetDtrRts, BreakAssert, BreakRelease, BootPhase
  <2>2. BootPhase \cup {"failed", "done", "breaking"} \subseteq Labels \ ReadPhase
    BY DEF Labels, BootPhase, ReadPhase
  <2> QED BY <2>1, <2>2
<1>4. Covered(read_cursor, <<>>)'
  BY <1>2 DEF NoGap, Covered, end_offset
<1> QED BY <1>2, <1>3, <1>4, GapAside

LEMMA GapStep == CaptureInvariant /\ CaptureInvariant' /\ NoGap /\ [Next]_allvars => NoGap'
<1> SUFFICES ASSUME CaptureInvariant, CaptureInvariant', NoGap, [Next]_allvars, AllLossless' PROVE NoGap'
  BY DEF NoGap
<1> USE DEF ringv
<1>1. end_offset \in Nat /\ end_offset' \in Nat /\ ring_start \in Nat /\ ring_start' \in Nat
  <2>1. end_offset \in Nat /\ end_offset' \in Nat
    BY LenProperties DEF CaptureInvariant, Typed, end_offset
  <2> HIDE DEF end_offset
  <2> QED BY <2>1 DEF CaptureInvariant, Typed
<1>2. work' = work
  <2>1. ASSUME ReadNext PROVE work' = work
    BY <2>1, ReadAside
  <2> QED BY <2>1 DEF Next, LineStep, BootLock, BootGate, BootPurge, BootMark, BootAssert, BootRelease,
                BootSettle, BootDone, SetDtrRts, BreakAssert, BreakRelease, rest, Background, Cleanup,
                BreakCleanup, allvars, vars
<1>3. AllLossless
  BY <1>2 DEF AllLossless, Request, Lossless
<1>4. ASSUME UNCHANGED <<rd, pc, read_cursor, accounted, stream, ring_start>> PROVE NoGap'
  <2>1. end_offset' >= end_offset /\ ring_start' >= ring_start
    <3>1. end_offset' = end_offset
      BY <1>4 DEF end_offset
    <3> HIDE DEF end_offset
    <3> QED BY <1>1, <1>4, <3>1
  <2> QED BY <1>3, <1>4, <2>1, GapStill
<1>5. CASE ReadNext
  <2>1. CASE \/ Emit \/ Drop \/ Reconnect \/ Close
             \/ \E n \in 1 .. Len(os_input) : PumpRead(n)
    BY <1>4, <2>1 DEF Emit, Drop, Reconnect, Close, PumpRead
  <2>2. CASE PumpAppend
    <3>1. UNCHANGED <<rd, pc, read_cursor, accounted>>
      BY <2>2 DEF PumpAppend
    <3>2. end_offset' >= end_offset
      <4>1. stream \in Seq(Bytes) /\ pump_buf \in Seq(Bytes) /\ stream' = stream \o pump_buf
        BY <2>2 DEF PumpAppend, CaptureInvariant, Typed
      <4>2. Len(stream') = Len(stream) + Len(pump_buf) /\ Len(pump_buf) \in Nat /\ Len(stream) \in Nat
        BY <4>1, ConcatProperties, LenProperties
      <4> QED BY <4>2 DEF end_offset
    <3>3. ring_start' >= ring_start
      <4>1. ring_start' = Larger(ring_start, Monus(Len(stream'), Capacity))
        BY <2>2 DEF PumpAppend
      <4>2. PICK least : ring_start' = Larger(ring_start, least) /\ least \in Nat
        <5>1. Capacity \in Nat /\ Len(stream') \in Nat
          BY <1>1, ReadAssumption DEF end_offset
        <5> QED BY <4>1, <5>1 DEF Monus
      <4> QED BY <1>1, <4>2 DEF Larger
    <3> QED BY <1>3, <3>1, <3>2, <3>3, GapStill
  <2>3. ASSUME NEW c \in Calls, Deadline(c) \/ Silence(c) \/ Cancel(c) \/ PauseDisconnected(c) PROVE NoGap'
    BY <1>4, <2>3 DEF Deadline, Silence, Cancel, PauseDisconnected
  <2>4. ASSUME NEW c \in Calls, ReadStep(c) \/ Poll(c) PROVE NoGap'
    BY <1>3, <2>4, GapReadStep
  <2> QED BY <1>5, <2>1, <2>2, <2>3, <2>4 DEF ReadNext, Environment
<1>6. ASSUME NEW c \in Calls, LineStep(c) PROVE NoGap'
  BY <1>3, <1>6, GapLineStep
<1>7. ASSUME NEW c \in Calls, Background(c) PROVE NoGap'
  BY <1>4, <1>7 DEF Background, Cleanup, BreakCleanup
<1>8. CASE UNCHANGED allvars
  BY <1>4, <1>8 DEF allvars, vars
<1> QED BY <1>5, <1>6, <1>7, <1>8 DEF Next

(* Plain reads and flushes lose nothing between them, for any number of    *)
(* overlapping calls and any ring: a byte below the shared cursor that is  *)
(* still in the ring was delivered or flushed.  Every call keeps what it   *)
(* has taken next to the cursor it will store (clocked and returned, then  *)
(* final and the result), so the store never runs ahead of the delivery.   *)
THEOREM ReadsSkipNothing == Spec => []NothingSkipped
<1>1. LInit => NoGap
  <2> SUFFICES ASSUME LInit PROVE Covered(read_cursor, <<>>) /\ \A c \in Calls : CoveredAt(rd[c], pc[c])
    BY DEF NoGap
  <2>1. end_offset = 0 /\ read_cursor = 0 /\ ring_start = 0 /\ \A c \in Calls : pc[c] = "idle"
    BY EmptySeq DEF LInit, Init, end_offset
  <2> HIDE DEF end_offset
  <2> QED BY <2>1 DEF Covered, CoveredAt
<1>2. NoGap => NothingSkipped
  BY EmptySeq DEF NoGap, NothingSkipped, AllLossless, Covered, Holds
<1> QED BY <1>1, <1>2, CaptureInit, CaptureStep, GapStep, PTL DEF Spec

=============================================================================
