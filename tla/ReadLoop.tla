------------------------------ MODULE ReadLoop ------------------------------
(***************************************************************************)
(* The tool calls that take bytes out of one connection's receive ring:    *)
(* read, transact and flush (src/tools/io_ops.rs), the driver they share   *)
(* (src/tools/read_loop.rs) and its stop conditions                        *)
(* (src/stop_controller.rs, src/rx_metadata.rs).                           *)
(*                                                                         *)
(* The ring is what RxStream promises: an append-only stream of which the  *)
(* newest Capacity bytes can be read by offset.  A byte is its kind and    *)
(* the order in which the device sent it: "x" is ordinary, "m" is the      *)
(* pattern, "n" ends a frame and "e" is what a decoder refuses.  How real  *)
(* bytes are framed and matched is the subject of RxConsume.               *)
(*                                                                         *)
(* A step is what a call does between two points where another call, the   *)
(* pump or the link can run: the read of the cursor, the read of the ring, *)
(* the figures of the result and the store of the cursor are all separate. *)
(***************************************************************************)
EXTENDS Integers, Sequences, FiniteSets, Unsigned

CONSTANTS
  Calls,      \* tool calls on the connection
  Workloads,  \* what the calls ask for and what the device sends
  Capacity    \* bytes the ring retains

(* What a call can ask for, and what a device can send.                    *)
Requests ==
  [tool : {"none", "read", "transact", "flush", "capture_boot", "send_break", "set_dtr_rts"},
   from : {"cursor", "now", "buffer_start", "offset"}, offset : Nat, max : Nat,
   match : {"none", "literal", "regex", "context"}, framed : BOOLEAN, max_frames : Nat,
   timeout : BOOLEAN, silence : BOOLEAN, cancels : BOOLEAN, reset : BOOLEAN, refused : BOOLEAN]
Kinds == {"x", "m", "n", "e"}

ASSUME ReadAssumption ==
  /\ IsFiniteSet(Calls)
  /\ Capacity \in Nat \ {0}
  /\ Workloads \subseteq [requests : [Calls -> Requests], script : Seq(Kinds),
                          reconnect : BOOLEAN, drops : Nat, closes : BOOLEAN]

VARIABLES
  work,         \* the workload: requests, the device's script, reconnect policy,
                \* and bounds on how often the link is lost and closed
  sent,         \* number of bytes of the script the device has sent
  os_input,     \* bytes in the receive buffer of the operating system
  stream,       \* every byte ever appended to the ring
  ring_start,   \* offset of the oldest retained byte
  read_cursor,  \* RxSession.read_cursor
  state,        \* ConnectionState as the read loop sees it
  drops,        \* how often the link was lost
  pump_buf,     \* bytes the pump has read and not yet appended
  pump_gate,    \* the call that keeps the pump from reading, if any
  pc,           \* where each call is
  rd,           \* ReadDriver: the state of each call's read
  expired,      \* calls whose deadline has passed
  silent,       \* calls whose silence deadline has passed
  cancelled,    \* calls whose token is cancelled
  accounted     \* history: offsets delivered in a result or flushed

link  == <<state, drops>>
ringv == <<stream, ring_start>>
pumpv == <<pump_buf, pump_gate>>
timers == <<expired, silent, cancelled>>
vars == <<work, sent, os_input, pump_buf, ringv, read_cursor, link, pump_gate, pc, rd, timers, accounted>>

Request(c) == work.requests[c]
end_offset == Len(stream)
Byte(o) == stream[o + 1].kind

NoCompletion == [reason |-> "none", matched |-> FALSE, payload |-> <<>>, override |-> FALSE, final |-> 0]
NoOutcome == [bytes |-> <<>>, from_offset |-> 0, next_offset |-> 0, bytes_lost |-> 0, some |-> FALSE]

NewDriver(original, clocked) ==
  [original |-> original, clocked |-> clocked, consumed |-> 0, returned |-> <<>>,
   undecoded |-> <<>>, frames_seen |-> 0, completion |-> NoCompletion, outcome |-> NoOutcome]

Init ==
  /\ work \in Workloads
  /\ sent = 0 /\ os_input = <<>> /\ stream = <<>> /\ ring_start = 0
  /\ read_cursor = 0
  /\ state = "Open" /\ drops = 0
  /\ pump_buf = <<>> /\ pump_gate = {}
  /\ pc = [c \in Calls |-> "idle"]
  /\ rd = [c \in Calls |-> NewDriver(0, 0)]
  /\ expired = {} /\ silent = {} /\ cancelled = {}
  /\ accounted = {}

-----------------------------------------------------------------------------
(* The device, the link and the pump.                                      *)

Emit ==
  /\ state = "Open"
  /\ sent < Len(work.script)
  /\ sent' = sent + 1
  /\ os_input' = Append(os_input, [kind |-> work.script[sent + 1], nth |-> sent + 1])
  /\ UNCHANGED <<work, ringv, read_cursor, link, pumpv, pc, rd, timers, accounted>>

(* One round of pump_loop: the pump keeps the gate from the read, which    *)
(* may return less than the operating system has, until the append.        *)
PumpRead(n) ==
  /\ state = "Open" /\ pump_gate = {} /\ pump_buf = <<>>
  /\ n \in 1 .. Len(os_input)
  /\ pump_buf' = SubSeq(os_input, 1, n)
  /\ os_input' = SubSeq(os_input, n + 1, Len(os_input))
  /\ UNCHANGED <<work, sent, ringv, read_cursor, link, pump_gate, pc, rd, timers, accounted>>

PumpAppend ==
  /\ pump_buf # <<>>
  /\ stream' = stream \o pump_buf
  /\ ring_start' = Larger(ring_start, Monus(Len(stream'), Capacity))
  /\ pump_buf' = <<>>
  /\ UNCHANGED <<work, sent, os_input, read_cursor, link, pump_gate, pc, rd, timers, accounted>>

Drop ==
  /\ state = "Open" /\ drops < work.drops
  /\ state' = "Disconnected" /\ drops' = drops + 1 /\ os_input' = <<>>
  /\ UNCHANGED <<work, sent, ringv, read_cursor, pumpv, pc, rd, timers, accounted>>

Reconnect ==
  /\ state = "Disconnected" /\ work.reconnect
  /\ state' = "Open"
  /\ UNCHANGED <<work, sent, os_input, ringv, read_cursor, drops, pumpv, pc, rd, timers, accounted>>

Close ==
  /\ state # "Closed" /\ work.closes
  /\ state' = "Closed" /\ os_input' = <<>>
  /\ UNCHANGED <<work, sent, ringv, read_cursor, drops, pumpv, pc, rd, timers, accounted>>

-----------------------------------------------------------------------------
(* Time and the client.                                                    *)

Reading == {"checking", "waiting"}

Deadline(c) ==
  /\ pc[c] \in Reading /\ Request(c).timeout /\ c \notin expired
  /\ expired' = expired \cup {c}
  /\ UNCHANGED <<work, sent, os_input, ringv, read_cursor, link, pumpv, pc, rd, silent, cancelled, accounted>>

Silence(c) ==
  /\ pc[c] \in Reading /\ Request(c).silence /\ c \notin silent
  /\ silent' = silent \cup {c}
  /\ UNCHANGED <<work, sent, os_input, ringv, read_cursor, link, pumpv, pc, rd, expired, cancelled, accounted>>

Cancel(c) ==
  /\ pc[c] \notin {"idle", "done", "failed"} /\ Request(c).cancels /\ c \notin cancelled
  /\ cancelled' = cancelled \cup {c}
  /\ UNCHANGED <<work, sent, os_input, ringv, read_cursor, link, pumpv, pc, rd, expired, silent, accounted>>

-----------------------------------------------------------------------------
(* RxRing::read_from, as offsets: from where the cursor falls in the       *)
(* retained part of the stream.                                            *)
SliceFrom(cursor) == Smaller(Larger(cursor, ring_start), end_offset)
SliceLen(cursor, max) == Smaller(max, end_offset - SliceFrom(cursor))
Offsets(from, n) == [i \in 1 .. n |-> from + i - 1]

(* Where a pattern, a frame end or a malformed byte is among these bytes.  *)
At(bytes, kind) == {i \in DOMAIN bytes : Byte(bytes[i]) = kind}
First(S) == CHOOSE i \in S : \A j \in S : i <= j

(* FrameDecoder and consume_frames on undecoded bytes plus a new chunk: a  *)
(* malformed byte ends the decoding, the frames before it count.           *)
Bad(bytes) == At(bytes, "e")
Ends(bytes) == {i \in At(bytes, "n") : \A j \in Bad(bytes) : i < j}
Hits(bytes) == {i \in Ends(bytes) : \E j \in At(bytes, "m") :
                   j < i /\ \A k \in Ends(bytes) : ~(j < k /\ k < i)}
FrameUpTo(bytes, i) ==
  LET start == {k \in Ends(bytes) : k < i}
      from == IF start = {} THEN 1 ELSE 1 + CHOOSE k \in start : \A j \in start : j <= k
  IN  SubSeq(bytes, from, i - 1)
Undecoded(bytes) ==
  LET ends == Ends(bytes)
  IN  IF ends = {} THEN bytes
      ELSE SubSeq(bytes, 1 + CHOOSE k \in ends : \A j \in ends : j <= k, Len(bytes))

-----------------------------------------------------------------------------
(* Completions.  `final` is the cursor the call leaves behind.             *)

(* Slip: the cursor goes to the live edge.                                *)
AdvanceToEdge(base, consumed) == end_offset

advance_private_cursor(base, consumed) == Smaller(base + consumed, end_offset)

Plain(reason, final) == [NoCompletion EXCEPT !.reason = reason, !.final = final]
Matched(payload, final) ==
  [reason |-> "match_found", matched |-> TRUE, payload |-> payload, override |-> TRUE, final |-> final]

Completes(c, d, completion) ==
  /\ rd' = [rd EXCEPT ![c] = [d EXCEPT !.completion = completion]]
  /\ pc' = [pc EXCEPT ![c] = "completing"]

Continues(c, d) ==
  /\ rd' = [rd EXCEPT ![c] = d]
  /\ pc' = [pc EXCEPT ![c] = "checking"]

Heard(c) == silent' = silent \ {c} /\ UNCHANGED <<expired, cancelled>>

-----------------------------------------------------------------------------
(* The handlers up to the read.                                            *)

(* transact: the TX session has written the request.                       *)
TransactWrite(c) ==
  /\ pc[c] = "idle" /\ Request(c).tool = "transact" /\ state = "Open"
  /\ pc' = [pc EXCEPT ![c] = "written"]
  /\ UNCHANGED <<work, sent, os_input, ringv, read_cursor, link, pumpv, rd, timers, accounted>>

InitialCursor(from, offset) ==
  CASE from = "now" -> end_offset
    [] from = "cursor" -> read_cursor
    [] from = "buffer_start" -> ring_start
    [] from = "offset" -> offset

(* The call is refused: its arguments are not valid, the budget has no     *)
(* room for its answer, or the port is not open for writing.               *)
Refuse(c) ==
  /\ pc[c] = "idle"
  /\ \/ Request(c).tool = "read" /\ Request(c).refused
     \/ Request(c).tool \in {"transact", "flush"} /\ state # "Open"
  /\ pc' = [pc EXCEPT ![c] = "failed"]
  /\ UNCHANGED <<work, sent, os_input, ringv, read_cursor, link, pumpv, rd, timers, accounted>>

(* transact finds out after it has written: without room in the budget the *)
(* cursor stays, but a pattern is only compiled when it has been moved.    *)
RefuseWritten(c) ==
  /\ pc[c] = "written" /\ Request(c).refused
  /\ read_cursor' \in {read_cursor, InitialCursor(Request(c).from, Request(c).offset)}
  /\ pc' = [pc EXCEPT ![c] = "failed"]
  /\ UNCHANGED <<work, sent, os_input, ringv, link, pumpv, rd, timers, accounted>>

(* `from` is resolved and stored in the shared cursor.                     *)
ResolveFrom(c) ==
  /\ \/ pc[c] = "idle" /\ Request(c).tool = "read"
     \/ pc[c] = "written"
  /\ ~Request(c).refused
  /\ read_cursor' = InitialCursor(Request(c).from, Request(c).offset)
  /\ rd' = [rd EXCEPT ![c] = NewDriver(read_cursor', read_cursor')]
  /\ pc' = [pc EXCEPT ![c] = "resolved"]
  /\ UNCHANGED <<work, sent, os_input, ringv, link, pumpv, timers, accounted>>

(* flush: the buffers of the operating system, then the ring, and then the *)
(* cursor is set to wherever the ring ends by now.                         *)
FlushOs(c) ==
  /\ pc[c] = "idle" /\ Request(c).tool = "flush" /\ state = "Open"
  /\ os_input' = <<>>
  /\ pc' = [pc EXCEPT ![c] = "flushed"]
  /\ UNCHANGED <<work, sent, ringv, read_cursor, link, pumpv, rd, timers, accounted>>

FlushRing(c) ==
  /\ pc[c] = "flushed"
  /\ ring_start' = end_offset
  /\ pc' = [pc EXCEPT ![c] = "cleared"]
  /\ UNCHANGED <<work, sent, os_input, stream, read_cursor, link, pumpv, rd, timers, accounted>>

FlushCursor(c) ==
  /\ pc[c] = "cleared"
  /\ read_cursor' = end_offset
  /\ accounted' = accounted \cup 0 .. (end_offset - 1)
  /\ pc' = [pc EXCEPT ![c] = "done"]
  /\ UNCHANGED <<work, sent, os_input, ringv, link, pumpv, rd, timers>>

-----------------------------------------------------------------------------
(* process_initial on the slice that starts at the call's cursor.          *)

Matching(c) == Request(c).match # "none"

(* The cat path: buffered bytes are the answer.                            *)
Cat(c, from, n) ==
  /\ n > 0
  /\ ~Matching(c) /\ ~Request(c).framed
  /\ Completes(c, [rd[c] EXCEPT !.consumed = n, !.returned = Offsets(from, n)],
               Plain("drained", advance_private_cursor(from, n)))
  /\ UNCHANGED <<work, sent, os_input, ringv, read_cursor, link, pumpv, timers, accounted>>

(* The history has the pattern.  The answer ends with a literal pattern    *)
(* and before any other, whose length is not known; consumed_offset is not *)
(* set.  With context the result is made from the snapshot at once.        *)
MatchLen(c) == IF Request(c).match = "regex" THEN 0 ELSE 1

HistoryMatch(c, from, n) ==
  LET hist == Offsets(from, n)
      match_end == First(At(hist, "m")) - 1 + MatchLen(c)
      final == advance_private_cursor(from, match_end)
  IN  /\ Matching(c)
      /\ At(hist, "m") # {}
      /\ IF Request(c).match = "context"
         THEN /\ rd' = [rd EXCEPT ![c].completion = [Plain("match_found", final) EXCEPT !.matched = TRUE],
                                  ![c].outcome = [bytes |-> <<hist[match_end]>>, some |-> TRUE,
                                      from_offset |-> from, next_offset |-> from + match_end,
                                      bytes_lost |-> Monus(ring_start, rd[c].original)]]
              /\ pc' = [pc EXCEPT ![c] = "storing"]
         ELSE Completes(c, [rd[c] EXCEPT !.returned = SubSeq(hist, 1, match_end)],
                        [Plain("match_found", final) EXCEPT !.matched = TRUE])
      /\ UNCHANGED <<work, sent, os_input, ringv, read_cursor, link, pumpv, timers, accounted>>

(* process_framed_chunk: a match, then a decode error, then max_frames.    *)
FramedStop(c, d, bytes, final) ==
  CASE Matching(c) /\ Hits(bytes) # {} -> Matched(FrameUpTo(bytes, First(Hits(bytes))), final)
    [] (Matching(c) => Hits(bytes) = {}) /\ Bad(bytes) # {} -> Plain("framing_error", final)
    [] (Matching(c) => Hits(bytes) = {}) /\ Bad(bytes) = {}
          /\ Request(c).max_frames > 0
          /\ d.frames_seen + Cardinality(Ends(bytes)) >= Request(c).max_frames -> Plain("max_frames", final)
    [] OTHER -> NoCompletion

Decoded(d, bytes) ==
  [d EXCEPT !.undecoded = Undecoded(bytes), !.frames_seen = @ + Cardinality(Ends(bytes))]

(* No match in the history: it is consumed, once by the matcher and, when  *)
(* the call is framed, once more by the decoder.                           *)
AfterHistory(c, from, n) ==
  LET chunk == Offsets(from, n)
      times == IF Matching(c) /\ Request(c).framed THEN 2 ELSE 1
  IN  [rd[c] EXCEPT !.clocked = from + n, !.consumed = times * n,
                    !.returned = IF times = 2 THEN chunk \o chunk ELSE chunk]

InitialFramed(c, from, d, chunk, stop) ==
  IF stop = NoCompletion THEN Continues(c, Decoded(d, chunk))
  ELSE Completes(c, Decoded(d, chunk), stop)

HistoryNoMatch(c, from, n) ==
  LET d == AfterHistory(c, from, n)
      chunk == Offsets(from, n)
  IN  /\ n > 0
      /\ Matching(c) => At(chunk, "m") = {}
      /\ Matching(c) \/ Request(c).framed
      /\ IF Request(c).framed
         THEN InitialFramed(c, from, d, chunk,
                            FramedStop(c, d, chunk, advance_private_cursor(from, d.consumed)))
         ELSE Continues(c, d)
      /\ UNCHANGED <<work, sent, os_input, ringv, read_cursor, link, pumpv, timers, accounted>>

NoHistory(c, from, n) ==
  /\ n = 0
  /\ Continues(c, [rd[c] EXCEPT !.clocked = from])
  /\ UNCHANGED <<work, sent, os_input, ringv, read_cursor, link, pumpv, timers, accounted>>

-----------------------------------------------------------------------------
(* run_wait: the checks at the head of the loop.                           *)

Consumed(c) == advance_private_cursor(rd[c].original, rd[c].consumed)
CheckStops(c, reason) ==
  /\ pc[c] = "checking"
  /\ Completes(c, rd[c], Plain(reason, Consumed(c)))
  /\ UNCHANGED <<work, sent, os_input, ringv, read_cursor, link, pumpv, timers, accounted>>

Gone == state = "Closed" \/ (state = "Disconnected" /\ ~work.reconnect)

StopClosed(c) == Gone /\ CheckStops(c, "connection_closed")

(* Disconnected, but a reconnect is to be expected: the silence timer is   *)
(* restarted and the loop sleeps; no other condition is looked at.         *)
PauseDisconnected(c) ==
  /\ pc[c] = "checking" /\ state = "Disconnected" /\ work.reconnect
  /\ Heard(c)
  /\ UNCHANGED <<work, sent, os_input, ringv, read_cursor, link, pumpv, pc, rd, accounted>>

(* Slip: a call that has received something never times out.               *)
StopTimeoutEmpty(c) ==
  state = "Open" /\ c \in expired /\ rd[c].returned = <<>> /\ CheckStops(c, "timeout")

StopTimeout(c) == state = "Open" /\ c \in expired /\ CheckStops(c, "timeout")

StopSilence(c) ==
  state = "Open" /\ c \notin expired /\ c \in silent /\ CheckStops(c, "no_new_rx_timeout")

GoWait(c) ==
  /\ pc[c] = "checking" /\ state = "Open" /\ c \notin expired \cup silent
  /\ pc' = [pc EXCEPT ![c] = "waiting"]
  /\ UNCHANGED <<work, sent, os_input, ringv, read_cursor, link, pumpv, rd, timers, accounted>>

(* wait_for_ring_data: the poll, the token, or data past the cursor.       *)
Poll(c) ==
  /\ pc[c] = "waiting"
  /\ pc' = [pc EXCEPT ![c] = "checking"]
  /\ UNCHANGED <<work, sent, os_input, ringv, read_cursor, link, pumpv, rd, timers, accounted>>

StopCancelled(c) ==
  /\ pc[c] = "waiting" /\ c \in cancelled
  /\ Completes(c, rd[c], Plain("cancelled", Consumed(c)))
  /\ UNCHANGED <<work, sent, os_input, ringv, read_cursor, link, pumpv, timers, accounted>>

Spurious(c, from, n) ==
  /\ n = 0
  /\ pc' = [pc EXCEPT ![c] = "checking"]
  /\ UNCHANGED <<work, sent, os_input, ringv, read_cursor, link, pumpv, rd, timers, accounted>>

(* process_live_chunk.                                                     *)
AfterLive(c, from, n) ==
  [rd[c] EXCEPT !.clocked = from + n,
                !.consumed = Smaller(@ + n, Request(c).max),
                !.returned = @ \o Offsets(from, n)]

Full(c, d) == Len(d.returned) >= Request(c).max

LiveRaw(c, from, n) ==
  LET d == AfterLive(c, from, n)
      hits == At(Offsets(from, n), "m")
      shaped == <<from + First(hits) - 1>>
  IN  /\ n > 0 /\ ~Request(c).framed
      /\ \/ /\ Matching(c) /\ hits # {}
            /\ Completes(c, d, Matched(IF Request(c).match = "context" THEN shaped ELSE d.returned,
                                       advance_private_cursor(from, n)))
         \/ /\ Matching(c) => hits = {}
            /\ Full(c, d)
            /\ Completes(c, d, Plain("max_buffered_bytes", advance_private_cursor(from, n)))
         \/ /\ Matching(c) => hits = {}
            /\ ~Full(c, d)
            /\ Continues(c, d)
      /\ Heard(c)
      /\ UNCHANGED <<work, sent, os_input, ringv, read_cursor, link, pumpv, accounted>>

LiveFramedStep(c, d, bytes, stop) ==
  \/ stop # NoCompletion /\ Completes(c, Decoded(d, bytes), stop)
  \/ /\ stop = NoCompletion /\ Full(c, d)
     /\ Completes(c, Decoded(d, bytes), Plain("drained", advance_private_cursor(d.original, d.consumed)))
  \/ stop = NoCompletion /\ ~Full(c, d) /\ Continues(c, Decoded(d, bytes))

LiveFramed(c, from, n) ==
  LET d == AfterLive(c, from, n)
      bytes == rd[c].undecoded \o Offsets(from, n)
  IN  /\ n > 0 /\ Request(c).framed
      /\ LiveFramedStep(c, d, bytes, FramedStop(c, d, bytes, advance_private_cursor(from, n)))
      /\ Heard(c)
      /\ UNCHANGED <<work, sent, os_input, ringv, read_cursor, link, pumpv, accounted>>

-----------------------------------------------------------------------------
(* into_outcome takes its figures from the ring as it is now, the original *)
(* cursor and consumed_offset; only the bytes can be overridden.           *)
into_outcome(d, max) ==
  LET clamped_from == SliceFrom(d.original)
  IN  [bytes |-> IF d.completion.override THEN d.completion.payload ELSE d.returned,
       some |-> d.returned # <<>> \/ d.consumed # 0,
       from_offset |-> clamped_from,
       next_offset |-> clamped_from + Smaller(d.consumed, max),
       bytes_lost |-> Monus(ring_start, d.original)]

CompleteRead(c) ==
  /\ pc[c] = "completing"
  /\ rd' = [rd EXCEPT ![c].outcome = into_outcome(rd[c], Request(c).max)]
  /\ pc' = [pc EXCEPT ![c] = "storing"]
  /\ UNCHANGED <<work, sent, os_input, ringv, read_cursor, link, pumpv, timers, accounted>>

(* read_bytes_from_ring stores the cursor; capture_boot discards it.       *)
StoreCursor(c) ==
  /\ pc[c] = "storing" /\ Request(c).tool # "capture_boot"
  /\ read_cursor' = rd[c].completion.final
  /\ accounted' = accounted \cup {rd[c].outcome.bytes[i] : i \in DOMAIN rd[c].outcome.bytes}
  /\ pc' = [pc EXCEPT ![c] = "done"]
  /\ UNCHANGED <<work, sent, os_input, ringv, link, pumpv, rd, timers>>

-----------------------------------------------------------------------------
(* The first read of the ring, at the call's cursor.                       *)
Begin(c) ==
  /\ pc[c] = "resolved"
  /\ \E from \in {SliceFrom(rd[c].original)} :
     \E n \in {SliceLen(rd[c].original, Request(c).max)} :
        Cat(c, from, n) \/ HistoryMatch(c, from, n) \/ HistoryNoMatch(c, from, n) \/ NoHistory(c, from, n)

(* The ring has passed the clocked cursor; the slice is limited to what    *)
(* the answer still has room for.                                          *)
Data(c) ==
  /\ pc[c] = "waiting" /\ end_offset > rd[c].clocked
  /\ \E from \in {SliceFrom(rd[c].clocked)} :
     \E n \in {SliceLen(rd[c].clocked, Monus(Request(c).max, Len(rd[c].returned)))} :
        Spurious(c, from, n) \/ LiveRaw(c, from, n) \/ LiveFramed(c, from, n)

ReadStep(c) ==
  \/ TransactWrite(c) \/ Refuse(c) \/ RefuseWritten(c) \/ ResolveFrom(c)
  \/ FlushOs(c) \/ FlushRing(c) \/ FlushCursor(c)
  \/ Begin(c) \/ Data(c)
  \/ StopClosed(c) \/ StopTimeout(c) \/ StopSilence(c) \/ GoWait(c)
  \/ StopCancelled(c)
  \/ CompleteRead(c) \/ StoreCursor(c)

Environment ==
  \/ Emit \/ Drop \/ Reconnect \/ Close
  \/ \E n \in 1 .. Len(os_input) : PumpRead(n)
  \/ PumpAppend
  \/ \E c \in Calls : Deadline(c) \/ Silence(c) \/ Cancel(c) \/ PauseDisconnected(c) \/ Poll(c)

ReadNext == Environment \/ \E c \in Calls : ReadStep(c)

-----------------------------------------------------------------------------
Finished == {"idle", "done", "failed"}

(* Nothing is skipped (advance_private_cursor, process_live_chunk,         *)
(* process_initial): as long as every call starts at the shared cursor or  *)
(* at the start of the buffer, each byte below the cursor that is still in *)
(* the ring was in the result of some call or was flushed, whichever calls *)
(* overlap and wherever the ring wraps.  Two kinds of call are left out: a *)
(* live match with context drops what follows it in its chunk, and a       *)
(* framed call with a pattern counts its history twice.                    *)
Lossless(r) == r.tool = "flush" \/ (/\ r.from \in {"cursor", "buffer_start"}
                                    /\ r.match # "context"
                                    /\ ~(r.framed /\ r.match # "none"))

NothingSkipped ==
  (/\ \A c \in Calls : Request(c).tool \in {"read", "flush"} /\ Lossless(Request(c))
   /\ \A c \in Calls : pc[c] \in Finished)
  => \A o \in ring_start .. (read_cursor - 1) : o \in accounted

(* Every call with a timeout ends, whatever the link, the device and the   *)
(* other calls do (run_wait, check_timeout): neither a trickle of data nor *)
(* a disconnect that is eventually repaired keeps it going.                *)
ReadEnds ==
  \A c \in Calls : (pc[c] \notin Finished /\ Request(c).timeout) ~> pc[c] \in Finished
=============================================================================
