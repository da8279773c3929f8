---------------------------- MODULE FrameDecoder -----------------------------
(***************************************************************************)
(* The stateful RX decoder of src/framing/decoder.rs.  A decoder value is  *)
(* the record of its buffer, its mode state and its frame count; a push    *)
(* returns the next decoder together with the frames, the number of frames *)
(* dropped for their checksum and the stream-fatal error, if any.          *)
(***************************************************************************)
EXTENDS Parsers

NoError == "none"
NoLength == -1

(* FrameDecoder::new, for a configuration it accepts. *)
AcceptedConfig(c) ==
    CASE c.mode.type = "delimiter" -> c.mode.delimiter # << >>
      [] c.mode.type = "length_prefixed" -> c.mode.prefix_size \in {1, 2, 4}
      [] c.mode.type = "start_end" ->
            /\ c.mode.start # << >> /\ c.mode.end # << >>
            /\ \A i \in DOMAIN c.mode.start : c.mode.start[i] # << >>
      [] OTHER -> TRUE

NewState(mode) ==
    CASE mode.type = "line" ->
            [st |-> CASE mode.ending = "auto" -> "AutoLf" [] mode.ending = "lf" -> "Lf"
                      [] mode.ending = "cr" -> "Cr" [] mode.ending = "crlf" -> "Crlf",
             cr_pos |-> 0]
      [] mode.type = "delimiter" -> [st |-> "Delimiter"]
      [] mode.type = "length_prefixed" ->
            [remaining_offset |-> mode.initial_offset, next_payload_len |-> NoLength]
      [] mode.type = "start_end" -> [in_frame |-> FALSE]
      [] mode.type = "slip" -> [st |-> "BeforeFirstEnd", buf |-> << >>, escaped |-> FALSE]
      [] mode.type = "cobs" ->
            [st |-> "BeforeFirstDelim", decoded |-> << >>, remaining |-> 0, pending_zero |-> FALSE]

NewDecoder(c) == [buf |-> << >>, m |-> NewState(c.mode), frame_count |-> 0]

(* A push in progress: the decoder and what it has produced so far. *)
Pushing(d) == [d |-> d, frames |-> << >>, dropped |-> 0, error |-> NoError]

(* emit_frame: skip a blank frame, drop a checksum mismatch, else number   *)
(* the frame.  No parser of the code has another error.                    *)
Emit(p, data, result) ==
    IF result.mismatch THEN [p EXCEPT !.dropped = @ + 1]
    ELSE [p EXCEPT !.d.frame_count = @ + 1,
                   !.frames = Append(@, [data |-> data, index |-> p.d.frame_count,
                                         parsed |-> result.parsed])]

emit_frame(c, parser, p, data) ==
    IF c.skip_empty /\ is_blank_frame(data) THEN p ELSE Emit(p, data, parse(parser, data))

-----------------------------------------------------------------------------
(* SLIP: one byte at a time.  After a malformed escape the rest of the     *)
(* chunk stays in the buffer for the next push.                            *)
SlipByte(c, parser, p, b) ==
    LET m == p.d.m
        Push(x) == [p EXCEPT !.d.m.buf = Append(@, x), !.d.m.escaped = FALSE]
    IN  CASE p.error # NoError -> [p EXCEPT !.d.buf = Append(@, b)]
          [] p.error = NoError /\ m.st = "BeforeFirstEnd" ->
                IF b = SLIP_END THEN [p EXCEPT !.d.m = [st |-> "InFrame", buf |-> << >>, escaped |-> FALSE]]
                ELSE p
          [] p.error = NoError /\ m.st = "InFrame" /\ m.escaped ->
                IF b = SLIP_ESC_END THEN Push(SLIP_END)
                ELSE IF b = SLIP_ESC_ESC THEN Push(SLIP_ESC)
                ELSE [p EXCEPT !.d.m = [st |-> "BeforeFirstEnd", buf |-> << >>, escaped |-> FALSE],
                               !.error = "SlipInvalidEscape"]
          [] OTHER ->
                IF b = SLIP_END THEN emit_frame(c, parser, [p EXCEPT !.d.m.buf = << >>], m.buf)
                ELSE IF b = SLIP_ESC THEN [p EXCEPT !.d.m.escaped = TRUE]
                ELSE Push(b)

slip_decode(c, parser, p) ==
    FoldLeft(LAMBDA q, b : SlipByte(c, parser, q, b), [p EXCEPT !.d.buf = << >>], p.d.buf)

(* COBS: the implicit zero of a block is appended as soon as its data is   *)
(* complete; a zero byte is the delimiter only where a code is expected.   *)
CobsByte(c, parser, p, b) ==
    LET m == p.d.m
        Flush(q) == IF q.d.m.remaining = 0 /\ q.d.m.pending_zero
                    THEN [q EXCEPT !.d.m.decoded = Append(@, 0), !.d.m.pending_zero = FALSE] ELSE q
        data == IF m.decoded # << >> /\ m.decoded[Len(m.decoded)] = 0 THEN Front(m.decoded) ELSE m.decoded
        fresh == [st |-> "InFrame", decoded |-> << >>, remaining |-> 0, pending_zero |-> FALSE]
    IN  CASE m.st = "BeforeFirstDelim" -> IF b = 0 THEN [p EXCEPT !.d.m = fresh] ELSE p
          [] m.st = "InFrame" /\ m.remaining > 0 ->
                Flush([p EXCEPT !.d.m.decoded = Append(@, b), !.d.m.remaining = @ - 1])
          [] m.st = "InFrame" /\ m.remaining = 0 /\ b = 0 ->
                emit_frame(c, parser, [p EXCEPT !.d.m = [fresh EXCEPT !.st = "BeforeFirstDelim"]], data)
          [] OTHER ->
                Flush([p EXCEPT !.d.m.remaining = b - 1, !.d.m.pending_zero = (b # MaxByte)])

cobs_decode(c, parser, p) ==
    FoldLeft(LAMBDA q, b : CobsByte(c, parser, q, b), [p EXCEPT !.d.buf = << >>], p.d.buf)

-----------------------------------------------------------------------------
(* The buffered modes: a match takes one frame off the front of the        *)
(* buffer, or keeps the decoder waiting for more bytes.                    *)
Nothing(d) == [some |-> FALSE, d |-> d, frame |-> << >>]

take_frame(c, d, split_pos, term_len, m) ==
    [some |-> TRUE,
     frame |-> Take(d.buf, IF c.include_terminators THEN split_pos + term_len ELSE split_pos),
     d |-> [d EXCEPT !.buf = Drop(@, split_pos + term_len), !.m = m]]

(* extract_delimited, match_line_byte and match_line_crlf. *)
MatchTerminator(c, d, term) ==
    LET pos == find_subsequence(d.buf, term)
    IN  IF pos = NotFound THEN Nothing(d) ELSE take_frame(c, d, pos, Len(term), d.m)

(* A line feed anywhere in the buffer wins over an earlier bare CR. *)
match_auto_lf(c, d) ==
    LET lf == position(d.buf, LF)
        cr == position(d.buf, CR)
    IN  CASE lf # NotFound ->
                IF ~c.include_terminators /\ lf > 0 /\ d.buf[lf] = CR
                THEN take_frame(c, d, lf - 1, 2, d.m) ELSE take_frame(c, d, lf, 1, d.m)
          [] lf = NotFound /\ cr # NotFound /\ cr + 1 < Len(d.buf) ->
                take_frame(c, d, cr, 1, [d.m EXCEPT !.st = "CrMode"])
          [] lf = NotFound /\ cr # NotFound /\ cr + 1 = Len(d.buf) ->
                Nothing([d EXCEPT !.m = [st |-> "PendingCr", cr_pos |-> cr]])
          [] OTHER -> Nothing(d)

match_pending_cr(c, d) ==
    LET cr == d.m.cr_pos
    IN  IF cr + 1 >= Len(d.buf) THEN Nothing(d)
        ELSE IF d.buf[cr + 2] = LF THEN take_frame(c, d, cr, 2, [d.m EXCEPT !.st = "AutoLf"])
        ELSE take_frame(c, d, cr, 1, [d.m EXCEPT !.st = "CrMode"])

MatchLine(c, d) ==
    CASE d.m.st = "Lf" -> MatchTerminator(c, d, <<LF>>)
      [] d.m.st \in {"Cr", "CrMode"} -> MatchTerminator(c, d, <<CR>>)
      [] d.m.st = "Crlf" -> MatchTerminator(c, d, <<CR, LF>>)
      [] d.m.st = "AutoLf" -> match_auto_lf(c, d)
      [] d.m.st = "PendingCr" -> match_pending_cr(c, d)

MatchLength(c, d) ==
    LET size == c.mode.prefix_size
        skip == IF d.m.remaining_offset < Len(d.buf) THEN d.m.remaining_offset ELSE Len(d.buf)
        e == [d EXCEPT !.buf = Drop(@, skip), !.m.remaining_offset = @ - skip]
        known == IF e.m.next_payload_len = NoLength /\ Len(e.buf) >= size
                 THEN [e EXCEPT !.m.next_payload_len = read_length_prefix(Take(e.buf, size), c.mode)]
                 ELSE e
        total == size + known.m.next_payload_len
    IN  IF known.m.next_payload_len = NoLength \/ Len(known.buf) < total THEN Nothing(known)
        ELSE [some |-> TRUE,
              frame |-> SubSeq(known.buf, IF c.include_terminators THEN 1 ELSE size + 1, total),
              d |-> [known EXCEPT !.buf = Drop(@, total), !.m.next_payload_len = NoLength]]

(* The earliest start marker, the first of the list on equal positions; 0  *)
(* when there is none.                                                     *)
BestStart(c, buf) ==
    LET at == [i \in DOMAIN c.mode.start |-> find_subsequence(buf, c.mode.start[i])]
        hits == {i \in DOMAIN at : at[i] # NotFound}
    IN  IF hits = {} THEN 0
        ELSE CHOOSE i \in hits : \A j \in hits : at[i] < at[j] \/ (at[i] = at[j] /\ i <= j)

(* Mutant: no tail is kept, so a start marker cut by a chunk is lost. *)
KeepNothing(c) == 0

KeepLength(c) ==
    CHOOSE k \in {Len(c.mode.start[i]) - 1 : i \in DOMAIN c.mode.start} :
        \A i \in DOMAIN c.mode.start : Len(c.mode.start[i]) - 1 <= k

MatchMarkers(c, d) ==
    LET best == BestStart(c, d.buf)
        marker == c.mode.start[best]
        from == find_subsequence(d.buf, marker) + (IF c.mode.include_markers THEN 0 ELSE Len(marker))
        e == IF d.m.in_frame THEN d ELSE [d EXCEPT !.buf = Drop(@, from), !.m.in_frame = TRUE]
        pos == find_subsequence(e.buf, c.mode.end)
        after == pos + Len(c.mode.end)
    IN  IF ~d.m.in_frame /\ best = 0
            THEN Nothing([d EXCEPT !.buf = IF Len(@) > KeepLength(c) THEN Drop(@, Len(@) - KeepLength(c)) ELSE @])
        ELSE IF pos = NotFound THEN Nothing(e)
        ELSE [some |-> TRUE, frame |-> Take(e.buf, IF c.mode.include_markers THEN after ELSE pos),
              d |-> [e EXCEPT !.buf = Drop(@, after), !.m.in_frame = FALSE]]

MatchFrame(c, d) ==
    CASE c.mode.type = "line" -> MatchLine(c, d)
      [] c.mode.type = "delimiter" -> MatchTerminator(c, d, c.mode.delimiter)
      [] c.mode.type = "length_prefixed" -> MatchLength(c, d)
      [] c.mode.type = "start_end" -> MatchMarkers(c, d)

RECURSIVE MatchFrames(_, _, _, _)
MatchFrames(c, parser, p, x) ==
    LET q == emit_frame(c, parser, [p EXCEPT !.d = x.d], x.frame)
    IN  IF x.some THEN MatchFrames(c, parser, q, MatchFrame(c, q.d)) ELSE [p EXCEPT !.d = x.d]

Decode(c, parser, p) ==
    CASE c.mode.type = "slip" -> slip_decode(c, parser, p)
      [] c.mode.type = "cobs" -> cobs_decode(c, parser, p)
      [] OTHER -> MatchFrames(c, parser, p, MatchFrame(c, p.d))

push(c, parser, d, chunk) == Decode(c, parser, Pushing([d EXCEPT !.buf = @ \o chunk]))

(* The unparsed remainder, which a caller may ask for at the end. *)
flush_partial(c, d) ==
    LET data == CASE c.mode.type = "slip" /\ d.m.st = "InFrame" -> d.m.buf
                  [] c.mode.type = "cobs" /\ d.m.st = "InFrame" -> d.m.decoded
                  [] OTHER -> d.buf
        emptied == CASE c.mode.type = "slip" /\ d.m.st = "InFrame" -> [d EXCEPT !.m.buf = << >>]
                     [] c.mode.type = "cobs" /\ d.m.st = "InFrame" -> [d EXCEPT !.m.decoded = << >>]
                     [] OTHER -> [d EXCEPT !.buf = << >>]
    IN  IF data = << >> THEN [some |-> FALSE, data |-> data, d |-> d]
        ELSE [some |-> TRUE, data |-> data, d |-> [emptied EXCEPT !.frame_count = @ + 1]]
=============================================================================
