------------------------------ MODULE RxConsume ------------------------------
(***************************************************************************)
(* The data path of one read: a device puts framed payloads and noise on   *)
(* the wire, the pump hands the reader chunks of any size, and the reader  *)
(* looks for the pattern in what was buffered before the call, decodes     *)
(* each chunk into frames, matches them and decides whether to stop        *)
(* (process_initial, process_live_chunk and process_framed_chunk of        *)
(* src/tools/read_loop.rs, src/tools/rx_consume.rs).  Where a chunk ends,  *)
(* the buffered history included, is the choice of the operating system    *)
(* and the scheduler, so every chunking is explored.                       *)
(*                                                                         *)
(* A scenario is the configuration of the call: the device's framing (tx), *)
(* the RX framing, or "raw" for none, the parser, the pattern, or          *)
(* NoPattern, max_buffered_bytes (max_bytes in the loop), max_frames (0    *)
(* for none), the payloads the device may send and the bytes noise may     *)
(* insert.                                                                 *)
(***************************************************************************)
EXTENDS FrameDecoder, Matcher

CONSTANTS Scenarios, MaxSent, MaxNoise, MaxChunk

ASSUME ConsumeAssumption == {MaxSent, MaxNoise, MaxChunk} \subseteq Nat

NoPattern == MatchPattern("literal", {<< >>}, NoMatch)

(* A match: the index of its frame, or NoFrame for a match in the stream,  *)
(* the index the matcher found, and the payload and index of the result.   *)
NoFrame == -1
Hit(frame, at, data, match_index) ==
    [frame |-> frame, at |-> at, data |-> data, match_index |-> match_index]
NoHit == Hit(NoFrame, NoMatch, << >>, NoMatch)

VARIABLES
    scenario,   \* the configuration of this read
    wire,       \* bytes that left the device and were not handed to the read
    sent,       \* payloads the device framed, in order
    noise,      \* number of noise bytes inserted
    fed,        \* bytes handed to the read
    returned,   \* acc.returned_bytes
    decoder,
    frames,     \* frames collected by the sink
    frames_dropped,
    matcher,
    hit,        \* the match that stopped the read
    status      \* "starting", "reading" or the reason the read stopped

line == <<wire, sent, noise>>
vars == <<scenario, line, fed, returned, decoder, frames, frames_dropped, matcher, hit, status>>

Framing(s) == s.rx.mode.type # "raw"
Matching(s) == s.pattern # NoPattern
max_bytes == scenario.max_buffered_bytes

Init ==
    /\ scenario \in Scenarios
    /\ Framing(scenario) => AcceptedConfig(scenario.rx)
    /\ AcceptedPattern(scenario.pattern) \/ ~Matching(scenario)
    /\ wire = << >> /\ sent = << >> /\ noise = 0 /\ fed = << >> /\ returned = << >>
    /\ decoder = IF Framing(scenario) THEN NewDecoder(scenario.rx) ELSE << >>
    /\ frames = << >> /\ frames_dropped = 0
    /\ matcher = NewMatcher(scenario.pattern)
    /\ hit = NoHit /\ status = "starting"

(* The device frames a payload; a refused payload sends nothing. *)
Transmit(payload, framed) ==
    /\ framed.ok
    /\ wire' = wire \o framed.bytes
    /\ sent' = Append(sent, payload)
    /\ UNCHANGED <<scenario, noise, fed, returned, decoder, frames, frames_dropped, matcher, hit, status>>

Send(payload) == Len(sent) < MaxSent /\ Transmit(payload, encode(scenario.tx, payload))

(* A byte the device did not frame: line noise, or the tail of a frame     *)
(* whose beginning went to an earlier read.                                *)
Noise(b) ==
    /\ noise < MaxNoise
    /\ wire' = Append(wire, b)
    /\ noise' = noise + 1
    /\ UNCHANGED <<scenario, sent, fed, returned, decoder, frames, frames_dropped, matcher, hit, status>>

-----------------------------------------------------------------------------

FrameMatch(frame) ==
    IF Matching(scenario) THEN matcher_push(reset_window(matcher), frame.data).at ELSE NoMatch

FirstHit(new) ==
    LET matching == {i \in DOMAIN new : FrameMatch(new[i]) # NoMatch}
        first == new[Leftmost(matching)]
    IN  IF matching = {} THEN NoHit
        ELSE Hit(first.index, FrameMatch(first), first.data, FrameMatch(first))

(* frame_outcome_to_stop, behind the match that process_framed_chunk       *)
(* returns first; "reading" when the chunk stops nothing.                  *)
FramedStop(p, seen, found) ==
    CASE found # NoHit -> "match_found"
      [] found = NoHit /\ p.error # NoError -> "framing_error"
      [] found = NoHit /\ p.error = NoError /\ scenario.max_frames > 0 /\ seen >= scenario.max_frames ->
            "max_frames"
      [] OTHER -> "reading"

Full == Len(returned') >= max_bytes

(* The n bytes the ring hands out next. *)
HandOut(n) ==
    /\ n <= Len(wire)
    /\ fed' = fed \o Take(wire, n)
    /\ wire' = Drop(wire, n)
    /\ UNCHANGED <<scenario, sent, noise>>

(* process_framed_chunk on a matcher m, which is the one of the read or    *)
(* the one that has just searched the history.                             *)
DecodeChunk(p, m) ==
    /\ decoder' = p.d
    /\ frames' = frames \o p.frames
    /\ frames_dropped' = frames_dropped + p.dropped
    /\ hit' = FirstHit(p.frames)
    /\ matcher' = IF p.frames = << >> \/ ~Matching(scenario) THEN m
                  ELSE matcher_push(reset_window(m), p.frames[Len(p.frames)].data).m

-----------------------------------------------------------------------------
(* process_initial: the history, read at most max_bytes long.              *)
Initial(n) == status = "starting" /\ n <= max_bytes /\ HandOut(n)

HistoryResult == push_bounded(matcher, fed', max_bytes)

StartEmpty ==
    /\ Initial(0)
    /\ status' = "reading"
    /\ UNCHANGED <<returned, decoder, frames, frames_dropped, matcher, hit>>

(* The raw read without a pattern returns what is there. *)
StartCat(n) ==
    /\ Initial(n) /\ n > 0 /\ ~Matching(scenario) /\ ~Framing(scenario)
    /\ returned' = fed'
    /\ status' = "drained"
    /\ UNCHANGED <<decoder, frames, frames_dropped, matcher, hit>>

(* The history contains the pattern, whatever the framing: the result ends *)
(* with the match.  hist[..match_end] panics when the index lies beyond    *)
(* the history.                                                            *)
StartMatch(n) ==
    LET r == HistoryResult
        match_end == r.at + needle_len(scenario.pattern)
        shaped == shape_match_context(fed', r.at, needle_len(scenario.pattern), scenario.pattern.context)
    IN  /\ Initial(n) /\ n > 0 /\ Matching(scenario)
        /\ r.at # NoMatch
        /\ matcher' = r.m
        /\ IF match_end > n
           THEN status' = "panicked" /\ returned' = << >> /\ hit' = Hit(NoFrame, r.at, << >>, r.at)
           ELSE /\ status' = "match_found"
                /\ returned' = Take(fed', match_end)
                /\ hit' = IF scenario.pattern.context = NoMatch THEN Hit(NoFrame, r.at, returned', r.at)
                          ELSE Hit(NoFrame, r.at, shaped.data, shaped.match_index)
        /\ UNCHANGED <<decoder, frames, frames_dropped>>

(* No match in the history: it is part of the result, and what push_data   *)
(* says of the cap is ignored.                                             *)
StartRaw(n) ==
    /\ Initial(n) /\ n > 0 /\ Matching(scenario) /\ ~Framing(scenario)
    /\ HistoryResult.at = NoMatch
    /\ matcher' = HistoryResult.m
    /\ returned' = fed'
    /\ status' = "reading"
    /\ UNCHANGED <<decoder, frames, frames_dropped, hit>>

(* The framed read then decodes the same history, and appends it once more *)
(* when the pattern was searched in it.                                    *)
StartFramed(n) ==
    LET r == IF Matching(scenario) THEN HistoryResult ELSE [m |-> matcher, at |-> NoMatch]
        p == push(scenario.rx, scenario.parser, decoder, fed')
    IN  /\ Initial(n) /\ n > 0 /\ Framing(scenario)
        /\ r.at = NoMatch
        /\ returned' = IF Matching(scenario) THEN fed' \o fed' ELSE fed'
        /\ DecodeChunk(p, r.m)
        /\ status' = FramedStop(p, Len(frames'), hit')

-----------------------------------------------------------------------------
(* process_live_chunk takes no more than the room that is left.            *)
Live(n) == status = "reading" /\ n <= max_bytes - Len(returned) /\ HandOut(n)

ConsumeFrames(n) ==
    LET p == push(scenario.rx, scenario.parser, decoder, Take(wire, n))
    IN  /\ Live(n) /\ Framing(scenario)
        /\ returned' = returned \o Take(wire, n)
        /\ DecodeChunk(p, matcher)
        /\ status' = LET stop == FramedStop(p, Len(frames'), hit')
                     IN  IF stop = "reading" /\ Full THEN "drained" ELSE stop

(* The raw path, with push_data's decision. *)
ConsumeRaw(n) ==
    LET r == IF Matching(scenario) THEN push_bounded(matcher, Take(wire, n), max_bytes)
             ELSE [m |-> matcher, at |-> NoMatch]
        shaped == shape_literal_match_context(r.m, r.at)
    IN  /\ Live(n) /\ ~Framing(scenario)
        /\ returned' = returned \o Take(wire, n)
        /\ matcher' = r.m
        /\ hit' = CASE r.at = NoMatch -> NoHit
                    [] r.at # NoMatch /\ shaped # NoContext ->
                          Hit(NoFrame, r.at, shaped.data, shaped.match_index)
                    [] OTHER -> Hit(NoFrame, r.at, returned', r.at)
        /\ status' = CASE r.at # NoMatch -> "match_found"
                       [] r.at = NoMatch /\ Full -> "max_buffered_bytes"
                       [] OTHER -> "reading"
        /\ UNCHANGED <<decoder, frames, frames_dropped>>

(* The caller gives up on the stream and takes what is pending. *)
FlushPartial ==
    LET f == flush_partial(scenario.rx, decoder)
    IN  /\ status = "reading" /\ Framing(scenario) /\ f.some
        /\ decoder' = f.d
        /\ frames' = Append(frames, [data |-> f.data, index |-> decoder.frame_count,
                                     parsed |-> [parser |-> "raw"]])
        /\ status' = "flushed"
        /\ UNCHANGED <<scenario, line, fed, returned, frames_dropped, matcher, hit>>

Start == StartEmpty \/ \E n \in 1 .. MaxChunk :
            StartCat(n) \/ StartMatch(n) \/ StartRaw(n) \/ StartFramed(n)

Next ==
    \/ \E payload \in scenario.payloads : Send(payload)
    \/ \E b \in scenario.noise : Noise(b)
    \/ Start
    \/ \E n \in 1 .. MaxChunk : ConsumeFrames(n) \/ ConsumeRaw(n)
    \/ FlushPartial

Spec == Init /\ [][Next]_vars

-----------------------------------------------------------------------------
(* Chunk independence (push, slip_decode, cobs_decode): however the bytes  *)
(* were cut into chunks, the decoder has emitted, dropped and kept exactly *)
(* what one push of the same bytes does, up to and including a fatal       *)
(* error.  A match in the history decodes nothing; `auto` line endings are *)
(* excluded: match_auto_lf prefers a line feed later in the same chunk to  *)
(* a bare CR.                                                              *)
AutoLine == scenario.rx.mode.type = "line" /\ scenario.rx.mode.ending = "auto"

ChunkIndependent ==
    LET whole == push(scenario.rx, scenario.parser, NewDecoder(scenario.rx), fed)
    IN  Framing(scenario) /\ ~AutoLine =>
            /\ status \in {"reading", "max_frames", "drained"} \/ hit.frame # NoFrame =>
                    whole = [d |-> decoder, frames |-> frames, dropped |-> frames_dropped,
                             error |-> NoError]
            /\ status = "framing_error" =>
                    /\ whole.error # NoError
                    /\ whole.frames = frames /\ whole.dropped = frames_dropped

(* Round trip (encode of codecs.rs against FrameDecoder::push and          *)
(* build_read_result): on a clean line a reader that has been handed       *)
(* everything has decoded the payloads the device framed, all of them, in  *)
(* order and unchanged, with no frame dropped; SLIP's empty frames between *)
(* two END bytes are not payloads.  And the client can tell: whatever      *)
(* encoding it asked for, each text it gets decodes, with the encoding     *)
(* reported next to it, to the bytes of the frame and of the stream.       *)
Interior(framed) == SubSeq(framed, 2, Len(framed) - 2)
Expected(payload) ==
    IF scenario.tx.type = "nmea" THEN Interior(encode(scenario.tx, payload).bytes) ELSE payload

NonEmpty(data) == data # << >>

Mirrors(rx) ==
    /\ ~rx.include_terminators
    /\ rx.mode.type = "length_prefixed" => rx.mode.initial_offset = 0
    /\ rx.mode.type = "start_end" => ~rx.mode.include_markers

Legible(payload, bytes) == decode_text(payload.encoding, payload.data) = Coded(bytes)

ResultLegible(result, bytes) ==
    /\ Legible(result.top, bytes)
    /\ \A i \in DOMAIN frames : Legible(result.frames[i], frames[i].data)

RoundTrip ==
    Framing(scenario) /\ Mirrors(scenario.rx) /\ noise = 0 /\ wire = << >> /\ status = "reading" =>
        /\ SelectSeq([i \in DOMAIN frames |-> frames[i].data], NonEmpty)
              = SelectSeq([i \in DOMAIN sent |-> Expected(sent[i])], NonEmpty)
        /\ frames_dropped = 0
        /\ ~Matching(scenario) => returned = fed
        /\ \A requested \in Encoding :
              ResultLegible(build_read_result(requested, returned, frames), returned)

(* Exact matching (process_initial, process_live_chunk, push_bounded,      *)
(* reset_window): however the stream was cut into history and chunks, a    *)
(* raw read stops at the first place of the whole stream the pattern is    *)
(* found at, never goes on past one or ends with one unreported, keeps the *)
(* whole stream in its window, and returns a piece of the stream with the  *)
(* match where it says, with the configured context before it; a framed    *)
(* read stops at the first frame that contains the pattern, and at no      *)
(* other, unless the history held the pattern.  A glob's index is a        *)
(* position in the decoded text, so it is held to this only where the      *)
(* stream is UTF-8.                                                        *)
Occurrences(s) ==
    {i \in 0 .. Len(s) : \E w \in scenario.pattern.words :
        i + Len(w) <= Len(s) /\ SubSeq(s, i + 1, i + Len(w)) = w}
GlobLines(s) ==
    {l.from : l \in {k \in Lines(s) : from_utf8_lossy(LineContent(s, k)) \in scenario.pattern.words}}
Places(s) == IF scenario.pattern.mode = "glob" THEN GlobLines(s) ELSE Occurrences(s)

Offsets(s) == scenario.pattern.mode = "glob" => IsUtf8(s)

PayloadReal ==
    LET from == hit.at - hit.match_index
        context == IF hit.at < scenario.pattern.context THEN hit.at ELSE scenario.pattern.context
    IN  /\ hit.data = SubSeq(fed, from + 1, from + Len(hit.data))
        /\ scenario.pattern.context # NoMatch =>
              hit.match_index = context /\ Len(hit.data) = context + needle_len(scenario.pattern)

StreamMatch ==
    /\ Places(fed) # {}
    /\ Offsets(fed) => status # "panicked" /\ hit.at = Leftmost(Places(fed)) /\ PayloadReal

RawMatchExact ==
    /\ hit = NoHit => Places(fed) = {} /\ matcher.window = fed
    /\ hit # NoHit => StreamMatch

FramedMatchExact ==
    LET matching == {i \in DOMAIN frames : Places(frames[i].data) # {}}
        first == frames[Leftmost(matching)]
    IN  CASE hit = NoHit -> status = "flushed" \/ matching = {}
          [] hit # NoHit /\ hit.frame = NoFrame -> StreamMatch
          [] OTHER -> /\ matching # {}
                      /\ first.index = hit.frame /\ first.data = hit.data
                      /\ Offsets(hit.data) => hit.match_index = Leftmost(Places(hit.data))


=============================================================================
