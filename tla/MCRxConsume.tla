---------------------------- MODULE MCRxConsume ------------------------------
(***************************************************************************)
(* Every framing mode with its encoder and parsers, framed reads with a    *)
(* pattern or too little room for their history, raw reads in the three    *)
(* match modes with small and ample caps, and globs over bytes that are    *)
(* not UTF-8.                                                              *)
(***************************************************************************)
EXTENDS RxConsume

(* Small payload alphabets: A is an ordinary byte, B a second one. *)
A == 65
B == 66

Scenario(tx, rx, parser, pattern, cap, max_frames, payloads, noiseBytes) ==
    [tx |-> tx, rx |-> rx, parser |-> parser, pattern |-> pattern, max_buffered_bytes |-> cap,
     max_frames |-> max_frames, payloads |-> payloads, noise |-> noiseBytes]

Plain(mode) == RxFramingConfig(mode, FALSE, FALSE)
RawRead == RxFramingConfig([type |-> "raw"], FALSE, FALSE)
UpTo(S, n) == UNION {[1 .. k -> S] : k \in 0 .. n}

Delim == <<A, A>>
Marks == RxStartEnd(<< <<1, 2>>, <<3, 3>> >>, <<4, 5>>, FALSE)
AB == MatchPattern("literal", {<<A, B>>}, 1)
ALineB == MatchPattern("literal", {<<A, LF, B>>}, NoMatch)
GlobAB == MatchPattern("glob", {<<A, B>>, <<A>>}, NoMatch)
Ample == 99
Invalid == 255

FramedScenarios == {
    Scenario(TxLine("lf"), Plain(RxLine("lf")), NoParser, AB, Ample, 0, UpTo({A, B}, 2), {LF, A}),
    Scenario(TxLine("crlf"), Plain(RxLine("crlf")), NoParser, NoPattern, Ample, 2, {<<A>>, <<CR>>, << >>}, {LF, CR}),
    Scenario(TxLine("cr"), RxFramingConfig(RxLine("cr"), FALSE, TRUE), ParserConfig("at_command", FALSE),
             NoPattern, Ample, 0, {OK, <<A>>}, {CR, SPACE}),
    Scenario(TxLine("crlf"), Plain(RxLine("auto")), ParserConfig("shell_prompt", FALSE), NoPattern, Ample, 0,
             {<<A>>, <<DOLLAR>>, << >>}, {LF, CR}),
    Scenario(RxDelimiter(Delim), Plain(RxDelimiter(Delim)), NoParser, NoPattern, Ample, 0, {<<B>>, <<B, B>>}, {A, B}),
    Scenario(RxLength(1, "big", 0), Plain(RxLength(1, "big", 0)), NoParser, NoPattern, Ample, 0, UpTo({1}, 4), {0, 2}),
    Scenario(RxLength(2, "little", 0), Plain(RxLength(2, "little", 0)), NoParser, NoPattern, Ample, 0, UpTo({1}, 5), {0, 1}),
    Scenario(RxLength(2, "big", 0), RxFramingConfig(RxLength(2, "big", 1), TRUE, FALSE), NoParser, NoPattern, Ample, 0,
             UpTo({1}, 2), {0, 1}),
    Scenario(TxLine("crlf"), RxFramingConfig(RxLine("crlf"), TRUE, FALSE), NoParser, NoPattern, Ample, 0, {<<A>>, << >>}, {CR}),
    Scenario(Marks, Plain([Marks EXCEPT !.include_markers = TRUE]), NoParser, NoPattern, Ample, 0, {<<A>>, << >>}, {1, 4}),
    Scenario(Marks, Plain(Marks), NoParser, NoPattern, Ample, 0, {<<1>>, <<4>>, << >>}, {1, 2, 3}),
    Scenario(RxSlip, Plain(RxSlip), NoParser, NoPattern, Ample, 0, UpTo({A, SLIP_END, SLIP_ESC}, 2), {SLIP_END, SLIP_ESC}),
    Scenario(RxCobs, Plain(RxCobs), NoParser, NoPattern, Ample, 0, UpTo({0, A}, 4), {0, 1, MaxByte}),
    Scenario(TxNmea, preset_rx_framing("nmea0183"), preset_rx_parser("nmea0183"), NoPattern, Ample, 0,
             {<<A, COMMA>>, <<DOLLAR, A, B, COMMA, A>>, <<A>>, <<A, COMMA, STAR, 54, 68>>, <<A, STAR, 48, 48>>},
             {DOLLAR, A}),
    Scenario(preset_tx_framing("modbus_ascii"), preset_rx_framing("modbus_ascii"), preset_rx_parser("modbus_ascii"),
             NoPattern, Ample, 0, {<<48, 49, 48, 51, 70, 67>>, <<48, 49>>}, {48, COLON}),
    Scenario(preset_tx_framing("ndjson"), preset_rx_framing("ndjson"), preset_rx_parser("ndjson"), NoPattern, Ample, 0,
             {<<123, 125>>, <<A>>, << >>}, {SPACE})}

(* A framed read whose history may hold the pattern, or fill the cap.      *)
HistoryScenarios ==
    {Scenario(TxLine("lf"), Plain(RxLine("lf")), NoParser, pat, cap, 0, {<<A>>, <<B>>, <<A, B>>}, {A}) :
        cap \in {3, 5}, pat \in {ALineB, AB}}

RawScenarios ==
    {Scenario(TxLine("lf"), RawRead, NoParser, pat, cap, 0, UpTo({A, B}, 2), {A, B, LF}) :
        cap \in {2, 4, Ample}, pat \in {NoPattern, AB, GlobAB,
                                       MatchPattern("regex", {<<A, B>>, <<B, B>>}, NoMatch)}}

(* Bytes that are not UTF-8 before a line. *)
GlobScenarios ==
    {Scenario(TxLine("lf"), rx, NoParser, GlobAB, Ample, 0, {<<A>>, <<B>>}, {Invalid}) :
        rx \in {RawRead, Plain(RxLine("lf"))}}

MCScenarios == FramedScenarios \cup HistoryScenarios \cup RawScenarios \cup GlobScenarios
=============================================================================
