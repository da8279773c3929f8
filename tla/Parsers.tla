------------------------------- MODULE Parsers -------------------------------
(***************************************************************************)
(* The frame-content parsers of src/framing/parsers/mod.rs.  A parse       *)
(* returns the structured fields of the frame, or a checksum mismatch,     *)
(* which the decoder turns into a dropped frame.                           *)
(***************************************************************************)
EXTENDS ByteCodec

Parsed(p) == [mismatch |-> FALSE, parsed |-> p]
ChecksumMismatch == [mismatch |-> TRUE, parsed |-> [parser |-> "raw"]]
Raw == Parsed([parser |-> "raw"])

OK == <<79, 75>>
ERROR == <<69, 82, 82, 79, 82>>

(* A line `+CME ERROR: n` has a colon, so it is a response named CME ERROR; *)
(* only the form without a colon is an error.                              *)
AtCommandLine(t) ==
    LET At(response_type, status) ==
            Parsed([parser |-> "at_command", response_type |-> response_type, status |-> status])
    IN  IF t = << >> THEN Raw
        ELSE IF t[1] = PLUS /\ position(Tail(t), COLON) # NotFound THEN At("response", << >>)
        ELSE IF t = OK THEN At("status", OK)
        ELSE IF t = ERROR THEN At("error", ERROR)
        ELSE IF IsPrefix(<<PLUS, 67, 77, 69, SPACE>> \o ERROR, t)
                \/ IsPrefix(<<PLUS, 67, 77, 83, SPACE>> \o ERROR, t) THEN At("error", t)
        ELSE At("data", << >>)

AtCommandParse(data) == AtCommandLine(trim(data))

(* serde_json: accepted as an object when it is one, else raw. *)
IsJsonObject(t) == Len(t) >= 2 /\ t[1] = 123 /\ t[Len(t)] = 125
JsonLinesParse(data) == IF IsJsonObject(trim(data)) THEN Parsed([parser |-> "json"]) ELSE Raw

(* isCustom: the compiled custom_prompt matches the frame. *)
ShellPromptLine(t, isCustom) ==
    LET Prompt(kind) == Parsed([parser |-> "shell_prompt", prompt_type |-> kind])
    IN  IF t = << >> THEN Raw
        ELSE IF isCustom THEN Prompt("custom")
        ELSE CASE t[Len(t)] = DOLLAR -> Prompt("user")
               [] t[Len(t)] = 35 -> Prompt("root")
               [] t[Len(t)] = 62 -> Prompt("generic")
               [] OTHER -> Raw

ShellPromptParse(data, isCustom) == ShellPromptLine(trim_end(data), isCustom)

strip_trailing_newline(s) ==
    IF IsSuffix(<<CR, LF>>, s) THEN Take(s, Len(s) - 2)
    ELSE IF IsSuffix(<<LF>>, s) THEN Take(s, Len(s) - 1) ELSE s

strip_leading_if_any(s, markers) == IF s # << >> /\ s[1] \in markers THEN Tail(s) ELSE s

(* `received` is -1 for an unparseable checksum, a certain mismatch. *)
check_checksum(validate, computed, received, parsed) ==
    IF validate /\ received # computed THEN ChecksumMismatch
    ELSE Parsed([parsed EXCEPT !.checksum_valid = IF received = computed THEN "valid" ELSE "invalid"])

NmeaSentence(address, rest) ==
    LET split == IF Len(address) < 2 THEN Len(address) ELSE IF address[1] = 80 THEN 1 ELSE 2
    IN  [parser |-> "nmea", talker_id |-> Take(address, split), sentence_type |-> Drop(address, split),
         fields |-> IF rest = << >> THEN 0 ELSE 1 + Cardinality({i \in DOMAIN rest : rest[i] = COMMA}),
         checksum_valid |-> "absent"]

NmeaFields(body, comma) ==
    IF comma = NotFound THEN NmeaSentence(body, << >>)
    ELSE NmeaSentence(Take(body, comma), Drop(body, comma + 1))

NmeaReceived(hex) ==
    IF Len(hex) < 2 \/ ~IsHex(hex[2]) THEN -1
    ELSE IF IsHex(hex[1]) THEN HexValue(hex[1]) * 16 + HexValue(hex[2])
    ELSE IF hex[1] = PLUS THEN HexValue(hex[2]) ELSE -1

(* A mismatch is an error even for a body that turns out not to be ASCII. *)
NmeaBody(checked, body) ==
    IF ~checked.mismatch /\ \E i \in DOMAIN body : body[i] > 127 THEN Raw ELSE checked

NmeaContent(content, star, validate) ==
    IF position(content, COMMA) = NotFound THEN Raw
    ELSE IF star = NotFound
    THEN NmeaBody(Parsed(NmeaFields(content, position(content, COMMA))), content)
    ELSE LET body == Take(content, star)
         IN  NmeaBody(check_checksum(validate, xor_checksum(body), NmeaReceived(Drop(content, star + 1)),
                                     NmeaFields(body, position(body, COMMA))), body)

NmeaStripped(content, validate) == NmeaContent(content, position(content, STAR), validate)

NmeaParse(data, validate) ==
    NmeaStripped(strip_trailing_newline(strip_leading_if_any(data, {DOLLAR, BANG})), validate)

ModbusFrame(decoded, validate) ==
    LET n == Len(decoded)
    IN  IF n < 3 THEN Raw
        ELSE check_checksum(validate, lrc(Take(decoded, n - 1)), decoded[n],
                 [parser |-> "modbus_ascii", address |-> decoded[1], function_code |-> decoded[2],
                  data |-> SubSeq(decoded, 3, n - 1), checksum_valid |-> "absent"])

ModbusBody(content, validate) ==
    IF content = << >> \/ Len(content) % 2 # 0 \/ \E i \in DOMAIN content : ~IsHex(content[i])
    THEN Raw
    ELSE ModbusFrame([i \in 1 .. Len(content) \div 2 |->
                         HexValue(content[2 * i - 1]) * 16 + HexValue(content[2 * i])], validate)

ModbusAsciiParse(data, validate) ==
    ModbusBody(strip_trailing_newline(strip_leading_if_any(data, {COLON})), validate)

(* build_parser and the parser it builds: no custom prompt is configured. *)
parse(cfg, data) ==
    CASE cfg.type = "at_command" -> AtCommandParse(data)
      [] cfg.type = "json_lines" -> JsonLinesParse(data)
      [] cfg.type = "shell_prompt" -> ShellPromptParse(data, FALSE)
      [] cfg.type \in {"raw", "none"} -> Raw
      [] cfg.type = "nmea" -> NmeaParse(data, cfg.validate)
      [] cfg.type = "modbus_ascii" -> ModbusAsciiParse(data, cfg.validate)
=============================================================================
