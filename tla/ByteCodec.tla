------------------------------ MODULE ByteCodec ------------------------------
(***************************************************************************)
(* What serial-mcp puts around a payload before it goes to the UART        *)
(* (src/framing/codecs.rs), the configurations that select it              *)
(* (src/framing/config.rs) and the checksums (src/checksums.rs).  A byte   *)
(* is a number.  MaxByte is 255 in the code: it is the largest length a    *)
(* one-byte prefix holds and the COBS continuation code, and a small value *)
(* lets short payloads reach both limits.                                  *)
(***************************************************************************)
EXTENDS Integers, Sequences, FiniteSets, SequencesExt, Bitwise

CONSTANT MaxByte

ASSUME MaxByteAssumption == MaxByte \in Nat /\ MaxByte >= 2

LF == 10
CR == 13
SPACE == 32
BANG == 33
DOLLAR == 36
STAR == 42
PLUS == 43
COMMA == 44
COLON == 58

SLIP_END == 192
SLIP_ESC == 219
SLIP_ESC_END == 220
SLIP_ESC_ESC == 221

NotFound == -1

Drop(s, n) == SubSeq(s, n + 1, Len(s))
Take(s, n) == SubSeq(s, 1, n)

(* Zero-based position of the first occurrence, or NotFound. *)
find_subsequence(s, needle) ==
    LET at == {i \in 0 .. Len(s) - Len(needle) : SubSeq(s, i + 1, i + Len(needle)) = needle}
    IN  IF needle = << >> \/ at = {} THEN NotFound
        ELSE CHOOSE i \in at : \A j \in at : i <= j

position(s, b) == SelectInSeq(s, LAMBDA x : x = b) - 1

is_blank_frame(data) == \A i \in DOMAIN data : data[i] \in {9, LF, 12, CR, SPACE}

(* str::trim_end and str::trim, whose white space has the vertical tab that *)
(* is_ascii_whitespace leaves out.                                         *)
trim_end(s) ==
    LET solid == {i \in DOMAIN s : s[i] \notin 9 .. 13 \cup {SPACE}}
    IN  IF solid = {} THEN << >> ELSE Take(s, CHOOSE i \in solid : \A j \in solid : j <= i)
trim(s) == Reverse(trim_end(Reverse(trim_end(s))))

(* Hexadecimal digits: formatting is upper case, parsing takes both cases. *)
HexDigit(n) == IF n < 10 THEN 48 + n ELSE 55 + n
IsHex(b) == b \in 48 .. 57 \cup 65 .. 70 \cup 97 .. 102
HexValue(b) == IF b <= 57 THEN b - 48 ELSE IF b <= 70 THEN b - 55 ELSE b - 87

xor_checksum(bytes) == FoldLeft(LAMBDA acc, b : acc ^^ b, 0, bytes)

lrc(bytes) == (256 - (FoldLeft(LAMBDA acc, b : acc + b, 0, bytes) % 256)) % 256

-----------------------------------------------------------------------------
(* Framing configurations.  TX has no `auto` ending and no initial offset; *)
(* the delimiter and the markers are the bytes their text decodes to.      *)

RxLine(ending) == [type |-> "line", ending |-> ending]
RxDelimiter(delim) == [type |-> "delimiter", delimiter |-> delim]
RxLength(size, order, offset) ==
    [type |-> "length_prefixed", prefix_size |-> size, endianness |-> order, initial_offset |-> offset]
RxStartEnd(start, end, include) ==
    [type |-> "start_end", start |-> start, end |-> end, include_markers |-> include]
RxSlip == [type |-> "slip"]
RxCobs == [type |-> "cobs"]

RxFramingConfig(mode, terminators, skip) ==
    [mode |-> mode, include_terminators |-> terminators, skip_empty |-> skip]

TxLine(ending) == [type |-> "line", ending |-> ending]
TxNmea == [type |-> "nmea"]

NoParser == [type |-> "none", validate |-> FALSE]
ParserConfig(type, validate) == [type |-> type, validate |-> validate]

ProtocolPreset == {"at_command", "slip", "json_lines", "cobs", "ndjson", "nmea0183", "modbus_ascii"}

preset_tx_framing(p) ==
    CASE p = "at_command" -> TxLine("cr")
      [] p \in {"json_lines", "ndjson"} -> TxLine("lf")
      [] p = "slip" -> RxSlip
      [] p = "cobs" -> RxCobs
      [] p = "nmea0183" -> TxNmea
      [] p = "modbus_ascii" -> RxStartEnd(<< <<COLON>> >>, <<CR, LF>>, FALSE)

preset_rx_framing(p) ==
    LET mode == CASE p \in {"at_command", "json_lines", "ndjson"} -> RxLine("auto")
                  [] p = "slip" -> RxSlip
                  [] p = "cobs" -> RxCobs
                  [] p = "nmea0183" -> RxStartEnd(<< <<DOLLAR>>, <<BANG>> >>, <<CR, LF>>, FALSE)
                  [] p = "modbus_ascii" -> RxStartEnd(<< <<COLON>> >>, <<CR, LF>>, FALSE)
    IN  RxFramingConfig(mode, FALSE, p = "ndjson")

preset_rx_parser(p) ==
    CASE p = "at_command" -> ParserConfig("at_command", FALSE)
      [] p \in {"slip", "cobs"} -> ParserConfig("raw", FALSE)
      [] p \in {"json_lines", "ndjson"} -> ParserConfig("json_lines", FALSE)
      [] p = "nmea0183" -> ParserConfig("nmea", TRUE)
      [] p = "modbus_ascii" -> ParserConfig("modbus_ascii", TRUE)

-----------------------------------------------------------------------------
(* TxFramingMode::encode, one operator per mode.  Refused is the Err arm.  *)

Refused == [ok |-> FALSE, bytes |-> << >>]
Framed(bytes) == [ok |-> TRUE, bytes |-> bytes]

LineTerminator(ending) ==
    CASE ending = "lf" -> <<LF>> [] ending = "cr" -> <<CR>> [] ending = "crlf" -> <<CR, LF>>

(* The `size` bytes of n, least significant first. *)
LengthBytes(n, size) == [i \in 1 .. size |-> (n \div ((MaxByte + 1) ^ (i - 1))) % (MaxByte + 1)]

EncodeLength(mode, payload) ==
    LET little == LengthBytes(Len(payload), mode.prefix_size)
    IN  IF mode.prefix_size \notin {1, 2, 4} THEN Refused
        ELSE IF mode.prefix_size < 4 /\ Len(payload) >= (MaxByte + 1) ^ mode.prefix_size THEN Refused
        ELSE Framed((IF mode.endianness = "little" THEN little ELSE Reverse(little)) \o payload)

read_length_prefix(bytes, mode) ==
    LET little == IF mode.endianness = "little" THEN bytes ELSE Reverse(bytes)
    IN  FoldRight(LAMBDA b, acc : b + acc * (MaxByte + 1), little, 0)

slip_stuff(payload) ==
    FlattenSeq([i \in DOMAIN payload |->
        CASE payload[i] = SLIP_END -> <<SLIP_ESC, SLIP_ESC_END>>
          [] payload[i] = SLIP_ESC -> <<SLIP_ESC, SLIP_ESC_ESC>>
          [] OTHER -> <<payload[i]>>])

(* Mutant: a full block is not closed with the continuation code. *)
CobsStuffUnsplit(payload) ==
    LET Close(s) == s.done \o <<Len(s.run) + 1>> \o s.run
        Byte(s, b) == IF b = 0 THEN [done |-> Close(s), run |-> << >>] ELSE [s EXCEPT !.run = Append(@, b)]
    IN  Close(FoldLeft(Byte, [done |-> << >>, run |-> << >>], payload))

(* `done` holds the finished blocks, `run` the data of the block whose     *)
(* code byte is still a placeholder: its code is Len(run) + 1.             *)
cobs_stuff(payload) ==
    LET Close(s) == s.done \o <<Len(s.run) + 1>> \o s.run
        Byte(s, b) ==
            IF b = 0 THEN [done |-> Close(s), run |-> << >>]
            ELSE LET t == [s EXCEPT !.run = Append(@, b)]
                 IN  IF Len(t.run) + 1 = MaxByte THEN [done |-> Close(t), run |-> << >>] ELSE t
    IN  Close(FoldLeft(Byte, [done |-> << >>, run |-> << >>], payload))

EncodeNmea(payload) ==
    LET led == payload # << >> /\ payload[1] \in {DOLLAR, BANG}
        lead == IF led THEN payload[1] ELSE DOLLAR
        body == IF led THEN Tail(payload) ELSE payload
        n == Len(body)
        declared == n >= 3 /\ body[n - 2] = STAR /\ IsHex(body[n - 1]) /\ IsHex(body[n])
        sum == xor_checksum(IF declared THEN Take(body, n - 3) ELSE body)
    IN  IF \E i \in DOMAIN payload : payload[i] \notin 32 .. 126 THEN Refused
        ELSE IF declared /\ HexValue(body[n - 1]) * 16 + HexValue(body[n]) # sum THEN Refused
        ELSE Framed(<<lead>> \o body
                    \o (IF declared THEN << >> ELSE <<STAR, HexDigit(sum \div 16), HexDigit(sum % 16)>>)
                    \o <<CR, LF>>)

EncodeMarkers(mode, payload) ==
    IF mode.start = << >> \/ mode.start[1] = << >> \/ mode.end = << >> THEN Refused
    ELSE Framed(mode.start[1] \o payload \o mode.end)

encode(mode, payload) ==
    CASE mode.type = "line" -> Framed(payload \o LineTerminator(mode.ending))
      [] mode.type = "delimiter" ->
            IF mode.delimiter = << >> THEN Refused ELSE Framed(payload \o mode.delimiter)
      [] mode.type = "length_prefixed" -> EncodeLength(mode, payload)
      [] mode.type = "start_end" -> EncodeMarkers(mode, payload)
      [] mode.type = "slip" -> Framed(<<SLIP_END>> \o slip_stuff(payload) \o <<SLIP_END>>)
      [] mode.type = "cobs" -> Framed(<<0>> \o cobs_stuff(payload) \o <<0>>)
      [] mode.type = "nmea" -> EncodeNmea(payload)
=============================================================================
