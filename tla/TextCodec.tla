------------------------------ MODULE TextCodec ------------------------------
(***************************************************************************)
(* How bytes travel in the strings of a tool call (src/codec.rs): the      *)
(* client's text is decoded before it is framed, and every payload of a    *)
(* result is encoded as the client asked, or in hexadecimal when that      *)
(* cannot represent it (src/tools/result_builders.rs).  A text is the      *)
(* sequence of its UTF-8 bytes.                                            *)
(***************************************************************************)
EXTENDS ByteCodec

Encoding == {"utf8", "hex", "base64"}

Unencodable == [ok |-> FALSE, bytes |-> << >>]
Coded(bytes) == [ok |-> TRUE, bytes |-> bytes]

-----------------------------------------------------------------------------
(* String::from_utf8: what may follow a lead byte, without overlong forms  *)
(* and surrogates.                                                         *)
Continuation == 128 .. 191
Follow(b) ==
    CASE b \in 194 .. 223 -> <<Continuation>>
      [] b = 224 -> <<160 .. 191, Continuation>>
      [] b \in (225 .. 239) \ {237} -> <<Continuation, Continuation>>
      [] b = 237 -> <<128 .. 159, Continuation>>
      [] b = 240 -> <<144 .. 191, Continuation, Continuation>>
      [] b \in 241 .. 243 -> <<Continuation, Continuation, Continuation>>
      [] b = 244 -> <<128 .. 143, Continuation, Continuation>>
      [] OTHER -> << >>

(* String::from_utf8_lossy: the longest run of bytes that begins no        *)
(* character, or is cut short, becomes one replacement character, which    *)
(* takes three bytes.                                                      *)
Replacement == <<239, 191, 189>>

from_utf8_lossy(bytes) ==
    LET Start(out, b) ==
            CASE b < 128 -> [out |-> Append(out, b), part |-> << >>, due |-> << >>]
              [] b >= 128 /\ Follow(b) # << >> -> [out |-> out, part |-> <<b>>, due |-> Follow(b)]
              [] OTHER -> [out |-> out \o Replacement, part |-> << >>, due |-> << >>]
        Step(s, b) ==
            CASE s.due = << >> -> Start(s.out, b)
              [] s.due # << >> /\ b \notin Head(s.due) -> Start(s.out \o Replacement, b)
              [] s.due # << >> /\ b \in Head(s.due) /\ Len(s.due) > 1 ->
                    [s EXCEPT !.part = Append(@, b), !.due = Tail(@)]
              [] OTHER -> [out |-> Append(s.out \o s.part, b), part |-> << >>, due |-> << >>]
        end == FoldLeft(Step, [out |-> << >>, part |-> << >>, due |-> << >>], bytes)
    IN  IF end.due = << >> THEN end.out ELSE end.out \o Replacement

IsUtf8(bytes) == from_utf8_lossy(bytes) = bytes

-----------------------------------------------------------------------------
(* Hexadecimal: lower case pairs with a space between two of them; spaces  *)
(* anywhere and either case are accepted.                                  *)
LowerHexDigit(n) == IF n < 10 THEN 48 + n ELSE 87 + n

encode_hex_spaced(bytes) ==
    FlattenSeq([i \in DOMAIN bytes |->
        (IF i = 1 THEN << >> ELSE <<SPACE>>)
            \o <<LowerHexDigit(bytes[i] \div 16), LowerHexDigit(bytes[i] % 16)>>])

decode_hex(text) ==
    LET stripped == SelectSeq(trim(text), LAMBDA b : b # SPACE)
    IN  IF Len(stripped) % 2 # 0 \/ \E i \in DOMAIN stripped : ~IsHex(stripped[i]) THEN Unencodable
        ELSE Coded([i \in 1 .. Len(stripped) \div 2 |->
                      16 * HexValue(stripped[2 * i - 1]) + HexValue(stripped[2 * i])])

-----------------------------------------------------------------------------
(* Base64: the engines STANDARD and URL_SAFE_NO_PAD.                       *)
PAD == 61
Standard == <<43, 47>>
UrlSafe == <<45, 95>>

Base64Char(n, last) ==
    CASE n < 26 -> 65 + n
      [] n \in 26 .. 51 -> 71 + n
      [] n \in 52 .. 61 -> n - 4
      [] OTHER -> last[n - 61]
Base64Value(b, last) == CHOOSE n \in 0 .. 63 : Base64Char(n, last) = b
InAlphabet(b, last) == \E n \in 0 .. 63 : Base64Char(n, last) = b

encode_base64(bytes) ==
    LET At(i) == IF i \in DOMAIN bytes THEN bytes[i] ELSE 0
        \* sextet k starts at bit 6k, in byte 6k div 8
        Sextet(k) == LET i == (6 * k) \div 8
                     IN  ((256 * At(i + 1) + At(i + 2)) \div 2 ^ (10 - ((6 * k) % 8))) % 64
        symbols == (8 * Len(bytes) + 5) \div 6
    IN  [i \in 1 .. 4 * ((Len(bytes) + 2) \div 3) |->
            IF i <= symbols THEN Base64Char(Sextet(i - 1), Standard) ELSE PAD]

(* One engine: `padded` tells whether the canonical padding is required or *)
(* refused.  Bits left over after the last byte are zero.                  *)
DecodeSymbols(values, bits) ==
    IF Len(values) % 4 = 1 \/ (values # << >> /\ Last(values) % (2 ^ bits) # 0) THEN Unencodable
    ELSE Coded([i \in 1 .. (6 * Len(values)) \div 8 |->
                  LET at == 8 * (i - 1)
                  IN  ((64 * values[at \div 6 + 1] + values[at \div 6 + 2]) \div 2 ^ (4 - (at % 6))) % 256])

EngineDecode(text, last, padded) ==
    LET symbols == SelectSeq(text, LAMBDA b : b # PAD)
        pads == IF padded THEN (4 - (Len(symbols) % 4)) % 4 ELSE 0
    IN  IF \/ \E i \in DOMAIN symbols : ~InAlphabet(symbols[i], last)
           \/ text # symbols \o [i \in 1 .. pads |-> PAD]
        THEN Unencodable
        ELSE DecodeSymbols([i \in DOMAIN symbols |-> Base64Value(symbols[i], last)],
                           (6 * Len(symbols)) % 8)

decode_base64(text) ==
    LET strict == EngineDecode(trim(text), Standard, TRUE)
    IN  IF strict.ok THEN strict ELSE EngineDecode(trim(text), UrlSafe, FALSE)

-----------------------------------------------------------------------------
decode_text(encoding, text) ==
    CASE encoding = "utf8" -> Coded(text)
      [] encoding = "hex" -> decode_hex(text)
      [] encoding = "base64" -> decode_base64(text)

encode_text(encoding, bytes) ==
    CASE encoding = "utf8" -> IF IsUtf8(bytes) THEN Coded(bytes) ELSE Unencodable
      [] encoding = "hex" -> Coded(encode_hex_spaced(bytes))
      [] encoding = "base64" -> Coded(encode_base64(bytes))

(* The payload and the encoding that was really used.                      *)
encode_or_hex(requested, bytes) ==
    LET direct == encode_text(requested, bytes)
    IN  IF direct.ok THEN [data |-> direct.bytes, encoding |-> requested]
        ELSE [data |-> encode_text("hex", bytes).bytes, encoding |-> "hex"]

(* Each frame is encoded on its own, from the encoding that was requested. *)
build_read_result(requested, bytes, frames) ==
    [top |-> encode_or_hex(requested, bytes),
     frames |-> [i \in DOMAIN frames |-> encode_or_hex(requested, frames[i].data)]]
=============================================================================
