--------------------------- MODULE MCControlLines ---------------------------
EXTENDS ControlLines

CONSTANTS c1, c2

Idle == [tool |-> "none", from |-> "cursor", offset |-> 0, max |-> 2, match |-> "none",
         framed |-> FALSE, max_frames |-> 0, timeout |-> TRUE, silence |-> FALSE,
         cancels |-> FALSE, reset |-> FALSE, refused |-> FALSE]
Read == [Idle EXCEPT !.tool = "read"]
Transact == [Idle EXCEPT !.tool = "transact", !.from = "now"]
Flush == [Idle EXCEPT !.tool = "flush", !.timeout = FALSE]
Capture == [Idle EXCEPT !.tool = "capture_boot", !.reset = TRUE]
Break == [Idle EXCEPT !.tool = "send_break", !.timeout = FALSE]
SetLines == [Idle EXCEPT !.tool = "set_dtr_rts", !.timeout = FALSE]

Work(first, second, script, reconnect, losses, closes) ==
    [requests |-> [c \in Calls |-> IF c = c1 THEN first ELSE second],
     script |-> script, reconnect |-> reconnect, drops |-> losses,
     closes |-> closes]

MCWorkloads == {
    \* overlapping raw reads over a ring that wraps, and a replay
    Work([Read EXCEPT !.max = 1], Read, <<"x", "x", "x">>, TRUE, 0, FALSE),
    Work([Read EXCEPT !.match = "literal"], [Read EXCEPT !.from = "buffer_start"], <<"x", "m", "x">>, TRUE, 0, FALSE),
    Work([Read EXCEPT !.match = "regex", !.silence = TRUE], Flush, <<"x", "m">>, TRUE, 1, FALSE),
    Work([Read EXCEPT !.match = "context", !.max = 3], [Read EXCEPT !.from = "now"], <<"m", "x">>, FALSE, 0, TRUE),
    \* framed reads: frames, a limit, an error, a pattern
    Work([Read EXCEPT !.framed = TRUE, !.max_frames = 1, !.max = 3], Read, <<"x", "n", "x">>, FALSE, 0, FALSE),
    Work([Read EXCEPT !.framed = TRUE], Idle, <<"n", "e", "x">>, TRUE, 1, FALSE),
    Work([Read EXCEPT !.framed = TRUE, !.match = "literal", !.max = 3], Idle, <<"x", "m", "n">>, TRUE, 0, FALSE),
    \* request and response next to a seeking read
    Work([Transact EXCEPT !.silence = TRUE, !.cancels = TRUE], [Read EXCEPT !.from = "offset", !.offset = 1],
         <<"x">>, FALSE, 1, FALSE),
    Work([Transact EXCEPT !.refused = TRUE], [Read EXCEPT !.refused = TRUE], <<"x">>, TRUE, 1, FALSE),
    \* reset pulses and BREAK
    Work([Capture EXCEPT !.cancels = TRUE], SetLines, <<"x", "x">>, TRUE, 0, TRUE),
    Work(Capture, [Capture EXCEPT !.reset = FALSE], <<"x">>, FALSE, 0, TRUE),
    Work([Break EXCEPT !.cancels = TRUE], Break, <<>>, TRUE, 1, FALSE),
    Work([Capture EXCEPT !.cancels = TRUE], Capture, <<"x">>, TRUE, 1, FALSE)}
=============================================================================
