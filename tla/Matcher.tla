------------------------------- MODULE Matcher -------------------------------
(***************************************************************************)
(* The stateful pattern matcher of src/match_config.rs.  A pattern is its  *)
(* mode and the finite set of byte strings it accepts: one string for a    *)
(* literal, the words of the language for a regex, whole lines for a glob. *)
(* `base` counts the bytes truncated from the front of the window, so that *)
(* a match index is relative to the bytes fed since the last reset.        *)
(***************************************************************************)
EXTENDS TextCodec

CONSTANT REGEX_GLOB_OVERLAP_ALLOWANCE

ASSUME OverlapAssumption == REGEX_GLOB_OVERLAP_ALLOWANCE \in Nat

NoMatch == -1
NoContext == [global_index |-> NoMatch, data |-> << >>, match_index |-> 0]

(* validate_match_request: an empty pattern is refused, so no literal is   *)
(* empty.  context is -1 when context_amount_of_matched_bytes is unset.    *)
MatchPattern(mode, words, context) == [mode |-> mode, words |-> words, context |-> context]
AcceptedPattern(pat) == pat.mode = "literal" => pat.words # {<< >>}

NewMatcher(pat) ==
    [pat |-> pat, window |-> << >>, base |-> 0, first_line_partial |-> FALSE, saved |-> NoContext]

Needle(pat) == CHOOSE w \in pat.words : TRUE
needle_len(pat) == IF pat.mode = "literal" THEN Len(Needle(pat)) ELSE 0

(* The lines of a window as [from, to) positions, split on LF. *)
Lines(w) ==
    LET ends == {i \in DOMAIN w : w[i] = LF}
        starts == {0} \cup ends
    IN  {[from |-> s, to |-> IF {e \in ends : e > s} = {} THEN Len(w)
                             ELSE (CHOOSE e \in ends : e > s /\ \A f \in ends : f > s => e <= f) - 1]
            : s \in starts}
LineContent(w, line) ==
    LET text == SubSeq(w, line.from + 1, line.to)
    IN  IF text # << >> /\ text[Len(text)] = CR THEN Front(text) ELSE text

Leftmost(S) == IF S = {} THEN NoMatch ELSE CHOOSE i \in S : \A j \in S : i <= j

(* A glob is matched against the lines of the decoded window, and its      *)
(* index is a position in that text.                                       *)
GlobLinesOf(m, text) ==
    {line.from : line \in {l \in Lines(text) : /\ ~(l.from = 0 /\ m.first_line_partial)
                                              /\ LineContent(text, l) \in m.pat.words}}
Global(m, local) == IF local = NoMatch THEN NoMatch ELSE m.base + local

check(m) ==
    Global(m, Leftmost(IF m.pat.mode = "glob" THEN GlobLinesOf(m, from_utf8_lossy(m.window))
                       ELSE {find_subsequence(m.window, w) : w \in m.pat.words} \ {NotFound}))

(* Only a literal matcher with configured context saves the shaped payload. *)
save_literal_context(m, global_index, cap) ==
    LET local == global_index - m.base
        context == IF cap # NoMatch /\ cap < m.pat.context THEN cap ELSE m.pat.context
        pre_start == IF local < context THEN 0 ELSE local - context
    IN  IF m.pat.mode # "literal" \/ m.pat.context = NoMatch THEN m
        ELSE [m EXCEPT !.saved = [global_index |-> global_index,
                                  data |-> SubSeq(m.window, pre_start + 1, local + Len(Needle(m.pat))),
                                  match_index |-> local - pre_start]]

(* A window after a search that found `at`, whose payload is cut to cap. *)
Searched(m, at, cap) == [m |-> IF at = NoMatch THEN m ELSE save_literal_context(m, at, cap), at |-> at]

matcher_push(m, chunk) ==
    LET n == [m EXCEPT !.window = @ \o chunk, !.saved = NoContext]
    IN  Searched(n, check(n), NoMatch)

retained_window_limit(m, max_buffered_bytes) ==
    max_buffered_bytes + (IF m.pat.mode = "literal" THEN Len(Needle(m.pat)) - 1
                          ELSE REGEX_GLOB_OVERLAP_ALLOWANCE)

(* No read feeds more than max_buffered_bytes, so nothing is cut in this   *)
(* program.                                                                *)
truncate_front(m, keep) ==
    LET drop == IF Len(m.window) > keep THEN Len(m.window) - keep ELSE 0
    IN  IF drop = 0 THEN m
        ELSE [m EXCEPT !.window = Drop(@, drop), !.base = @ + drop,
                       !.first_line_partial = IF m.pat.mode = "glob" THEN m.window[drop] # LF ELSE @]

(* A search result shaped again and its window cut, as push_bounded does.  *)
Bounded(r, max_buffered_bytes) ==
    [r EXCEPT !.m = truncate_front(@, retained_window_limit(@, max_buffered_bytes))]
Capped(r, max_buffered_bytes) == Bounded(Searched(r.m, r.at, max_buffered_bytes), max_buffered_bytes)

push_bounded(m, chunk, max_buffered_bytes) == Capped(matcher_push(m, chunk), max_buffered_bytes)

reset_window(m) == NewMatcher(m.pat)

shape_literal_match_context(m, at) ==
    IF m.pat.mode = "literal" /\ m.pat.context # NoMatch /\ m.saved.global_index = at THEN m.saved
    ELSE NoContext

(* The historical path of a read shapes over the buffer it has read. *)
shape_match_context(accumulated, at, length, context) ==
    LET pre_start == IF at < context THEN 0 ELSE at - context
    IN  IF context = NoMatch THEN [data |-> accumulated, match_index |-> at]
        ELSE [data |-> SubSeq(accumulated, pre_start + 1, at + length), match_index |-> at - pre_start]
=============================================================================
