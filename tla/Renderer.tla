------------------------------- MODULE Renderer -------------------------------
(***************************************************************************)
(* The renderer of the terminal interface (xaft-tui renderer.rs,           *)
(* prompt.rs) and the terminal it writes to.  The rows above               *)
(* prompt_top_row scroll: what leaves them at the top goes into the        *)
(* terminal's history.  The rows below are rewritten in place: progress    *)
(* lines, the input between two borders, a dropdown and a footer.          *)
(* A screen is a record, and an operation of the renderer an operator that *)
(* takes a screen to the next.  A row holds the last line printed into it, *)
(* and what does not fit into one row the terminal goes on with in the     *)
(* next: below the region that scrolls it wraps as it feeds a line.        *)
(***************************************************************************)
EXTENDS Naturals, Sequences, SequencesExt, FiniteSetsExt

CONSTANTS
  Height,      \* rows of the terminal
  WrapWidth,   \* columns of the input beside the prompt glyph
  MaxVisible,  \* MAX_VISIBLE_ROWS
  MaxDrop      \* rows kept for a dropdown

\* Two progress lines, two borders, the input, the dropdown and the footer.
MAX_PROMPT_RESERVED_ROWS == 2 + 2 + MaxVisible + MaxDrop + 1

\* The first row that does not scroll.  The terminal is larger than the block: on a
\* smaller one nothing scrolls and lines are written over the input (README).
prompt_top_row == Height - MAX_PROMPT_RESERVED_ROWS
Blank == <<"blank">>
Overflow == <<"overflow">>  \* what the row above has no room for

-----------------------------------------------------------------------------
(* The terminal *)

MoveTo(s, row, col) == [s EXCEPT !.cursor = <<row, col>>]
Write(s, line) == [s EXCEPT !.rows[s.cursor[1]] = line]

\* At the bottom of the region the region scrolls; on the last row nothing moves.
LineFeed(s) ==
  LET row == s.cursor[1]
  IN IF row = prompt_top_row - 1
     THEN [s EXCEPT !.history = Append(@, s.rows[0]),
                    !.rows = [r \in DOMAIN @ |-> IF r < row THEN @[r + 1]
                                                 ELSE IF r = row THEN Blank ELSE @[r]]]
     ELSE [s EXCEPT !.cursor = <<Min({row + 1, Height - 1}), 0>>]

WriteLines(s, lines) ==
  LET after[k \in 1..Len(lines)] ==
        IF k = 1 THEN Write(s, lines[1]) ELSE Write(LineFeed(after[k - 1]), lines[k])
  IN after[Len(lines)]

\* All that was ever committed, as far as it was not overwritten.
Transcript(s) == s.history \o [k \in 1..prompt_top_row |-> s.rows[k - 1]]

-----------------------------------------------------------------------------
(* The layout of the input.  A line is a sequence of characters, of which  *)
(* "w" takes two columns; positions count from 1.                          *)

Columns(line, positions) ==
  Len(positions) + Cardinality({k \in DOMAIN positions : line[positions[k]] = "w"})
display_width(line) == Columns(line, [k \in DOMAIN line |-> k])

wrap_rows(line) == Max({1, (display_width(line) + WrapWidth - 1) \div WrapWidth})

RowsOf(lines) ==
  LET rows[k \in 0..Len(lines)] == IF k = 0 THEN 0 ELSE rows[k - 1] + wrap_rows(lines[k])
  IN rows[Len(lines)]

\* The rows of a line, each the positions that stand in it.
soft_wrap_line(line) ==
  LET rows[k \in 0..Len(line)] ==
        IF k = 0 THEN <<<<>>>>
        ELSE LET current == Last(rows[k - 1])
             IN IF current # <<>> /\ Columns(line, Append(current, k)) > WrapWidth
                THEN Append(rows[k - 1], <<k>>)
                ELSE Front(rows[k - 1]) \o <<Append(current, k)>>
  IN rows[Len(line)]

\* The first line shown: the bar's own, or a later one if the caret would be too low.
build_prompt(bar) ==
  LET Before(top) == RowsOf(SubSeq(bar.lines, top + 1, bar.row))
  IN [bar EXCEPT !.scroll_top =
        Min({top \in bar.scroll_top..bar.row : top = bar.row \/ Before(top) < MaxVisible})]

Shown(p) == SubSeq(p.lines, p.scroll_top + 1, Len(p.lines))
max_in_view(p) == Min({MaxVisible, RowsOf(Shown(p))})
show_indicator(p) == p.scroll_top > 0

\* The rows of the input: number of the line, its positions, columns before them.
InputRows(p) ==
  LET OfLine(l) ==
        LET fragments == soft_wrap_line(p.lines[l])
        IN [r \in DOMAIN fragments |->
              <<"input", l, fragments[r],
                IF l = 1 /\ r = 1 THEN p.badge ELSE 0>>]
      rows == FlattenSeq([k \in DOMAIN Shown(p) |-> OfLine(p.scroll_top + k)])
              \o [k \in 1..MaxVisible |-> Blank]
  IN SubSeq(rows, 1, max_in_view(p))

\* The badge of a mode stands before the glyph and takes p.badge columns that the
\* layout does not count, fewer than a row has.
BadgeWraps(p) ==
  /\ p.badge > 0 /\ ~show_indicator(p)
  /\ p.badge + Columns(p.lines[1], soft_wrap_line(p.lines[1])[1]) > WrapWidth
DrawnRows(p) ==
  LET rows == InputRows(p)
  IN IF BadgeWraps(p) THEN <<rows[1], Overflow>> \o Tail(rows) ELSE rows

\* Row and column of the caret within the input.
visible_cursor_position(p) ==
  LET line   == p.lines[p.row + 1]
      before == Columns(line, [k \in 1..p.col |-> k])
  IN <<RowsOf(SubSeq(p.lines, p.scroll_top + 1, p.row))
         + Min({before \div WrapWidth, wrap_rows(line) - 1}),
       before % WrapWidth>>

-----------------------------------------------------------------------------
(* The block below the transcript *)

Indicator(p) == IF show_indicator(p) THEN << <<"indicator">> >> ELSE <<>>

\* Entries are cut by characters and the hint behind them is not cut, so p.drop, the
\* rows of both, is not bounded by MaxDrop.
Entries(p) == [k \in 1..p.drop |-> <<"entry", k>>]

PromptBlock(p) ==
  << <<"border">> >> \o Indicator(p) \o DrawnRows(p) \o << <<"border">> >>
  \o Entries(p) \o << <<"footer">> >>

\* The progress lines are printed as they are; lines[k] is the rows line k takes.
ProgressLine(lines, k, name) ==
  IF k <= Len(lines)
  THEN [r \in 1..lines[k] |-> IF r = 1 THEN <<name>> ELSE Overflow]
  ELSE <<>>
Ephemeral(lines) == ProgressLine(lines, 1, "spinner") \o ProgressLine(lines, 2, "status")

clear_bottom_block(s) ==
  [MoveTo(s, prompt_top_row, 0) EXCEPT
     !.rows = [r \in DOMAIN @ |-> IF r >= prompt_top_row THEN Blank ELSE @[r]]]

\* Slip: the progress lines are not counted.
Slip_caret_abs_row(s) ==
  prompt_top_row + 1 + Len(Indicator(s.prompt))
    + Min({visible_cursor_position(s.prompt)[1], max_in_view(s.prompt) - 1})

caret_abs_row(s) ==
  prompt_top_row + s.ephemeral_count + 1 + Len(Indicator(s.prompt))
    + Min({visible_cursor_position(s.prompt)[1], max_in_view(s.prompt) - 1})

redraw_bottom_block(s) ==
  LET drawn == WriteLines(MoveTo(s, prompt_top_row, 0), Ephemeral(s.ephemeral) \o PromptBlock(s.prompt))
      caret == <<caret_abs_row(s), visible_cursor_position(s.prompt)[2]>>
  IN [drawn EXCEPT !.cursor = caret, !.caret = caret]

set_ephemeral(s, lines) ==
  redraw_bottom_block([clear_bottom_block(s) EXCEPT !.ephemeral = lines,
                                                    !.ephemeral_count = Len(lines)])

\* No lines: clear_ephemeral, which does nothing where none are shown.
set_ephemeral_opt(s, lines) ==
  IF lines = <<>> /\ s.ephemeral_count = 0 THEN s ELSE set_ephemeral(s, lines)

update_prompt(s, p) == redraw_bottom_block([clear_bottom_block(s) EXCEPT !.prompt = p])

clear_for_exit(s) ==
  [clear_bottom_block(s) EXCEPT !.ephemeral = <<>>, !.ephemeral_count = 0, !.stream_line_open = FALSE]

-----------------------------------------------------------------------------
(* The transcript *)

AtBottom(s) == MoveTo(s, prompt_top_row - 1, 0)
BackToCaret(s) == [s EXCEPT !.cursor = s.caret]

\* Slip: the line is written over the last one.
Slip_commit_line(s, line) == BackToCaret(Write(AtBottom(s), line))

\* An open stream line is replaced, any other line is scrolled up.
commit_line(s, line) ==
  LET at == IF s.stream_line_open THEN AtBottom(s) ELSE LineFeed(AtBottom(s))
  IN BackToCaret(Write([at EXCEPT !.stream_line_open = FALSE], line))

\* A new stream line is written over the last line; a fragment extends an open one.
update_stream(s, line) ==
  IF s.stream_line_open THEN s
  ELSE BackToCaret(Write([AtBottom(s) EXCEPT !.stream_line_open = TRUE], line))

flush_stream(s) == [s EXCEPT !.stream_line_open = FALSE]

init_prompt(rows, p) ==
  redraw_bottom_block([history |-> <<>>, rows |-> rows, cursor |-> <<0, 0>>, caret |-> <<0, 0>>,
                       stream_line_open |-> FALSE, prompt |-> p, ephemeral |-> <<>>,
                       ephemeral_count |-> 0])

\* A mutation is a pair of its name and its argument.
apply_mutation(s, mutation) ==
  CASE mutation[1] = "CommitLine"   -> commit_line(s, mutation[2])
    [] mutation[1] = "StreamToken"  -> update_stream(s, mutation[2])
    [] mutation[1] = "FlushStream"  -> flush_stream(s)
    [] mutation[1] = "SetEphemeral" -> set_ephemeral_opt(s, mutation[2])
    [] mutation[1] = "UpdatePrompt" -> update_prompt(s, build_prompt(mutation[2]))

ApplyAll(s, mutations) == FoldLeft(apply_mutation, s, mutations)

-----------------------------------------------------------------------------
(* What a reader of the screen may expect *)

\* Below the transcript stands the block of the prompt and the progress lines shown,
\* and nothing older; when it is too high its end is lost and the footer takes the last row.
BlockIsCurrent(s) ==
  LET block == Ephemeral(s.ephemeral) \o PromptBlock(s.prompt)
  IN \A r \in 1..MAX_PROMPT_RESERVED_ROWS :
       s.rows[prompt_top_row + r - 1] =
         IF r = MAX_PROMPT_RESERVED_ROWS /\ Len(block) > r THEN <<"footer">>
         ELSE IF r <= Len(block) THEN block[r] ELSE Blank

\* The cursor is where the character at the caret is shown, or behind the last one.
CursorIsAtCaret(s) ==
  LET p    == s.prompt
      line == p.lines[p.row + 1]
      row  == s.rows[s.cursor[1]]
  IN /\ row[1] = "input" /\ row[2] = p.row + 1
     /\ \E n \in 0..Len(row[3]) :
          /\ s.cursor[2] = row[4] + Columns(line, SubSeq(row[3], 1, n))
          /\ \/ n < Len(row[3]) /\ row[3][n + 1] = p.col + 1
             \/ n = Len(row[3]) /\ p.col = Len(line) /\ (n = 0 => p.col = 0)
                /\ (n > 0 => row[3][n] = p.col)
=============================================================================
