-------------------------------- MODULE Composer --------------------------------
(***************************************************************************)
(* The input bar (xaft-tui input_bar.rs) with its dropdown of completions  *)
(* (trigger/mod.rs, state.rs) and the dialog that asks before a file       *)
(* outside the workspace is attached.  Columns count bytes, as in the      *)
(* code: "w" stands for the characters of two bytes.  Rows count from 1.   *)
(***************************************************************************)
EXTENDS Naturals, Sequences, FiniteSets, SequencesExt

CONSTANTS
  MaxText,        \* characters that the user writes into the bar
  MaxVisible,     \* max_visible_rows of the bar
  MaxItems,       \* completions that a handler offers at a time
  MaxRows,        \* max_visible rows of a dropdown
  PasteAnywhere   \* whether the user pastes also while a dropdown is open

Chars == {"a", "w", " ", "@", "/", "$", "#"}
Newline == "newline"

\* The registered handlers: files, commands, skills and the history of messages.
\* Enter on a handler that allows free text takes the chosen word as the message.
Triggers == {"@", "/", "$", "#"}
FreeText == {"/", "$"}

Pastes == {<<"a", " ">>, <<Newline, "a">>}

\* The words a handler offers: a file, a directory, a command and a skill.  The
\* history offers none, for nothing calls InputHistoryStore::push but its tests.
File == <<"@", "a", " ">>
Directory == <<"@", "a", "/">>
Command == <<"/", "a", " ">>
Skill == <<"$", "a", " ">>
Completions == {File, Directory, Command, Skill}

VARIABLES
  bar,             \* InputBar: lines, and the cursor's row and column
  scroll_top,
  active_trigger,  \* the open dropdown
  escape_dialog,   \* the message that waits for a confirmation, <<>> for none
  approved,        \* escape_approved_session
  panicked,        \* a slice was out of range
  key              \* the last key, for the abstract specification

vars == <<bar, scroll_top, active_trigger, escape_dialog, approved, panicked, key>>

NoTrigger == [char |-> "", pos |-> 0, items |-> 0, selected |-> 0, scroll_top |-> 0]
Empty == [lines |-> <<<<>>>>, row |-> 1, col |-> 0]

Init ==
  /\ bar = Empty /\ scroll_top = 0 /\ active_trigger = NoTrigger
  /\ escape_dialog = <<>> /\ approved = FALSE /\ panicked = FALSE /\ key = "none"

-----------------------------------------------------------------------------
(* Bytes and characters of a line *)

Width(c) == IF c = "w" THEN 2 ELSE 1
Size(s) == Len(s) + Cardinality({k \in DOMAIN s : s[k] = "w"})
Boundaries(s) == {Size(SubSeq(s, 1, k)) : k \in 0..Len(s)}

\* Slip: the column is clamped to the line but may fall inside a character.
Slip_snap_to_char_boundary(s, col) == Min({col, Size(s)})
snap_to_char_boundary(s, col) == Max({b \in Boundaries(s) : b <= col})
next_char_boundary(s, col) == Min({Size(s)} \cup {b \in Boundaries(s) : b > col})

\* How many characters lie before a column; what lies before and behind it.
Index(s, col) == Cardinality({b \in Boundaries(s) : b < col})
Upto(s, col) == SubSeq(s, 1, Index(s, col))
Behind(s, col) == SubSeq(s, Index(s, col) + 1, Len(s))
Within(s, from, col) == SubSeq(s, Index(s, from) + 1, Index(s, col))

-----------------------------------------------------------------------------
(* The editing operations, each from a bar to a bar *)

Line(b) == b.lines[b.row]
WithLine(b, line, col) == [b EXCEPT !.lines[b.row] = line, !.col = col]

insert_char(b, c) ==
  LET col == snap_to_char_boundary(Line(b), b.col)
  IN WithLine(b, Upto(Line(b), col) \o <<c>> \o Behind(Line(b), col), col + Width(c))

insert_newline(b) ==
  LET col == snap_to_char_boundary(Line(b), b.col)
  IN [lines |-> SubSeq(b.lines, 1, b.row - 1) \o <<Upto(Line(b), col), Behind(Line(b), col)>>
                \o SubSeq(b.lines, b.row + 1, Len(b.lines)),
      row |-> b.row + 1, col |-> 0]

insert_str(b, s) == FoldLeft(LAMBDA acc, c : IF c = Newline THEN insert_newline(acc)
                                            ELSE insert_char(acc, c), b, s)

\* Two lines become one, and the caret stays between them.
Joined(b, r) ==
  [lines |-> SubSeq(b.lines, 1, r - 1) \o <<b.lines[r] \o b.lines[r + 1]>>
             \o SubSeq(b.lines, r + 2, Len(b.lines)),
   row |-> r, col |-> Size(b.lines[r])]

Erase(b, from, upto) == WithLine(b, Upto(Line(b), from) \o Behind(Line(b), upto), from)

backspace(b) ==
  IF b.col > 0 THEN Erase(b, snap_to_char_boundary(Line(b), b.col - 1), b.col)
  ELSE IF b.row > 1 THEN Joined(b, b.row - 1) ELSE b

delete_forward(b) ==
  IF b.col < Size(Line(b)) THEN Erase(b, b.col, next_char_boundary(Line(b), b.col))
  ELSE IF b.row < Len(b.lines) THEN Joined(b, b.row) ELSE b

cursor_left(b) ==
  IF b.col > 0 THEN [b EXCEPT !.col = snap_to_char_boundary(Line(b), b.col - 1)]
  ELSE IF b.row > 1 THEN [b EXCEPT !.row = b.row - 1, !.col = Size(b.lines[b.row - 1])] ELSE b

cursor_right(b) ==
  IF b.col < Size(Line(b)) THEN [b EXCEPT !.col = next_char_boundary(Line(b), b.col)]
  ELSE IF b.row < Len(b.lines) THEN [b EXCEPT !.row = b.row + 1, !.col = 0] ELSE b

\* The caret keeps its column in bytes, as far as the other line goes.
ToRow(b, r) ==
  IF r \in DOMAIN b.lines
  THEN [b EXCEPT !.row = r, !.col = snap_to_char_boundary(b.lines[r], b.col)] ELSE b

\* Blanks before the caret, then the word before them.
delete_word_backward(b) ==
  LET before == Upto(Line(b), b.col)
      solid == {k \in DOMAIN before : before[k] # " "}
      blanks == {k \in DOMAIN before : before[k] = " " /\ \E j \in solid : k < j}
  IN IF b.col = 0 THEN backspace(b)
     ELSE Erase(b, IF blanks = {} THEN 0 ELSE Size(SubSeq(before, 1, Max(blanks))), b.col)

EditKeys == Chars \cup {"newline", "backspace", "delete", "kill_start", "kill_end", "kill_word"}
MoveKeys == {"left", "right", "up", "down", "home", "end"}

\* InputBar::handle_key, without Enter.
handle_key(b, k) ==
  CASE k \in Chars -> insert_char(b, k)
    [] k = "newline" -> insert_newline(b)
    [] k = "backspace" -> backspace(b)
    [] k = "delete" -> delete_forward(b)
    [] k = "kill_start" -> Erase(b, 0, b.col)
    [] k = "kill_end" -> Erase(b, b.col, Size(Line(b)))
    [] k = "kill_word" -> delete_word_backward(b)
    [] k = "left" -> cursor_left(b)
    [] k = "right" -> cursor_right(b)
    [] k = "up" -> ToRow(b, b.row - 1)
    [] k = "down" -> ToRow(b, b.row + 1)
    [] k = "home" -> [b EXCEPT !.col = 0]
    [] k = "end" -> [b EXCEPT !.col = Size(Line(b))]

clamp_scroll(b, top) ==
  CASE Len(b.lines) <= MaxVisible -> 0
    [] Len(b.lines) > MaxVisible /\ b.row > top + MaxVisible -> b.row - MaxVisible
    [] OTHER -> Min({top, b.row - 1})

SetBar(b) == bar' = b /\ scroll_top' = clamp_scroll(b, scroll_top)

-----------------------------------------------------------------------------
(* The dropdown *)

\* active_for: the rightmost trigger before the caret, in its word.
Scans(b) ==
  LET before == Upto(Line(b), b.col)
  IN {k \in DOMAIN before : /\ before[k] \in Triggers
                            /\ \A j \in k..Len(before) : before[j] # " "}

\* Slip: a dropdown stays open as long as its trigger is there.
Slip_refresh_trigger(b) ==
  \/ active_trigger # NoTrigger /\ UNCHANGED active_trigger
  \/ active_trigger = NoTrigger
     /\ LET k == IF Scans(b) = {} THEN 0 ELSE Max(Scans(b))
        IN IF k = 0 THEN active_trigger' = NoTrigger
           ELSE \E items \in 1..MaxItems :
                  active_trigger' = [NoTrigger EXCEPT !.char = Line(b)[k], !.items = items,
                                                      !.pos = Size(SubSeq(Line(b), 1, k - 1))]

refresh_trigger(b) ==
  LET k == IF Scans(b) = {} THEN 0 ELSE Max(Scans(b))
      ignored == k = 0 \/ (Line(b)[k] = "/" /\ (Len(b.lines) > 1 \/ Line(b)[1] # "/"))
      char == Line(b)[k]
      same == active_trigger.char = char
  IN IF ignored THEN active_trigger' = NoTrigger
     ELSE \E items \in 0..MaxItems :
       /\ char = "#" => items = 0
       /\ active_trigger' =
            IF items = 0 /\ char \notin FreeText THEN NoTrigger
            ELSE [char |-> char, pos |-> Size(SubSeq(Line(b), 1, k - 1)), items |-> items,
                  selected |-> IF ~same \/ items = 0 THEN 0
                               ELSE Min({active_trigger.selected, items - 1}),
                  scroll_top |-> IF same THEN active_trigger.scroll_top ELSE 0]

Open == active_trigger # NoTrigger
Typing == ~panicked /\ escape_dialog = <<>>

\* The text of the bar, and the bar that set_text makes of a text.
Text(b) == FoldLeft(LAMBDA acc, line : Append(acc, Newline) \o line, Head(b.lines), Tail(b.lines))
set_text(s) == insert_str(Empty, s)
Written == Len(Text(bar))

-----------------------------------------------------------------------------
(* Keys: handle_key of state.rs *)

\* A key of the input bar.  An editing key that found nothing to do is not
\* consumed, and the dropdown is not looked at.
Edit == \E k \in EditKeys \cup MoveKeys :
  /\ Typing /\ key' = k
  /\ Open => k \notin {"up", "down"}
  /\ k \in Chars \cup {"newline"} => Written < MaxText
  /\ LET b == handle_key(bar, k)
     IN /\ SetBar(b)
        /\ IF k \in EditKeys /\ b = bar THEN UNCHANGED active_trigger ELSE refresh_trigger(b)
  /\ UNCHANGED <<escape_dialog, approved, panicked>>

\* Up and Down in a dropdown: the choice goes round, and the rows follow it.
Select == \E step \in {1, active_trigger.items - 1} :
  /\ Typing /\ Open /\ key' = "choose"
  /\ LET n == active_trigger.items
         chosen == (active_trigger.selected + step) % n
         top == active_trigger.scroll_top
     IN active_trigger' =
          IF n = 0 THEN active_trigger
          ELSE [active_trigger EXCEPT !.selected = chosen,
                  !.scroll_top = CASE chosen < top -> chosen
                                   [] chosen >= top + MaxRows -> chosen + 1 - MaxRows
                                   [] OTHER -> top]
  /\ UNCHANGED <<bar, scroll_top, escape_dialog, approved, panicked>>

\* trigger_complete: the slice up to the trigger must exist in the caret's line.
\* set_text scrolls to the last row before the caret goes back.
Complete ==
  LET line == Line(bar)  pos == active_trigger.pos
  IN IF pos \notin Boundaries(line)
     THEN panicked' = TRUE /\ UNCHANGED <<bar, scroll_top, active_trigger>>
     ELSE \E word \in Completions :
       /\ Head(word) = active_trigger.char
       /\ LET b == WithLine(bar, Upto(line, pos) \o word \o Behind(line, bar.col),
                            pos + Size(word))
              last == [b EXCEPT !.row = Len(b.lines)]
          IN /\ bar' = b /\ scroll_top' = clamp_scroll(b, clamp_scroll(last, scroll_top))
             /\ IF word = Directory THEN refresh_trigger(b) ELSE active_trigger' = NoTrigger
       /\ UNCHANGED panicked

\* handle_submit: a command is executed; a message is sent, or asked about.
submit(message, b) ==
  /\ SetBar(b) /\ active_trigger' = NoTrigger
  /\ escape_dialog' \in IF ~approved /\ "@" \in Range(message)
                           /\ (Head(message) # "/" \/ Newline \in Range(message))
                        THEN {<<>>, message} ELSE {<<>>}
  /\ UNCHANGED panicked

\* The text without the blanks around it.
Solid == {k \in DOMAIN Text(bar) : Text(bar)[k] \notin {" ", Newline}}
Message == SubSeq(Text(bar), Min(Solid), Max(Solid))

Tab ==
  /\ Typing /\ Open /\ key' = "tab" /\ Written <= MaxText
  /\ IF active_trigger.items = 0 THEN UNCHANGED <<bar, scroll_top, active_trigger, panicked>>
     ELSE Complete
  /\ UNCHANGED <<escape_dialog, approved>>

\* Enter completes a mention; it submits the chosen command or skill, and the bar is
\* cleared of all that it held; or else it submits the text.
Enter ==
  /\ Typing /\ key' = "enter" /\ Written <= MaxText
  /\ CASE active_trigger.char = "@" -> Complete /\ UNCHANGED escape_dialog
       [] active_trigger.items > 0 /\ active_trigger.char \in FreeText ->
            \E word \in Completions : Head(word) = active_trigger.char /\ submit(word, Empty)
       [] OTHER -> IF Solid = {}
                   THEN active_trigger' = NoTrigger
                        /\ UNCHANGED <<bar, scroll_top, escape_dialog, panicked>>
                   ELSE submit(Message, Empty)
  /\ UNCHANGED approved

Escape ==
  /\ Typing /\ Open /\ key' = "choose"
  /\ active_trigger' = NoTrigger
  /\ UNCHANGED <<bar, scroll_top, escape_dialog, approved, panicked>>

\* A paste reaches the bar also under the dialog, and no dropdown hears of it.
Paste == \E s \in Pastes :
  /\ ~panicked /\ Written + Len(s) <= MaxText /\ (Open => PasteAnywhere)
  /\ key' = "paste"
  /\ SetBar(insert_str(bar, s))
  /\ UNCHANGED <<active_trigger, escape_dialog, approved, panicked>>

\* The dialog: once, for the session, or back to the bar.
Approve == \E session \in BOOLEAN :
  /\ ~panicked /\ escape_dialog # <<>> /\ key' = "confirm"
  /\ escape_dialog' = <<>> /\ approved' = (approved \/ session)
  /\ UNCHANGED <<bar, scroll_top, active_trigger, panicked>>

\* The caret is put at a column counted in characters, in the first line.
Cancel ==
  /\ ~panicked /\ escape_dialog # <<>> /\ key' = "cancel"
  /\ LET b == set_text(escape_dialog)
     IN SetBar([b EXCEPT !.row = 1,
                  !.col = snap_to_char_boundary(b.lines[1], Len(escape_dialog))])
  /\ escape_dialog' = <<>>
  /\ UNCHANGED <<active_trigger, approved, panicked>>

Next == Edit \/ Select \/ Tab \/ Enter \/ Escape \/ Paste \/ Approve \/ Cancel

Spec == Init /\ [][Next]_vars

-----------------------------------------------------------------------------
(* Properties *)

\* invariants_hold (input_bar.rs:482): the caret is on a character boundary of a
\* line that is on the screen; and the choice of a dropdown is one of its items.
TypeOK ==
  /\ bar.row \in DOMAIN bar.lines
  /\ bar.col \in Boundaries(Line(bar))
  /\ Len(bar.lines) <= MaxVisible => scroll_top = 0
  /\ scroll_top < bar.row /\ bar.row <= scroll_top + MaxVisible
  /\ active_trigger.items > 0 => active_trigger.selected < active_trigger.items
  /\ escape_dialog # <<>> => ~Open

\* An open dropdown is about the word at the caret, in the line of the caret:
\* trigger_byte_pos is where its trigger stands (trigger/mod.rs:320).
TokenUnderCaret == Open =>
  \E k \in Scans(bar) : /\ Line(bar)[k] = active_trigger.char
                        /\ Size(SubSeq(Line(bar), 1, k - 1)) = active_trigger.pos

\* The bar is a text with a caret: rows, bytes and dropdowns change nothing of
\* what each key does to it.
Caret == Len(Text([lines |-> SubSeq(bar.lines, 1, bar.row - 1) \o <<Upto(Line(bar), bar.col)>>,
                   row |-> 1, col |-> 0]))
Buffer == INSTANCE TextBuffer WITH
  Blank <- " ", text <- Text(bar), caret <- Caret, held <- escape_dialog
ImplementsTextBuffer == Buffer!Spec
=============================================================================
