------------------------------- MODULE TextBuffer -------------------------------
(***************************************************************************)
(* What the user of the input bar is promised: a text, and a caret between *)
(* two of its characters.  Each key acts on the text around the caret; of  *)
(* rows, bytes, scrolling and dropdowns this specification knows nothing.  *)
(***************************************************************************)
EXTENDS Naturals, Sequences, SequencesExt

CONSTANTS
  Chars, Blank, Newline,  \* what a text is made of: Newline is not one of Chars
  Triggers,               \* characters that open a dropdown
  FreeText,               \* those whose chosen word is a message of its own
  Pastes,                 \* texts that the user pastes
  Completions             \* words that a dropdown offers

VARIABLES
  text, caret,
  held,   \* the message that waits for a confirmation, <<>> for none
  key     \* what the user did last

vars == <<text, caret, held, key>>

Init == text = <<>> /\ caret = 0 /\ held = <<>> /\ key = "none"

\* Characters from+1 to upto are replaced by s, and the caret is left behind it.
Replace(from, upto, s) ==
  /\ text' = SubSeq(text, 1, from) \o s \o SubSeq(text, upto + 1, Len(text))
  /\ caret' = from + Len(s)

MoveTo(place) == caret' = place /\ UNCHANGED text

LineStart(p) == Max({0} \cup {k \in 1..p : text[k] = Newline})
LineEnd(p) == Min({Len(text)} \cup {k - 1 : k \in {j \in p + 1..Len(text) : text[j] = Newline}})
Before == IF caret = 0 THEN 0 ELSE caret - 1
After == IF caret = Len(text) THEN caret ELSE caret + 1

\* The word before the caret and the blanks behind it, or the line break.
WordStart ==
  LET solid == {k \in LineStart(caret) + 1..caret : text[k] # Blank}
      word == IF solid = {} THEN 0 ELSE Max(solid)
  IN IF caret = LineStart(caret) THEN Before
     ELSE Max({LineStart(caret)} \cup {k \in LineStart(caret) + 1..word : text[k] = Blank})

\* A key that acts on the text.
Edit(k) ==
  \/ k \in Chars /\ Replace(caret, caret, <<k>>)
  \/ k = "newline" /\ Replace(caret, caret, <<Newline>>)
  \/ k = "paste" /\ \E s \in Pastes : Replace(caret, caret, s)
  \/ k = "backspace" /\ Replace(Before, caret, <<>>)
  \/ k = "delete" /\ Replace(caret, After, <<>>)
  \/ k = "kill_start" /\ Replace(LineStart(caret), caret, <<>>)
  \/ k = "kill_end" /\ Replace(caret, LineEnd(caret), <<>>)
  \/ k = "kill_word" /\ Replace(WordStart, caret, <<>>)

\* The word at the caret begins with a trigger behind the place from.
WordAt(from) ==
  /\ from \in (LineStart(caret)..caret) \ {caret}
  /\ text[from + 1] \in Triggers
  /\ \A k \in from + 1..caret : text[k] # Blank

\* A completion replaces the word at the caret, from its trigger on.
Complete == \E from \in LineStart(caret)..caret : \E s \in Completions :
  /\ WordAt(from)
  /\ s[1] = text[from + 1]
  /\ Replace(from, caret, s)

Move(k) ==
  \/ k = "left" /\ MoveTo(Before)
  \/ k = "right" /\ MoveTo(After)
  \/ k = "home" /\ MoveTo(LineStart(caret))
  \/ k = "end" /\ MoveTo(LineEnd(caret))
  \/ /\ k = "up"
     /\ IF LineStart(caret) = 0 THEN MoveTo(caret)
        ELSE \E p \in LineStart(LineStart(caret) - 1)..LineStart(caret) - 1 : MoveTo(p)
  \/ /\ k = "down"
     /\ IF LineEnd(caret) = Len(text) THEN MoveTo(caret)
        ELSE \E p \in LineEnd(caret) + 1..LineEnd(LineEnd(caret) + 1) : MoveTo(p)

\* The message without the blanks around it; it leaves the bar if there is one.
Solid == {k \in DOMAIN text : text[k] \notin {Blank, Newline}}
Message == IF Solid = {} THEN <<>> ELSE SubSeq(text, Min(Solid), Max(Solid))

Submit ==
  IF Solid = {} THEN UNCHANGED <<text, caret, held>>
  ELSE text' = <<>> /\ caret' = 0 /\ held' \in {<<>>, Message}

\* The word at the caret is completed, and the completion submitted instead of the
\* text: what stands around the word is given up.
SubmitWord ==
  /\ \E from \in LineStart(caret)..caret : WordAt(from) /\ text[from + 1] \in FreeText
  /\ text' = <<>> /\ caret' = 0 /\ UNCHANGED held

\* The message is sent, or it comes back to the bar as it was.
Confirm == held' = <<>> /\ UNCHANGED <<text, caret>>
GiveBack ==
  /\ text' = held /\ held' = <<>>
  /\ caret' \in 0..Min({Len(held)} \cup {k - 1 : k \in {j \in DOMAIN held : held[j] = Newline}})

\* A key that only concerns a dropdown.
Choose == UNCHANGED <<text, caret, held>>

Next == \E k \in Chars \cup {"newline", "paste", "backspace", "delete", "kill_start", "kill_end",
                           "kill_word", "left", "right", "home", "end", "up", "down",
                           "tab", "enter", "confirm", "cancel", "choose"} :
  /\ key' = k
  /\ \/ (Edit(k) \/ Move(k)) /\ (held = <<>> \/ k = "paste") /\ UNCHANGED held
     \/ k = "tab" /\ held = <<>> /\ ((Complete /\ UNCHANGED held) \/ Choose)
     \/ k = "enter" /\ held = <<>> /\ ((Complete /\ UNCHANGED held) \/ Submit \/ SubmitWord)
     \/ k = "confirm" /\ held # <<>> /\ Confirm
     \/ k = "cancel" /\ held # <<>> /\ GiveBack
     \/ k = "choose" /\ Choose

Spec == Init /\ [][Next]_vars
=============================================================================
