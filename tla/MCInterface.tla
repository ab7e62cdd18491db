------------------------------ MODULE MCInterface ------------------------------
(***************************************************************************)
(* The terminal interface in eight scenes: its main loop with all that a   *)
(* user and a run may do, or with fewer messages and fairness; the         *)
(* confirmation of tool calls with all that may go wrong, or with calls    *)
(* that wait before they are announced and stay in the foreground; the     *)
(* input bar with its dropdown; the screen with every shape of the input,  *)
(* with the lines of one pipeline, or with two pipelines.  The components  *)
(* that a scene is not about keep their initial states.                    *)
(***************************************************************************)
EXTENDS Naturals, Sequences, FiniteSets

VARIABLES scene,
  typed, count, requests, running, outcome, events, current, phase, task_done,
  agent_running, bg_mode, bg_new_task_sent, awaiting_bg_select, background_entries,
  label, pc, cancel, reader, runtime, quit, pressed,
  tool, gate, announced, pending, focused_idx, record, detached, cancelled, skips,
  bar, scroll_top, active_trigger, escape_dialog, approved, panicked, key,
  screen, accepted, ended, said, notes, resting, phase_active, stream_active,
  tool_group, left, lost

loopVars == <<typed, count, requests, running, outcome, events, current, phase,
              task_done, agent_running, bg_mode, bg_new_task_sent, awaiting_bg_select,
              background_entries, label, pc, cancel, reader, runtime, quit, pressed>>
askVars == <<tool, gate, announced, pending, focused_idx, record, detached, cancelled, skips>>
textVars == <<bar, scroll_top, active_trigger, escape_dialog, approved, panicked, key>>
\* The flags of the screen that are those of the main loop are the same variables.
screenVars == <<screen, accepted, ended, said, notes, resting, phase_active,
                stream_active, tool_group, left, lost>>
otherLoopVars == <<typed, count, requests, outcome, events, current, phase, task_done,
                   agent_running, label, pc, cancel, reader, runtime, quit>>
vars == <<scene, loopVars, askVars, textVars, screenVars>>

Loop == INSTANCE TuiLoop WITH
  MaxTasks <- 3, MaxDetach <- 2, MaxEvents <- 2, MaxBackground <- 1,
  MayStop <- TRUE, MayFail <- TRUE, MayCancel <- FALSE, MayQuit <- FALSE

FairLoop == INSTANCE TuiLoop WITH
  MaxTasks <- 2, MaxDetach <- 2, MaxEvents <- 1, MaxBackground <- 4,
  MayStop <- FALSE, MayFail <- TRUE, MayCancel <- TRUE, MayQuit <- TRUE

Calls == {"a", "b", "c"}

Asks == INSTANCE Approvals WITH
  events <- announced, Safe <- {"c"}, Early <- TRUE, MayExpire <- TRUE,
  MayDetach <- TRUE, MaxSkips <- 0

OrderlyAsks == INSTANCE Approvals WITH
  events <- announced, Safe <- {"c"}, Early <- FALSE, MayExpire <- TRUE,
  MayDetach <- FALSE, MaxSkips <- 2

\* A dropdown with more entries than rows, and a text with more rows than the bar.
Text == INSTANCE Composer WITH
  MaxText <- 2, MaxVisible <- 2, MaxItems <- 2, MaxRows <- 1, PasteAnywhere <- FALSE

Fill(n) == [k \in 1..n |-> "a"]
Bar(lines, row, col, top, drop, badge) ==
  [lines |-> lines, row |-> row, col |-> col, scroll_top |-> top, drop |-> drop,
   badge |-> badge]

\* An input of one to three lines that wraps or not, with the caret anywhere, scrolled
\* or not, with a dropdown or none, also one with more rows than are kept for it; one with
\* a wide character, some with a badge, which fits into its row or wraps.
Bars ==
  UNION {{Bar(<<Fill(n)>>, 0, c, 0, 0, 0) : c \in 0..n} : n \in 0..5}
  \cup {Bar(<<Fill(3)>>, 0, c, 0, 2, 0) : c \in 0..3}
  \cup UNION {{Bar(<<Fill(n), Fill(1)>>, 0, c, 0, 0, 0) : c \in 0..n} : n \in 0..3}
  \cup UNION {{Bar(<<Fill(n), Fill(m)>>, 1, c, 0, 0, 0) : c \in 0..m} : n \in {0, 2, 3}, m \in {0, 3}}
  \cup {Bar(<<Fill(1), Fill(n), Fill(1)>>, r, 1, 1, 2, 0) : n \in 1..3, r \in 1..2}
  \cup {Bar(<<<<"a", "w", "a">>>>, 0, c, 0, 2, 0) : c \in 0..3}
  \cup {Bar(<<Fill(n)>>, 0, n, 0, d, 1) : n \in {1, 3}, d \in {0, 3}}

Layout == INSTANCE Screen WITH
  quit <- left, WrapWidth <- 2, MaxVisible <- 2, MaxDrop <- 2, Height <- 10, Bars <- Bars,
  MaxRuns <- 0, MaxLines <- 0, MaxNotes <- 1, MaxDetach <- 0, MaxBuffered <- 2,
  Progress <- {<<>>, <<1>>, <<1, 1>>, <<2, 1>>}, MayQuit <- TRUE

OneBar == {Bar(<<Fill(1)>>, 0, 1, 0, 0, 0)}

Output == INSTANCE Screen WITH
  quit <- left, WrapWidth <- 2, MaxVisible <- 1, MaxDrop <- 0, Height <- 8, Bars <- OneBar,
  MaxRuns <- 2, MaxLines <- 3, MaxNotes <- 1, MaxDetach <- 3, MaxBuffered <- 2,
  Progress <- {<<>>}, MayQuit <- FALSE

\* The lines of one pipeline, or two pipelines that say little.
OutputBound ==
  IF scene = "lines" THEN accepted' <= 1 /\ pressed' <= 2
  ELSE notes' = 0 /\ \A r \in DOMAIN said' : said'[r] <= 1

Init ==
  /\ scene \in {"loop", "fairloop", "asks", "orderlyasks", "text", "layout", "lines",
                "pipelines"}
  /\ IF scene = "loop" THEN Loop!Init ELSE FairLoop!Init
  /\ Asks!Init /\ Text!Init
  /\ IF scene = "layout" THEN Layout!Init ELSE Output!Init

InScreen(A) == A /\ UNCHANGED <<otherLoopVars, askVars, textVars>>

Next ==
  /\ UNCHANGED scene
  /\ \/ scene = "loop" /\ Loop!Next /\ UNCHANGED <<askVars, textVars, screenVars>>
     \/ scene = "fairloop" /\ FairLoop!Next /\ UNCHANGED <<askVars, textVars, screenVars>>
     \/ scene = "asks" /\ Asks!Next /\ UNCHANGED <<loopVars, textVars, screenVars>>
     \/ scene = "orderlyasks" /\ OrderlyAsks!Next /\ UNCHANGED <<loopVars, textVars, screenVars>>
     \/ scene = "text" /\ Text!Next /\ UNCHANGED <<loopVars, askVars, screenVars>>
     \/ scene = "layout" /\ InScreen(Layout!Next)
     \/ scene \in {"lines", "pipelines"} /\ InScreen(Output!Next) /\ OutputBound

\* The fairness of TuiLoop and of Approvals.  A scene never changes, so fairness of a
\* step of the one and of a step of the other is fairness of either.
InLoop(A) == scene = "fairloop" /\ A /\ UNCHANGED <<scene, askVars, textVars, screenVars>>
InAsks(A) == scene = "asks" /\ A /\ UNCHANGED <<scene, loopVars, textVars, screenVars>>

Fairness ==
  /\ WF_vars(InLoop(FairLoop!StartRun) \/ InAsks(Asks!Wait("a")))
  /\ WF_vars(InLoop(FairLoop!FinishRun) \/ InAsks(Asks!Wait("b")))
  /\ WF_vars(InLoop(FairLoop!StopRuntime) \/ InAsks(Asks!Wait("c")))
  /\ WF_vars(InLoop(FairLoop!StopReader) \/ InAsks(Asks!Expire("a")))
  /\ WF_vars(\/ InLoop(FairLoop!NoTask \/ FairLoop!HandleLlm \/ FairLoop!HandleCancelled
                       \/ FairLoop!HandleEnd)
             \/ InAsks(Asks!Expire("b")))
  /\ WF_vars(InLoop(FairLoop!AcceptTask) \/ InAsks(Asks!Expire("c")))
  /\ \A c \in Calls : WF_vars(InAsks(Asks!CleanUp(c)))
  /\ WF_vars(InAsks(Asks!HandlePending))
  /\ SF_vars(InLoop(FairLoop!Tail_)) /\ SF_vars(InLoop(FairLoop!End))
  /\ SF_vars(InLoop(FairLoop!CtrlCTimeout))

Spec == Init /\ [][Next]_vars /\ Fairness

AppendStep ==
  CASE scene = "layout" -> Layout!AppendOnly
    [] scene \in {"lines", "pipelines"} -> Output!AppendOnly
    [] OTHER -> TRUE

-----------------------------------------------------------------------------
(* Properties: those of the components, each in the scenes it is about *)

\* Flags, phases, queues and decisions keep their types in every scene.
TypeOK ==
  /\ scene = "loop" => Loop!TypeOK
  /\ scene = "fairloop" => FairLoop!TypeOK
  /\ scene \in {"asks", "orderlyasks"} => Asks!TypeOK
  /\ scene = "text" => Text!TypeOK
  /\ scene = "layout" => Layout!TypeOK
  /\ scene \in {"lines", "pipelines"} => Output!TypeOK

\* Messages are run in the order they were typed, each once; and the lines that a
\* pipeline says are shown in that order, however often it is detached.
OrderIsKept ==
  /\ scene = "loop" => Loop!TasksKeepOrder
  /\ scene \in {"lines", "pipelines"} => Output!OutputInOrder

\* The entry that runs in the background is the run whose end comes next, and a
\* finished entry says how its run ended.
BackgroundIsInFlight == scene = "loop" => Loop!BackgroundIsInFlight

\* A typed message is run in the end, also behind a pipeline in the background, and
\* one Ctrl+C ends the program; every call is answered, without the user too.
EveryoneIsAnswered ==
  /\ scene = "fairloop" => FairLoop!TypedIsRun /\ FairLoop!CtrlCEnds
  /\ scene = "asks" => Asks!CallsAreAnswered

\* A tool runs only after this very call was approved, by a rule or a key.
RunsOnlyApproved == scene \in {"asks", "orderlyasks"} => Asks!RunsOnlyApproved

\* Every announced call is at one place, and the focus is on an entry; where
\* calls wait before they are announced, a recorded decision has reached its call.
QueueAgreesWithGate ==
  /\ scene = "asks" => Asks!QueueAgreesWithGate
  /\ scene = "orderlyasks" => OrderlyAsks!QueueAgreesWithGate

\* An open dropdown is about the word at the caret (trigger/mod.rs:320), as long as
\* the user does not paste into it.
TokenUnderCaret == scene = "text" => Text!TokenUnderCaret

\* The refinement: whatever rows, bytes, scrolling and dropdowns there are, each key
\* does to the text and its caret what TextBuffer says.
ImplementsTextBuffer == Text!ImplementsTextBuffer

\* What was committed to the transcript stays (renderer.rs:1).
TranscriptIsAppendOnly == [][AppendStep]_vars

\* Below the transcript stands the current prompt, as far as it fits, with the cursor at
\* the caret where the layout does not lose it (renderer.rs:18), whatever is drawn above,
\* below or in between, and whatever the terminal wraps.
ScreenShowsPrompt ==
  /\ scene = "layout" => Layout!ScreenShowsPrompt
  /\ scene \in {"lines", "pipelines"} => Output!ScreenShowsPrompt
=============================================================================
