-------------------------------- MODULE Screen --------------------------------
(***************************************************************************)
(* What the terminal interface shows (xaft-tui state.rs, app.rs): the      *)
(* events of the pipelines become mutations of the screen, at once or, of  *)
(* a pipeline that was detached with Ctrl+B, when it is taken back.        *)
(* An event is handled where it stands in the channel, and its mutations   *)
(* are applied in the order they were pushed, so one action does both.     *)
(* StreamToken and SessionUpdate have no sender in this repository, and    *)
(* max_background_tasks bounds nothing here: at most one entry runs.       *)
(***************************************************************************)
EXTENDS Renderer

CONSTANTS
  Bars,         \* contents of the input bar
  MaxRuns,      \* messages the user types, one pipeline each
  MaxLines,     \* lines that a pipeline says
  MaxNotes,     \* lines about other things
  MaxDetach,    \* how often the user presses Ctrl+B
  MaxBuffered,  \* MAX_BUFFERED_MUTATIONS
  Progress,     \* progress lines, up to 2: the rows that each takes
  MayQuit       \* whether the user may end the program

Runs == 1..MaxRuns

VARIABLES
  screen,
  accepted, running, ended,  \* messages accepted, the pipeline at work or 0, those ended
  said,                      \* how many lines each pipeline has said
  notes, pressed,            \* notes shown, and presses of Ctrl+B
  resting,                   \* ~agent_running \/ task_done: the loop accepts a message
  phase_active, bg_mode, bg_new_task_sent, awaiting_bg_select, stream_active,
  background_entries,
  tool_group,                \* calls completed since the last summary, up to 2
  quit,
  lost                       \* history: lines that an open stream line took with it

pipelines == <<accepted, running, ended, said>>
flags == <<resting, phase_active, bg_mode, bg_new_task_sent, awaiting_bg_select>>
vars == <<screen, pipelines, notes, pressed, flags, stream_active, background_entries,
          tool_group, quit, lost>>

RunningEntries == {k \in DOMAIN background_entries : background_entries[k].status = "running"}

Note == <<"CommitLine", <<"note">>>>
Flush == <<"FlushStream">>
FlushIfActive == IF stream_active THEN <<Flush>> ELSE <<>>
UpdatePrompt == <<"UpdatePrompt", screen.prompt>>

Init ==
  /\ \E bar \in Bars :
       screen = init_prompt([r \in 0..(Height - 1) |-> Blank], build_prompt(bar))
  /\ accepted = 0 /\ running = 0 /\ ended = 0 /\ said = [r \in Runs |-> 0]
  /\ notes = 0 /\ pressed = 0 /\ resting = TRUE
  /\ phase_active = FALSE /\ bg_mode = FALSE /\ bg_new_task_sent = FALSE
  /\ awaiting_bg_select = FALSE /\ stream_active = FALSE
  /\ background_entries = <<>> /\ tool_group = 0 /\ quit = FALSE /\ lost = {}

\* Mutations that are applied now; those of a line committed over an open stream line
\* take the tool call with them on which the stream line was written.
Show(mutations) ==
  /\ screen' = ApplyAll(screen, mutations)
  /\ LET before == Transcript(screen)
         end    == Len(before)
     IN lost' = IF screen.stream_line_open /\ Transcript(screen')[end] # before[end]
                THEN lost \cup {<<before[end][2], before[end][3]>>} ELSE lost

\* The branch of push_pipeline_mutation for a detached pipeline.
Buffered(entry, mutations) ==
  FoldLeft(LAMBDA e, m :
      IF Len(e.buffered) < MaxBuffered THEN [e EXCEPT !.buffered = Append(@, m)]
      ELSE IF e.truncated THEN e
      ELSE [e EXCEPT !.truncated = TRUE,
                     !.buffered = Append(@, <<"CommitLine", <<"truncated", e.run>>>>)],
    entry, mutations)

\* What a handler pushes for the pipeline, between what it pushes to the screen
\* whether the pipeline is shown or not.  In bg_mode an entry is running
\* (BackgroundIsInFlight of TuiLoop), so the flag is never found stale here.
Emit(first, mutations, last) ==
  /\ Show(IF bg_mode THEN first \o last ELSE first \o mutations \o last)
  /\ background_entries' =
       IF bg_mode
       THEN [background_entries EXCEPT ![Max(RunningEntries)] = Buffered(@, mutations)]
       ELSE background_entries

\* The next line of the pipeline at work.
Speaks == running # 0 /\ said[running] < MaxLines
NextLine == <<"CommitLine", <<"line", running, said[running] + 1>>>>
Says == said' = [said EXCEPT ![running] = @ + 1]

-----------------------------------------------------------------------------
(* Pipelines *)

\* The loop accepts a message, and reset_for_new_task.
AcceptTask ==
  /\ (resting \/ bg_mode) /\ accepted < MaxRuns
  /\ accepted' = accepted + 1
  /\ resting' = FALSE /\ phase_active' = FALSE /\ stream_active' = FALSE
  /\ bg_new_task_sent' = (bg_new_task_sent \/ bg_mode)
  /\ UNCHANGED <<screen, running, ended, said, notes, pressed, bg_mode, awaiting_bg_select,
                 background_entries, tool_group, quit, lost>>

\* The runtime task takes the next request.
StartRun ==
  /\ running = 0 /\ accepted > ended
  /\ running' = ended + 1
  /\ UNCHANGED <<screen, accepted, ended, said, notes, pressed, flags, stream_active,
                 background_entries, tool_group, quit, lost>>

\* The marker is shown when another agent goes on.
LlmCallStarting ==
  /\ running # 0
  /\ phase_active' = (phase_active \/ ~bg_mode)
  /\ \/ Speaks /\ Says /\ Emit(<<>>, <<Flush, NextLine>>, <<>>) /\ stream_active' = FALSE
     \/ stream_active' = TRUE /\ UNCHANGED <<said, screen, lost, background_entries>>
  /\ UNCHANGED <<accepted, running, ended, notes, pressed, resting, bg_mode,
                 bg_new_task_sent, awaiting_bg_select, tool_group, quit>>

\* AgentOutput and AgentHandoff.
AgentOutput ==
  /\ Speaks /\ Says
  /\ Emit(<<>>, FlushIfActive \o <<NextLine>>, <<>>)
  /\ stream_active' = FALSE
  /\ UNCHANGED <<accepted, running, ended, notes, pressed, flags, tool_group, quit>>

\* CommitCreated and FileEditsCommitted.
CommitCreated ==
  /\ Speaks /\ Says
  /\ Emit(<<>>, <<NextLine>>, <<>>)
  /\ UNCHANGED <<accepted, running, ended, notes, pressed, flags, stream_active,
                 tool_group, quit>>

\* A tool that reads is announced by a stream line over the line of its call.
ToolStarted == \E reads \in BOOLEAN :
  /\ Speaks /\ Says
  /\ LET hint == reads /\ ~bg_mode
     IN /\ Emit(<<>>, FlushIfActive \o <<NextLine>>,
             IF hint THEN << <<"StreamToken", <<"hint", running, said[running] + 1>>>> >>
             ELSE <<>>)
        /\ stream_active' = hint
  /\ UNCHANGED <<accepted, running, ended, notes, pressed, flags, tool_group, quit>>

ToolCompleted ==
  /\ Speaks /\ Says
  /\ Emit(FlushIfActive, <<NextLine>>, <<>>)
  /\ stream_active' = FALSE
  /\ tool_group' = Min({tool_group + 1, 2})
  /\ UNCHANGED <<accepted, running, ended, notes, pressed, flags, quit>>

\* flush_tool_group
Summary == IF tool_group > 1 THEN <<Note>> ELSE <<>>

\* The flag is cleared before it is asked, so an open stream line stays open.
AgentRunComplete ==
  /\ running # 0
  /\ stream_active' = FALSE
  /\ Show(Summary) /\ tool_group' = 0
  /\ UNCHANGED <<pipelines, notes, pressed, flags, background_entries, quit>>

AgentCancelled ==
  /\ Speaks /\ Says
  /\ Emit(<<>>, <<Flush, NextLine>>, Summary)
  /\ phase_active' = (phase_active /\ bg_mode)
  /\ stream_active' = FALSE /\ tool_group' = 0
  /\ UNCHANGED <<accepted, running, ended, notes, pressed, resting, bg_mode,
                 bg_new_task_sent, awaiting_bg_select, quit>>

\* TaskComplete and RuntimeError
FinishRun == \E ending \in {"done", "error"} :
  /\ running # 0
  /\ running' = 0 /\ ended' = ended + 1
  /\ LET queued == bg_mode /\ bg_new_task_sent
         clear  == IF ending = "done" /\ ~queued
                   THEN FlushIfActive \o << <<"SetEphemeral", <<>>>> >> ELSE <<>>
     IN /\ Show((IF bg_mode \/ ending = "error" THEN <<Note>> ELSE <<>>) \o clear)
        /\ stream_active' = (stream_active /\ clear = <<>>)
        /\ phase_active' = (phase_active /\ queued)
        /\ resting' = (resting \/ (~queued /\ (bg_mode \/ ending = "done")))
        /\ bg_new_task_sent' = (bg_new_task_sent /\ ~bg_mode)
  /\ bg_mode' = FALSE
  /\ background_entries' =
       IF bg_mode THEN [background_entries EXCEPT ![Max(RunningEntries)].status = ending]
       ELSE background_entries
  /\ UNCHANGED <<accepted, said, notes, pressed, awaiting_bg_select, tool_group, quit>>

-----------------------------------------------------------------------------
(* The user and what else writes to the screen *)

\* A message of the user, of a command, of the memory, of a compaction, of a sub-agent.
ShowNote ==
  /\ notes < MaxNotes /\ notes' = notes + 1
  /\ Show(<<Note>>)
  /\ UNCHANGED <<pipelines, pressed, flags, stream_active, background_entries, tool_group, quit>>

ToolPendingApproval ==
  /\ running # 0 /\ notes < MaxNotes /\ notes' = notes + 1
  /\ Show(IF bg_mode THEN <<Note>> ELSE FlushIfActive \o <<Note>>)
  /\ stream_active' = (stream_active /\ bg_mode)
  /\ UNCHANGED <<pipelines, pressed, flags, background_entries, tool_group, quit>>

\* Slip: the entry is replayed but stays in the list.
Slip_reattach_pipeline(k) ==
  LET entry == background_entries[k]
  IN /\ Show(entry.buffered \o <<Note, UpdatePrompt>>)
     /\ UNCHANGED background_entries
     /\ IF entry.status = "running"
        THEN bg_mode' = FALSE /\ phase_active' = TRUE
        ELSE UNCHANGED <<bg_mode, phase_active>>

reattach_pipeline(k) ==
  LET entry == background_entries[k]
  IN /\ Show(entry.buffered \o <<Note, UpdatePrompt>>)
     /\ background_entries' = RemoveAt(background_entries, k)
     /\ IF entry.status = "running"
        THEN bg_mode' = FALSE /\ phase_active' = TRUE
        ELSE UNCHANGED <<bg_mode, phase_active>>

\* Ctrl+B: take back what is in the background, offer a choice, or detach.
handle_ctrl_b ==
  /\ pressed < MaxDetach /\ pressed' = pressed + 1
  /\ LET n == Len(background_entries)
     IN \/ /\ bg_mode \/ (~phase_active /\ n = 1)
           /\ reattach_pipeline(IF bg_mode THEN Max(RunningEntries) ELSE 1)
           /\ UNCHANGED awaiting_bg_select
        \/ /\ ~phase_active /\ ~bg_mode /\ n # 1
           /\ Show([k \in 1..(IF n = 0 THEN 1 ELSE n + 1) |-> Note])
           /\ awaiting_bg_select' = (awaiting_bg_select \/ n # 0)
           /\ UNCHANGED <<background_entries, bg_mode, phase_active>>
        \/ /\ phase_active /\ ~bg_mode
           /\ Show(<<Note, UpdatePrompt>>)
           /\ background_entries' = Append(background_entries,
                [run |-> running, status |-> "running", buffered |-> <<>>, truncated |-> FALSE])
           /\ bg_mode' = TRUE /\ phase_active' = FALSE
           /\ UNCHANGED awaiting_bg_select
  /\ UNCHANGED <<pipelines, notes, resting, bg_new_task_sent, stream_active, tool_group, quit>>

SelectBackground == \E digit \in 1..(MaxRuns + 1) :
  /\ awaiting_bg_select /\ awaiting_bg_select' = FALSE
  /\ IF digit <= Len(background_entries) THEN reattach_pipeline(digit)
     ELSE Show(<<Note>>) /\ UNCHANGED <<background_entries, bg_mode, phase_active>>
  /\ UNCHANGED <<pipelines, notes, pressed, resting, bg_new_task_sent, stream_active,
                 tool_group, quit>>

\* A key or a paste that changes the input bar.
Edit == \E bar \in Bars :
  /\ Show(<< <<"UpdatePrompt", bar>> >>)
  /\ awaiting_bg_select' = FALSE
  /\ UNCHANGED <<pipelines, notes, pressed, resting, phase_active, bg_mode, bg_new_task_sent,
                 stream_active, background_entries, tool_group, quit>>

\* Ten times a second: progress lines while something is at work.
RefreshEphemeral == \E lines \in Progress :
  /\ phase_active => lines # <<>>
  /\ Show(<< <<"SetEphemeral", lines>> >>)
  /\ UNCHANGED <<pipelines, notes, pressed, flags, stream_active, background_entries,
                 tool_group, quit>>

Quit ==
  /\ MayQuit /\ quit' = TRUE
  /\ screen' = clear_for_exit(screen)
  /\ UNCHANGED <<pipelines, notes, pressed, flags, stream_active, background_entries,
                 tool_group, lost>>

Next ==
  /\ ~quit
  /\ \/ AcceptTask \/ StartRun \/ FinishRun
     \/ LlmCallStarting \/ AgentOutput \/ CommitCreated \/ ToolStarted \/ ToolCompleted
     \/ AgentRunComplete \/ AgentCancelled \/ ToolPendingApproval \/ ShowNote
     \/ handle_ctrl_b \/ SelectBackground \/ Edit \/ RefreshEphemeral \/ Quit

Spec == Init /\ [][Next]_vars

-----------------------------------------------------------------------------
(* Properties *)

\* Counters stay within their bounds, cursor and caret within the screen, and no
\* entry holds more than it may and the notice of its truncation.
TypeOK ==
  /\ running \in 0..MaxRuns /\ ended \in 0..accepted /\ accepted \in 0..MaxRuns
  /\ said \in [Runs -> 0..MaxLines] /\ tool_group \in 0..2
  /\ DOMAIN screen.rows = 0..(Height - 1)
  /\ screen.cursor[1] \in 0..(Height - 1) /\ screen.caret[1] \in 0..(Height - 1)
  /\ \A k \in DOMAIN background_entries :
       /\ background_entries[k].status \in {"running", "done", "error"}
       /\ Len(background_entries[k].buffered) <= MaxBuffered + 1

\* What was committed stays as it is (renderer.rs:1): a step only adds lines, and
\* may replace the last one if a stream line is open there.
AppendOnly ==
  LET old == Transcript(screen)
      new == Transcript(screen')
  IN /\ Len(new) >= Len(old)
     /\ \A k \in DOMAIN old :
          new[k] # old[k] => k = Len(old) /\ screen.stream_line_open
TranscriptIsAppendOnly == [][AppendOnly]_vars

\* The block below the transcript is the one of the current prompt and progress, with
\* the cursor at the caret (renderer.rs:18), and after the end it is gone.
\* A block that is too high loses its end but the footer.  Where the layout loses the
\* caret is excepted: a character of two columns, a caret behind the last column of a
\* row or below the rows shown, the badge of a mode, a progress line that wraps.
Wraps(p) ==
  \/ p.badge > 0
  \/ \E l \in DOMAIN p.lines : "w" \in Range(p.lines[l])
  \/ p.col = Len(p.lines[p.row + 1]) /\ p.col > 0 /\ p.col % WrapWidth = 0
  \/ visible_cursor_position(p)[1] >= MaxVisible
ProgressWraps(s) == \E k \in DOMAIN s.ephemeral : s.ephemeral[k] > 1
ScreenShowsPrompt ==
  IF quit THEN \A r \in prompt_top_row..(Height - 1) : screen.rows[r] = Blank
  ELSE /\ BlockIsCurrent(screen)
       /\ CursorIsAtCaret(screen) \/ Wraps(screen.prompt) \/ ProgressWraps(screen)

\* The lines of a pipeline are shown in the order it said them, over any number of
\* detachments, and none is missing but those that a stream line took with it
\* and those whose truncation is announced.
Waiting == FlattenSeq([k \in DOMAIN background_entries |->
             [j \in DOMAIN background_entries[k].buffered |->
                LET m == background_entries[k].buffered[j]
                IN IF m[1] = "CommitLine" THEN m[2] ELSE Blank]])
IsOf(r, x) == x[1] \in {"line", "hint"} /\ x[2] = r
OutputInOrder ==
  LET all == Transcript(screen) \o Waiting
  IN \A r \in Runs :
       LET Own == {i \in DOMAIN all : IsOf(r, all[i])}
       IN /\ \A i, j \in Own : i < j => all[i][3] < all[j][3]
          /\ \A n \in 1..said[r] :
               \/ \E i \in Own : all[i][3] = n
               \/ <<r, n>> \in lost \/ <<"truncated", r>> \in Range(all)
=============================================================================
