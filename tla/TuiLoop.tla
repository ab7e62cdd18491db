-------------------------------- MODULE TuiLoop --------------------------------
(***************************************************************************)
(* The main loop of the terminal interface (xaft-tui app.rs, state.rs):    *)
(* messages the user types wait in a channel until the loop accepts them,  *)
(* the runtime task runs the accepted ones one after the other and sends   *)
(* events, and Ctrl+B detaches the pipeline in flight or takes it back.    *)
(* A key that waits in the event channel is handled where it stands in it, *)
(* so the model lets the user press it at the moment of its handling.      *)
(***************************************************************************)
EXTENDS Naturals, Sequences, FiniteSets

CONSTANTS
  MaxTasks,     \* messages the user types
  MaxDetach,    \* how often the user presses Ctrl+B
  MaxEvents,    \* events of model calls that wait at a time
  MaxBackground,\* tui.max_background_tasks
  MayStop,      \* whether an agent of a run may be cancelled
  MayFail,      \* whether a run may end with an error
  MayCancel,    \* whether the user may type /cancel
  MayQuit       \* whether the user may press Ctrl+C or Ctrl+Q

Tasks == 1..MaxTasks

VARIABLES
  typed,     \* user_message channel: messages not yet accepted
  count,     \* messages typed so far
  requests,  \* task channel: accepted tasks the runtime has not started
  running,   \* the task the runtime runs, 0 for none
  outcome,   \* how each task ended
  events,    \* the event channel
  current,   \* the task of the last model call shown
  phase,     \* WorkflowPhase, up to what is_active tells apart
  task_done, agent_running,
  bg_mode, bg_new_task_sent, awaiting_bg_select,
  background_entries,
  label,     \* AppState.task: what an entry would be called
  pc,        \* where the loop is
  cancel,    \* "no", "requested" by /cancel, or the token is "cancelled"
  reader,    \* whether the task that reads the keyboard runs
  runtime,   \* whether the task that runs requests runs
  quit,      \* the flags set: "confirmed" by Ctrl+Q, "armed" by Ctrl+C, "should_quit", "ended"
  pressed    \* how often Ctrl+B was pressed

ui == <<phase, task_done, agent_running, bg_mode, bg_new_task_sent,
        awaiting_bg_select, background_entries, label, current>>
back == <<requests, running, outcome>>
vars == <<typed, count, events, ui, back, pc, cancel, reader, runtime, quit, pressed>>

Active == phase = "active"
Endings == {"done", "error"}     \* how a run ends
RunningEntries == {k \in DOMAIN background_entries : background_entries[k].status = "running"}
LastRunning == CHOOSE k \in RunningEntries : \A j \in RunningEntries : j <= k
Without(s, k) == SubSeq(s, 1, k - 1) \o SubSeq(s, k + 1, Len(s))

Init ==
  /\ typed = <<>> /\ count = 0 /\ requests = <<>> /\ running = 0
  /\ outcome = [t \in Tasks |-> "none"]
  /\ events = <<>> /\ current = 0
  /\ phase = "idle" /\ task_done = FALSE /\ agent_running = FALSE
  /\ bg_mode = FALSE /\ bg_new_task_sent = FALSE /\ awaiting_bg_select = FALSE
  /\ background_entries = <<>> /\ label = 0
  /\ pc = "accept" /\ cancel = "no" /\ reader = TRUE /\ runtime = TRUE
  /\ quit = {} /\ pressed = 0

-----------------------------------------------------------------------------
(* The runtime task *)

StartRun ==
  /\ runtime /\ running = 0 /\ requests # <<>>
  /\ running' = Head(requests)
  /\ requests' = Tail(requests)
  /\ UNCHANGED <<typed, count, events, ui, outcome, pc, cancel, reader, runtime, quit, pressed>>

\* An agent of the run starts a model call, or was cancelled.
LlmCall == \E kind \in {"llm"} \cup (IF MayStop THEN {"cancelled"} ELSE {}) :
  /\ runtime /\ running # 0 /\ Len(events) < MaxEvents
  /\ events' = Append(events, [kind |-> kind, task |-> running])
  /\ UNCHANGED <<typed, count, ui, back, pc, cancel, reader, runtime, quit, pressed>>

FinishRun == \E result \in {"done"} \cup (IF MayFail THEN {"error"} ELSE {}) :
  /\ runtime /\ running # 0
  /\ events' = Append(events, [kind |-> result, task |-> running])
  /\ outcome' = [outcome EXCEPT ![running] = result]
  /\ running' = 0
  /\ UNCHANGED <<typed, count, ui, requests, pc, cancel, reader, runtime, quit, pressed>>

\* The token is looked at only between two runs, and beside the task channel.
StopRuntime ==
  /\ runtime /\ running = 0 /\ cancel = "cancelled"
  /\ runtime' = FALSE
  /\ UNCHANGED <<typed, count, events, ui, back, pc, cancel, reader, quit, pressed>>

StopReader ==
  /\ reader /\ cancel = "cancelled"
  /\ reader' = FALSE
  /\ UNCHANGED <<typed, count, events, ui, back, pc, cancel, runtime, quit, pressed>>

-----------------------------------------------------------------------------
(* The main loop: accept a task, drain the events, then the checks *)

can_accept == ~agent_running \/ task_done \/ bg_mode

AcceptTask ==
  /\ pc = "accept" /\ can_accept /\ typed # <<>>
  /\ typed' = Tail(typed)
  /\ requests' = Append(requests, Head(typed))
  /\ label' = Head(typed)
  /\ task_done' = FALSE
  /\ bg_new_task_sent' = (bg_new_task_sent \/ bg_mode)
  /\ phase' = "idle"
  /\ agent_running' = TRUE
  /\ pc' = "drain"
  /\ UNCHANGED <<count, events, running, outcome, bg_mode, awaiting_bg_select,
                 background_entries, current, cancel, reader, runtime, quit, pressed>>

NoTask ==
  /\ pc = "accept" /\ ~(can_accept /\ typed # <<>>)
  /\ pc' = "drain"
  /\ UNCHANGED <<typed, count, events, ui, back, cancel, reader, runtime, quit, pressed>>

\* A model call starts: an entry buffers its output, or else it is shown.
\* push_pipeline_mutation clears bg_mode when nothing runs in the background.
HandleLlm ==
  /\ pc = "drain" /\ events # <<>> /\ Head(events).kind = "llm"
  /\ events' = Tail(events)
  /\ current' = Head(events).task
  /\ phase' = IF bg_mode THEN phase ELSE "active"
  /\ bg_mode' = (bg_mode /\ RunningEntries # {})
  /\ UNCHANGED <<typed, count, back, task_done, agent_running, bg_new_task_sent,
                 awaiting_bg_select, background_entries, label, pc, cancel, reader,
                 runtime, quit, pressed>>

\* AgentCancelled: an agent stopped, and its run goes on until it reports its end.
HandleCancelled ==
  /\ pc = "drain" /\ events # <<>> /\ Head(events).kind = "cancelled"
  /\ events' = Tail(events)
  /\ phase' = IF bg_mode THEN phase ELSE "error"
  /\ bg_mode' = (bg_mode /\ RunningEntries # {})
  /\ UNCHANGED <<typed, count, back, task_done, agent_running, bg_new_task_sent,
                 awaiting_bg_select, background_entries, label, current, pc, cancel, reader,
                 runtime, quit, pressed>>

\* TaskComplete and RuntimeError.  An error in the foreground only sets the phase.
HandleEnd ==
  /\ pc = "drain" /\ events # <<>> /\ Head(events).kind \in Endings
  /\ events' = Tail(events)
  /\ LET ending == Head(events).kind
     IN IF bg_mode
        THEN /\ bg_mode' = FALSE
             /\ background_entries' =
                  IF RunningEntries = {} THEN background_entries
                  ELSE [background_entries EXCEPT ![LastRunning].status = ending]
             /\ bg_new_task_sent' = FALSE
             /\ IF bg_new_task_sent
                THEN UNCHANGED <<phase, task_done>>
                ELSE phase' = ending /\ task_done' = TRUE
        ELSE /\ phase' = ending
             /\ task_done' = (task_done \/ ending = "done")
             /\ UNCHANGED <<bg_mode, background_entries, bg_new_task_sent>>
  /\ UNCHANGED <<typed, count, back, agent_running, awaiting_bg_select, label, current,
                 pc, cancel, reader, runtime, quit, pressed>>

\* The loop leaves the events when it finds the channel empty, and checks the flags.
Tail_ ==
  /\ pc = "drain" /\ events = <<>> /\ "should_quit" \notin quit
  /\ pc' = "accept"
  /\ cancel' = IF cancel = "requested" THEN "cancelled" ELSE cancel
  /\ \/ agent_running' = (agent_running /\ cancel # "requested" /\ ~task_done)
     \/ \* a tool of the next task waits at the gate
        /\ running # 0
        /\ agent_running' = (agent_running /\ cancel # "requested")
  /\ UNCHANGED <<typed, count, events, back, phase, task_done, bg_mode, bg_new_task_sent,
                 awaiting_bg_select, background_entries, label, current, reader,
                 runtime, quit, pressed>>

End ==
  /\ pc = "drain" /\ events = <<>> /\ "should_quit" \in quit
  /\ quit' = quit \cup {"ended"} /\ pc' = "ended" /\ runtime' = FALSE /\ cancel' = "cancelled"
  /\ UNCHANGED <<typed, count, events, ui, back, reader, pressed>>

-----------------------------------------------------------------------------
(* The user *)

Key == pc = "drain" /\ reader

\* Any key but Ctrl+B and a digit leaves the choice of a pipeline.
Submit ==
  /\ Key /\ count < MaxTasks
  /\ count' = count + 1
  /\ typed' = Append(typed, count + 1)
  /\ label' = count + 1
  /\ awaiting_bg_select' = FALSE
  /\ UNCHANGED <<events, back, phase, task_done, agent_running, bg_mode, bg_new_task_sent,
                 background_entries, current, pc, cancel, reader, runtime, quit, pressed>>

\* reattach_pipeline
Reattach(k) ==
  /\ background_entries' = Without(background_entries, k)
  /\ IF k \in RunningEntries
     THEN bg_mode' = FALSE /\ phase' = "active"
     ELSE UNCHANGED <<bg_mode, phase>>

\* Slip: detaching does not look at what runs already.
Slip_handle_ctrl_b ==
  /\ Key /\ pressed < MaxDetach /\ pressed' = pressed + 1
  /\ background_entries' = Append(background_entries,
       [task |-> label, run |-> current, status |-> "running"])
  /\ bg_mode' = TRUE /\ phase' = "idle" /\ UNCHANGED awaiting_bg_select
  /\ UNCHANGED <<typed, count, events, back, task_done, agent_running, bg_new_task_sent,
                 label, current, pc, cancel, reader, runtime, quit>>

handle_ctrl_b ==
  /\ Key /\ pressed < MaxDetach /\ pressed' = pressed + 1
  /\ \/ /\ ~Active /\ ~bg_mode
        /\ \/ Len(background_entries) = 1 /\ Reattach(1) /\ UNCHANGED awaiting_bg_select
           \/ /\ Len(background_entries) # 1
              /\ awaiting_bg_select' = (awaiting_bg_select \/ background_entries # <<>>)
              /\ UNCHANGED <<background_entries, bg_mode, phase>>
     \/ /\ bg_mode
        /\ UNCHANGED awaiting_bg_select
        /\ IF RunningEntries # {} THEN Reattach(LastRunning)
           ELSE bg_mode' = FALSE /\ UNCHANGED <<background_entries, phase>>
     \/ /\ Active /\ ~bg_mode
        /\ UNCHANGED awaiting_bg_select
        /\ IF Cardinality(RunningEntries) >= MaxBackground
           THEN UNCHANGED <<background_entries, bg_mode, phase>>
           ELSE /\ background_entries' = Append(background_entries,
                     [task |-> label, run |-> current, status |-> "running"])
                /\ bg_mode' = TRUE
                /\ phase' = "idle"
  /\ UNCHANGED <<typed, count, events, back, task_done, agent_running, bg_new_task_sent,
                 label, current, pc, cancel, reader, runtime, quit>>

SelectBackground == \E digit \in 1..MaxDetach :
  /\ Key /\ awaiting_bg_select
  /\ awaiting_bg_select' = FALSE
  /\ IF digit <= Len(background_entries) THEN Reattach(digit)
     ELSE UNCHANGED <<background_entries, bg_mode, phase>>
  /\ UNCHANGED <<typed, count, events, back, task_done, agent_running, bg_new_task_sent,
                 label, current, pc, cancel, reader, runtime, quit, pressed>>

\* /cancel: request_cancel does nothing when no task is thought to run.
TypeCancel ==
  /\ Key /\ MayCancel /\ agent_running /\ cancel = "no"
  /\ cancel' = "requested"
  /\ awaiting_bg_select' = FALSE
  /\ UNCHANGED <<typed, count, events, back, phase, task_done, agent_running, bg_mode,
                 bg_new_task_sent, background_entries, label, current, pc, reader,
                 runtime, quit, pressed>>

\* Ctrl+Q warns once when a pipeline runs in the background.
CtrlQ ==
  /\ Key /\ MayQuit
  /\ quit' = quit \cup (IF RunningEntries # {} /\ "confirmed" \notin quit
                        THEN {"confirmed"} ELSE {"should_quit"})
  /\ awaiting_bg_select' = FALSE
  /\ UNCHANGED <<typed, count, events, back, phase, task_done, agent_running, bg_mode,
                 bg_new_task_sent, background_entries, label, current, pc, cancel,
                 reader, runtime, pressed>>

\* Ctrl+C arms; the second one, or two seconds, quit.
CtrlC ==
  /\ Key /\ MayQuit
  /\ quit' = quit \cup (IF "armed" \in quit THEN {"should_quit"} ELSE {"armed"})
  /\ awaiting_bg_select' = FALSE
  /\ UNCHANGED <<typed, count, events, back, phase, task_done, agent_running, bg_mode,
                 bg_new_task_sent, background_entries, label, current, pc, cancel,
                 reader, runtime, pressed>>

\* Slip: after two seconds the first press is forgotten.
Slip_check_ctrl_c_timeout ==
  /\ pc = "drain" /\ "armed" \in quit
  /\ quit' = quit \ {"armed"}
  /\ UNCHANGED <<typed, count, events, ui, back, pc, cancel, reader, runtime, pressed>>

\* check_ctrl_c_timeout
CtrlCTimeout ==
  /\ pc = "drain" /\ "armed" \in quit
  /\ quit' = quit \cup {"should_quit"}
  /\ UNCHANGED <<typed, count, events, ui, back, pc, cancel, reader, runtime, pressed>>

Loop == AcceptTask \/ NoTask \/ HandleLlm \/ HandleCancelled \/ HandleEnd \/ Tail_ \/ End \/ CtrlCTimeout
User == Submit \/ handle_ctrl_b \/ SelectBackground \/ TypeCancel \/ CtrlQ \/ CtrlC
Next == StartRun \/ LlmCall \/ FinishRun \/ StopRuntime \/ StopReader \/ Loop \/ User

\* The tasks of the process are scheduled by tokio and a run ends at some time;
\* the user need not press anything.  The loop drains a channel whose events
\* arrive more slowly than it handles them.
Fairness ==
  /\ WF_vars(StartRun) /\ WF_vars(FinishRun) /\ WF_vars(StopRuntime) /\ WF_vars(StopReader)
  /\ WF_vars(NoTask \/ HandleLlm \/ HandleCancelled \/ HandleEnd) /\ WF_vars(AcceptTask)
  /\ SF_vars(Tail_) /\ SF_vars(End) /\ SF_vars(CtrlCTimeout)

Spec == Init /\ [][Next]_vars /\ Fairness

-----------------------------------------------------------------------------
(* Properties *)

TypeOK ==
  /\ count \in 0..MaxTasks /\ running \in 0..MaxTasks
  /\ outcome \in [Tasks -> {"none", "done", "error"}]
  /\ phase \in {"idle", "active", "done", "error"}
  /\ quit \subseteq {"confirmed", "armed", "should_quit", "ended"}

Ended == {t \in Tasks : outcome[t] # "none"}
EndsWaiting == {k \in DOMAIN events : events[k].kind \in Endings}

\* Messages reach the runtime in the order they were typed, none is lost and
\* none runs twice, whatever is detached, cancelled or failed in between.
TasksKeepOrder ==
  LET started == Cardinality(Ended) + (IF running = 0 THEN 0 ELSE 1)
  IN /\ Ended = 1..Cardinality(Ended)
     /\ running # 0 => running = started
     /\ requests \o typed = [k \in 1..(count - started) |-> started + k]

\* The pipeline in the background is the run whose end is announced next, so the
\* end that arrives in bg_mode is its own; and a finished entry says how its run ended.
BackgroundIsInFlight ==
  /\ bg_mode <=> RunningEntries # {}
  /\ \A k \in DOMAIN background_entries :
       LET entry == background_entries[k]
       IN IF entry.status = "running"
          THEN entry.run = Cardinality(Ended) - Cardinality(EndsWaiting) + 1
          ELSE entry.status = outcome[entry.run]

\* A typed message is run in the end, also behind a pipeline in the background,
\* when no run fails, nothing is cancelled, and no pipeline is taken back while
\* a message typed behind it waits (bg_new_task_sent would outlive it).
Undisturbed ==
  /\ cancel = "no" /\ quit \subseteq {"confirmed"}
  /\ \A t \in Tasks : outcome[t] # "error"
  /\ bg_new_task_sent => bg_mode
AllRun == \A t \in 1..count : outcome[t] # "none"
TypedIsRun == []Undisturbed => []<>AllRun

\* One Ctrl+C ends the program, with or without a second one.
CtrlCEnds == ("armed" \in quit) ~> ("ended" \in quit)

\* "Accept new task when idle": after a run that failed, too (app.rs:322).
TypedIsRunAfterError == []<>AllRun

\* After /cancel "the session stays open and the user can keep working"
\* (app.rs:406): keys are read until the program ends.
KeysAreRead == reader \/ "ended" \in quit
=============================================================================
