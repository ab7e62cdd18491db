# A TLA+ verification project for xaft

xaft is a runtime for autonomous coding agents, written in Rust.  This
directory keeps formal models of the parts of it whose correctness depends on
the order in which tasks, processes, keys and crashes happen, the TLC runs that
check the models on small instances, and proofs, checked by TLAPS, of what
holds for every instance.

Paths below are relative to `crates/` of the repository; a file name alone
means the file of the section it stands in.  Section 1 lists the parts of the
system, 2 the modules, 3 how each corresponds to the code, 4 the runs, 5 the
proofs, 6 what the code does otherwise than its comments say, 7 what is not
modelled.

## 1. Inventory

### 1.1 The parts and how they talk to one another

A user starts `xaft` (`xaft-cli`).  A command runs agents through the runtime,
opens the terminal interface, serves sessions over HTTP, or reads and writes
one of the stores under the data directory.  There is no daemon: every
invocation is a process of its own, and the stores on disk are what processes
share.  Inside a process the parts are tokio tasks which share state behind
locks and channels.

| component | state it keeps | operations | talks to | modules |
|---|---|---|---|---|
| **SessionService** (`xaft-session/service.rs`) | SQLite tables: snapshots, events, receipts, the deleted flag | create_session, submit (14 command kinds), snapshot, events, list | the HTTP server and every `xaft session` process | SessionService, SessionLifecycle |
| **LocalSessionServer** (`xaft-session/transport.rs`) | listener, shutdown channel, a task per connection | start, stop, the routes, the polled event stream | SessionService | SessionStream |
| **SessionManager** and its stores (`xaft-session/manager.rs`, `store.rs`) | two SQLite files: session rows and conversations | save, load, delete, purge | runtime, CLI | RunTask |
| **Runtime** (`xaft-runtime`) | sessions, cost, listeners | run_task, orchestrate, compact | agents, SessionManager, tools | RunTask |
| **TerminalManager** (`xaft-tools/terminals`) | record map, map of live children, JSONL file | start, stop, wait, wait_readiness, close; monitor and pump tasks | the agents' terminal tools | TerminalManager |
| **File tools** (`xaft-tools/fs`) | the files read so far, the workspace | 16 tools that read or write | agents | FileTools |
| **JobStore** (`xaft-cli/jobs`) | one JSON file of jobs | create, transition, cancel, resume, delete, restore, approve, ... | every `xaft jobs` process | WholeFile, JobStore, JobLifecycle |
| **RunStore** (`xaft-cli/runs`) | one JSON file of goal runs | put, update, cancel, resume | every `xaft runs` process | WholeFile, RunStore |
| **ManifestStore** (`xaft-cli/worktrees`) | a JSON manifest per orchestration | create, update, has_cycle | every `xaft worktrees` process | WholeFile, ManifestStore, DependencyGraph |
| **ApprovalQueue** and its gate (`xaft-tui/approval.rs`, `approval_gate.rs`) | waiting calls, focus, records | push, resolve, focus, request, respond | main loop, executor | Approvals |
| **TUI** (`xaft-tui`) | application state, input, screen | main loop, keys, events, render | runtime, user | TuiLoop, Composer, TextBuffer, Screen, Renderer |
| **Agents**, **shell, git, MCP and plugin tools**, **memory**, **configuration**, **skills**, **CLI** | see section 7 | | | |

### 1.2 What is hard in it

* *Stores without transactions.*  SessionService makes each command out of
  several SQL statements; a run of an agent saves the row of its session and
  its conversations in two databases; JobStore, RunStore and ManifestStore read
  a whole file, change a copy and write the copy back.  Two processes, or a
  crash in the middle, see what is between the steps.
* *Copies held over an await.*  A snapshot, a row, a terminal record or a job
  is read, something is awaited, and the copy is written over what others wrote.
* *Retries.*  A command is made idempotent by a receipt which is written last.
* *Streams.*  A client that reconnects must neither miss nor repeat an event.
* *Processes.*  A terminal is stopped by several tasks at once: the deadline,
  the stop tool, the end of the session, and the child that exits by itself.
* *One channel, two pipelines.*  The main loop of the interface tells from a
  few flags whether an event is of the run it shows or of one that was
  detached, and whether it may accept the next message.
* *Decisions by a person.*  A tool call that waits may be answered by a key, by
  a rule, by the timer or by the end of the program.
* *Look, then act.*  Every file tool looks at a path and then changes it.
* *Byte offsets.*  The dropdown of the input bar remembers a byte offset into a
  text that goes on changing.
* *One screen, two regions.*  Lines of a pipeline, shown or buffered, notes and
  stream lines scroll above an input that is rewritten in place, by absolute
  rows that four functions must compute alike.

`PROJECT.json` lists each hazard at its line, with the properties that cover it
or the reason why none does.

### 1.3 What makes each component correct

* SessionService: the log of a session is numbered 1, 2, 3, ...; no event
  belongs to a session that does not exist; the cursor of a snapshot is within
  the log; one key has one result and one effect; an expected sequence is
  honoured; a deleted session is frozen; a state changes only as the lifecycle
  allows.
* LocalSessionServer: a subscriber receives each event once, in order, over
  reconnects; what it received is the log; it gets everything in the end; stop
  ends every stream.
* TerminalManager: a process is signalled only while it is ours; a stop that
  succeeded left nothing alive and is on record; no more terminals run than the
  limit allows; stop and wait return.
* The stores of the CLI: a crash leaves a whole file; a command changes only
  what it is about; jobs follow their lifecycle; flags agree with statuses; a
  cycle among tasks is found.
* Runtime and SessionManager: a session counts the model calls of its completed
  runs; what failed or was cancelled stays so; finished work is not reloaded.
* TUI: messages run in the order they were typed, each once and in the end; the
  entry in the background is the run in flight; a key edits the text as the
  user sees it; what was shown stays, in the order it was said, and the cursor is
  at the caret.
* ApprovalQueue: a tool runs only after its own call was approved; every call
  is answered; queue and gate agree.
* File tools: a refused or failed call changed nothing; an edit keeps what it
  was told to keep; a move replaces nothing unless told to.

## 2. The modules

```
SessionLifecycle <-- SessionService <-- SessionStream       abstract / detailed / composed
                     MCSessionService  MCSessionSerial  MCSessionStream
                     SessionProofs
TerminalManager      MCTerminalManager  TerminalManagerProofs
JobLifecycle <-- JobStore    \
                 RunStore     > WholeFile
                 ManifestStore/
DependencyGraph  RunTask  FileTools      with the stores: MCDisk
StoreProofs (stores and graph)  RunTaskProofs  FileToolsProofs
TextBuffer <-- Composer  ComposerProofs
Renderer <-- Screen  ScreenProofs
TuiLoop  Approvals                       with Composer and Screen: MCInterface
TuiLoopProofs (loop and approvals)
```

An arrow points from a module to the abstract specification it implements, or
from a module to the one that EXTENDS it.  Every module declares its parameters
as constants and has one action per statement, await, critical section or
handler; none declares a recursive operator.

`MCDisk`, `MCInterface`, `MCSessionSerial` and `MCSessionStream` check several
instances of one or more modules in one run: the variable `scene` is chosen in
the initial state and never changes, and says which instance the behaviour is
about.  The variables of the other components keep their initial values, so the
scenes do not multiply.  A property of such a module names the scenes it is
about and is, in each, the property of the component.

Order of the work, and what is left of the plan:

1. SessionService, SessionLifecycle, SessionStream and their proofs: done.
2. TerminalManager and its proofs: done.  Left: two managers of one file, two
   callers that start at once, what a wait with timeout 0 reports.
3. The stores of the CLI: done.  Left: two overlapping processes on the stores
   of runs and manifests, whose promises then fail (section 6).
4. Approvals, TuiLoop, Composer, Screen: done.  Left: menus, mentions' search,
   Markdown, a resize of the terminal.
5. RunTask: done.  Left: the orchestrators inside a run.
6. FileTools: done for everything that writes.
7. Smaller protocols: configuration reload, hand-off between agents, memory.

## 3. What is modelled

### 3.1 SessionService (xaft-session/service.rs)

`create_session` and `submit` are async functions which execute SQL statements
one after the other, without a transaction.  Each statement is atomic (SQLite);
between two of them any other task or process may execute its own.  One action
is one statement with the local computation up to the next await; `pc` names
the statement that a request executes next:

```
create_session   new_row -> new_event -> new_save -> done
submit           (get_snapshot) find_receipt -> check
   its event     next_sequence -> append_event -> put_snapshot
                 (delete: -> mark_deleted; fork: new_row -> new_event -> new_save)
   its receipt   next_receipt -> append_receipt -> put_receipt -> put_command -> done
```

| model | code |
|---|---|
| `rows`, `snapshot`, `deleted` | table `service_sessions`: primary key, `payload`, `deleted` |
| `events` | table `service_events`, primary key (session, sequence); `Inserted` is INSERT OR REPLACE |
| `commands` | table `service_commands`; a receipt is named by the request that produced it |
| `snap`, `seq`, `fresh` | the locals of the future: `snap`, `sequence`, `child_id` |
| `reply` | what the caller was told, and whose receipt it was told |
| `Apply` | the assignments to `snap` in the arms of the `match` |
| `Refusal` | the checks between `is_deleted` and the `match`, in their order |
| `Fail` | the process dies, or a statement fails and `store_error` is returned |

The snapshot keeps `state`, `last_event_sequence` and the queue depth, which
are the fields that a later command reads or a property is about.  The fields
that no command reads back (agent, workflow, counters, times) are left out, and
so are texts and payloads; an empty text is a choice in `Check`.
`put_snapshot` inside `append` writes the copy *before* the command's own
change is made to it; the change reaches the row with the receipt.  The model
keeps this order: it is why a crash between event and receipt leaves an event
in the log without its effect on the state.

New ids are UUIDs, so `NewRow` takes a session that has no row.  `Serial` makes
clients wait for one another and `MayFail` lets tasks die: the same actions are
checked in all combinations, since several promises of the code hold only
without the one or the other.

### 3.2 SessionLifecycle

The abstract specification: which states a session goes through, that a
deleted session moves no more and that only resume wakes an archived one.
`SessionService` implements it (`LifecycleSpec`) under the mapping
`life[s] = snapshot[s].state` when `s` has a row, `gone = deleted`, when clients
wait for one another - also when tasks die anywhere.  With racing clients it
does not: an `attach` that read the snapshot before a cancel writes the old
state back (`AttachKeepsState`, proved for clients that wait, then fails).

### 3.3 SessionStream (xaft-session/transport.rs)

Extends SessionService with the subscribers of the `/stream` route.  `Connect`
is the accept and the first fetch, `Send` one frame, `Poll` the fetch after the
timer branch of `select!`, `Shutdown` its other branch.  `told` is the set of
streams whose receiver of the shutdown channel has fired: a server that is
started again has a new channel, and the old streams still end.  The client
resumes with the id of the last frame it received, as the module docs of
service.rs describe.  `Connect` does not split accept and fetch; a connection
that is accepted just before a stop and fetches just after it differs from an
open stream that was told only in what it has pending.

### 3.4 TerminalManager (xaft-tools/terminals/manager.rs, record.rs)

The manager keeps a record per terminal in a map, an entry with the child
handle in a second map, and a row per change in a file.  `start` spawns a
process group, a monitor task that waits for the child and two pumps that fold
output into the record of the map.  Nothing is locked across an await, so one
action is one critical section, or one await with what it returns.

| model | code |
|---|---|
| `records`, `file` | `records`, and the last row per id of `terminals.jsonl` |
| `entries`, `entry` | the map `entries`; the `RuntimeEntry`, which tasks keep in an `Arc` after it left the map |
| `monitor[t].pc` | where the monitor task is: `take`, `wait`, the grace and the forced wait of a spent budget, `kill`, `drain`, `fire`, `fold`, `remove`, `persist` |
| `caller[c].pc` | where a call of `start`, `stop`, `close`, `wait` or `wait_readiness` is |
| `entry[t].done` | `Finished`, the watch channel used as a latch |
| `process` | the process groups: leader (running, zombie, reaped), a background child that ignores SIGINT, what was printed and is still in the pipe |
| `generation`, `strays` | which manager this is; the groups of earlier managers that were signalled |

A timer is a choice: whatever has a timeout may time out at any moment.  SIGINT
may be ignored, so it changes nothing by itself; a leader may exit at any
moment.  `signal_entry` asks a handle it finds in the entry with `try_wait`
first; while the monitor holds the handle it signals without asking.  The
monitor never finds the handle missing, because nobody else takes one: the
`finish_orphan` branches are unreachable and have no action.  `Persist` writes
map and file in one step; their order matters only to a second manager that
reads the file between the two.  `Restart` is the death of the process that
hosts the manager and `TerminalManager::new` in the next one: old rows may be
pruned, active rows are orphaned, ids start again at 0, processes live on.  The
model gives every process a pid of its own; that a pid is not used again while
somebody remembers it is an assumption on the operating system.

The manager is handed to the tools by `ToolRegistryBuilder::with_terminal_manager`;
its callers are the terminal tools of all agents that share it and the end of
the session.  A tool call that is dropped in the middle is not modelled.

### 3.5 WholeFile, JobStore, RunStore, ManifestStore (xaft-cli)

`WholeFile` is the file system and the three calls of a write: open and
truncate `<file>.tmp`, write it, rename it over the store.  All processes use
the same temporary name and none takes a lock, so with two of them a rename may
move a file that the other still writes (`fd` follows the file, not the name),
fail because the other has moved it, or publish a text with the tail of a
longer one (`Torn`).  A crash may happen between any two calls and in the
middle of a write.

A command of a store is one step that opens the store, decides, and puts the
texts it will write into `plan`, followed by the calls for each text.  A command
that is refused writes nothing and has no step.

| model | code |
|---|---|
| `Successors`, `CanMove` | `JobStatus::can_transition_to`, `transition` (jobs/mod.rs) |
| `Cancel` of JobStore | two transitions, each persisted; the second alone if the first was done |
| `Trashed`, `Untrashed`, `before` | `delete`, `restore`, `pre_delete_status` |
| `Answer` | `approve`, `provide_input`: the answer and the return to work in one write |
| `Opened` | `open`: a torn job file is an error, a torn run file counts as empty, a missing manifest is not found |
| `Update` of RunStore | a caller of `update` sets a status and stamps the time of the end with it (see §7) |
| `Update` of ManifestStore | `update` with `set_task_status` |

`JobLifecycle` is the abstract specification of the jobs: phases of one job,
among them the trash, which gives a job back as it took it.  `JobStore`
implements it with `phase` and `kept` read from the file under the store's
name, when commands do not overlap, wherever they die.

`DependencyGraph` is `has_cycle` of worktrees/model.rs: one frame of the stack
per call of `visit`.  The order in which a hash map gives its keys is a choice.

### 3.6 RunTask (xaft-runtime/runtime.rs, xaft-session)

Every await of `run_task` on one of the two databases is a step: load and check
the row of a resumed session, save it as active (twice), save an empty
conversation over the session's own key, build the provider, save the branch,
run the agents, save the row as completed or failed.  Beside it run `session
cancel`, which loads and saves a row, and `SessionManager::delete`, which
removes the session's own conversation and then the row, and leaves the keys of
its agents.  `acc` and `made` are the calls that the accumulator of a run
counted and those it made; `billed`, `turned` and `ended` are history variables
that no step reads.  What agents do is a model call or the end of the work: a
workflow that ends well (`WorkEnds`) has added the turns it reports to the session
it was given (orchestrator.rs:266, 438, 645), and one that ends with an error
(`WorkFails`) has not, since nothing in the orchestrators fails after that line.
`Complete` adds the accumulator, its calls to `turn_count` as well.

### 3.7 FileTools (xaft-tools/fs)

A file is the set of calls whose text it holds, so that what was kept or lost
can be told.  A call checks its arguments (`Begin`), looks at the workspace
(`Look`) and changes it, `write_file`, `edit_file` and `patch_file` in two
halves (`Truncate`, `Fill`) as `LocalFsStore.write` does.  The batches check all
entries, then do one after the other.  `known` is what `ReadBeforeEditHook`
remembers, which all executors of a session share.  A call may be cancelled
where the code asks whether it was.  Every call to the file system may fail
(`Fails`).  A write that fails may have emptied its file, and a copy its target;
an append may have made an empty file; and from the first such call on, `changed`
says that directories above the path may be new.  `lost` collects the paths from
which the steps of a call took something.

### 3.8 TuiLoop (xaft-tui/app.rs, state.rs)

Messages wait in a channel until the loop accepts one (`can_accept`), the
runtime task runs the accepted ones in order, and its events come back through
one channel.  `Ctrl+B` detaches the pipeline in flight into a background entry
or takes it back; `/cancel` cancels the token that the runtime task and the
reader of the keyboard wait on; `Ctrl+C` and `Ctrl+Q` end the program.  A key
is a step of the loop: it is handled where it stands in the event channel.  The
flags keep their names: `task_done`, `agent_running`, `bg_mode`,
`bg_new_task_sent`, `awaiting_bg_select`.  Of the phases the model keeps what
`is_active` tells apart, of the events the start of a model call, the cancellation
of an agent (`MayStop`) and the end of a run.  `quit` is the set of the flags that
Ctrl+Q and Ctrl+C set.

### 3.9 Approvals (xaft-tui/approval.rs, approval_gate.rs, state.rs)

The executor (an external crate) announces a call and then waits at
`TuiApprovalGate::request` for a key, for a rule, for 120 seconds, or for
`cancel_all`.  `tool` is the executor's side of each call, `gate` the map of
senders, `events` the announcements, `pending` and `focused_idx` the queue, and
`record` what the queue noted.  `Early` lets an announced call be decided before
it waits; `MayDetach` lets the user detach the pipeline, where a rule's decision
is dropped.  `approve_all_up_to`, `reject_all`, `undo_last` and `focus_prev`
have no caller but tests.

### 3.10 Composer and TextBuffer (xaft-tui/input_bar.rs, trigger/mod.rs, state.rs)

`Composer` keeps the lines of the bar with a row and a column in *bytes*, as the
code does; the character "w" stands for those of two bytes.  `Scans` is the scan
for a trigger before the caret, `refresh_trigger` what a key does to the
dropdown, `Complete` the replacement of the token between `trigger_byte_pos` and
the caret; `panicked` would be a slice out of range.  The dialog about files
outside the workspace takes the message out of the bar and may give it back.
`TextBuffer` is the abstract specification: a text and a caret, and what each
key does to them; of rows, bytes, scrolling and dropdowns it knows nothing.

The four handlers that `AppState::new` registers are the four `Triggers`: files (@),
commands (/), skills ($) and the history (#).  What `on_select` gives is one of
`Completions`; the history gives nothing, since nothing but tests fills it (section
6), so its character only ends a scan or closes a dropdown.  Tab puts the chosen
word where the token was.  Enter does the same for a file; for a command or a skill
(`FreeText`, handlers with `allows_free_text`) it submits the chosen word *instead of*
the text: `SubmitWord` of TextBuffer says that the text is given up.

### 3.11 Renderer and Screen (xaft-tui/renderer.rs, prompt.rs, state.rs, app.rs)

`Renderer` is the terminal and what is written to it: each public function of
`IncrementalRenderer` is an operator from a screen to the next, made of the
primitives of the terminal (`MoveTo`, `Write`, `LineFeed`), of which the last
scrolls the region above `prompt_top_row` into the terminal's history.  A row
holds the last line printed into it; a committed line takes one row.  The layout
of the input is kept: `wrap_rows` counts rows, `soft_wrap_line` cuts them,
`build_prompt` scrolls and `visible_cursor_position` places the caret.

Three things in the block are printed without regard to the width of the terminal,
which wraps them: the first row behind the badge of a mode, the progress lines, and the
dropdown with its hint.  What goes over takes a row of its own (`Overflow`), as a line
feed would: below the region nothing scrolls, and on the last row the rest is
written over.  So the rows drawn (`DrawnRows`, `Ephemeral`, `Entries`) may be more than
the code counts (`max_in_view`, `ephemeral_count`, `MaxDrop`), and a block that grows
over its end keeps only its footer there, as `BlockIsCurrent` says.  A progress line is
modelled by the number of rows it takes, an input by its characters, of which "w"
takes two columns.

| model | code |
|---|---|
| `screen.rows`, `history`, `cursor` | the terminal |
| `stream_line_open`, `ephemeral`, `ephemeral_count`, `prompt`, `caret` | the fields of `IncrementalRenderer` |
| `apply_mutation` | the dispatcher of app.rs |
| `Emit`, `Buffered` | `push_pipeline_mutation`: to the screen, or to the entry of a detached pipeline |
| `Show` | a push to `state.mutations`, which the loop applies in order |
| the actions | the arms of `handle_event` and the keys that write to the screen |

`Screen` tells apart the lines that a pipeline says by number, and all other
lines only as notes.  `lost` is a history variable: the lines that a stream line
took with it (section 6).  `MAX_BUFFERED_MUTATIONS` and the sizes of the block
are constants, with small values in the runs.

## 4. What is checked

All bounds are constants of the configurations or of the `INSTANCE`s in the MC
modules: the number of requests, commands, calls, messages or characters bounds
every behaviour, so no state constraint is needed.  Requests and keys of the
session service are interchangeable and declared symmetric where no liveness is
checked.

| run | instance | what it shows |
|---|---|---|
| `SessionService_races` | 2 racing requests of all 14 kinds, one key, either may die | shape of the tables; no event without its session; the log is gap-free; the cursor is within it |
| `SessionService_serial` | 3 requests one at a time, 2 keys; *lossy*: 5 kinds, any may die; *reliable*: 4 kinds, expected sequences 1 and 3 | receipts are in the log and next to their effect; a retry replays; the cursor lags by one event per dead task at most; accepted messages are counted; an expected sequence is honoured; a deleted log is frozen; the lifecycle is implemented |
| `SessionStream` | 2 writers, a client, 2 breaks or stops; *races*: writers overlap and die; *orderly*: one at a time, fairness | frames are numbered 1, 2, 3, ... over reconnects; orderly: they are the log, every event is delivered, stop ends every stream |
| `TerminalManager_limits` | 1 caller, 2 terminals and their monitors, limit 1, output, all calls but wait | no more processes run than the limit |
| `TerminalManager_live` | 2 callers, 1 terminal, 1 restart, waits may fail, all calls but probes, fairness | only own processes are signalled; a running process is counted; a stop that succeeds killed the group; a stopped terminal is recorded as such; every stop, budget and wait ends |
| `Disk` | nine scenes, below | what is on disk stays whole and consistent |
| `Interface` | eight scenes, below | order, progress, approval, what keys do to the text, what the screen shows |
| `SessionService_mint` | 2 racing messages | *violated*: two writers mint one sequence |
| `SessionService_retry` | a message, a crash, its retry | *violated*: applied twice under one key |
| `TerminalManager_output` | start and stop, one chunk of output | *violated*: a stop wipes out captured output |
| `TuiLoop_cancel` | a message, /cancel | *violated*: no key is read any more |
| `RunTask_reload` | three runs of one session, a provider that cannot be built | *violated*: the history of a finished run is loaded |

Scenes of `Disk`:

| scene | instance | properties |
|---|---|---|
| *jobs* | 2 jobs, 6 commands one at a time, any may die | the store is whole; trash and status agree; an answer comes with the return to work; `JobLifecycle` is implemented |
| *jobraces* | 2 processes on one job, 4 commands that overlap and may die | trash and status agree whatever is lost |
| *goals* | 2 goal runs, 4 commands one at a time, any may die | the store is whole; a time of completion goes with a final status; runs are kept |
| *manifests* | 2 tasks, 3 commands one at a time, any may die | the store is whole; an update changes one task |
| *runs* | 2 sessions, 3 runs one at a time, any may die or lack a provider | the row charges exactly the calls of its completed runs, and counts their turns and calls; what failed or was cancelled is not taken up again |
| *runraces* | 1 session, 2 processes that overlap and may die | the row never counts too much |
| *files* | all 16 tools, 2 calls of one executor on 2 paths | a refused call changed nothing, a failed one lost only the file it writes; keepers keep; moves and copies replace nothing unless told to |
| *fileraces* | 5 tools, 2 executors | a refused call changed nothing, a failed one lost only the file it writes |
| *search* | every graph of 3 tasks and an unknown name, every order of visits, fairness | the answer is right, and there is one |

Scenes of `Interface`:

| scene | instance | properties |
|---|---|---|
| *loop* | 3 messages, 2 detaches, agents may be cancelled, runs may fail, 1 entry in the background | messages run in order and once; the running entry is the run in flight, a finished one says how it ended |
| *fairloop* | 2 messages, 2 detaches, up to 4 entries, failures, /cancel, Ctrl+C, Ctrl+Q, fairness | a message is run in the end where nothing disturbs it; Ctrl+C ends the program |
| *asks* | 3 calls, one of them approved by rule; timer, detaching, decisions before the call waits; fairness | what runs was approved; each call is at one place; each is answered |
| *orderlyasks* | the same, calls wait first and stay in the foreground, 2 presses of [s] | besides: every recorded decision was heard |
| *text* | 2 characters and what completions add, a bar of 2 rows, a dropdown of 1 row with 2 entries, one- and two-byte characters, all four triggers | caret and scroll are sound; the dropdown is about the word at the caret; `TextBuffer` is implemented |
| *layout* | inputs of 1 to 3 lines that wrap or not, the caret anywhere, a dropdown within the rows kept for it or beyond them, progress lines and a badge that wrap or not, a note, the end | below the transcript stands the current prompt, up to the last row, with the cursor at the caret where the layout does not lose it; the transcript only grows |
| *lines* | 1 pipeline of 3 lines, 2 detachments, a buffer of 2, every kind of event | besides: its lines are shown in order and none is missing |
| *pipelines* | 2 pipelines of 1 line, 3 detachments or choices | the same |

`OrderIsKept` is *loop*'s order of messages and the order of lines in *lines* and
*pipelines*; `EveryoneIsAnswered` the liveness of *fairloop* and *asks*;
`TranscriptIsAppendOnly` and `ScreenShowsPrompt` are about the last three scenes.

*Why the bounds are enough.*  Two requests are enough for each race of two
writers; three are used where a crash, a retry and a third client must meet.
One terminal shows every race between its monitor, two callers and its
processes; a second is needed only for the limit.  One caller starts terminals:
two starts may pass the check of the limit together, and a probe that spans a
restart may write over the record of a new terminal with the same id, so
restarts are checked without probes.  Six commands take a job to the trash and
back with a crash in between; four commands of two processes show every overlap
of two writes of the file.  Three tasks have cycles of length one, two and
three, diamonds and chains.  Three messages are one that runs in the
background, one behind it and one behind that.  A text of two typed characters
grows to two lines, to a word with a trigger and, by completions, beyond.  Two
columns and two visible rows are the least in which a line may end before, at
and behind the end of a row and the text scroll; a buffer of two mutations is
full, truncated and replayed with three lines.

The runs allow deadlock: requests, commands and keys are finitely many, and
when all have ended the system has nothing left to do; a terminal that nobody
stops may run for ever.

Each property of a passing run is also checked against a slip in the code: the
definitions named `Slip...` are the mutated forms (a receipt that is not saved,
a refusal that is dropped, a table that is not asked), listed with their targets
under `mutants` in `PROJECT.json`.  TLC finds each slip.

### Fairness

Safety properties assume none.

* *Streams.*  A stream task keeps running: weak fairness of `Send` (a frame that
  can be written is written) and of `Poll` (the 200 ms timer fires), and strong
  fairness of `Shutdown`: when timer and signal are both ready `select!` picks a
  branch at random, so it does not prefer the timer for ever, but the branch is
  disabled while frames are being sent, which weak fairness would not survive.
  Clients, writers and the operator owe nothing.
* *Terminals.*  Tasks go on and timers fire: weak fairness of each monitor and
  of each call that was made.  A process may run for ever and ignore SIGINT, new
  calls may never come, a wait need not fail, and the pumps owe nothing, since
  the drain has a time limit.
* *Main loop.*  The two tasks and the loop are scheduled, and a run ends at some
  time: weak fairness.  Strong fairness of the end of the drain, of the end of
  the program and of the two seconds of Ctrl+C, since model calls may put new
  events into the channel: the loop handles them faster than a model sends
  them.  Nobody makes the user press a key.
* *Approvals.*  Calls that were announced wait, timers fire, announcements are
  handled: weak fairness.  The user need not press anything.
* *Search.*  A loop of one thread goes on: weak fairness of its next step.

## 5. What is proved

All theorems hold for every value of the constants that satisfies the named
assumptions of the modules (and `Serial`, where stated).

| module | theorem | statement |
|---|---|---|
| `SessionProofs` | `TypeCorrect` | `Spec => []TypeOK` |
| | `NoOrphanEvent` | `Spec => []EventsHaveSession` |
| | `LogStaysGapFree` | `Spec => []LogGapFree` |
| | `CursorNamesEvent` | `Spec => []CursorWithinLog` |
| | `StatementsImplementLifecycle` | `Serial`: `Spec => LifecycleSpec` |
| | `DeletedStaysDeleted` | `Serial`: `Spec => DeletedLogFrozen` |
| | `CursorLagsByDeaths` | `Serial`: `Spec => []CursorLagBounded` |
| | `AppliesWhereExpected` | `Serial`, `~MayFail`: `Spec => []AppliedWhereExpected` |
| | `ReceiptsStandInLog` | `Serial`: `Spec => []ReceiptsMatchLog` |
| | `RetriesReplay` | `Serial`: `Spec => []ReplaysInsteadOfApplying` |
| | `DepthLosesNothing` | `Serial`: `Spec => []DepthCountsAccepted` |
| | `AttachIsReadOnly` | `Serial`: `Spec => AttachKeepsState` |
| | `StreamTypes` | `StreamSpec => []StreamTypeOK` |
| | `NoFrameLostOrRepeated` | `StreamSpec => []DeliveredOnceInOrder` |
| | `ReceivedStaysInLog` | `Serial`: `StreamSpec => []ReceivedIsLogPrefix` |
| `TerminalManagerProofs` | `TypeCorrect` | `Spec => []TypeOK` |
| | `OnlyOwnSignalled` | `Spec => []SignalsOnlyOwn` |
| | `StopIsThorough` | `Spec => []StoppedIsDead` |
| | `StopIsShown` | `Spec => []StopIsRecorded` |
| | `ProcessesAreCounted` | `ProbesKnown`: `Spec => []RunningIsCounted` |
| | `LimitIsKept` | `ProbesKnown`, `OneStarter`: `Spec => []LimitRespected` |
| `RunTaskProofs` | `TypeCorrect` | `Spec => []TypeOK` |
| | `RowsNeverOvercharge` | `Spec => []NeverOvercharged` |
| | `RowsAreExact` | `Serial`: `Spec => []CallsAreBilled` |
| | `EndsAreFinal` | `Serial`: `Spec => FinalIsFinal` |
| `StoreProofs` | `TypeCorrect` | `Spec => []TypeOK` |
| | `TrashRemembers` | `Spec => []TrashKnowsOrigin` |
| | `CrashLeavesWhole` | `Serial`: `Spec => []StoreIsWhole` |
| | `AnswersComeWithWork` | `Serial`: `Spec => AnswerResumes` |
| | `JobsImplementLifecycle` | `Serial`: `Spec => Life!Spec`, the specification of JobLifecycle under the mapping above |
| | `GoalsTypeCorrect` | `Goals!Spec => []Goals!TypeOK`, where `Goals` is RunStore |
| | `CompletionIsHonest` | `Goals!Spec => []Goals!CompletedIsTerminal` |
| | `NoRunIsLost` | `Serial`: `Goals!Spec => Goals!RunsAreKept` |
| | `GoalsStayWhole` | `Serial`: `Goals!Spec => []Goals!StoreIsWhole` |
| | `ManifestsTypeCorrect` | `Manifests!Spec => []Manifests!TypeOK`, where `Manifests` is ManifestStore |
| | `UpdatesChangeOneTask` | `Serial`: `Manifests!Spec => Manifests!OneTaskAtATime` |
| | `ManifestsStayWhole` | `Serial`: `Manifests!Spec => []Manifests!StoreIsWhole` |
| | `GraphTypeCorrect` | `Search!Spec => []Search!TypeOK`, where `Search` is DependencyGraph |
| | `CyclesAreFound` | `Search!Spec => []Search!AnswerIsRight` |
| `FileToolsProofs` | `TypeCorrect` | `ToolsAreKnown`: `Spec => []TypeOK` |
| | `RefusalsAreHarmless` | `ToolsAreKnown`: `Spec => []RefusedChangesNothing` |
| | `FailuresAreContained` | `ToolsAreKnown`: `Spec => []FailuresLoseLittle` |
| | `EditsKeepContents` | `ToolsAreKnown`, `OneActor`: `Spec => []KeepersKeep` |
| | `NothingIsReplaced` | `ToolsAreKnown`, `OneActor`: `Spec => Replaces` |
| `TuiLoopProofs` | `TypeCorrect` | `LimitsAreNumbers`: `Spec => []TypeOK` |
| | `MessagesKeepOrder` | `LimitsAreNumbers`: `Spec => []TasksKeepOrder` |
| | `EndsMeetTheirEntry` | `LimitsAreNumbers`: `Spec => []BackgroundIsInFlight` |
| | `GateTypeCorrect` | `Gate!Spec => []Gate!TypeOK`, where `Gate` is Approvals |
| | `NothingRunsUnapproved` | `Gate!Spec => []Gate!RunsOnlyApproved` |
| | `QueueAndGateAgree` | `Gate!Spec => []Gate!QueueAgreesWithGate` |
| `ScreenProofs` | `TypeCorrect` | `ConstantsOK`: `Spec => []TypeOK` |
| | `CommittedStays` | `ConstantsOK`: `Spec => TranscriptIsAppendOnly` |
| | `PromptIsShown` | `ConstantsOK`: `Spec => []ScreenShowsPrompt` |
| | `OutputIsInOrder` | `ConstantsOK`: `Spec => []OutputInOrder` |
| `ComposerProofs` | `TypeCorrect` | `LimitsAreNumbers`: `Spec => []TypeOK` |
| | `DropdownFollowsCaret` | `LimitsAreNumbers`, `~PasteAnywhere`: `Spec => []TokenUnderCaret` |
| | `NeverPanics` | `LimitsAreNumbers`, `~PasteAnywhere`: `Spec => []~panicked` |
| | `ImplementsBuffer` | `LimitsAreNumbers`, `~PasteAnywhere`: `Spec => ImplementsTextBuffer`, which is `Buffer!Spec` |

*SessionService.*  `TypeOK` is not inductive: `NewEvent` stores an event for
`fresh[r]` and `AppendEvent` looks up `EventOf[cmd[r].kind]`, which are of the
right type only because of the steps that came before.  `Typed` adds `TaskOK`:
what each task knows at its program counter.  The log invariants need more: two
writers may mint the same sequence, so the log is gap-free only because a
minted sequence is at most one past the end *and stays so*, since sequences are
never removed.  `IInv` states this per task: a task that is about to insert `k`
knows that `1 .. k-1` are in the log, a task's copy of the cursor is in the log,
and the session of its command has a row.  `QuietStep` is the lemma for the
statements that leave the log alone, `LogStep` for those that insert.

*SessionService, clients that wait for one another.*  What a single command does
to row, log and receipts is spread over a dozen statements, any of which may be
the last of its task.  Six invariants, each on top of those before it, say what
the command at work has left behind at each statement:

- `SerialInv`: at most one request is in flight (`Alone`).  Its copy of the
  snapshot is the row until the change of the command is applied to the copy,
  and the row with that change until the receipt writes it (`CopyOK`); the
  checks of `submit` still hold at the statements behind them (`CheckOK`).  From
  this each statement is a step of SessionLifecycle or leaves its state alone
  (`StepRefines`), a deleted session takes no event, and `attach` moves nothing.
- `MintInv`: a minted sequence is past the end of the log, so an insert replaces
  nothing (`LogGrows`).
- `LagInv`: the cursor is behind the log by at most one event for each task that
  died and for the one between its insert and its save.  Without deaths the
  cursor is the end of the log, and a command that passed the check of
  `expected_sequence` gets the number behind it (`ExpectInv`).
- `TraceInv`: a request leaves nothing in the log, then its event at the end,
  then the receipt directly behind it; never two events of either sort.
- `ReceiptInv`: a key has one stored receipt, none while a request with that key
  is being applied, and one behind each request that finished.  Two requests
  that both left an event under one key are therefore no two that finished.
- `DepthInv`: the depth of a row is at least the number of messages whose
  receipt was saved; requests are finitely many (`RequestsAssumption`).

`Serial` is needed by all of them: with racing clients each of these properties
fails (the runs `SessionService_mint` and section 6).  `AppliedWhereExpected`
needs `~MayFail` besides, since the sequence behind a lagging cursor is taken.

*SessionStream.*  `StreamInv` is `IInv` and, per client: the batch that was
fetched continues what the client has without a hole and with one event of each
number, and the cursor of the stream is the number of frames the client has.
Because the log is gap-free (proved above), each fetch gives such a batch
(`FetchedBatch`) and the least of it is the next frame (`SentIsNext`).  The
writers may race: an event that replaces another keeps its number.  Where they wait
for one another, no event is replaced (`MintInv`), so the frames that a client has,
and those that its task has fetched, stay in the log (`PrefixInv`); with racing
writers this fails.

*TerminalManager.*  `TerminalInv` says who holds which process.  A terminal with
an entry or a monitor names a group that this manager spawned (`HasGroup`), so
every signal goes to a group of its own; pids in use are `1 .. k`, so a new
group never has the pid of an old one; two calls never start the same terminal.
A monitor behind the kill has a dead group; the latch is set only behind it;
after the fold a terminal that was asked to stop shows it in its record.  A stop
reports success only when the latch has fired, which gives `StoppedIsDead`.
The limit needs two more.  `CountInv`: a terminal that has a running process, or
is about to have one, has an active record, and so has every copy that a stop or
a probe will store over that record; a stop gives a terminal up only when its
leader is dead.  `LimitInv`: every running process has a terminal of its own and
while a start is under way there is room for its process.  `RoomLeft` counts:
processes are at most as many as active records, since each has another.
`ProbesKnown` (no restart, or no probes) and `OneStarter` are needed: a probe of
an old row stores its copy over the record of a new terminal with the same id,
and two starts may both pass the check before either inserts its record.

*RunTask.*  `Charged`: no row charges for more calls than are billed or counts more
turns than are known, and a process holds a row that claims no more than that, but
for the turns it has just added, and has counted no call that it did not make.  This is kept by every interleaving since `billed` and `turned` only grow.
For the exact count commands must not overlap: `Alone` says that at most one
process is not idle and that the row it holds has the count on disk.

*The stores of the CLI.*  Jobs, goal runs and manifests are written by the same
calls, so the lemmas about files are proved once, for any set `G` of good texts
and any set `L` of pairs that may follow each other; each store says what its
commands write and how one text leads to the next.  `FileInv(G)`: every text on
disk and in every plan is in `G`.  It is kept however processes overlap
(`PersistKeeps`), since a lost update or a stolen rename only moves such texts
from one place to another; that is all `TrashKnowsOrigin` and
`CompletedIsTerminal` need.  For commands that do not overlap, `Turn(G, L)` says
where the one process at work is: the temporary file is as its last call left
it, the store is whole, and the texts that are still to be written each follow
the one before, the first of them the one on disk.  A crash at any call
therefore leaves a text from which `L` led on (`PersistTurn`).  For jobs `L` is
`JobStep`, each of which is a step of JobLifecycle (`StepIsLife`); for goal runs,
that no run is missing; for manifests, that one task differs.  `GoalFiles` and
`ManifestFiles` say that the instances of RunStore and ManifestStore share the
calls of JobStore.

*FileTools.*  `ToolInv` says what a call knows of itself between its steps: its
arguments are paths that were validated, what it read of a file is a text, it has
changed nothing before its change, what it has lost so far is at most the text of the
file it writes, and what is left of an accepted batch is valid.  No other executor
can undo any of this, so a call that is refused has changed nothing
(`RefusalsAreHarmless`) and one that fails has taken nothing from any other path
(`FailuresAreContained`), under any race; `HalfFits` says what a failed call to the
file system leaves.  What the look found of the *workspace* is
another matter: `AloneInv` says that it still holds at the change, and that the
file is empty within a write, which is true only with one executor (`OneActor`);
from it follow `KeepersKeep` and `Replaces`.  With two, an edit writes back over
what another call wrote, and a move replaces a file that came after its look.
`ToolsAreKnown` asks that the tools called are those of the model, since the
tools are told apart by a CASE without another branch.

*Approvals.*  `Agreement` is the conjunction of the types, of the consistency of
queue and record, of `RunsOnlyApproved`, and of `Held`: a call is at the gate
exactly while it waits or its time is up, so `respond` to an entry of the queue
decides that call and no other.  TuiLoopProofs proves it of its instance `Gate`.

*DependencyGraph.*  `GraphInv`: the dependencies that a frame has dealt with were
visited or are the next frame; consecutive frames are linked by a dependency; a
root that was tried was visited or is on the stack; and no set of tasks that all
wait for one another meets `visited`.  The last is what makes the answer
"acyclic" right: a node is visited when its dependencies were, and a task of
such a set always has one that was not.  Conversely a dependency found on the
stack closes a cycle of the frames above it (`BackEdge`).  Cycles are stated as
sets of tasks each of which depends on one of the set, which needs no path.

*TuiLoop.*  An end names no pipeline: `handle_task_complete` marks the one that it
believes in flight.  `LoopInv` shows that belief right.  `InOrder` says which
message stands at each place of the two channels, behind the runs that started.
`EventsFollow` says that the waiting events lead, run by run, from the last end
the loop has handled to the run in flight, and that an end tells how its run
ended.  `Detached` says that at most one pipeline is in the background, only
while nothing is shown as active, and that it is the run whose end comes next:
`Announced + 1`.  `TailFollows` and `AppendFollows` carry this over the two ends of
the event channel, `ReattachKeeps` and `DetachKeeps` over the list of pipelines.
`BackgroundIsInFlight` alone is not inductive, since it says nothing of the
events that wait and of the run that Ctrl+B would detach.  `LimitsAreNumbers` asks
that `MaxTasks` and `MaxDetach` are numbers and nothing of the other constants.
TLC found no counterexample to `LoopInv` with three messages and three presses of
Ctrl+B, nor with two of each, /cancel, Ctrl+C and Ctrl+Q.

*Composer.*  `TypeOK` says of the caret that its column is a boundary of its line.
`IInv` says more of the bar, that it is rows of characters (`Bars`), and that a
message that waits is one it can hold, since `Cancel` writes it back.  Every such
bar is `At(A, u, v, B)`: rows `A`, a row `u \o v` with the caret between its
characters, rows `B` (`BarIsAt`); and each key is a lemma about these four, such as
`backspace(At(A, u \o <<c>>, v, B)) = At(A, u, v, B)`.  Behind them stand lemmas
about bytes: the column behind the first k characters (`Place`) grows with k
(`PlaceGrows`), a column that is a boundary cuts the line there (`Split`), and
`snap_to_char_boundary` and `next_char_boundary` find the neighbour of a boundary
(`Neighbours`).  `insert_str` and `Text` are folds; `FoldExists` gives the function
that a fold chooses, by induction over a set of numbers (`Climb`, from the library's
theorem that the natural numbers are well-founded).  A dropdown `Stands` at one of
the triggers that `Scans` finds, so its offset is a boundary and `trigger_complete`
may slice there (`TriggerIsThere`); a paste under an open dropdown moves the word away
from the offset, so this needs `~PasteAnywhere`.  `LimitsAreNumbers` asks that
`MaxVisible` is a positive number and `MaxItems` and `MaxRows` are numbers.  TLC
found no counterexample to `IInv` with three characters typed, nor with two and
pastes anywhere.

*Composer, a text with a caret.*  `ImplementsBuffer` shows that each step of the bar
is one of TextBuffer under the mapping of `Buffer`: rows joined by line breaks are
the text, and the characters before the caret count its place.  A bar `Reads` `X`
and `Z` when its text is `X \o Z` with the caret between them; `At(A, u, v, B)`
reads `Pre(A) \o u` and `v \o Post(B)` (`ReadsAt`), where `Pre` is the text of the
rows above with its last line break and `Post` that of the rows below with its
first.  The lemmas about a key say what the bar reads before and after it, and
`ReplacesBack` and `ErasesAhead` make of that what TextBuffer says: characters
`from + 1` to `upto` of the text were replaced (`Writes`), or the caret went
somewhere (`Goes`).  What TextBuffer finds in the text, the code finds in a row:
a row holds no line break, `Pre` ends in one and `Post` begins with one, so the
start and the end of the caret's line lie around `u \o v` (`StartOfLine`,
`EndOfLine`, `LineOf`), and the word before the caret that Ctrl+W cuts is within
`u` (`WordAt`).  `FilledWrites` says that a completion replaces the text from one
of the triggers that `Scans` finds, `InsertReads` that a paste adds its characters
one after another, and `BackInBar` that a message comes back from the dialog
unchanged; when Enter takes a command or a skill instead, there is such a word before
the caret.  It needs `~PasteAnywhere`, as after a paste under an open dropdown
`trigger_complete` slices somewhere else.

*Screen.*  Four functions of the renderer compute the row of the caret, the height
of the block and its parts, each by loops of its own.  `Inv` has two parts.  `Types`
says that the block on the screen is the one that the *current* prompt and progress
lines give (`Drawn`), and that after the end its rows are blank (`Cleared`); here
the folds of the renderer are shown to add up to the rows that the block takes
(`soft_wrap` makes as many rows of a line as `wrap_rows` counts), and the caret
that `visible_cursor_position` computes is shown to be where the input puts it,
except in the cases of `Wraps`.  `Pipelines` says which pipeline each entry of the
background belongs to.  Every step has one of four effects: it leaves the lines of
pipelines alone (`PlainStep`), shows one (`ScreenStep`), stores one in an entry
(`BackgroundStep`), or replays an entry (`TakenBack`); `EveryStep` sorts the
actions into these, and the lemmas about `Show` say what a list of mutations does to
transcript and block.  `ConstantsOK` asks that the terminal has more rows than the
block may take, that the input is at least one column wide and the other bounds
are numbers, that each of `Bars` has its caret in one of its lines (`BarType`), which
is proved of the input bar in ComposerProofs, and, as in state.rs, that at most two
progress lines stand above the block.  How many rows each of them takes, how wide the
badge is and how many rows the dropdown has, is left open: the block may be of any
height (`Height_of`, `ProgressHeight`), and `Redraw` shows what of it is on the screen.
Only for the caret no progress line may wrap (`ProgressWraps`) and no badge be shown.

*Screen, the order of the output.*  `OutputInOrder` compares positions of the
transcript and of everything that waits behind it.  It is not inductive: the replay of
an entry puts its lines at the end of the transcript, and a pipeline that goes on in
the foreground adds more.  `InOrder` says of each entry on its own that its lines
are in order and come behind all lines of its pipeline in the transcript, that no
line has a number that its pipeline has not reached, that each number is found on
the screen, in an entry, among the lines lost, or stands behind a notice, and that
an open stream line is a hint at the end of the transcript.  With `Pipelines`, by
which entries are of different pipelines, `PlacesOfAll` then gives the order over
all entries.  `ReplayKeepsOrder` is the heart: the note and the flushes among the
replayed mutations say nothing, the lines come out as they went in, and what they
replace is at most an open hint, which is then in `lost`.  TLC found no
counterexample to `InOrder` in the scenes of the screen.

*Only model-checked.*  Liveness (`EveryEventDelivered`, `StopEndsStreams`,
`WaiterWakes`, `TerminalEnds`, `SearchAnswers`, `EveryoneIsAnswered`) and what needs
ENABLED, which are out of the prover's reach.  The invariants of `MCDisk`,
`MCInterface` and `MCSessionStream` choose, by scene, the property of a component;
each of these is proved of the component, for all constants, and not again of the
choice.

## 6. Where the code does otherwise than it says

`findings` in `PROJECT.json` quotes the lines of the five *violated* runs.  While
modelling we met more, which have no run of their own:

*Sessions.*  An `attach` that races a cancel restores the old state; the stream
of a deleted session never ends (transport.rs:715).  `session cancel` says "This
cannot be undone" (session.rs:235), but a run in progress writes its own copy of
the row over it (`CancelIsFinal` fails); deleting a session leaves the histories
of its agents (manager.rs:231); the calls of a run that failed are not billed.
`turn_count`, by its comment "Number of agent turns executed" (session.rs:99), gets
the turns of the workflow (orchestrator.rs:266) and then the model calls of the same
run (runtime.rs:588): a completed run is counted twice.  `CallsAreBilled` says so;
tokens and cost are added once.

*Stores.*  `completed_at` of a resumed job stays set (jobs/mod.rs:465).  Two
overlapping processes share a temporary file, so a store may be left torn or lose
an update (runs/mod.rs:434; `RestsWhole` of RunStore fails for two processes).

*Terminals.*  Two starts pass the limit together (manager.rs:360); a wait with
timeout 0 waits without bound (842); with probes across a restart a stale copy
may record as inactive a process that runs, so `RunningIsCounted` is checked
without them.

*File tools.*  The hook that asks for a read before an edit is shared by all
executors: another one may have changed the file since (`EditKnowsContents`
fails with two).  `edit_file` and `patch_file` read and write without a lock: the
text of another call in between is lost (fs_store.rs:91).  A write that reports an
error may have emptied the file (`fs::write` truncates first, fs_store.rs:93), and
directories that a call made above its path stay when what follows fails
(move_file.rs:139-153, append_to_file.rs:108-137): `FailuresLoseLittle` says
what a failed call may have done and what not.

*Main loop.*  After a run that failed in the foreground nothing is accepted any
more (`TypedIsRunAfterError` fails; state.rs:2040).  `max_background_tasks` never
binds, since one pipeline runs in the background at most (state.rs:1507).  The
warning of Ctrl+Q is given once and never again (2378).

*Approvals.*  In the background a rule's decision is recorded but not sent, and
the call waits for the timer (1841-1843; `AnswersAreHeard` fails with
`MayDetach`).  The entry of a call whose time is up stays in the queue, so a key
may decide a call that no longer waits (`KeyAnswersWaitingCall` fails).  The
letters a, y, r, n and s that are typed for a message decide a waiting call
(2270).

*Input bar.*  After a directory was completed the scan finds its slash and closes
the dropdown, where the comment at state.rs:779 says that the next level
appears.  A paste does not refresh an open dropdown (1577): with `PasteAnywhere`
its offset may lie behind the end of the line and Tab slices out of range (767).
A dropdown keeps its scroll position when it shrinks (652).
Enter on a skill in the middle of a text submits the skill and drops the text around
it (697-714).  The store of the history is said to hold "all user input bar
submissions" (trigger/history.rs:5), but nothing in the program pushes to it: its
dropdown never opens.  If it did, a message of several lines would be put into the
bar with the caret in its first line (773-775).

*Screen.*  The caret is said to appear "right after the last typed character"
(renderer.rs:20-21); behind a line that fills its row it is shown at the first
column of that row (976-979).  `wrap_rows` divides the width of a line, while
`soft_wrap_line` does not split a wide character, so fewer rows are counted than
drawn and the last characters are not shown.  `build_prompt` looks only at the
rows before the line of the caret (prompt.rs:60), so in a line of more rows than
are shown the caret stands on another one.  The badge of a mode is wider than
`PREFIX_WIDTH` and displaces the caret (681), and a row that it makes wider than the
terminal wraps; so do progress lines (427-444) and the hint of the dropdown (850-857),
which are not cut as the footer is, and entries with wide characters, which are cut
by characters (819).  Each counts as one row, so what stands below moves down, the
caret does not, and the end of the block may be written over by the footer.  On a terminal of 24 rows or less
nothing scrolls and lines are written over the input (199).  With an indicator
the block may have 25 rows, one more than is reserved.  The "transient" reading
hint is written over the line of its tool call, and any line committed while it
is open replaces it, so that the call is lost (`lost`).  The notice "earlier
output truncated" stands for later output, since the buffer keeps the first
lines (state.rs:1342-1352).  `AgentRunComplete` clears `stream_active` before it
asks it (1675).  Summaries of tool calls of a detached pipeline are shown at
once, before its buffered lines (1364).

*Agents and configuration.*  The stop flag of a hand-off is never read in
`before_llm_call`; the config watcher is used by tests only, and dropping its
handle does not stop it.

## 7. What is not modelled

*Of the modelled components.*  Parsing, authentication and framing of HTTP
requests; the projection of a snapshot to the caller's capabilities; the
migration of an old database; of the terminals the limit per project, rows of
other sessions, redaction, truncation and the confinement of the working
directory; listing, sorting and printing of the stores; purging and queries of
SessionManager; the prompts, models and tools inside a run; the tools that only
list, search or hash; of the interface the menus, the search for mentions and
skills, Markdown, colours and the replay of a stored transcript, which are
sequential code of one thread with unit tests.  A resize of the terminal is left
out because what a terminal does with its rows then is not defined by this code;
so are committed lines that are longer than a row: the terminal wraps them within the
region that scrolls, so each takes several rows at its end, and of a stream line that
long only the last row is replaced.  The block is modelled on a terminal of at least
`MIN_TERM_COLS` columns, with more rows than are reserved, and with a badge that is
narrower than a row.  `StreamToken` and `SessionUpdate` events have no sender in the
repository.  Screen starts without a task on the command line.

*Assumptions of the stores.*  `update` of RunStore and ManifestStore runs any closure
(runs/mod.rs:371, store.rs:165).  In RunStore it has no caller outside the tests,
which set a status and nothing else (539, 621); that who sets a final status also
stamps `completed_at`, as `cancel` and `resume` do, is an assumption of `Update`, and
`CompletedIsTerminal` rests on it.  Of the closures of ManifestStore only
`set_task_status` is modelled.  `Persist` of TerminalManager puts the record into the
map and upserts the file in one step (manager.rs:1219-1229): a read of the map
between the two finds the new record in both.  A write of one call to the file system
leaves a file empty or whole, never a part of its text, and `remove_directory` takes
a directory or leaves it, never a part of what is in it.

*Agents* (`xaft-agent`, `xaft-agents`): the loop of a step is in an external
crate, of which the repository has only the callers.  *Shell, git, MCP and plugin
tools*: a process or a request per call, no state between calls.  *Memory*: a
thin layer over an external store.  *Configuration*: loading is sequential and
pure; the watcher is started by no command.  *Skills*: files read once.  *CLI*:
parses arguments, calls the other components and prints.  These make up most of
the lines of the repository, which is why the models cover a small share of
them: they have no interleaving, no failure and no bound for a model checker to
explore.
