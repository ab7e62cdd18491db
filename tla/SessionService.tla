--------------------------- MODULE SessionService ---------------------------
(***************************************************************************)
(* The client-neutral session service of xaft-session (service.rs): a      *)
(* SQLite database with a snapshot table, an event log and a table of      *)
(* receipts, written by every task that serves an HTTP connection and by   *)
(* every `xaft session ...` process.  Each SQL statement is atomic; an     *)
(* operation is a sequence of statements with no transaction around them,  *)
(* so one action here is one statement, with the local computation that    *)
(* follows it up to the next await.                                        *)
(***************************************************************************)
EXTENDS Naturals, FiniteSets

CONSTANTS
  Sessions,       \* session ids that may be minted or named by a client
  Existing,       \* the sessions created before the behaviour starts
  Requests,       \* calls of create_session or submit; each runs once
  Keys,           \* idempotency keys
  Kinds,          \* the command kinds clients send, a subset of CommandKinds
  Expectations,   \* values of expected_sequence clients send
  Serial,         \* TRUE: clients wait for one another
  MayFail,        \* TRUE: a task may die, or the store may refuse a statement
  Nothing         \* the absent Option

CommandKinds ==
  {"attach", "submit_message", "cancel", "interrupt", "approve", "reject",
   "answer", "resume", "retry", "archive", "invoke_command", "fork",
   "delete", "unknown"}

\* The event each kind appends; attach and fork append none of their own.
EventOf ==
  [submit_message |-> "turn_queued",       cancel  |-> "cancel_requested",
   interrupt      |-> "cancel_requested",  approve |-> "approval_resolved",
   reject         |-> "approval_resolved", answer  |-> "answer_resolved",
   resume         |-> "session_resumed",   retry   |-> "retry_scheduled",
   archive        |-> "session_archived",  invoke_command |-> "command_invoked",
   delete         |-> "session_deleted"]

EventKinds ==
  {"session_created", "turn_queued", "cancel_requested", "approval_resolved",
   "answer_resolved", "session_resumed", "retry_scheduled",
   "session_archived", "command_invoked", "session_deleted",
   "command_accepted"}

SessionState == {"created", "idle", "cancelled", "archived"}

ASSUME SessionsAssumption == Existing \subseteq Sessions
ASSUME RequestsAssumption == IsFiniteSet(Requests)
ASSUME KindsAssumption == Kinds \subseteq CommandKinds
ASSUME ExpectationsAssumption == Expectations \subseteq Nat
ASSUME ModeAssumption == Serial \in BOOLEAN /\ MayFail \in BOOLEAN
ASSUME NothingAssumption ==
  Nothing \notin Sessions /\ Nothing \notin Requests /\ Nothing \notin Keys
  /\ Nothing \notin Nat

VARIABLES
  rows,       \* sessions with a row in service_sessions
  snapshot,   \* the payload column of service_sessions
  deleted,    \* sessions whose deleted column is set
  events,     \* service_events, primary key (session, sequence)
  commands,   \* service_commands, primary key (session, key)
  pc,         \* the statement each request executes next
  cmd,        \* the command envelope of each request
  snap,       \* the request's own copy of the snapshot
  seq,        \* the sequence the request minted
  fresh,      \* the session the request is creating
  reply       \* what the caller was told, and by which request's receipt

store == <<rows, snapshot, deleted, events, commands>>
local == <<pc, cmd, snap, seq, fresh, reply>>
vars == <<rows, snapshot, deleted, events, commands,
          pc, cmd, snap, seq, fresh, reply>>

-----------------------------------------------------------------------------
(* Data *)

\* SessionSnapshot, down to what later commands read: the lifecycle state,
\* last_event_sequence and the queue depth.
Snapshot == [state : SessionState, last : Nat, depth : Nat]

NewSnapshot == [state |-> "created", last |-> 0, depth |-> 0]

Event == [session : Sessions, sequence : Nat \ {0}, kind : EventKinds,
          by : Requests \cup {Nothing}]

Receipt == [session : Sessions, key : Keys, by : Requests]

Command == [kind : CommandKinds \cup {"create"},
            session : Sessions \cup {Nothing}, key : Keys \cup {Nothing},
            expected : Expectations \cup {Nothing}]

NoCommand == [kind |-> "create", session |-> Nothing, key |-> Nothing,
              expected |-> Nothing]

Steps == {"idle", "find_receipt", "check", "next_sequence", "append_event",
          "put_snapshot", "next_receipt", "append_receipt", "put_receipt",
          "mark_deleted", "put_command", "new_row", "new_event", "new_save",
          "done", "dead"}

Outcomes == {"none", "ok", "replayed", "forbidden", "not_found",
             "stale_sequence", "invalid_state", "invalid_command",
             "unknown_kind"}

Reply == [outcome : Outcomes, origin : Requests \cup {Nothing}]

InFlight(r) == pc[r] \notin {"idle", "done", "dead"}

Sequences(s) == {e.sequence : e \in {d \in events : d.session = s}}

\* SELECT COALESCE(MAX(sequence), 0)
IsMaxSequence(m, s) ==
  m \in Sequences(s) \cup {0} /\ \A k \in Sequences(s) : k <= m

(* A definition named Slip... is the code with a slip of the pen in it.  No *)
(* specification uses one: each shows that a run notices the slip.         *)

\* The event table has no primary key.
SlipInserted(e) == events \cup {e}

\* INSERT OR REPLACE INTO service_events
Inserted(e) ==
  {d \in events : d.session # e.session \/ d.sequence # e.sequence} \cup {e}

\* The queue depth goes down with each message, and below zero.
SlipDepthDown(kind, sn) ==
  IF kind = "submit_message" THEN [sn EXCEPT !.depth = @ - 1] ELSE sn

\* A cancel also empties the queue.
SlipCancelEmpties(kind, sn) ==
  CASE kind = "submit_message" -> [sn EXCEPT !.state = "idle", !.depth = @ + 1]
    [] kind = "cancel" -> [sn EXCEPT !.state = "cancelled", !.depth = 0]
    [] OTHER -> sn

StateAfter ==
  [submit_message |-> "idle", resume |-> "idle", retry |-> "idle",
   cancel |-> "cancelled", interrupt |-> "cancelled", archive |-> "archived"]

\* A cancel retires the session instead of leaving it open.
SlipCancelFinishes(kind, sn) ==
  [sn EXCEPT
     !.state = CASE kind = "cancel" -> "completed"
                 [] kind \in DOMAIN StateAfter \ {"cancel"} -> StateAfter[kind]
                 [] OTHER -> @,
     !.depth = IF kind = "submit_message" THEN @ + 1 ELSE @]

\* What an accepted command does to the snapshot.
Apply(kind, sn) ==
  [sn EXCEPT
     !.state = IF kind \in DOMAIN StateAfter THEN StateAfter[kind] ELSE @,
     !.depth = IF kind = "submit_message" THEN @ + 1 ELSE @]

-----------------------------------------------------------------------------
Init ==
  /\ rows = Existing
  /\ snapshot = [s \in Sessions |-> IF s \in Existing
                                    THEN [NewSnapshot EXCEPT !.last = 1]
                                    ELSE NewSnapshot]
  /\ deleted = {}
  /\ events = {[session |-> s, sequence |-> 1, kind |-> "session_created",
                by |-> Nothing] : s \in Existing}
  /\ commands = {}
  /\ pc = [r \in Requests |-> "idle"]
  /\ cmd = [r \in Requests |-> NoCommand]
  /\ snap = [r \in Requests |-> NewSnapshot]
  /\ seq = [r \in Requests |-> 0]
  /\ fresh = [r \in Requests |-> Nothing]
  /\ reply = [r \in Requests |-> [outcome |-> "none", origin |-> Nothing]]

Goto(r, step) == pc' = [pc EXCEPT ![r] = step]

\* The task's locals go with it.
Drop(r) ==
  /\ snap' = [snap EXCEPT ![r] = NewSnapshot]
  /\ seq' = [seq EXCEPT ![r] = 0]
  /\ fresh' = [fresh EXCEPT ![r] = Nothing]

Answer(r, outcome, origin) ==
  /\ Goto(r, "done")
  /\ reply' = [reply EXCEPT ![r] = [outcome |-> outcome, origin |-> origin]]
  /\ Drop(r)

Continue(r, step) == Goto(r, step) /\ UNCHANGED <<snap, seq, fresh, reply>>

MayStart(r) ==
  /\ pc[r] = "idle"
  /\ Serial => \A q \in Requests : ~InFlight(q)

-----------------------------------------------------------------------------
(* create_session, and the child that fork creates with the same three     *)
(* statements: snapshot row, first event, snapshot with the cursor at 1.   *)

CreateSession(r) ==
  /\ MayStart(r)
  /\ Continue(r, "new_row")
  /\ UNCHANGED <<store, cmd>>

\* The first event is written before the row.
SlipEventFirst(r) ==
  /\ pc[r] = "new_row"
  /\ \E s \in Sessions \ rows :
       /\ fresh' = [fresh EXCEPT ![r] = s]
       /\ Goto(r, "new_event")
  /\ UNCHANGED <<store, cmd, snap, seq, reply>>

NewRow(r) ==
  /\ pc[r] = "new_row"
  /\ \E s \in Sessions \ rows :
       /\ rows' = rows \cup {s}
       /\ snapshot' = [snapshot EXCEPT ![s] = NewSnapshot]
       /\ fresh' = [fresh EXCEPT ![r] = s]
  /\ Goto(r, "new_event")
  /\ UNCHANGED <<deleted, events, commands, cmd, snap, seq, reply>>

NewEvent(r) ==
  /\ pc[r] = "new_event"
  /\ events' = Inserted([session |-> fresh[r], sequence |-> 1,
                         kind |-> "session_created", by |-> r])
  /\ Continue(r, "new_save")
  /\ UNCHANGED <<rows, snapshot, deleted, commands, cmd>>

NewSave(r) ==
  /\ pc[r] = "new_save"
  /\ snapshot' = [snapshot EXCEPT ![fresh[r]] =
                    [NewSnapshot EXCEPT !.last = 1]]
  /\ IF cmd[r].kind = "fork" THEN Continue(r, "next_receipt")
                             ELSE Answer(r, "ok", r)
  /\ UNCHANGED <<rows, deleted, events, commands, cmd>>

-----------------------------------------------------------------------------
(* submit: the checks, each after the statement whose row it reads *)

Envelope(kind, s, key, expected) ==
  [kind |-> kind, session |-> s, key |-> key, expected |-> expected]

\* The caller lacks read (attach) or control (every other kind).
SubmitForbidden(r, kind, s, key, expected) ==
  /\ MayStart(r)
  /\ cmd' = [cmd EXCEPT ![r] = Envelope(kind, s, key, expected)]
  /\ Answer(r, "forbidden", Nothing)
  /\ UNCHANGED store

\* The capability holds: get_snapshot.
Submit(r, kind, s, key, expected) ==
  /\ MayStart(r)
  /\ cmd' = [cmd EXCEPT ![r] = Envelope(kind, s, key, expected)]
  /\ IF s \in rows
     THEN /\ snap' = [snap EXCEPT ![r] = snapshot[s]]
          /\ Goto(r, "find_receipt")
          /\ UNCHANGED <<seq, fresh, reply>>
     ELSE Answer(r, "not_found", Nothing)
  /\ UNCHANGED store

Prior(r) == {c \in commands : c.session = cmd[r].session /\ c.key = cmd[r].key}

\* get_command: a known key replays the stored result.
FindReceipt(r) ==
  /\ pc[r] = "find_receipt"
  /\ \/ \E c \in Prior(r) : Answer(r, "replayed", c.by)
     \/ Prior(r) = {} /\ Continue(r, "check")
  /\ UNCHANGED <<store, cmd>>

\* A deleted session is not refused.
SlipDeletedAccepted(r) ==
  IF snap[r].state = "archived" /\ cmd[r].kind \notin {"attach", "resume"}
  THEN "invalid_state" ELSE "none"

\* Only an expectation ahead of the cursor is refused.
SlipExpectsAtMost(r) ==
  CASE cmd[r].session \in deleted -> "not_found"
    [] cmd[r].session \notin deleted /\ cmd[r].expected # Nothing
       /\ cmd[r].expected > snap[r].last -> "stale_sequence"
    [] OTHER -> "none"

\* Whether the checks after is_deleted refuse the command, and how.
Refusal(r) ==
  IF cmd[r].session \in deleted THEN "not_found"
  ELSE IF cmd[r].expected \notin {Nothing, snap[r].last} THEN "stale_sequence"
  ELSE IF /\ snap[r].state = "archived"
          /\ cmd[r].kind \notin {"attach", "resume"} THEN "invalid_state"
  ELSE "none"

\* is_deleted, then the checks on the copy read by get_snapshot.
Check(r) ==
  /\ pc[r] = "check"
  /\ \/ /\ Refusal(r) # "none"
        /\ Answer(r, Refusal(r), Nothing)
     \/ /\ Refusal(r) = "none"
        /\ \/ cmd[r].kind = "unknown" /\ Answer(r, "unknown_kind", Nothing)
           \/ cmd[r].kind = "submit_message"    \* empty text
              /\ Answer(r, "invalid_command", Nothing)
           \/ cmd[r].kind = "attach" /\ Continue(r, "next_receipt")
           \/ cmd[r].kind = "fork" /\ Continue(r, "new_row")
           \/ cmd[r].kind \in DOMAIN EventOf /\ Continue(r, "next_sequence")
  /\ UNCHANGED <<store, cmd>>

-----------------------------------------------------------------------------
(* append: three statements, run once for the kind's event and once for    *)
(* the command_accepted receipt.                                           *)

NextSequence(r) ==
  /\ pc[r] \in {"next_sequence", "next_receipt"}
  /\ \E m \in Sequences(cmd[r].session) \cup {0} :
       /\ IsMaxSequence(m, cmd[r].session)
       /\ seq' = [seq EXCEPT ![r] = m + 1]
  /\ Goto(r, IF pc[r] = "next_sequence" THEN "append_event"
                                        ELSE "append_receipt")
  /\ UNCHANGED <<store, cmd, snap, fresh, reply>>

\* The cursor is set to the sequence to mint next.
SlipCursorAhead(r) ==
  /\ pc[r] \in {"append_event", "append_receipt"}
  /\ events' = Inserted([session |-> cmd[r].session, sequence |-> seq[r],
                         kind |-> "command_accepted", by |-> r])
  /\ snap' = [snap EXCEPT ![r].last = seq[r] + 1]
  /\ Goto(r, IF pc[r] = "append_event" THEN "put_snapshot" ELSE "put_receipt")
  /\ UNCHANGED <<rows, snapshot, deleted, commands, cmd, seq, fresh, reply>>

AppendEvent(r) ==
  /\ pc[r] \in {"append_event", "append_receipt"}
  /\ events' = Inserted([session |-> cmd[r].session, sequence |-> seq[r],
                         kind |-> IF pc[r] = "append_event"
                                  THEN EventOf[cmd[r].kind]
                                  ELSE "command_accepted",
                         by |-> r])
  /\ snap' = [snap EXCEPT ![r].last = seq[r]]
  /\ Goto(r, IF pc[r] = "append_event" THEN "put_snapshot" ELSE "put_receipt")
  /\ UNCHANGED <<rows, snapshot, deleted, commands, cmd, seq, fresh, reply>>

\* The row is written with the state as read; the command's own change is
\* made to the copy afterwards and reaches the row with the receipt.
PutSnapshot(r) ==
  /\ pc[r] = "put_snapshot"
  /\ snapshot' = [snapshot EXCEPT ![cmd[r].session] = snap[r]]
  /\ snap' = [snap EXCEPT ![r] = Apply(cmd[r].kind, @)]
  /\ Goto(r, IF cmd[r].kind = "delete" THEN "mark_deleted" ELSE "next_receipt")
  /\ UNCHANGED <<rows, deleted, events, commands, cmd, seq, fresh, reply>>

\* A delete stores its receipt without the receipt event.
SlipDeleteUnlogged(r) ==
  /\ pc[r] = "mark_deleted"
  /\ deleted' = deleted \cup {cmd[r].session}
  /\ Continue(r, "put_command")
  /\ UNCHANGED <<rows, snapshot, events, commands, cmd>>

MarkDeleted(r) ==
  /\ pc[r] = "mark_deleted"
  /\ deleted' = deleted \cup {cmd[r].session}
  /\ Continue(r, "next_receipt")
  /\ UNCHANGED <<rows, snapshot, events, commands, cmd>>

\* The receipt's event does not advance the cursor of the row.
SlipReceiptUnsaved(r) ==
  /\ pc[r] = "put_receipt"
  /\ Continue(r, "put_command")
  /\ UNCHANGED <<store, cmd>>

PutReceipt(r) ==
  /\ pc[r] = "put_receipt"
  /\ snapshot' = [snapshot EXCEPT ![cmd[r].session] = snap[r]]
  /\ Continue(r, "put_command")
  /\ UNCHANGED <<rows, deleted, events, commands, cmd>>

\* The receipt is returned and not stored.
SlipReceiptLost(r) ==
  /\ pc[r] = "put_command"
  /\ Answer(r, "ok", r)
  /\ UNCHANGED <<store, cmd>>

\* INSERT OR REPLACE INTO service_commands
PutCommand(r) ==
  /\ pc[r] = "put_command"
  /\ commands' = (commands \ Prior(r)) \cup
       {[session |-> cmd[r].session, key |-> cmd[r].key, by |-> r]}
  /\ Answer(r, "ok", r)
  /\ UNCHANGED <<rows, snapshot, deleted, events, cmd>>

\* The process dies between two statements, or a statement fails and the
\* operation returns store_error: what was written stays.
Fail(r) ==
  /\ MayFail
  /\ InFlight(r)
  /\ Goto(r, "dead")
  /\ Drop(r)
  /\ UNCHANGED <<store, cmd, reply>>

-----------------------------------------------------------------------------
Start(r) ==
  \/ CreateSession(r)
  \/ \E kind \in Kinds, s \in Sessions, key \in Keys,
        expected \in Expectations \cup {Nothing} :
       \/ SubmitForbidden(r, kind, s, key, expected)
       \/ Submit(r, kind, s, key, expected)

Step(r) ==
  \/ NewRow(r) \/ NewEvent(r) \/ NewSave(r)
  \/ FindReceipt(r) \/ Check(r)
  \/ NextSequence(r) \/ AppendEvent(r) \/ PutSnapshot(r)
  \/ MarkDeleted(r) \/ PutReceipt(r) \/ PutCommand(r)

Next == \E r \in Requests : Start(r) \/ Step(r) \/ Fail(r)

Spec == Init /\ [][Next]_vars

-----------------------------------------------------------------------------
(* What holds however clients interleave and wherever a task dies          *)

\* Every variable has the shape of the tables and of the task's locals.
TypeOK ==
  /\ rows \subseteq Sessions
  /\ snapshot \in [Sessions -> Snapshot]
  /\ deleted \subseteq Sessions
  /\ events \subseteq Event
  /\ commands \subseteq Receipt
  /\ pc \in [Requests -> Steps]
  /\ cmd \in [Requests -> Command]
  /\ snap \in [Requests -> Snapshot]
  /\ seq \in [Requests -> Nat]
  /\ fresh \in [Requests -> Sessions \cup {Nothing}]
  /\ reply \in [Requests -> Reply]

\* create_session's comment: a crash leaves an empty session, never an event
\* of a session that does not exist.  Fork keeps the same order.
EventsHaveSession == \A e \in events : e.session \in rows

\* SessionEvent.sequence: unique and gap-free within a session, from 1.
LogGapFree ==
  /\ \A d, e \in events :
       d.session = e.session /\ d.sequence = e.sequence => d = e
  /\ \A e \in events : \A k \in 1 .. e.sequence : k \in Sequences(e.session)

\* A client that resumes after the cursor of a snapshot resumes at an event
\* of the log: the row's last_event_sequence never runs ahead of the log.
CursorWithinLog ==
  \A s \in rows : snapshot[s].last \in Sequences(s) \cup {0}

-----------------------------------------------------------------------------
(* What holds when clients wait for one another (Serial)                   *)

Quiet == \A r \in Requests : ~InFlight(r)

SameKey(q, r) == cmd[q].session = cmd[r].session /\ cmd[q].key = cmd[r].key

Acknowledged(r) ==
  reply[r].outcome \in {"ok", "replayed"} /\ cmd[r].kind # "create"

\* A client that missed the response finds the receipt on the log: every
\* stored receipt has its command_accepted event.
AcceptedLeavesReceiptEvent ==
  \A c \in commands : \E e \in events :
    e.kind = "command_accepted" /\ e.by = c.by /\ e.session = c.session

\* The receipt of a command stands directly after the command's own event.
ReceiptFollowsEffect ==
  \A e \in events :
    e.kind = "command_accepted" /\ cmd[e.by].kind \in DOMAIN EventOf =>
      \E d \in events : /\ d.session = e.session /\ d.by = e.by
                        /\ d.sequence + 1 = e.sequence
                        /\ d.kind = EventOf[cmd[e.by].kind]

\* An accepted command has left its event in the log, and no receipt is stored
\* before the effect that it reports.
ReceiptsMatchLog == AcceptedLeavesReceiptEvent /\ ReceiptFollowsEffect

\* Every caller that was answered for one key was given the same result,
\* also when a first attempt died before its receipt was stored.
OneResultPerKey ==
  \A q, r \in Requests :
    Acknowledged(q) /\ Acknowledged(r) /\ SameKey(q, r) =>
      reply[q].origin = reply[r].origin

\* Two events that are both the effect, or both the receipt, of commands with
\* one key.
Repeats(d, e) ==
  /\ d.kind # "session_created" /\ e.kind # "session_created"
  /\ SameKey(d.by, e.by)
  /\ (d.kind = "command_accepted") = (e.kind = "command_accepted")

\* idempotency_key: a resubmitted command replays its original result
\* instead of applying twice.  No two events are the effect, and no two the
\* receipt, of commands with one key.
AppliedAtMostOnce == \A d, e \in events : Repeats(d, e) => d = e

\* What of that promise the order of the statements keeps (service.rs:458):
\* a resubmitted command replays its original result, and is applied again
\* only where a task that had applied it died before it stored the receipt.
ReplaysInsteadOfApplying ==
  /\ OneResultPerKey
  /\ \A d, e \in events :
       Repeats(d, e) /\ d # e => "dead" \in {pc[d.by], pc[e.by]}

\* expected_sequence: a command that named the cursor it had seen is applied
\* directly after that cursor or not at all.
AppliedWhereExpected ==
  \A e \in events :
    e.kind \in {EventOf[k] : k \in DOMAIN EventOf} /\ cmd[e.by].expected # Nothing
      => e.sequence = cmd[e.by].expected + 1

\* A task that dies between append_event and put_snapshot leaves the cursor
\* behind the log, and each such task by one event at most.
CursorLagBounded ==
  \A s \in rows : \A m \in Sequences(s) :
    m <= snapshot[s].last +
           Cardinality({r \in Requests : pc[r] = "dead" \/ InFlight(r)})

\* No accepted message is lost from the queue depth of the snapshot.
DepthCountsAccepted ==
  Quiet => \A s \in rows :
    Cardinality({r \in Requests : /\ reply[r].outcome = "ok"
                                  /\ cmd[r].kind = "submit_message"
                                  /\ cmd[r].session = s}) <= snapshot[s].depth

\* A deleted session refuses every further command: only the request that
\* deletes it still writes (its receipt).
DeletedLogFrozen ==
  [][\A e \in events' \ events :
       e.session \in deleted => cmd[e.by].kind = "delete"]_vars

\* attach is the one kind a read-only client may submit: it never moves a
\* session from one state to another.
AttachKeepsState ==
  [][\A r \in Requests : cmd[r].kind = "attach" /\ pc'[r] # pc[r] =>
       \A s \in Sessions : snapshot'[s].state = snapshot[s].state]_vars

\* append's comment: two writers of one session never mint one sequence.
MintedOnce ==
  \A q, r \in Requests :
    /\ q # r /\ cmd[q].session = cmd[r].session
    /\ pc[q] \in {"append_event", "append_receipt"}
    /\ pc[r] \in {"append_event", "append_receipt"}
    => seq[q] # seq[r]

-----------------------------------------------------------------------------
\* The lifecycle a single client sees, refined by the statements above.
Lifecycle == INSTANCE SessionLifecycle WITH
  life <- [s \in Sessions |-> IF s \in rows THEN snapshot[s].state ELSE "none"],
  gone <- deleted
LifecycleSpec == Lifecycle!Spec
=============================================================================
