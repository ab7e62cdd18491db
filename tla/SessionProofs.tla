----------------------------- MODULE SessionProofs -----------------------------
(***************************************************************************)
(* Proofs about SessionService and SessionStream for every number of       *)
(* sessions, requests, keys and subscribers, every interleaving of         *)
(* statements and every failure: what the log and the rows are like under  *)
(* any race; what commands of clients that wait for one another do; and    *)
(* that no frame of a stream is skipped or sent twice.                     *)
(***************************************************************************)
EXTENDS SessionStream, FiniteSetTheorems, TLAPS

-----------------------------------------------------------------------------
(* The statements of a task, under any race *)

\* The steps of submit after its snapshot was read; a fork passes through
\* the steps that create a session.
Serving(r) ==
  \/ pc[r] \in {"find_receipt", "check", "next_sequence", "append_event",
                "put_snapshot", "next_receipt", "append_receipt",
                "put_receipt", "mark_deleted", "put_command"}
  \/ pc[r] \in {"new_row", "new_event", "new_save"} /\ cmd[r].kind = "fork"

\* What a task knows of its own command at each step.
TaskOK(r) ==
  /\ pc[r] = "idle" => cmd[r] = NoCommand
  /\ Serving(r) => cmd[r].session \in rows /\ cmd[r].key \in Keys
  /\ pc[r] \in {"next_sequence", "append_event", "put_snapshot"} =>
       cmd[r].kind \in DOMAIN EventOf
  /\ pc[r] \in {"append_event", "append_receipt"} => seq[r] \in Nat \ {0}
  /\ pc[r] \in {"new_event", "new_save"} => fresh[r] \in rows

Typed == TypeOK /\ \A r \in Requests : TaskOK(r)

\* An accepted command turns a snapshot into a snapshot.
LEMMA ApplyType ==
  ASSUME NEW kind, NEW sn \in Snapshot
  PROVE  /\ Apply(kind, sn) \in Snapshot
         /\ Apply(kind, sn).last = sn.last
<1>1. ASSUME kind \in DOMAIN StateAfter PROVE StateAfter[kind] \in SessionState
  BY <1>1 DEF StateAfter, SessionState
<1>2. sn.state \in SessionState /\ sn.depth \in Nat /\ sn.depth + 1 \in Nat
  BY DEF Snapshot
<1> QED  BY <1>1, <1>2 DEF Apply, Snapshot

\* The tables and the tasks start with their types.
LEMMA InitTyped == Init => Typed
BY SessionsAssumption
   DEF Init, Typed, TypeOK, TaskOK, Serving, Snapshot, NewSnapshot, Event,
       EventKinds, SessionState, Receipt, Command, NoCommand, Steps, Reply,
       Outcomes, CommandKinds

\* Storing an event in the log leaves a set of events.
LEMMA InsertedType ==
  ASSUME NEW e \in Event, events \subseteq Event
  PROVE  Inserted(e) \subseteq Event
BY DEF Inserted

\* Starting, and every way a task ends, keeps the types.
LEMMA AnswerTyped ==
  ASSUME Typed, NEW r \in Requests, NEW outcome \in Outcomes,
         NEW origin \in Requests \cup {Nothing}, Answer(r, outcome, origin),
         cmd' \in [Requests -> Command],
         \A q \in Requests \ {r} : cmd'[q] = cmd[q],
         rows' \subseteq Sessions, rows \subseteq rows',
         snapshot' \in [Sessions -> Snapshot], deleted' \subseteq Sessions,
         events' \subseteq Event, commands' \subseteq Receipt
  PROVE  Typed'
<1> USE DEF Typed, TypeOK, TaskOK, Serving, Answer, Goto, Drop
<1>1. TypeOK'
  BY DEF Steps, Snapshot, NewSnapshot, SessionState, Reply
<1>2. ASSUME NEW q \in Requests PROVE TaskOK(q)'
  BY DEF Steps
<1> QED  BY <1>1, <1>2

\* Every statement keeps the types, one action at a time.
LEMMA NextTyped == Typed /\ [Next]_vars => Typed'
<1> SUFFICES ASSUME Typed, [Next]_vars PROVE Typed'
  OBVIOUS
<1> USE DEF Typed, TypeOK, TaskOK, Serving
<1>1. ASSUME NEW r \in Requests, CreateSession(r) PROVE Typed'
  BY <1>1 DEF CreateSession, MayStart, Continue, Goto, Steps, store, NoCommand
<1>2. ASSUME NEW r \in Requests, NewRow(r) PROVE Typed'
  BY <1>2 DEF NewRow, Goto, Steps, Snapshot, NewSnapshot, SessionState
<1>3. ASSUME NEW r \in Requests, NewEvent(r) PROVE Typed'
  <2>1. [session |-> fresh[r], sequence |-> 1, kind |-> "session_created",
         by |-> r] \in Event
    BY <1>3 DEF NewEvent, Event, EventKinds
  <2> QED  BY <1>3, <2>1, InsertedType DEF NewEvent, Continue, Goto, Steps
<1>4. ASSUME NEW r \in Requests, NewSave(r) PROVE Typed'
  <2>1. snapshot' \in [Sessions -> Snapshot]
    BY <1>4 DEF NewSave, Snapshot, NewSnapshot, SessionState
  <2>2. CASE cmd[r].kind = "fork"
    BY <1>4, <2>1, <2>2 DEF NewSave, Continue, Goto, Steps
  <2>3. CASE cmd[r].kind # "fork"
    BY <1>4, <2>1, <2>3, AnswerTyped DEF NewSave, Outcomes
  <2> QED  BY <2>2, <2>3
<1>5. ASSUME NEW r \in Requests, NEW kind \in Kinds, NEW s \in Sessions,
             NEW key \in Keys, NEW expected \in Expectations \cup {Nothing},
             SubmitForbidden(r, kind, s, key, expected) \/ Submit(r, kind, s, key, expected)
      PROVE Typed'
  <2>1. Envelope(kind, s, key, expected) \in Command
    BY KindsAssumption DEF Envelope, Command
  <2>2. CASE SubmitForbidden(r, kind, s, key, expected)
    BY <2>1, <2>2, AnswerTyped DEF SubmitForbidden, store, Outcomes
  <2>3. CASE Submit(r, kind, s, key, expected) /\ s \notin rows
    BY <2>1, <2>3, AnswerTyped DEF Submit, store, Outcomes
  <2>4. CASE Submit(r, kind, s, key, expected) /\ s \in rows
    BY <2>1, <2>4 DEF Submit, MayStart, Goto, Steps, store, Envelope
  <2> QED  BY <1>5, <2>2, <2>3, <2>4
<1>6. ASSUME NEW r \in Requests, FindReceipt(r) PROVE Typed'
  <2>1. ASSUME NEW c \in Prior(r), Answer(r, "replayed", c.by) PROVE Typed'
    BY <1>6, <2>1, AnswerTyped DEF FindReceipt, Prior, Receipt, store, Outcomes
  <2>2. CASE Continue(r, "check")
    BY <1>6, <2>2 DEF FindReceipt, Continue, Goto, Steps, store
  <2> QED  BY <1>6, <2>1, <2>2 DEF FindReceipt
<1>7. ASSUME NEW r \in Requests, Check(r) PROVE Typed'
  <2>1. ASSUME NEW outcome \in Outcomes, Answer(r, outcome, Nothing)
        PROVE  Typed'
    BY <1>7, <2>1, AnswerTyped DEF Check, store
  <2>2. ASSUME NEW step \in {"next_receipt", "new_row", "next_sequence"},
               Continue(r, step),
               step = "next_sequence" => cmd[r].kind \in DOMAIN EventOf,
               step = "new_row" => cmd[r].kind = "fork"
        PROVE  Typed'
    BY <1>7, <2>2 DEF Check, Continue, Goto, Steps, store
  <2>3. Refusal(r) \in Outcomes
    BY DEF Refusal, Outcomes
  <2>4. {"unknown_kind", "invalid_command"} \subseteq Outcomes
    BY DEF Outcomes
  <2> QED  BY <1>7, <2>1, <2>2, <2>3, <2>4 DEF Check
<1>8. ASSUME NEW r \in Requests, NextSequence(r) PROVE Typed'
  <2>1. Sequences(cmd[r].session) \cup {0} \subseteq Nat
    BY DEF Sequences, Event
  <2> QED  BY <1>8, <2>1 DEF NextSequence, Goto, Steps, store
<1>9. ASSUME NEW r \in Requests, AppendEvent(r) PROVE Typed'
  <2> DEFINE e == [session |-> cmd[r].session, sequence |-> seq[r],
                   kind |-> IF pc[r] = "append_event"
                            THEN EventOf[cmd[r].kind]
                            ELSE "command_accepted",
                   by |-> r]
  <2>1. cmd[r].session \in Sessions /\ seq[r] \in Nat \ {0}
    BY <1>9 DEF AppendEvent
  <2>2. \A k \in DOMAIN EventOf : EventOf[k] \in EventKinds
    BY DEF EventOf, EventKinds
  <2>3. "command_accepted" \in EventKinds
    BY DEF EventKinds
  <2>4. e \in Event
    BY <1>9, <2>1, <2>2, <2>3 DEF AppendEvent, Event
  <2>5. events' \subseteq Event
    BY <1>9, <2>4, InsertedType DEF AppendEvent
  <2>6. snap' \in [Requests -> Snapshot]
    BY <1>9 DEF AppendEvent, Snapshot
  <2> QED  BY <1>9, <2>5, <2>6 DEF AppendEvent, Goto, Steps
<1>10. ASSUME NEW r \in Requests, PutSnapshot(r) PROVE Typed'
  <2>1. Apply(cmd[r].kind, snap[r]) \in Snapshot
    BY ApplyType
  <2> QED  BY <1>10, <2>1 DEF PutSnapshot, Goto, Steps
<1>11. ASSUME NEW r \in Requests, MarkDeleted(r) PROVE Typed'
  BY <1>11 DEF MarkDeleted, Continue, Goto, Steps
<1>12. ASSUME NEW r \in Requests, PutReceipt(r) PROVE Typed'
  BY <1>12 DEF PutReceipt, Continue, Goto, Steps
<1>13. ASSUME NEW r \in Requests, PutCommand(r) PROVE Typed'
  <2>1. commands' \subseteq Receipt
    BY <1>13 DEF PutCommand, Receipt
  <2> QED  BY <1>13, <2>1, AnswerTyped DEF PutCommand, Outcomes
<1>14. ASSUME NEW r \in Requests, Fail(r) PROVE Typed'
  BY <1>14 DEF Fail, Goto, Drop, Steps, store, Snapshot, NewSnapshot,
               SessionState, InFlight
<1>15. CASE UNCHANGED vars
  BY <1>15 DEF vars
<1> QED
  BY <1>1, <1>2, <1>3, <1>4, <1>5, <1>6, <1>7, <1>8, <1>9, <1>10, <1>11,
     <1>12, <1>13, <1>14, <1>15 DEF Next, Start, Step

\* The type invariant, and with it what every task knows of its command.
THEOREM TypeCorrect == Spec => []TypeOK
<1>1. Spec => []Typed
  BY InitTyped, NextTyped, PTL DEF Spec
<1>2. Typed => TypeOK
  BY DEF Typed
<1> QED  BY <1>1, <1>2, PTL
-----------------------------------------------------------------------------
(* The event log.  The invariant relates what each task holds to the log:  *)
(* the sequence it minted is at most one past the log's end, however many  *)
(* tasks minted the same one, and the cursor in its copy of the snapshot   *)
(* names an event.  Sequences are never removed, so neither is undone by   *)
(* another task.                                                           *)

TaskLogOK(r) ==
  /\ Serving(r) => snap[r].last \in Sequences(cmd[r].session) \cup {0}
  /\ pc[r] \in {"append_event", "append_receipt"} =>
       \A k \in 1 .. seq[r] - 1 : k \in Sequences(cmd[r].session)
  /\ pc[r] = "new_save" => 1 \in Sequences(fresh[r])

IInv ==
  /\ Typed
  /\ EventsHaveSession
  /\ LogGapFree
  /\ CursorWithinLog
  /\ \A r \in Requests : TaskLogOK(r)

\* INSERT OR REPLACE adds one sequence to one session and removes none.
LEMMA InsertedSequences ==
  ASSUME events \subseteq Event, NEW e \in Event, events' = Inserted(e),
         NEW s
  PROVE  /\ Sequences(s) \subseteq Sequences(s)'
         /\ Sequences(s)' \subseteq Sequences(s) \cup {e.sequence}
         /\ s = e.session => e.sequence \in Sequences(s)'
         /\ s # e.session => Sequences(s)' = Sequences(s)
BY DEF Sequences, Inserted, Event

\* A row inserted at most one past the end of an existing session's log
\* leaves the log gap-free.
LEMMA InsertKeepsLog ==
  ASSUME events \subseteq Event, EventsHaveSession, LogGapFree,
         NEW e \in Event, e.session \in rows, rows \subseteq rows',
         \A k \in 1 .. e.sequence - 1 : k \in Sequences(e.session),
         events' = Inserted(e)
  PROVE  EventsHaveSession' /\ LogGapFree'
<1>1. EventsHaveSession'
  BY DEF EventsHaveSession, Inserted
<1>2. ASSUME NEW c \in events', NEW d \in events',
             c.session = d.session, c.sequence = d.sequence
      PROVE  c = d
  BY <1>2 DEF Inserted, LogGapFree
<1>3. ASSUME NEW d \in events', NEW k \in 1 .. d.sequence
      PROVE  k \in Sequences(d.session)'
  <2>1. CASE d = e
    <3>1. CASE k = e.sequence
      BY <2>1, <3>1, InsertedSequences
    <3>2. CASE k # e.sequence
      <4>0. e.sequence \in Nat \ {0}
        BY DEF Event
      <4>1. k \in 1 .. e.sequence - 1
        BY <2>1, <3>2, <4>0
      <4> QED  BY <2>1, <4>1, InsertedSequences
    <3> QED  BY <3>1, <3>2
  <2>2. CASE d # e
    <3>1. d \in events
      BY <2>2 DEF Inserted
    <3>2. k \in Sequences(d.session)
      BY <3>1 DEF LogGapFree
    <3> QED  BY <3>2, InsertedSequences
  <2> QED  BY <2>1, <2>2
<1> QED  BY <1>1, <1>2, <1>3 DEF LogGapFree

\* The log and the tasks start consistent with each other.
LEMMA InitIInv == Init => IInv
<1> SUFFICES ASSUME Init PROVE IInv
  OBVIOUS
<1>1. Typed
  BY InitTyped
<1>2. EventsHaveSession /\ LogGapFree
  BY DEF Init, EventsHaveSession, LogGapFree, Sequences
<1>3. CursorWithinLog
  <2>1. ASSUME NEW s \in rows PROVE snapshot[s].last \in Sequences(s)
    <3>1. s \in Existing /\ s \in Sessions
      BY SessionsAssumption DEF Init
    <3>2. snapshot[s].last = 1
      BY <3>1 DEF Init, NewSnapshot
    <3>3. [session |-> s, sequence |-> 1, kind |-> "session_created",
           by |-> Nothing] \in events
      BY <3>1 DEF Init
    <3> QED  BY <3>2, <3>3 DEF Sequences
  <2> QED  BY <2>1 DEF CursorWithinLog
<1>4. ASSUME NEW r \in Requests PROVE TaskLogOK(r)
  BY DEF Init, TaskLogOK, Serving
<1> QED  BY <1>1, <1>2, <1>3, <1>4 DEF IInv

\* The steps that do not touch the log: the rows they write and the one task
\* they move must be right, all else follows.
LEMMA QuietStep ==
  ASSUME IInv, Typed', NEW r \in Requests, UNCHANGED events,
         rows \subseteq rows',
         \A s \in rows' : \/ s \in rows /\ snapshot'[s] = snapshot[s]
                          \/ snapshot'[s].last \in Sequences(s) \cup {0},
         \A q \in Requests \ {r} :
           /\ pc'[q] = pc[q] /\ cmd'[q] = cmd[q] /\ snap'[q] = snap[q]
           /\ seq'[q] = seq[q] /\ fresh'[q] = fresh[q],
         TaskLogOK(r)'
  PROVE  IInv'
<1>1. \A s : Sequences(s)' = Sequences(s)
  BY DEF Sequences
<1>2. EventsHaveSession' /\ LogGapFree'
  BY <1>1 DEF IInv, EventsHaveSession, LogGapFree
<1>3. CursorWithinLog'
  BY <1>1 DEF IInv, CursorWithinLog
<1>4. ASSUME NEW q \in Requests, q # r PROVE TaskLogOK(q)'
  BY <1>1, <1>4 DEF IInv, TaskLogOK, Serving
<1> QED  BY <1>2, <1>3, <1>4 DEF IInv

\* The steps that insert a row, and touch no snapshot row.
LEMMA LogStep ==
  ASSUME IInv, Typed', NEW r \in Requests, NEW e \in Event,
         e.session \in rows, events' = Inserted(e),
         \A k \in 1 .. e.sequence - 1 : k \in Sequences(e.session),
         UNCHANGED <<rows, snapshot>>,
         \A q \in Requests \ {r} :
           /\ pc'[q] = pc[q] /\ cmd'[q] = cmd[q] /\ snap'[q] = snap[q]
           /\ seq'[q] = seq[q] /\ fresh'[q] = fresh[q],
         TaskLogOK(r)'
  PROVE  IInv'
<1>0. events \subseteq Event
  BY DEF IInv, Typed, TypeOK
<1>1. \A s : Sequences(s) \subseteq Sequences(s)'
  BY <1>0, InsertedSequences
<1>2. EventsHaveSession' /\ LogGapFree'
  BY <1>0, InsertKeepsLog DEF IInv
<1>3. CursorWithinLog'
  BY <1>1 DEF IInv, CursorWithinLog
<1>4. ASSUME NEW q \in Requests, q # r PROVE TaskLogOK(q)'
  BY <1>1, <1>4 DEF IInv, TaskLogOK, Serving
<1> QED  BY <1>2, <1>3, <1>4 DEF IInv

\* Every statement keeps the log gap-free, its sessions known, and every row
\* and every task's copy within the log.
LEMMA NextIInv == IInv /\ [Next]_vars => IInv'
<1> SUFFICES ASSUME IInv, [Next]_vars PROVE IInv'
  OBVIOUS
<1>0. Typed'
  BY NextTyped DEF IInv
<1>a. /\ pc \in [Requests -> Steps] /\ cmd \in [Requests -> Command]
      /\ snap \in [Requests -> Snapshot] /\ seq \in [Requests -> Nat]
      /\ fresh \in [Requests -> Sessions \cup {Nothing}]
      /\ snapshot \in [Sessions -> Snapshot] /\ rows \subseteq Sessions
  BY DEF IInv, Typed, TypeOK
<1>b. \A r \in Requests : TaskOK(r) /\ TaskLogOK(r)
  BY DEF IInv, Typed
<1>1. ASSUME NEW r \in Requests, CreateSession(r) PROVE IInv'
  <2>1. TaskLogOK(r)'
    BY <1>1, <1>a, <1>b DEF CreateSession, MayStart, Continue, Goto, TaskOK,
       TaskLogOK, Serving, NoCommand
  <2> QED  BY <1>0, <1>1, <1>a, <2>1, QuietStep
           DEF CreateSession, Continue, Goto, store
<1>2. ASSUME NEW r \in Requests, NewRow(r) PROVE IInv'
  <2>1. TaskLogOK(r)'
    BY <1>2, <1>a, <1>b DEF NewRow, Goto, TaskLogOK, Serving, Sequences
  <2>2. \A s \in rows' : \/ s \in rows /\ snapshot'[s] = snapshot[s]
                         \/ snapshot'[s].last \in Sequences(s) \cup {0}
    BY <1>2, <1>a DEF NewRow, NewSnapshot
  <2> QED  BY <1>0, <1>2, <1>a, <2>1, <2>2, QuietStep DEF NewRow, Goto
<1>3. ASSUME NEW r \in Requests, NewEvent(r) PROVE IInv'
  <2>0. fresh[r] \in rows
    BY <1>3, <1>b DEF NewEvent, TaskOK
  <2>1. PICK e \in Event :
          e = [session |-> fresh[r], sequence |-> 1,
               kind |-> "session_created", by |-> r]
    <3> DEFINE new == [session |-> fresh[r], sequence |-> 1,
                       kind |-> "session_created", by |-> r]
    <3>1. "session_created" \in EventKinds
      BY DEF EventKinds
    <3>2. fresh[r] \in Sessions
      BY <1>a, <2>0
    <3>3. new \in Event
      BY <3>1, <3>2 DEF Event
    <3> QED  BY <3>3
  <2>2. events \subseteq Event /\ events' = Inserted(e)
    BY <1>3, <2>1 DEF NewEvent, IInv, Typed, TypeOK
  <2>3. \A s : Sequences(s) \subseteq Sequences(s)'
    BY <2>2, InsertedSequences
  <2>4. pc'[r] = "new_save" /\ cmd' = cmd /\ snap' = snap /\ fresh' = fresh
    BY <1>3, <1>a DEF NewEvent, Continue, Goto
  <2>5. 1 \in Sequences(fresh[r])'
    BY <2>1, <2>2, <2>4 DEF Sequences, Inserted
  <2>6. TaskLogOK(r)'
    <3>1. Serving(r)' => snap[r].last \in Sequences(cmd[r].session) \cup {0}
      BY <1>3, <2>4, <1>b DEF NewEvent, TaskLogOK, Serving
    <3>2. Sequences(cmd[r].session) \subseteq Sequences(cmd[r].session)'
      BY <2>3, <2>4 DEF Sequences
    <3> QED  BY <2>4, <2>5, <3>1, <3>2 DEF TaskLogOK
  <2>7. \A k \in 1 .. e.sequence - 1 : k \in Sequences(e.session)
    BY <2>1
  <2> QED  BY <1>0, <1>3, <1>a, <2>0, <2>1, <2>2, <2>6, <2>7, LogStep
           DEF NewEvent, Continue, Goto
<1>4. ASSUME NEW r \in Requests, NewSave(r) PROVE IInv'
  <2>1. 1 \in Sequences(fresh[r]) /\ fresh[r] \in rows
    BY <1>4, <1>b DEF NewSave, TaskLogOK, TaskOK
  <2>2. \A s \in rows' : \/ s \in rows /\ snapshot'[s] = snapshot[s]
                         \/ snapshot'[s].last \in Sequences(s) \cup {0}
    BY <1>4, <1>a, <2>1 DEF NewSave, NewSnapshot
  <2>3. TaskLogOK(r)'
    BY <1>4, <1>a, <1>b DEF NewSave, Continue, Answer, Goto, Drop, TaskLogOK,
       Serving, Sequences
  <2> QED  BY <1>0, <1>4, <1>a, <2>2, <2>3, QuietStep
           DEF NewSave, Continue, Answer, Goto, Drop
<1>5. ASSUME NEW r \in Requests, NEW kind \in Kinds, NEW s \in Sessions,
             NEW key \in Keys, NEW expected \in Expectations \cup {Nothing},
             \/ SubmitForbidden(r, kind, s, key, expected)
             \/ Submit(r, kind, s, key, expected)
      PROVE IInv'
  <2>1. s \in rows => snapshot[s].last \in Sequences(s) \cup {0}
    BY DEF IInv, CursorWithinLog
  <2>2. TaskLogOK(r)'
    BY <1>5, <1>a, <2>1 DEF SubmitForbidden, Submit, Answer, Goto, Drop,
       TaskLogOK, Serving, Sequences, Envelope, store
  <2> QED  BY <1>0, <1>5, <1>a, <2>2, QuietStep
           DEF SubmitForbidden, Submit, Answer, Goto, Drop, store
<1>6. ASSUME NEW r \in Requests, FindReceipt(r) PROVE IInv'
  <2>1. TaskLogOK(r)'
    BY <1>6, <1>a, <1>b DEF FindReceipt, Continue, Answer, Goto, Drop,
       TaskLogOK, Serving, Sequences, store
  <2> QED  BY <1>0, <1>6, <1>a, <2>1, QuietStep
           DEF FindReceipt, Continue, Answer, Goto, Drop, store
<1>7. ASSUME NEW r \in Requests, Check(r) PROVE IInv'
  <2>1. TaskLogOK(r)'
    BY <1>7, <1>a, <1>b DEF Check, Continue, Answer, Goto, Drop,
       TaskLogOK, Serving, Sequences, store
  <2> QED  BY <1>0, <1>7, <1>a, <2>1, QuietStep
           DEF Check, Continue, Answer, Goto, Drop, store
<1>8. ASSUME NEW r \in Requests, NextSequence(r) PROVE IInv'
  <2>1. PICK m \in Sequences(cmd[r].session) \cup {0} :
          /\ IsMaxSequence(m, cmd[r].session)
          /\ seq' = [seq EXCEPT ![r] = m + 1]
    BY <1>8 DEF NextSequence
  <2>2. \A k \in 1 .. m : k \in Sequences(cmd[r].session)
    BY <2>1 DEF IInv, LogGapFree, Sequences
  <2>3. m \in Nat
    BY <2>1 DEF IInv, Typed, TypeOK, Sequences, Event
  <2>4. seq'[r] - 1 = m
    BY <1>a, <2>1, <2>3
  <2>5. TaskLogOK(r)'
    BY <1>8, <1>a, <1>b, <2>2, <2>4 DEF NextSequence, Goto, TaskLogOK, Serving,
       Sequences, store
  <2> QED  BY <1>0, <1>8, <1>a, <2>1, <2>5, QuietStep DEF NextSequence, Goto, store
<1>9. ASSUME NEW r \in Requests, AppendEvent(r) PROVE IInv'
  <2>1. cmd[r].session \in rows /\ seq[r] \in Nat \ {0}
    BY <1>9, <1>b DEF AppendEvent, TaskOK, Serving
  <2>2. PICK e \in Event : /\ e.session = cmd[r].session
                           /\ e.sequence = seq[r]
                           /\ events' = Inserted(e)
    <3> DEFINE new == [session |-> cmd[r].session, sequence |-> seq[r],
                       kind |-> IF pc[r] = "append_event"
                                THEN EventOf[cmd[r].kind]
                                ELSE "command_accepted",
                       by |-> r]
    <3>1. events' = Inserted(new)
      BY <1>9 DEF AppendEvent
    <3>2. new \in events'
      BY <3>1 DEF Inserted
    <3>3. new \in Event
      BY <1>0, <3>2 DEF Typed, TypeOK
    <3> QED  BY <3>1, <3>3
  <2>3. events \subseteq Event
    BY DEF IInv, Typed, TypeOK
  <2>4. \A k \in 1 .. e.sequence - 1 : k \in Sequences(e.session)
    BY <1>9, <1>b, <2>2 DEF AppendEvent, TaskLogOK
  <2>5. cmd' = cmd
    BY <1>9 DEF AppendEvent
  <2>6. seq[r] \in Sequences(cmd[r].session)'
    BY <2>2, <2>5 DEF Sequences, Inserted
  <2>7. TaskLogOK(r)'
    <3>1. snap'[r].last = seq[r]
      BY <1>9, <1>a DEF AppendEvent, Snapshot
    <3> QED  BY <1>9, <1>a, <2>6, <3>1
             DEF AppendEvent, Goto, TaskLogOK, Serving
  <2> QED  BY <1>0, <1>9, <1>a, <2>1, <2>2, <2>4, <2>7, LogStep
           DEF AppendEvent, Goto
<1>10. ASSUME NEW r \in Requests, PutSnapshot(r) PROVE IInv'
  <2>1. snap[r].last \in Sequences(cmd[r].session) \cup {0}
    BY <1>10, <1>b DEF PutSnapshot, TaskLogOK, Serving
  <2>2. \A s \in rows' : \/ s \in rows /\ snapshot'[s] = snapshot[s]
                         \/ snapshot'[s].last \in Sequences(s) \cup {0}
    BY <1>10, <1>a, <2>1 DEF PutSnapshot
  <2>3. snap'[r].last = snap[r].last
    BY <1>10, <1>a, ApplyType DEF PutSnapshot
  <2>4. TaskLogOK(r)'
    BY <1>10, <1>a, <2>1, <2>3
       DEF PutSnapshot, Goto, TaskLogOK, Serving, Sequences
  <2> QED  BY <1>0, <1>10, <1>a, <2>2, <2>4, QuietStep DEF PutSnapshot, Goto
<1>11. ASSUME NEW r \in Requests, MarkDeleted(r) PROVE IInv'
  <2>1. TaskLogOK(r)'
    BY <1>11, <1>a, <1>b DEF MarkDeleted, Continue, Goto, TaskLogOK, Serving,
       Sequences
  <2> QED  BY <1>0, <1>11, <1>a, <2>1, QuietStep DEF MarkDeleted, Continue, Goto
<1>12. ASSUME NEW r \in Requests, PutReceipt(r) PROVE IInv'
  <2>1. snap[r].last \in Sequences(cmd[r].session) \cup {0}
    BY <1>12, <1>b DEF PutReceipt, TaskLogOK, Serving
  <2>2. \A s \in rows' : \/ s \in rows /\ snapshot'[s] = snapshot[s]
                         \/ snapshot'[s].last \in Sequences(s) \cup {0}
    BY <1>12, <1>a, <2>1 DEF PutReceipt
  <2>3. TaskLogOK(r)'
    BY <1>12, <1>a, <2>1 DEF PutReceipt, Continue, Goto, TaskLogOK, Serving,
       Sequences
  <2> QED  BY <1>0, <1>12, <1>a, <2>2, <2>3, QuietStep
           DEF PutReceipt, Continue, Goto
<1>13. ASSUME NEW r \in Requests, PutCommand(r) PROVE IInv'
  <2>1. TaskLogOK(r)'
    BY <1>13, <1>a DEF PutCommand, Answer, Goto, Drop, TaskLogOK, Serving
  <2> QED  BY <1>0, <1>13, <1>a, <2>1, QuietStep
           DEF PutCommand, Answer, Goto, Drop
<1>14. ASSUME NEW r \in Requests, Fail(r) PROVE IInv'
  <2>1. TaskLogOK(r)'
    BY <1>14, <1>a DEF Fail, Goto, Drop, TaskLogOK, Serving
  <2> QED  BY <1>0, <1>14, <1>a, <2>1, QuietStep DEF Fail, Goto, Drop, store
<1>15. CASE UNCHANGED vars
  BY <1>15 DEF vars, IInv, Typed, TypeOK, TaskOK, Serving, EventsHaveSession,
     LogGapFree, CursorWithinLog, TaskLogOK, Sequences
<1> QED
  BY <1>1, <1>2, <1>3, <1>4, <1>5, <1>6, <1>7, <1>8, <1>9, <1>10, <1>11,
     <1>12, <1>13, <1>14, <1>15 DEF Next, Start, Step

\* The inductive invariant holds in every reachable state.
LEMMA SpecIInv == Spec => []IInv
BY InitIInv, NextIInv, PTL DEF Spec

\* However writers interleave and wherever they die, no event is stored for
\* a session that has no row (the order create_session and fork write in).
THEOREM NoOrphanEvent == Spec => []EventsHaveSession
<1>1. IInv => EventsHaveSession
  BY DEF IInv
<1> QED  BY <1>1, SpecIInv, PTL

\* The sequences of a session's log are unique and gap-free from 1, also
\* when two writers mint the same one: the log never has a hole at which a
\* reader that counts would stop.
THEOREM LogStaysGapFree == Spec => []LogGapFree
<1>1. IInv => LogGapFree
  BY DEF IInv
<1> QED  BY <1>1, SpecIInv, PTL

\* The cursor a client reads in a snapshot always names an event of the log.
THEOREM CursorNamesEvent == Spec => []CursorWithinLog
<1>1. IInv => CursorWithinLog
  BY DEF IInv
<1> QED  BY <1>1, SpecIInv, PTL
-----------------------------------------------------------------------------
(* Clients that wait for one another.  While a request is in flight no     *)
(* other writes the tables: its copy of the snapshot differs from the row  *)
(* only by what its own statements have not yet written, and the checks it *)
(* made still hold.                                                        *)

Alone == \A q, r \in Requests : InFlight(q) /\ InFlight(r) => q = r

Row(r) == snapshot[cmd[r].session]

\* The copy was read and nothing of it written; what the command does was
\* applied to the copy and not yet written.
Unsaved == {"find_receipt", "check", "next_sequence", "append_event",
            "new_row", "new_event", "new_save"}
Applied == {"mark_deleted", "next_receipt", "append_receipt"}

CopyOK(r) ==
  /\ Serving(r) /\ pc[r] \in Unsaved \cup {"put_snapshot"} =>
       snap[r].state = Row(r).state /\ snap[r].depth = Row(r).depth
  /\ Serving(r) /\ pc[r] \in Unsaved \cup Applied => snap[r].last = Row(r).last
  /\ pc[r] \in Applied \cup {"put_receipt"} =>
       /\ snap[r].state = Apply(cmd[r].kind, Row(r)).state
       /\ snap[r].depth = Apply(cmd[r].kind, Row(r)).depth
  /\ pc[r] \in {"put_snapshot", "put_receipt"} => snap[r].last = seq[r]

Checked(r) == Serving(r) /\ pc[r] \notin {"find_receipt", "check"}

CheckOK(r) ==
  Checked(r) =>
    /\ pc[r] # "put_command" /\ Row(r).state = "archived" =>
         cmd[r].kind \in {"attach", "resume"}
    /\ cmd[r].session \in deleted => cmd[r].kind = "delete"
    /\ cmd[r].kind \in DOMAIN EventOf \cup {"attach", "fork"}
    /\ pc[r] \in {"next_sequence", "append_event"} =>
         cmd[r].expected \in {Nothing, snap[r].last}
    /\ pc[r] = "mark_deleted" => cmd[r].kind = "delete"

FreshOK(r) ==
  pc[r] \in {"new_event", "new_save"} =>
    /\ fresh[r] \in rows \ deleted
    /\ Serving(r) => fresh[r] # cmd[r].session
    /\ snapshot[fresh[r]].state = "created" /\ snapshot[fresh[r]].depth = 0

SerialInv ==
  /\ Alone
  /\ deleted \subseteq rows
  /\ \A r \in Requests : CopyOK(r) /\ CheckOK(r) /\ FreshOK(r)

\* What an accepted command does to each field.
LEMMA ApplyFields ==
  ASSUME NEW kind, NEW sn \in Snapshot
  PROVE  /\ Apply(kind, sn).state =
              IF kind \in DOMAIN StateAfter THEN StateAfter[kind] ELSE sn.state
         /\ Apply(kind, sn).depth =
              IF kind = "submit_message" THEN sn.depth + 1 ELSE sn.depth
         /\ Apply(kind, sn).last = sn.last
BY DEF Apply, Snapshot

\* A request at rest claims nothing.
LEMMA Resting ==
  ASSUME NEW r \in Requests, ~InFlight(r)
  PROVE  CopyOK(r) /\ CheckOK(r) /\ FreshOK(r)
BY DEF InFlight, CopyOK, CheckOK, Checked, FreshOK, Serving, Unsaved, Applied

\* A step is one request's, and moves no other.
LEMMA StepOfOne ==
  ASSUME Typed, NEW r \in Requests, Start(r) \/ Step(r) \/ Fail(r)
  PROVE  /\ MayStart(r) \/ InFlight(r)
         /\ \A q \in Requests \ {r} :
              /\ pc'[q] = pc[q] /\ cmd'[q] = cmd[q] /\ snap'[q] = snap[q]
              /\ seq'[q] = seq[q] /\ fresh'[q] = fresh[q]
              /\ reply'[q] = reply[q]
<1> USE DEF Typed, TypeOK, Continue, Goto, Answer, Drop, InFlight
<1>1. CASE Start(r)
  BY <1>1 DEF Start, CreateSession, SubmitForbidden, Submit, MayStart
<1>2. CASE NewRow(r) \/ NewEvent(r) \/ NewSave(r)
  BY <1>2 DEF NewRow, NewEvent, NewSave
<1>3. CASE FindReceipt(r) \/ Check(r) \/ NextSequence(r)
  BY <1>3 DEF FindReceipt, Check, NextSequence
<1>4. CASE AppendEvent(r) \/ PutSnapshot(r) \/ MarkDeleted(r)
  BY <1>4 DEF AppendEvent, PutSnapshot, MarkDeleted
<1>5. CASE PutReceipt(r) \/ PutCommand(r) \/ Fail(r)
  BY <1>5 DEF PutReceipt, PutCommand, Fail
<1> QED  BY <1>1, <1>2, <1>3, <1>4, <1>5 DEF Step

\* While one client is served the others wait.
LEMMA OthersRest ==
  ASSUME Serial, Typed, Alone, NEW r \in Requests,
         Start(r) \/ Step(r) \/ Fail(r)
  PROVE  /\ \A q \in Requests \ {r} : ~InFlight(q) /\ ~InFlight(q)'
         /\ Alone'
<1>1. \A q \in Requests \ {r} : pc'[q] = pc[q]
  BY StepOfOne
<1>2. \A q \in Requests \ {r} : ~InFlight(q)
  BY StepOfOne DEF MayStart, Alone
<1> QED  BY <1>1, <1>2 DEF Alone, InFlight

\* So a step has to keep only what it touches itself.
LEMMA SerialFrame ==
  ASSUME Serial, Typed, SerialInv, NEW r \in Requests,
         Start(r) \/ Step(r) \/ Fail(r),
         (deleted \subseteq rows)',
         InFlight(r)' => (CopyOK(r) /\ CheckOK(r) /\ FreshOK(r))'
  PROVE  SerialInv'
<1>1. Alone' /\ \A q \in Requests \ {r} : ~InFlight(q)'
  BY OthersRest DEF SerialInv
<1>2. \A q \in Requests : ~InFlight(q)' => (CopyOK(q) /\ CheckOK(q) /\ FreshOK(q))'
  BY Resting DEF InFlight, CopyOK, CheckOK, Checked, FreshOK, Serving, Unsaved, Applied
<1> QED  BY <1>1, <1>2 DEF SerialInv

\* No request is in flight at the start.
LEMMA InitSerial == Init => SerialInv
BY SessionsAssumption
   DEF Init, SerialInv, Alone, InFlight, CopyOK, CheckOK, Checked, FreshOK,
       Serving, Unsaved, Applied

\* Every statement keeps the copy, the checks and the new row as claimed.
LEMMA NextSerial ==
  ASSUME Serial, Typed, Typed', SerialInv, [Next]_vars
  PROVE  SerialInv'
<1> USE DEF Unsaved, Applied
<1>a. /\ pc \in [Requests -> Steps] /\ cmd \in [Requests -> Command]
      /\ snap \in [Requests -> Snapshot] /\ seq \in [Requests -> Nat]
      /\ fresh \in [Requests -> Sessions \cup {Nothing}]
      /\ snapshot \in [Sessions -> Snapshot] /\ rows \subseteq Sessions
      /\ deleted \subseteq rows
  BY DEF Typed, TypeOK, SerialInv
<1>b. \A r \in Requests : TaskOK(r) /\ CopyOK(r) /\ CheckOK(r) /\ FreshOK(r)
  BY DEF Typed, SerialInv
<1>c. ASSUME NEW r \in Requests, Start(r) \/ Step(r) \/ Fail(r),
             (deleted \subseteq rows)',
             InFlight(r)' => (CopyOK(r) /\ CheckOK(r) /\ FreshOK(r))'
      PROVE  SerialInv'
  BY <1>c, SerialFrame
<1>1. ASSUME NEW r \in Requests, CreateSession(r) PROVE SerialInv'
  <2>1. (CopyOK(r) /\ CheckOK(r) /\ FreshOK(r))'
    BY <1>1, <1>a, <1>b DEF CreateSession, MayStart, Continue, Goto, store, TaskOK,
       CopyOK, CheckOK, Checked, FreshOK, Serving, NoCommand
  <2> QED  BY <1>1, <1>a, <1>c, <2>1 DEF Start, CreateSession, store
<1>2. ASSUME NEW r \in Requests, NewRow(r) PROVE SerialInv'
  <2>1. PICK s \in Sessions \ rows :
          /\ rows' = rows \cup {s}
          /\ snapshot' = [snapshot EXCEPT ![s] = NewSnapshot]
          /\ fresh' = [fresh EXCEPT ![r] = s]
    BY <1>2 DEF NewRow
  <2>2. /\ pc[r] = "new_row" /\ pc'[r] = "new_event" /\ cmd' = cmd
        /\ snap' = snap /\ deleted' = deleted /\ fresh'[r] = s
    BY <1>2, <1>a, <2>1 DEF NewRow, Goto
  <2>3. Serving(r)' => Serving(r) /\ cmd[r].session \in rows
    BY <1>b, <2>2 DEF TaskOK, Serving
  <2>4. Serving(r)' => Row(r)' = Row(r)
    BY <1>a, <2>1, <2>2, <2>3 DEF Row
  <2>5. CopyOK(r)' /\ CheckOK(r)'
    BY <1>b, <2>2, <2>3, <2>4 DEF CopyOK, CheckOK, Checked
  <2>6. snapshot'[s].state = "created" /\ snapshot'[s].depth = 0
    BY <1>a, <2>1 DEF NewSnapshot
  <2>7. FreshOK(r)'
    BY <1>a, <2>1, <2>2, <2>3, <2>6 DEF FreshOK
  <2> QED  BY <1>2, <1>a, <1>c, <2>1, <2>2, <2>5, <2>7 DEF Step
<1>3. ASSUME NEW r \in Requests, NewEvent(r) PROVE SerialInv'
  <2>1. (CopyOK(r) /\ CheckOK(r) /\ FreshOK(r))'
    BY <1>3, <1>a, <1>b DEF NewEvent, Continue, Goto, CopyOK, CheckOK, Checked,
       FreshOK, Serving, Row
  <2> QED  BY <1>3, <1>a, <1>c, <2>1 DEF Step, NewEvent
<1>4. ASSUME NEW r \in Requests, NewSave(r) PROVE SerialInv'
  <2>1. CASE cmd[r].kind = "fork"
    <3>1. /\ pc[r] = "new_save" /\ pc'[r] = "next_receipt" /\ cmd' = cmd
          /\ snap' = snap /\ deleted' = deleted
          /\ snapshot' = [snapshot EXCEPT ![fresh[r]] =
                            [NewSnapshot EXCEPT !.last = 1]]
      BY <1>4, <1>a, <2>1 DEF NewSave, Continue, Goto
    <3>2. Serving(r) /\ fresh[r] # cmd[r].session /\ cmd[r].session \in rows
      BY <1>b, <2>1, <3>1 DEF FreshOK, Serving, TaskOK
    <3>3. Row(r)' = Row(r) /\ Row(r) \in Snapshot
      BY <1>a, <3>1, <3>2 DEF Row
    <3>4. /\ Apply("fork", Row(r)).state = Row(r).state
          /\ Apply("fork", Row(r)).depth = Row(r).depth
      BY <3>3, ApplyFields DEF StateAfter
    <3>5. CopyOK(r)' /\ CheckOK(r)' /\ FreshOK(r)'
      BY <1>b, <2>1, <3>1, <3>2, <3>3, <3>4
         DEF CopyOK, CheckOK, Checked, FreshOK, Serving
    <3> QED  BY <1>4, <1>a, <1>c, <3>5 DEF Step, NewSave
  <2>2. CASE cmd[r].kind # "fork"
    <3>1. ~InFlight(r)'
      BY <1>4, <1>a, <2>2 DEF NewSave, Answer, Goto, InFlight
    <3> QED  BY <1>4, <1>a, <1>c, <3>1 DEF Step, NewSave
  <2> QED  BY <2>1, <2>2
<1>5. ASSUME NEW r \in Requests, NEW kind \in Kinds, NEW s \in Sessions,
             NEW key \in Keys, NEW expected \in Expectations \cup {Nothing},
             \/ SubmitForbidden(r, kind, s, key, expected)
             \/ Submit(r, kind, s, key, expected)
      PROVE SerialInv'
  <2>1. InFlight(r)' => (CopyOK(r) /\ CheckOK(r) /\ FreshOK(r))'
    BY <1>5, <1>a DEF SubmitForbidden, Submit, Answer, Goto, InFlight, CopyOK,
       CheckOK, Checked, FreshOK, Serving, Row, Envelope, store
  <2> QED  BY <1>5, <1>a, <1>c, <2>1 DEF Start, SubmitForbidden, Submit, store
<1>6. ASSUME NEW r \in Requests, FindReceipt(r) PROVE SerialInv'
  <2>1. InFlight(r)' => (CopyOK(r) /\ CheckOK(r) /\ FreshOK(r))'
    BY <1>6, <1>a, <1>b DEF FindReceipt, Continue, Answer, Goto, InFlight, CopyOK,
       CheckOK, Checked, FreshOK, Serving, Row, store
  <2> QED  BY <1>6, <1>a, <1>c, <2>1 DEF Step, FindReceipt, store
<1>7. ASSUME NEW r \in Requests, Check(r) PROVE SerialInv'
  <2>1. CASE InFlight(r)'
    <3>1. /\ pc[r] = "check" /\ cmd' = cmd /\ snap' = snap
          /\ UNCHANGED store /\ Refusal(r) = "none"
          /\ \/ pc'[r] = "next_receipt" /\ cmd[r].kind = "attach"
             \/ pc'[r] = "new_row" /\ cmd[r].kind = "fork"
             \/ pc'[r] = "next_sequence" /\ cmd[r].kind \in DOMAIN EventOf
      BY <1>7, <1>a, <2>1 DEF Check, Continue, Answer, Goto, InFlight
    <3>2. /\ cmd[r].session \notin deleted
          /\ cmd[r].expected \in {Nothing, snap[r].last}
          /\ snap[r].state = "archived" => cmd[r].kind \in {"attach", "resume"}
      BY <3>1 DEF Refusal
    <3>3. Serving(r) /\ Row(r)' = Row(r) /\ Row(r) \in Snapshot
      BY <1>a, <1>b, <3>1 DEF Serving, TaskOK, Row, store
    <3>4. /\ snap[r].state = Row(r).state /\ snap[r].depth = Row(r).depth
          /\ snap[r].last = Row(r).last
      BY <1>b, <3>1, <3>3 DEF CopyOK
    <3>5. cmd[r].kind = "attach" =>
            /\ Apply(cmd[r].kind, Row(r)).state = Row(r).state
            /\ Apply(cmd[r].kind, Row(r)).depth = Row(r).depth
      BY <3>3, ApplyFields DEF StateAfter
    <3>6. CopyOK(r)'
      BY <3>1, <3>3, <3>4, <3>5 DEF CopyOK, Serving
    <3>7. CheckOK(r)' /\ FreshOK(r)'
      BY <3>1, <3>2, <3>3, <3>4 DEF CheckOK, Checked, FreshOK, store
    <3> QED  BY <1>7, <1>a, <1>c, <3>6, <3>7 DEF Step, Check, store
  <2>2. CASE ~InFlight(r)'
    BY <1>7, <1>a, <1>c, <2>2 DEF Step, Check, store
  <2> QED  BY <2>1, <2>2
<1>8. ASSUME NEW r \in Requests, NextSequence(r) PROVE SerialInv'
  <2>1. (CopyOK(r) /\ CheckOK(r) /\ FreshOK(r))'
    BY <1>8, <1>a, <1>b DEF NextSequence, Goto, CopyOK, CheckOK, Checked,
       FreshOK, Serving, Row, store
  <2> QED  BY <1>8, <1>a, <1>c, <2>1 DEF Step, NextSequence, store
<1>9. ASSUME NEW r \in Requests, AppendEvent(r) PROVE SerialInv'
  <2>1. /\ cmd' = cmd /\ seq' = seq /\ snapshot' = snapshot /\ deleted' = deleted
        /\ pc[r] \in {"append_event", "append_receipt"}
        /\ pc'[r] = IF pc[r] = "append_event" THEN "put_snapshot" ELSE "put_receipt"
        /\ snap'[r].state = snap[r].state /\ snap'[r].depth = snap[r].depth
        /\ snap'[r].last = seq[r]
    BY <1>9, <1>a DEF AppendEvent, Goto, Snapshot
  <2>2. Row(r)' = Row(r)
    BY <2>1 DEF Row
  <2>3. CopyOK(r)'
    BY <1>b, <2>1, <2>2 DEF CopyOK, Serving
  <2>4. CheckOK(r)' /\ FreshOK(r)'
    BY <1>b, <2>1, <2>2 DEF CheckOK, Checked, FreshOK, Serving
  <2> QED  BY <1>9, <1>a, <1>c, <2>3, <2>4 DEF Step, AppendEvent
<1>10. ASSUME NEW r \in Requests, PutSnapshot(r) PROVE SerialInv'
  <2>1. /\ cmd' = cmd /\ seq' = seq /\ deleted' = deleted /\ pc[r] = "put_snapshot"
        /\ pc'[r] = IF cmd[r].kind = "delete" THEN "mark_deleted" ELSE "next_receipt"
        /\ snap'[r] = Apply(cmd[r].kind, snap[r])
        /\ snapshot' = [snapshot EXCEPT ![cmd[r].session] = snap[r]]
    BY <1>10, <1>a DEF PutSnapshot, Goto
  <2>2. Row(r)' = snap[r] /\ snap[r] \in Snapshot
    BY <1>a, <1>b, <2>1 DEF Row, TaskOK, Serving
  <2>3. snap'[r].last = Row(r)'.last
    BY <2>1, <2>2, ApplyFields
  <2>4. CopyOK(r)'
    BY <2>1, <2>2, <2>3 DEF CopyOK, Serving
  <2>5. snap[r].state = Row(r).state
    BY <1>b, <2>1 DEF CopyOK, Serving
  <2>6. CheckOK(r)' /\ FreshOK(r)'
    BY <1>b, <2>1, <2>2, <2>5 DEF CheckOK, Checked, FreshOK, Serving
  <2> QED  BY <1>10, <1>a, <1>c, <2>4, <2>6 DEF Step, PutSnapshot
<1>11. ASSUME NEW r \in Requests, MarkDeleted(r) PROVE SerialInv'
  <2>1. (CopyOK(r) /\ CheckOK(r) /\ FreshOK(r))'
    BY <1>11, <1>a, <1>b DEF MarkDeleted, Continue, Goto, CopyOK, CheckOK,
       Checked, FreshOK, Serving, Row
  <2>2. cmd[r].session \in rows
    BY <1>11, <1>b DEF MarkDeleted, TaskOK, Serving
  <2> QED  BY <1>11, <1>a, <1>c, <2>1, <2>2 DEF Step, MarkDeleted
<1>12. ASSUME NEW r \in Requests, PutReceipt(r) PROVE SerialInv'
  <2>1. (CopyOK(r) /\ CheckOK(r) /\ FreshOK(r))'
    BY <1>12, <1>a, <1>b DEF PutReceipt, Continue, Goto, CopyOK, CheckOK,
       Checked, FreshOK, Serving
  <2> QED  BY <1>12, <1>a, <1>c, <2>1 DEF Step, PutReceipt
<1>13. ASSUME NEW r \in Requests, PutCommand(r) PROVE SerialInv'
  BY <1>13, <1>a, <1>c DEF Step, PutCommand, Answer, Goto, InFlight
<1>14. ASSUME NEW r \in Requests, Fail(r) PROVE SerialInv'
  BY <1>14, <1>a, <1>c DEF Fail, Goto, InFlight, store
<1>15. CASE UNCHANGED vars
  BY <1>15 DEF vars, SerialInv, Alone, InFlight, CopyOK, CheckOK, Checked,
     FreshOK, Serving, Row
<1> QED
  BY <1>1, <1>2, <1>3, <1>4, <1>5, <1>6, <1>7, <1>8, <1>9, <1>10, <1>11,
     <1>12, <1>13, <1>14, <1>15 DEF Next, Start, Step

\* The invariant of clients that wait for one another.
LEMMA SpecSerial == ASSUME Serial PROVE Spec => []SerialInv
<1>1. Spec => []Typed
  BY InitTyped, NextTyped, PTL DEF Spec
<1>2. Typed /\ Typed' /\ SerialInv /\ [Next]_vars => SerialInv'
  BY NextSerial
<1> QED  BY <1>1, <1>2, InitSerial, PTL DEF Spec

\* The abstract state that a session's row stands for.
Life == [s \in Sessions |-> IF s \in rows THEN snapshot[s].state ELSE "none"]

\* A statement that writes one row moves at most that session.
LEMMA OneRowMoves ==
  ASSUME NEW s \in rows, rows \subseteq Sessions,
         snapshot \in [Sessions -> Snapshot], NEW sn, rows' = rows,
         snapshot' = [snapshot EXCEPT ![s] = sn]
  PROVE  Life' = [Life EXCEPT ![s] = sn.state]
BY DEF Life

\* Every statement of the service is one step of the lifecycle, or none.
LEMMA StepRefines ==
  ASSUME Typed, SerialInv, [Next]_vars
  PROVE  [Lifecycle!Next]_Lifecycle!vars
<1> USE DEF Unsaved, Applied
<1>a. /\ pc \in [Requests -> Steps] /\ cmd \in [Requests -> Command]
      /\ snap \in [Requests -> Snapshot]
      /\ fresh \in [Requests -> Sessions \cup {Nothing}]
      /\ snapshot \in [Sessions -> Snapshot] /\ rows \subseteq Sessions
      /\ deleted \subseteq rows
  BY DEF Typed, TypeOK, SerialInv
<1>b. \A r \in Requests : TaskOK(r) /\ CopyOK(r) /\ CheckOK(r) /\ FreshOK(r)
  BY DEF Typed, SerialInv
<1>s. ASSUME Life' = Life, deleted' = deleted
      PROVE  UNCHANGED Lifecycle!vars
  BY <1>s DEF Lifecycle!vars, Life
<1>m. ASSUME NEW s \in Sessions, NEW from, NEW to, s \notin deleted,
             Life[s] \in from, Life' = [Life EXCEPT ![s] = to],
             deleted' = deleted
      PROVE  Lifecycle!Move(s, from, to)
  BY <1>m DEF Lifecycle!Move, Life
<1>1. ASSUME NEW r \in Requests, NewRow(r) PROVE Lifecycle!Next
  <2>1. PICK s \in Sessions \ rows :
          /\ rows' = rows \cup {s}
          /\ snapshot' = [snapshot EXCEPT ![s] = NewSnapshot]
    BY <1>1 DEF NewRow
  <2>2. deleted' = deleted
    BY <1>1 DEF NewRow
  <2>3. Life[s] = "none" /\ Life' = [Life EXCEPT ![s] = "created"]
    BY <1>a, <2>1 DEF Life, NewSnapshot
  <2>4. Lifecycle!Create(s)
    BY <1>a, <1>m, <2>1, <2>2, <2>3 DEF Lifecycle!Create
  <2> QED  BY <2>4 DEF Lifecycle!Next
<1>2. ASSUME NEW r \in Requests, NewSave(r) PROVE UNCHANGED Lifecycle!vars
  <2>1. /\ fresh[r] \in rows /\ snapshot[fresh[r]].state = "created"
        /\ rows' = rows /\ deleted' = deleted
        /\ snapshot' = [snapshot EXCEPT ![fresh[r]] =
                          [NewSnapshot EXCEPT !.last = 1]]
    BY <1>2, <1>b DEF NewSave, FreshOK
  <2>2. Life' = Life
    BY <1>a, <2>1 DEF Life, NewSnapshot
  <2> QED  BY <1>s, <2>1, <2>2
<1>3. ASSUME NEW r \in Requests, PutSnapshot(r) PROVE UNCHANGED Lifecycle!vars
  <2>1. /\ cmd[r].session \in rows /\ snap[r].state = Row(r).state
        /\ rows' = rows /\ deleted' = deleted
        /\ snapshot' = [snapshot EXCEPT ![cmd[r].session] = snap[r]]
    BY <1>3, <1>b DEF PutSnapshot, TaskOK, CopyOK, Serving
  <2>2. Life' = Life
    BY <1>a, <2>1 DEF Life, Row
  <2> QED  BY <1>s, <2>1, <2>2
<1>4. ASSUME NEW r \in Requests, MarkDeleted(r) PROVE Lifecycle!Next
  <2> DEFINE s == cmd[r].session
  <2>1. /\ s \in rows /\ Row(r).state # "archived" /\ cmd[r].kind = "delete"
        /\ UNCHANGED <<rows, snapshot>> /\ deleted' = deleted \cup {s}
    BY <1>4, <1>b DEF MarkDeleted, TaskOK, CheckOK, Checked, Serving
  <2>2. Life' = Life /\ Life[s] = Row(r).state
    BY <1>a, <2>1 DEF Life, Row
  <2>3. Row(r).state \in SessionState
    BY <1>a, <2>1 DEF Row, Snapshot
  <2>4. Lifecycle!Delete(s)
    BY <2>1, <2>2, <2>3
       DEF Lifecycle!Delete, Lifecycle!Live, Life, SessionState
  <2> QED  BY <1>a, <2>1, <2>4 DEF Lifecycle!Next
<1>5. ASSUME NEW r \in Requests, PutReceipt(r) PROVE [Lifecycle!Next]_Lifecycle!vars
  <2> DEFINE kind == cmd[r].kind
  <2>0. PICK s \in rows : s = cmd[r].session
    BY <1>5, <1>b DEF PutReceipt, TaskOK, Serving
  <2>1. /\ s \in rows /\ pc[r] = "put_receipt" /\ UNCHANGED <<rows, deleted>>
        /\ snapshot' = [snapshot EXCEPT ![s] = snap[r]]
    BY <1>5, <2>0 DEF PutReceipt
  <2>2. Row(r) \in Snapshot /\ Row(r).state \in SessionState
    BY <1>a, <2>0 DEF Row, Snapshot
  <2>3. snap[r].state = IF kind \in DOMAIN StateAfter THEN StateAfter[kind]
                                                    ELSE Row(r).state
    BY <1>b, <2>1, <2>2, ApplyFields DEF CopyOK
  <2>4. Life' = [Life EXCEPT ![s] = snap[r].state] /\ Life[s] = Row(r).state
    BY <1>a, <2>0, <2>1, OneRowMoves DEF Life, Row
  <2>5. /\ Row(r).state = "archived" => kind \in {"attach", "resume"}
        /\ s \in deleted => kind = "delete"
    BY <1>b, <2>0, <2>1 DEF CheckOK, Checked, Serving
  <2>6. CASE kind \notin DOMAIN StateAfter
    <3>1. Life' = Life
      BY <2>3, <2>4, <2>6 DEF Life
    <3> QED  BY <1>s, <2>1, <3>1
  <2>7. CASE kind \in DOMAIN StateAfter
    <3>1. s \notin deleted /\ s \in Sessions
      BY <1>a, <2>1, <2>5, <2>7 DEF StateAfter
    <3>2. kind # "resume" => Life[s] \in Lifecycle!Live
      BY <2>2, <2>4, <2>5, <2>7 DEF Lifecycle!Live, SessionState, StateAfter
    <3>3. kind = "resume" => Life[s] \in Lifecycle!Live \cup {"archived"}
      BY <2>2, <2>4 DEF Lifecycle!Live, SessionState
    <3>4. \/ kind \in {"submit_message", "retry"} /\ snap[r].state = "idle"
          \/ kind = "resume" /\ snap[r].state = "idle"
          \/ kind \in {"cancel", "interrupt"} /\ snap[r].state = "cancelled"
          \/ kind = "archive" /\ snap[r].state = "archived"
      BY <2>3, <2>7 DEF StateAfter
    <3>5. \/ Lifecycle!Message(s) \/ Lifecycle!Resume(s)
          \/ Lifecycle!Cancel(s) \/ Lifecycle!Archive(s)
      BY <1>m, <2>1, <2>4, <3>1, <3>2, <3>3, <3>4
         DEF Lifecycle!Message, Lifecycle!Resume, Lifecycle!Cancel,
             Lifecycle!Archive
    <3> QED  BY <3>1, <3>5 DEF Lifecycle!Next
  <2> QED  BY <2>6, <2>7
<1>6. ASSUME UNCHANGED <<rows, snapshot, deleted>>
      PROVE  UNCHANGED Lifecycle!vars
  BY <1>6 DEF Lifecycle!vars
<1>7. ASSUME NEW r \in Requests, Start(r) \/ Fail(r) PROVE UNCHANGED store
  BY <1>7 DEF Start, Fail, CreateSession, SubmitForbidden, Submit
<1>8. ASSUME NEW r \in Requests,
             \/ NewEvent(r) \/ FindReceipt(r) \/ Check(r) \/ NextSequence(r)
             \/ AppendEvent(r) \/ PutCommand(r)
      PROVE  UNCHANGED <<rows, snapshot, deleted>>
  BY <1>8 DEF NewEvent, FindReceipt, Check, NextSequence, AppendEvent,
              PutCommand, store
<1>9. CASE UNCHANGED vars
  BY <1>6, <1>9 DEF vars
<1> QED
  BY <1>1, <1>2, <1>3, <1>4, <1>5, <1>6, <1>7, <1>8, <1>9
     DEF Next, Step, store

\* Clients that wait for one another see the lifecycle of SessionLifecycle:
\* archiving is undone only by resume, deleting by nothing, and no command
\* moves a session in any other way, wherever tasks die.
THEOREM StatementsImplementLifecycle ==
  ASSUME Serial PROVE Spec => LifecycleSpec
<1>1. Init => Lifecycle!Init
  BY SessionsAssumption
     DEF Init, Lifecycle!Init, NewSnapshot
<1>2. Spec => []Typed
  BY InitTyped, NextTyped, PTL DEF Spec
<1>3. Typed /\ SerialInv /\ [Next]_vars => [Lifecycle!Next]_Lifecycle!vars
  BY StepRefines
<1> QED  BY <1>1, <1>2, <1>3, SpecSerial, PTL
         DEF Spec, LifecycleSpec, Lifecycle!Spec

\* A deleted session takes no further event but the ones of the command that
\* deletes it.
THEOREM DeletedStaysDeleted == ASSUME Serial PROVE Spec => DeletedLogFrozen
<1> DEFINE Frozen == \A e \in events' \ events :
                       e.session \in deleted => cmd[e.by].kind = "delete"
<1>1. ASSUME Typed, SerialInv, [Next]_vars PROVE [Frozen]_vars
  <2>1. ASSUME NEW r \in Requests, NewEvent(r) PROVE Frozen
    BY <1>1, <2>1 DEF NewEvent, Inserted, SerialInv, FreshOK
  <2>2. ASSUME NEW r \in Requests, AppendEvent(r) PROVE Frozen
    <3>1. cmd[r].session \in deleted => cmd[r].kind = "delete"
      BY <1>1, <2>2 DEF AppendEvent, SerialInv, CheckOK, Checked, Serving
    <3> QED  BY <2>2, <3>1 DEF AppendEvent, Inserted
  <2>3. ASSUME NEW r \in Requests, Start(r) \/ Fail(r) PROVE events' = events
    BY <2>3 DEF Start, Fail, CreateSession, SubmitForbidden, Submit, store
  <2>4. ASSUME NEW r \in Requests,
               \/ NewRow(r) \/ NewSave(r) \/ FindReceipt(r) \/ Check(r)
               \/ NextSequence(r) \/ PutSnapshot(r) \/ MarkDeleted(r)
               \/ PutReceipt(r) \/ PutCommand(r)
        PROVE  events' = events
    BY <2>4 DEF NewRow, NewSave, FindReceipt, Check, NextSequence, PutSnapshot,
       MarkDeleted, PutReceipt, PutCommand, store
  <2> QED  BY <1>1, <2>1, <2>2, <2>3, <2>4 DEF Next, Step
<1>2. Spec => []Typed
  BY InitTyped, NextTyped, PTL DEF Spec
<1>3. Typed /\ SerialInv /\ [Next]_vars => [Frozen]_vars
  BY <1>1
<1> QED  BY <1>2, <1>3, SpecSerial, PTL DEF Spec, DeletedLogFrozen
-----------------------------------------------------------------------------
(* The log of clients that wait for one another: a sequence is minted past *)
(* everything stored, so that an insert replaces nothing.                  *)

MintOK(r) ==
  /\ pc[r] \in {"append_event", "append_receipt"} =>
       \A m \in Sequences(cmd[r].session) : m < seq[r]
  /\ pc[r] \in {"put_snapshot", "put_receipt"} =>
       \A m \in Sequences(cmd[r].session) : m <= seq[r]
  /\ pc[r] = "new_event" => Sequences(fresh[r]) = {}
  /\ pc[r] = "new_save" => Sequences(fresh[r]) = {1}

MintInv == \A r \in Requests : MintOK(r)

\* What the two kinds of insert store.
Stored(r) ==
  IF pc[r] = "new_event"
  THEN [session |-> fresh[r], sequence |-> 1, kind |-> "session_created",
        by |-> r]
  ELSE [session |-> cmd[r].session, sequence |-> seq[r],
        kind |-> IF pc[r] = "append_event" THEN EventOf[cmd[r].kind]
                                           ELSE "command_accepted",
        by |-> r]

\* A statement that inserts adds one event and replaces none.
LEMMA LogGrows ==
  ASSUME Typed, Typed', MintInv, NEW r \in Requests,
         NewEvent(r) \/ AppendEvent(r)
  PROVE  /\ events' = events \cup {Stored(r)}
         /\ Stored(r) \in Event /\ Stored(r) \notin events
         /\ \A s : Sequences(s)' =
              IF s = Stored(r).session
              THEN Sequences(s) \cup {Stored(r).sequence} ELSE Sequences(s)
<1>1. events' = Inserted(Stored(r))
  BY DEF NewEvent, AppendEvent, Stored
<1>2. Stored(r) \in Event /\ events \subseteq Event
  BY <1>1 DEF Typed, TypeOK, Inserted
<1>3. Stored(r).sequence \notin Sequences(Stored(r).session)
  <2>1. CASE NewEvent(r)
    BY <2>1 DEF NewEvent, Stored, MintInv, MintOK
  <2>2. CASE AppendEvent(r)
    <3>1. /\ Stored(r).sequence = seq[r]
          /\ Stored(r).session = cmd[r].session
      BY <2>2 DEF AppendEvent, Stored
    <3>2. \A m \in Sequences(cmd[r].session) : m < seq[r]
      BY <2>2 DEF AppendEvent, MintInv, MintOK
    <3>3. seq[r] \in Nat
      BY DEF Typed, TypeOK
    <3> QED  BY <3>1, <3>2, <3>3
  <2> QED  BY <2>1, <2>2
<1>4. \A d \in events : \/ d.session # Stored(r).session
                        \/ d.sequence # Stored(r).sequence
  BY <1>3 DEF Sequences
<1>5. events' = events \cup {Stored(r)} /\ Stored(r) \notin events
  BY <1>1, <1>4 DEF Inserted
<1> QED  BY <1>2, <1>5 DEF Sequences

\* The other statements leave the log alone.
LEMMA LogRests ==
  ASSUME NEW r \in Requests, Start(r) \/ Step(r) \/ Fail(r),
         ~NewEvent(r), ~AppendEvent(r)
  PROVE  events' = events /\ \A s : Sequences(s)' = Sequences(s)
<1>1. CASE Start(r) \/ Fail(r)
  BY <1>1 DEF Start, Fail, CreateSession, SubmitForbidden, Submit, store, Sequences
<1>2. CASE Step(r)
  BY <1>2 DEF Step, NewRow, NewSave, FindReceipt, Check, NextSequence,
     PutSnapshot, MarkDeleted, PutReceipt, PutCommand, store, Sequences
<1> QED  BY <1>1, <1>2

\* Nothing is minted at the start.
LEMMA InitMint == Init => MintInv
BY DEF Init, MintInv, MintOK

\* Every statement keeps what the tasks know of the end of the log.
LEMMA NextMint ==
  ASSUME Serial, IInv, Typed', SerialInv, MintInv, [Next]_vars
  PROVE  MintInv'
<1>a. /\ pc \in [Requests -> Steps] /\ cmd \in [Requests -> Command]
      /\ seq \in [Requests -> Nat] /\ events \subseteq Event
      /\ fresh \in [Requests -> Sessions \cup {Nothing}]
  BY DEF IInv, Typed, TypeOK
<1>f. ASSUME NEW r \in Requests, Start(r) \/ Step(r) \/ Fail(r), MintOK(r)'
      PROVE  MintInv'
  <2>1. \A q \in Requests \ {r} : ~InFlight(q)'
    BY <1>f, OthersRest DEF IInv, SerialInv
  <2>2. ASSUME NEW q \in Requests \ {r} PROVE MintOK(q)'
    BY <2>1 DEF InFlight, MintOK
  <2> QED  BY <1>f, <2>2 DEF MintInv
<1>1. ASSUME NEW r \in Requests, NewRow(r) PROVE MintInv'
  <2>1. PICK s \in Sessions \ rows : fresh' = [fresh EXCEPT ![r] = s]
    BY <1>1 DEF NewRow
  <2>2. Sequences(s) = {}
    BY <2>1 DEF IInv, EventsHaveSession, Sequences
  <2>3. Sequences(s)' = Sequences(s)
    BY <1>1 DEF NewRow, Sequences
  <2>4. pc'[r] = "new_event" /\ fresh'[r] = s
    BY <1>1, <1>a, <2>1 DEF NewRow, Goto
  <2>5. Sequences(fresh[r])' = Sequences(s)'
    BY <2>4 DEF Sequences
  <2> QED  BY <1>1, <1>f, <2>2, <2>3, <2>4, <2>5 DEF Step, MintOK
<1>2. ASSUME NEW r \in Requests, NewEvent(r) PROVE MintInv'
  <2>1. Sequences(fresh[r]) = {}
    BY <1>2 DEF NewEvent, MintInv, MintOK
  <2>2. pc'[r] = "new_save" /\ fresh' = fresh
    BY <1>2, <1>a DEF NewEvent, Continue, Goto
  <2>3. Stored(r).session = fresh[r] /\ Stored(r).sequence = 1
    BY <1>2 DEF NewEvent, Stored
  <2>4. Sequences(fresh[r])' = {1}
    <3>1. \A s : Sequences(s)' = IF s = fresh[r] THEN Sequences(s) \cup {1}
                                                 ELSE Sequences(s)
      BY <1>2, <2>3, LogGrows DEF IInv
    <3>2. PICK s : s = fresh[r]
      OBVIOUS
    <3>3. Sequences(fresh[r])' = Sequences(s)'
      BY <2>2, <3>2 DEF Sequences
    <3> QED  BY <2>1, <3>1, <3>2, <3>3
  <2> QED  BY <1>2, <1>f, <2>2, <2>4 DEF Step, MintOK
<1>3. ASSUME NEW r \in Requests, NextSequence(r) PROVE MintInv'
  <2>1. PICK m \in Sequences(cmd[r].session) \cup {0} :
          /\ IsMaxSequence(m, cmd[r].session)
          /\ seq' = [seq EXCEPT ![r] = m + 1]
    BY <1>3 DEF NextSequence
  <2>2. cmd' = cmd /\ events' = events
    BY <1>3 DEF NextSequence, store
  <2>3. Sequences(cmd[r].session) \subseteq Nat /\ m \in Nat
    BY <1>a, <2>1 DEF Sequences, Event
  <2>4. \A k \in Sequences(cmd[r].session)' : k < seq'[r]
    <3>1. Sequences(cmd[r].session)' = Sequences(cmd[r].session)
      BY <2>2 DEF Sequences
    <3>2. \A k \in Sequences(cmd[r].session) : k <= m
      BY <2>1 DEF IsMaxSequence
    <3>3. seq'[r] = m + 1
      BY <1>a, <2>1
    <3> QED  BY <2>3, <3>1, <3>2, <3>3
  <2>5. pc'[r] \in {"append_event", "append_receipt"}
    BY <1>3, <1>a DEF NextSequence, Goto
  <2>6. MintOK(r)'
    BY <2>4, <2>5 DEF MintOK
  <2> QED  BY <1>3, <1>f, <2>6 DEF Step
<1>4. ASSUME NEW r \in Requests, AppendEvent(r) PROVE MintInv'
  <2>1. /\ pc'[r] \in {"put_snapshot", "put_receipt"} /\ cmd' = cmd /\ seq' = seq
        /\ Stored(r).session = cmd[r].session /\ Stored(r).sequence = seq[r]
    BY <1>4, <1>a DEF AppendEvent, Goto, Stored
  <2>2. \A m \in Sequences(cmd[r].session) : m < seq[r]
    BY <1>4 DEF AppendEvent, MintInv, MintOK
  <2>3. Sequences(cmd[r].session)' = Sequences(cmd[r].session) \cup {seq[r]}
    <3>1. \A s : Sequences(s)' = IF s = cmd[r].session
                                 THEN Sequences(s) \cup {seq[r]} ELSE Sequences(s)
      BY <1>4, <2>1, LogGrows DEF IInv
    <3>2. PICK s : s = cmd[r].session
      OBVIOUS
    <3>3. Sequences(cmd[r].session)' = Sequences(s)'
      BY <2>1, <3>2 DEF Sequences
    <3> QED  BY <3>1, <3>2, <3>3
  <2>4. Sequences(cmd[r].session) \subseteq Nat /\ seq[r] \in Nat
    BY <1>a DEF Sequences, Event
  <2>5. MintOK(r)'
    BY <2>1, <2>2, <2>3, <2>4 DEF MintOK
  <2> QED  BY <1>4, <1>f, <2>5 DEF Step
<1>5. ASSUME NEW r \in Requests, Start(r) \/ Fail(r) PROVE MintInv'
  <2>1. MintOK(r)'
    BY <1>5, <1>a DEF Start, Fail, CreateSession, SubmitForbidden, Submit,
       Continue, Answer, Goto, MintOK, MayStart
  <2> QED  BY <1>5, <1>f, <2>1
<1>6. ASSUME NEW r \in Requests,
             \/ NewSave(r) \/ FindReceipt(r) \/ Check(r) \/ PutSnapshot(r)
             \/ MarkDeleted(r) \/ PutReceipt(r) \/ PutCommand(r)
      PROVE  MintInv'
  <2>1. MintOK(r)'
    BY <1>6, <1>a DEF NewSave, FindReceipt, Check, PutSnapshot, MarkDeleted,
       PutReceipt, PutCommand, Continue, Answer, Goto, MintOK
  <2> QED  BY <1>6, <1>f, <2>1 DEF Step
<1>7. CASE UNCHANGED vars
  BY <1>7 DEF vars, MintInv, MintOK, Sequences
<1> QED  BY <1>1, <1>2, <1>3, <1>4, <1>5, <1>6, <1>7 DEF Next, Step

\* A minted sequence is past the end of its log.
LEMMA SpecMint == ASSUME Serial PROVE Spec => []MintInv
<1>1. IInv /\ IInv' /\ SerialInv /\ MintInv /\ [Next]_vars => MintInv'
  BY NextMint DEF IInv
<1> QED  BY <1>1, InitMint, SpecIInv, SpecSerial, PTL DEF Spec

-----------------------------------------------------------------------------
(* How far a row's cursor lags behind its log: by one event for every task *)
(* that died, and by one for a task between its insert and its save.       *)

Dead == {r \in Requests : pc[r] = "dead"}

AheadOf(r, s) ==
  \/ pc[r] \in {"put_snapshot", "put_receipt"} /\ cmd[r].session = s
  \/ pc[r] = "new_save" /\ fresh[r] = s

Behind(s) == Dead \cup {r \in Requests : AheadOf(r, s)}

Lag(s) == \A m \in Sequences(s) : m <= snapshot[s].last + Cardinality(Behind(s))

LagInv == \A s \in rows : Lag(s)

\* Sets of requests are counted by naturals, and a larger set by a larger one.
LEMMA Counting ==
  ASSUME NEW S \in SUBSET Requests, NEW T \in SUBSET Requests
  PROVE  /\ Cardinality(S) \in Nat
         /\ S \subseteq T => Cardinality(S) <= Cardinality(T)
         /\ \A r \in Requests \ S : Cardinality(S \cup {r}) = Cardinality(S) + 1
<1>1. IsFiniteSet(S) /\ IsFiniteSet(T)
  BY RequestsAssumption, FS_Subset
<1> QED  BY <1>1, FS_CardinalityType, FS_Subset, FS_AddElement

\* A session whose row and log stay as they are keeps its bound while no task
\* leaves the count.
LEMMA LagKept ==
  ASSUME Typed, Typed', NEW s \in rows, Lag(s), Sequences(s)' = Sequences(s),
         snapshot'[s].last = snapshot[s].last, Behind(s) \subseteq Behind(s)'
  PROVE  Lag(s)'
<1>1. Behind(s) \subseteq Requests /\ Behind(s)' \subseteq Requests
  BY DEF Behind, Dead
<1>2. /\ Cardinality(Behind(s)) \in Nat /\ Cardinality(Behind(s)') \in Nat
      /\ Cardinality(Behind(s)) <= Cardinality(Behind(s)')
  BY <1>1, Counting
<1>3. Sequences(s) \subseteq Nat /\ snapshot[s].last \in Nat
  BY DEF Typed, TypeOK, Sequences, Event, Snapshot
<1> QED  BY <1>2, <1>3 DEF Lag

\* Only the task that moves enters or leaves the count.
LEMMA BehindKept ==
  ASSUME Typed, NEW r \in Requests, Start(r) \/ Step(r) \/ Fail(r),
         NEW s, AheadOf(r, s) => (AheadOf(r, s) \/ pc[r] = "dead")'
  PROVE  Behind(s) \subseteq Behind(s)'
<1>1. pc[r] # "dead"
  BY StepOfOne DEF MayStart, InFlight
<1>2. \A q \in Requests \ {r} :
        pc'[q] = pc[q] /\ cmd'[q] = cmd[q] /\ fresh'[q] = fresh[q]
  BY StepOfOne
<1> QED  BY <1>1, <1>2 DEF Behind, Dead, AheadOf

\* The first sessions have their one event behind their cursor.
LEMMA InitLag == ASSUME Init PROVE LagInv
<1>1. ASSUME NEW s \in rows PROVE Lag(s)
  <2>1. s \in Existing /\ s \in Sessions
    BY SessionsAssumption DEF Init
  <2>2. snapshot[s].last = 1 /\ Sequences(s) \subseteq {1}
    BY <2>1 DEF Init, NewSnapshot, Sequences
  <2>3. Cardinality(Behind(s)) \in Nat
    BY Counting DEF Behind, Dead
  <2> QED  BY <2>2, <2>3 DEF Lag
<1> QED  BY <1>1 DEF LagInv

\* Every statement keeps the bound: an insert adds one event and one task to
\* the count, a save takes both away, a death leaves them where they are.
LEMMA NextLag ==
  ASSUME Serial, IInv, Typed', SerialInv, MintInv, MintInv', LagInv, [Next]_vars
  PROVE  LagInv'
<1>a. /\ pc \in [Requests -> Steps] /\ cmd \in [Requests -> Command]
      /\ seq \in [Requests -> Nat] /\ snap \in [Requests -> Snapshot]
      /\ snapshot \in [Sessions -> Snapshot] /\ rows \subseteq Sessions
      /\ fresh \in [Requests -> Sessions \cup {Nothing}]
      /\ \A s : Sequences(s) \subseteq Nat \ {0}
  BY DEF IInv, Typed, TypeOK, Sequences, Event
<1>b. \A r \in Requests : TaskOK(r) /\ TaskLogOK(r) /\ CopyOK(r) /\ MintOK(r)
  BY DEF IInv, Typed, SerialInv, MintInv
<1>c. \A s : Cardinality(Behind(s)) \in Nat /\ Cardinality(Behind(s)') \in Nat
  BY Counting DEF Behind, Dead
\* The statements that touch neither a log nor a row.
<1>q. ASSUME NEW r \in Requests, Start(r) \/ Step(r) \/ Fail(r),
             ~NewEvent(r), ~AppendEvent(r),
             UNCHANGED <<rows, snapshot>>,
             \A s : AheadOf(r, s) => (AheadOf(r, s) \/ pc[r] = "dead")'
      PROVE  LagInv'
  BY <1>q, LagKept, BehindKept, LogRests DEF IInv, LagInv
<1>1. ASSUME NEW r \in Requests, NewRow(r) PROVE LagInv'
  <2>1. PICK s \in Sessions \ rows :
          /\ rows' = rows \cup {s}
          /\ snapshot' = [snapshot EXCEPT ![s] = NewSnapshot]
    BY <1>1 DEF NewRow
  <2>2. \A t : Sequences(t)' = Sequences(t)
    BY <1>1 DEF NewRow, Sequences
  <2>3. Lag(s)'
    <3>1. Sequences(s) = {}
      BY <2>1 DEF IInv, EventsHaveSession, Sequences
    <3> QED  BY <2>2, <3>1 DEF Lag
  <2>4. ASSUME NEW t \in rows PROVE Lag(t)'
    <3>1. snapshot'[t].last = snapshot[t].last
      BY <1>a, <2>1
    <3>2. Behind(t) \subseteq Behind(t)'
      BY <1>1, BehindKept DEF IInv, Step, NewRow, AheadOf
    <3> QED  BY <2>2, <3>1, <3>2, LagKept DEF IInv, LagInv
  <2> QED  BY <2>1, <2>3, <2>4 DEF LagInv
<1>2. ASSUME NEW r \in Requests, NewEvent(r) \/ AppendEvent(r) PROVE LagInv'
  <2> DEFINE e == Stored(r)
  <2>1. \A t : Sequences(t)' = IF t = e.session THEN Sequences(t) \cup {e.sequence}
                                                ELSE Sequences(t)
    BY <1>2, LogGrows DEF IInv
  <2>2. UNCHANGED <<rows, snapshot, cmd, fresh>>
    BY <1>2 DEF NewEvent, AppendEvent, Continue
  <2>3. \A t : ~AheadOf(r, t)
    BY <1>2 DEF NewEvent, AppendEvent, AheadOf
  <2>4. \A t : Behind(t) \subseteq Behind(t)'
    BY <1>2, <2>3, BehindKept DEF IInv, Step
  <2>5. ASSUME NEW t \in rows, t # e.session PROVE Lag(t)'
    BY <2>1, <2>2, <2>4, <2>5, LagKept DEF IInv, LagInv
  <2>6. ASSUME NEW t \in rows, t = e.session PROVE Lag(t)'
    <3>1. AheadOf(r, t)'
      BY <1>2, <1>a, <2>2, <2>6 DEF NewEvent, AppendEvent, Continue, Goto,
         AheadOf, Stored
    <3>2. r \notin Behind(t) /\ Behind(t) \cup {r} \subseteq Behind(t)'
      BY <1>2, <2>3, <2>4, <3>1 DEF Behind, Dead, NewEvent, AppendEvent
    <3>3. Cardinality(Behind(t)) + 1 <= Cardinality(Behind(t)')
      <4>1. /\ Behind(t) \in SUBSET Requests /\ Behind(t)' \in SUBSET Requests
            /\ Behind(t) \cup {r} \in SUBSET Requests
        BY DEF Behind, Dead
      <4>2. Cardinality(Behind(t) \cup {r}) = Cardinality(Behind(t)) + 1
        BY <3>2, <4>1, Counting
      <4>3. Cardinality(Behind(t) \cup {r}) <= Cardinality(Behind(t)')
        BY <3>2, <4>1, Counting
      <4> QED  BY <4>2, <4>3
    <3>4. e.sequence \in Nat \ {0} /\ snapshot[t].last \in Nat
      BY <1>2, <1>a, LogGrows DEF IInv, Event, Snapshot
    <3>5. e.sequence - 1 \in Sequences(t) \cup {0}
      <4>1. CASE NewEvent(r)
        BY <4>1 DEF NewEvent, Stored
      <4>2. CASE AppendEvent(r)
        <5>1. e.sequence = seq[r] /\ t = cmd[r].session
          BY <2>6, <4>2 DEF AppendEvent, Stored
        <5>2. \A k \in 1 .. seq[r] - 1 : k \in Sequences(t)
          BY <1>b, <4>2, <5>1 DEF AppendEvent, TaskLogOK
        <5> QED  BY <3>4, <5>1, <5>2
      <4> QED  BY <1>2, <4>1, <4>2
    <3>6. \A m \in Sequences(t) : m <= snapshot[t].last + Cardinality(Behind(t))
      BY DEF LagInv, Lag
    <3>7. ASSUME NEW m \in Sequences(t)'
          PROVE  m <= snapshot'[t].last + Cardinality(Behind(t)')
      <4>1. m \in Sequences(t) \/ m = e.sequence
        BY <2>1, <3>7
      <4>2. CASE m \in Sequences(t)
        BY <1>a, <1>c, <2>2, <3>3, <3>4, <3>6, <4>2
      <4>3. CASE m = e.sequence /\ e.sequence - 1 \in Sequences(t)
        BY <1>c, <2>2, <3>3, <3>4, <3>6, <4>3
      <4>4. CASE m = e.sequence /\ e.sequence - 1 = 0
        BY <1>c, <2>2, <3>3, <3>4, <4>4
      <4> QED  BY <3>5, <4>1, <4>2, <4>3, <4>4
    <3> QED  BY <3>7 DEF Lag
  <2> QED  BY <2>2, <2>5, <2>6 DEF LagInv
<1>3. ASSUME NEW r \in Requests, NEW s \in rows, NEW sn \in Snapshot, Step(r),
             rows' = rows, events' = events,
             snapshot' = [snapshot EXCEPT ![s] = sn],
             \A m \in Sequences(s) : m <= sn.last,
             \A t : t # s => ~AheadOf(r, t)
      PROVE  LagInv'
  <2>1. \A t : Sequences(t)' = Sequences(t)
    BY <1>3 DEF Sequences
  <2>2. ASSUME NEW t \in rows, t # s PROVE Lag(t)'
    <3>1. Behind(t) \subseteq Behind(t)'
      BY <1>3, <2>2, BehindKept DEF IInv
    <3>2. snapshot'[t].last = snapshot[t].last
      BY <1>a, <1>3, <2>2
    <3> QED  BY <2>1, <3>1, <3>2, LagKept DEF IInv, LagInv
  <2>3. Lag(s)'
    <3>1. snapshot'[s].last = sn.last /\ sn.last \in Nat
      BY <1>a, <1>3 DEF Snapshot
    <3> QED  BY <1>3, <1>a, <1>c, <2>1, <3>1 DEF Lag
  <2> QED  BY <1>3, <2>2, <2>3 DEF LagInv
<1>4. ASSUME NEW r \in Requests, NewSave(r) PROVE LagInv'
  <2> DEFINE sn == [NewSnapshot EXCEPT !.last = 1]
  <2>1. sn \in Snapshot /\ sn.last = 1
    BY DEF Snapshot, NewSnapshot, SessionState
  <2>2. fresh[r] \in rows /\ Sequences(fresh[r]) = {1}
    BY <1>4, <1>b DEF NewSave, TaskOK, MintOK
  <2>3. \A t : t # fresh[r] => ~AheadOf(r, t)
    BY <1>4 DEF NewSave, AheadOf
  <2>4. \A m \in Sequences(fresh[r]) : m <= sn.last
    BY <2>1, <2>2
  <2>5. /\ Step(r) /\ rows' = rows /\ events' = events
        /\ snapshot' = [snapshot EXCEPT ![fresh[r]] = sn]
    BY <1>4 DEF NewSave, Step
  <2> HIDE DEF sn
  <2> QED  BY <1>3, <2>1, <2>2, <2>3, <2>4, <2>5
<1>5. ASSUME NEW r \in Requests, PutSnapshot(r) \/ PutReceipt(r) PROVE LagInv'
  <2>1. cmd[r].session \in rows /\ snap[r] \in Snapshot
    BY <1>5, <1>a, <1>b DEF PutSnapshot, PutReceipt, TaskOK, Serving
  <2>2. \A m \in Sequences(cmd[r].session) : m <= snap[r].last
    BY <1>5, <1>b DEF PutSnapshot, PutReceipt, CopyOK, MintOK
  <2>3. \A t : t # cmd[r].session => ~AheadOf(r, t)
    BY <1>5 DEF PutSnapshot, PutReceipt, AheadOf
  <2> QED  BY <1>3, <1>5, <2>1, <2>2, <2>3 DEF PutSnapshot, PutReceipt, Step
<1>6. ASSUME NEW r \in Requests, Start(r) PROVE LagInv'
  BY <1>6, <1>q DEF Start, CreateSession, SubmitForbidden, Submit, MayStart,
     AheadOf, NewEvent, AppendEvent, store
<1>7. ASSUME NEW r \in Requests,
             \/ FindReceipt(r) \/ Check(r) \/ NextSequence(r)
             \/ MarkDeleted(r) \/ PutCommand(r)
      PROVE  LagInv'
  <2>1. /\ UNCHANGED <<rows, snapshot>> /\ ~NewEvent(r) /\ ~AppendEvent(r)
        /\ \A t : ~AheadOf(r, t)
    BY <1>7 DEF FindReceipt, Check, NextSequence, MarkDeleted, PutCommand,
       AheadOf, NewEvent, AppendEvent, store
  <2> QED  BY <1>7, <1>q, <2>1 DEF Step
<1>8. ASSUME NEW r \in Requests, Fail(r) PROVE LagInv'
  <2>1. pc'[r] = "dead" /\ UNCHANGED <<rows, snapshot, events>>
    BY <1>8, <1>a DEF Fail, Goto, store
  <2>2. ASSUME NEW t \in rows PROVE Lag(t)'
    <3>1. Behind(t) \subseteq Behind(t)'
      BY <1>8, <2>1, BehindKept DEF IInv
    <3> QED  BY <2>1, <3>1, LagKept DEF IInv, LagInv, Sequences
  <2> QED  BY <2>1, <2>2 DEF LagInv
<1>9. CASE UNCHANGED vars
  BY <1>9 DEF vars, LagInv, Lag, Behind, Dead, AheadOf, Sequences
<1> QED
  BY <1>1, <1>2, <1>4, <1>5, <1>6, <1>7, <1>8, <1>9 DEF Next, Step

\* The bound on the lag holds in every reachable state.
LEMMA SpecLag == ASSUME Serial PROVE Spec => []LagInv
<1>1. IInv /\ IInv' /\ SerialInv /\ MintInv /\ MintInv' /\ LagInv /\ [Next]_vars
        => LagInv'
  BY NextLag DEF IInv
<1> QED  BY <1>1, InitLag, SpecIInv, SpecSerial, SpecMint, PTL DEF Spec

\* The cursor of a row runs behind its log by no more events than tasks died
\* or are still under way.
THEOREM CursorLagsByDeaths == ASSUME Serial PROVE Spec => []CursorLagBounded
<1>1. ASSUME Typed, LagInv PROVE CursorLagBounded
  <2> DEFINE busy == {r \in Requests : pc[r] = "dead" \/ InFlight(r)}
  <2>1. ASSUME NEW s \in rows, NEW m \in Sequences(s)
        PROVE  m <= snapshot[s].last + Cardinality(busy)
    <3>1. Behind(s) \subseteq busy /\ busy \subseteq Requests
      BY DEF Behind, Dead, AheadOf, InFlight
    <3>2. /\ Cardinality(Behind(s)) <= Cardinality(busy)
          /\ Cardinality(Behind(s)) \in Nat /\ Cardinality(busy) \in Nat
      BY <3>1, Counting
    <3>3. m \in Nat /\ snapshot[s].last \in Nat
      BY <1>1 DEF Typed, TypeOK, Sequences, Event, Snapshot
    <3>4. m <= snapshot[s].last + Cardinality(Behind(s))
      BY <1>1 DEF LagInv, Lag
    <3> HIDE DEF busy
    <3> QED  BY <3>2, <3>3, <3>4
  <2> QED  BY <2>1 DEF CursorLagBounded
<1>2. IInv /\ LagInv => CursorLagBounded
  BY <1>1 DEF IInv
<1> QED  BY <1>2, SpecIInv, SpecLag, PTL

-----------------------------------------------------------------------------
(* What a request leaves in the log: nothing before its own event, then    *)
(* that event at the end of the log, then the receipt directly after it.   *)

Logged(e) == e.kind # "session_created"
IsReceipt(e) == e.kind = "command_accepted"

Effect(r, d) ==
  d.session = cmd[r].session /\ d.by = r /\ d.kind = EventOf[cmd[r].kind]

TraceOK(r) ==
  /\ pc[r] \in {"put_snapshot", "mark_deleted", "next_receipt"}
     /\ cmd[r].kind \in DOMAIN EventOf =>
       \E d \in events : /\ Effect(r, d)
                         /\ \A m \in Sequences(cmd[r].session) : m <= d.sequence
  /\ pc[r] = "append_receipt" /\ cmd[r].kind \in DOMAIN EventOf =>
       \E d \in events : Effect(r, d) /\ d.sequence + 1 = seq[r]
  /\ pc[r] \in {"put_receipt", "put_command"} =>
       \E e \in events : IsReceipt(e) /\ e.by = r /\ e.session = cmd[r].session
  /\ pc[r] \in {"idle", "find_receipt", "check", "next_sequence", "append_event"}
       => \A e \in events : e.by # r
  /\ Serving(r) /\ pc[r] \notin {"put_receipt", "put_command"} =>
       \A e \in events : e.by = r => ~IsReceipt(e)
  /\ pc[r] \in {"new_row", "new_event", "new_save"} =>
       \A e \in events : e.by = r => ~Logged(e)

EventsOK ==
  /\ ReceiptFollowsEffect
  /\ \A e \in events : Logged(e) =>
       e.by \in Requests /\ e.session = cmd[e.by].session
  /\ \A d, e \in events :
       Logged(d) /\ Logged(e) /\ d.by = e.by /\ (IsReceipt(d) <=> IsReceipt(e))
         => d = e

TraceInv == EventsOK /\ \A r \in Requests : TraceOK(r)

\* No command's own event is a creation or a receipt.
LEMMA EffectKinds ==
  \A k \in DOMAIN EventOf :
    EventOf[k] \notin {"session_created", "command_accepted"}
BY DEF EventOf

\* No request has left an event at the start.
LEMMA InitTrace == Init => TraceInv
BY NothingAssumption
   DEF Init, TraceInv, TraceOK, EventsOK, ReceiptFollowsEffect, Logged, Serving

\* A step keeps the traces of the requests at rest.
LEMMA TraceFrame ==
  ASSUME Serial, Typed, Alone, TraceInv, NEW r \in Requests,
         Start(r) \/ Step(r) \/ Fail(r),
         \A e \in events' \ events : e.by = r,
         TraceOK(r)', EventsOK'
  PROVE  TraceInv'
<1>1. \A q \in Requests \ {r} :
        ~InFlight(q) /\ ~InFlight(q)' /\ pc'[q] = pc[q]
  BY OthersRest, StepOfOne
<1>2. ASSUME NEW q \in Requests \ {r} PROVE TraceOK(q)'
  BY <1>1 DEF TraceInv, TraceOK, InFlight, Serving
<1> QED  BY <1>2 DEF TraceInv

\* A statement that leaves the log alone keeps what the log says, if the
\* commands behind the events stay what they were.
LEMMA TraceQuiet ==
  ASSUME Serial, Typed, Alone, TraceInv, NEW r \in Requests,
         Start(r) \/ Step(r) \/ Fail(r), events' = events,
         cmd'[r] = cmd[r] \/ pc[r] = "idle", TraceOK(r)'
  PROVE  TraceInv'
<1>1. \A e \in events : Logged(e) => cmd'[e.by] = cmd[e.by]
  BY StepOfOne DEF TraceInv, TraceOK, EventsOK
<1>2. EventsOK'
  BY <1>1 DEF TraceInv, EventsOK, ReceiptFollowsEffect, Logged, IsReceipt
<1> QED  BY <1>2, TraceFrame

\* Every statement keeps the trace of the request that executes it.
LEMMA NextTrace ==
  ASSUME Serial, Typed, Typed', SerialInv, MintInv, MintInv', TraceInv,
         [Next]_vars
  PROVE  TraceInv'
<1>a. /\ pc \in [Requests -> Steps] /\ cmd \in [Requests -> Command]
      /\ seq \in [Requests -> Nat] /\ events \subseteq Event
  BY DEF Typed, TypeOK
<1>b. \A r \in Requests : TaskOK(r) /\ CheckOK(r) /\ MintOK(r) /\ TraceOK(r)
  BY DEF Typed, SerialInv, MintInv, TraceInv
<1>c. ASSUME NEW r \in Requests PROVE MintOK(r)'
  BY DEF MintInv
<1>q. ASSUME NEW r \in Requests, Start(r) \/ Step(r) \/ Fail(r),
             events' = events, cmd'[r] = cmd[r] \/ pc[r] = "idle", TraceOK(r)'
      PROVE  TraceInv'
  BY <1>q, TraceQuiet DEF SerialInv
<1>1. ASSUME NEW r \in Requests, Start(r) PROVE TraceInv'
  <2>1. pc[r] = "idle" /\ events' = events /\ \A e \in events : e.by # r
    BY <1>1, <1>b DEF Start, CreateSession, SubmitForbidden, Submit, MayStart,
       store, TraceOK
  <2>2. pc'[r] \in {"new_row", "find_receipt", "done"}
    BY <1>1, <1>a DEF Start, CreateSession, SubmitForbidden, Submit, MayStart,
       Answer, Continue, Goto
  <2>3. TraceOK(r)'
    BY <2>1, <2>2 DEF TraceOK, Serving
  <2> QED  BY <1>1, <1>q, <2>1, <2>3
<1>2. ASSUME NEW r \in Requests, NewEvent(r) PROVE TraceInv'
  <2>1. /\ events' = events \cup {Stored(r)} /\ Stored(r).by = r
        /\ Stored(r).kind = "session_created" /\ cmd' = cmd
        /\ pc[r] = "new_event" /\ pc'[r] = "new_save"
    BY <1>2, <1>a, LogGrows DEF NewEvent, Stored, Continue, Goto
  <2>2. TraceOK(r)'
    BY <1>b, <2>1 DEF TraceOK, Serving, IsReceipt, Logged
  <2>3. EventsOK'
    BY <2>1 DEF TraceInv, EventsOK, ReceiptFollowsEffect, Logged, IsReceipt
  <2> QED  BY <1>2, <2>1, <2>2, <2>3, TraceFrame DEF SerialInv, Step
<1>3. ASSUME NEW r \in Requests, AppendEvent(r), pc[r] = "append_event"
      PROVE  TraceInv'
  <2>0. PICK e \in Event : e = Stored(r)
    BY <1>3, LogGrows
  <2>1. /\ events' = events \cup {e} /\ e.by = r
        /\ e.kind = EventOf[cmd[r].kind] /\ e.session = cmd[r].session
        /\ e.sequence = seq[r] /\ cmd' = cmd /\ seq' = seq
        /\ pc'[r] = "put_snapshot"
    BY <1>3, <1>a, <2>0, LogGrows DEF AppendEvent, Stored, Goto
  <2>2. cmd[r].kind \in DOMAIN EventOf /\ Logged(e) /\ ~IsReceipt(e)
    BY <1>3, <1>b, <2>1, EffectKinds DEF TaskOK, Logged, IsReceipt
  <2>3. \A d \in events : d.by # r
    BY <1>3, <1>b DEF TraceOK
  <2>4. \A m \in Sequences(cmd[r].session)' : m <= e.sequence
    BY <1>c, <2>1 DEF MintOK
  <2>5. Effect(r, e)'
    BY <2>1 DEF Effect
  <2>6. TraceOK(r)'
    BY <2>1, <2>2, <2>3, <2>4, <2>5 DEF TraceOK, Serving
  <2>7. EventsOK'
    BY <2>1, <2>2, <2>3
       DEF TraceInv, EventsOK, ReceiptFollowsEffect, Logged, IsReceipt
  <2> QED  BY <1>3, <2>1, <2>6, <2>7, TraceFrame DEF SerialInv, Step
<1>4. ASSUME NEW r \in Requests, AppendEvent(r), pc[r] = "append_receipt"
      PROVE  TraceInv'
  <2>0. PICK e \in Event : e = Stored(r)
    BY <1>4, LogGrows
  <2>1. /\ events' = events \cup {e} /\ e.by = r
        /\ IsReceipt(e) /\ Logged(e) /\ e.session = cmd[r].session
        /\ e.sequence = seq[r] /\ cmd' = cmd /\ pc'[r] = "put_receipt"
    BY <1>4, <1>a, <2>0, LogGrows
       DEF AppendEvent, Stored, Goto, IsReceipt, Logged
  <2>2. \A d \in events : d.by = r => ~IsReceipt(d)
    BY <1>4, <1>b DEF TraceOK, Serving
  <2>3. cmd[r].kind \in DOMAIN EventOf =>
          \E d \in events : Effect(r, d) /\ d.sequence + 1 = e.sequence
    BY <1>4, <1>b, <2>1 DEF TraceOK
  <2>4. TraceOK(r)'
    BY <2>1 DEF TraceOK, Serving
  <2>5. ReceiptFollowsEffect'
    BY <2>1, <2>3 DEF TraceInv, EventsOK, ReceiptFollowsEffect, Effect
  <2>6. EventsOK'
    BY <2>1, <2>2, <2>5 DEF TraceInv, EventsOK, Logged, IsReceipt
  <2> QED  BY <1>4, <2>1, <2>4, <2>6, TraceFrame DEF SerialInv, Step
<1>5. ASSUME NEW r \in Requests, NextSequence(r) PROVE TraceInv'
  <2>1. PICK m \in Sequences(cmd[r].session) \cup {0} :
          /\ IsMaxSequence(m, cmd[r].session)
          /\ seq' = [seq EXCEPT ![r] = m + 1]
    BY <1>5 DEF NextSequence
  <2>2. /\ cmd' = cmd /\ events' = events
        /\ \/ pc[r] = "next_sequence" /\ pc'[r] = "append_event"
           \/ pc[r] = "next_receipt" /\ pc'[r] = "append_receipt"
    BY <1>5, <1>a DEF NextSequence, Goto, store
  <2>3. ASSUME NEW d \in events, Effect(r, d),
               \A k \in Sequences(cmd[r].session) : k <= d.sequence
        PROVE  Effect(r, d)' /\ d.sequence + 1 = seq'[r]
    <3>1. d.sequence \in Sequences(cmd[r].session) /\ d.sequence \in Nat \ {0}
      BY <1>a, <2>3 DEF Effect, Sequences, Event
    <3>2. Sequences(cmd[r].session) \subseteq Nat
      BY <1>a DEF Sequences, Event
    <3>3. d.sequence <= m
      BY <2>1, <3>1 DEF IsMaxSequence
    <3>4. m = d.sequence
      BY <2>1, <2>3, <3>1, <3>2, <3>3
    <3>5. seq'[r] = m + 1 /\ Effect(r, d)'
      BY <1>a, <2>1, <2>2, <2>3 DEF Effect
    <3> QED  BY <3>4, <3>5
  <2>4. CASE pc[r] = "next_sequence"
    <3>1. TraceOK(r)'
      BY <1>b, <2>2, <2>4 DEF TraceOK, Serving
    <3> QED  BY <1>5, <1>q, <2>2, <3>1 DEF Step
  <2>5. CASE pc[r] = "next_receipt"
    <3>1. cmd[r].kind \in DOMAIN EventOf =>
            \E d \in events : Effect(r, d)' /\ d.sequence + 1 = seq'[r]
      BY <1>b, <2>3, <2>5 DEF TraceOK
    <3>2. TraceOK(r)'
      BY <1>b, <2>2, <2>5, <3>1 DEF TraceOK, Serving
    <3> QED  BY <1>5, <1>q, <2>2, <3>2 DEF Step
  <2> QED  BY <2>2, <2>4, <2>5
<1>6. ASSUME NEW r \in Requests, Check(r) PROVE TraceInv'
  <2>1. /\ cmd' = cmd /\ events' = events /\ pc[r] = "check"
        /\ \/ pc'[r] \in {"done", "new_row", "next_sequence"}
           \/ pc'[r] = "next_receipt" /\ cmd[r].kind = "attach"
    BY <1>6, <1>a DEF Check, Continue, Answer, Goto, store
  <2>2. TraceOK(r)'
    BY <1>b, <2>1 DEF TraceOK, Serving, EventOf
  <2> QED  BY <1>6, <1>q, <2>1, <2>2 DEF Step
<1>7. ASSUME NEW r \in Requests, NewRow(r) \/ NewSave(r) PROVE TraceInv'
  <2>1. /\ cmd' = cmd /\ events' = events
        /\ pc[r] \in {"new_row", "new_save"}
        /\ \/ pc'[r] \in {"done", "new_event"}
           \/ pc'[r] = "next_receipt" /\ cmd[r].kind = "fork"
    BY <1>7, <1>a DEF NewRow, NewSave, Continue, Answer, Goto
  <2>2. TraceOK(r)'
    BY <1>b, <2>1 DEF TraceOK, Serving, EventOf
  <2> QED  BY <1>7, <1>q, <2>1, <2>2 DEF Step
<1>8. ASSUME NEW r \in Requests, PutSnapshot(r) \/ MarkDeleted(r)
      PROVE  TraceInv'
  <2>1. /\ cmd' = cmd /\ events' = events
        /\ pc[r] \in {"put_snapshot", "mark_deleted"}
        /\ pc'[r] \in {"mark_deleted", "next_receipt"}
    BY <1>8, <1>a DEF PutSnapshot, MarkDeleted, Continue, Goto
  <2>2. TraceOK(r)'
    BY <1>b, <2>1 DEF TraceOK, Serving, Effect, Sequences
  <2> QED  BY <1>8, <1>q, <2>1, <2>2 DEF Step
<1>9. ASSUME NEW r \in Requests, FindReceipt(r) \/ PutReceipt(r) \/ PutCommand(r)
      PROVE  TraceInv'
  <2>1. /\ cmd' = cmd /\ events' = events
        /\ \/ pc[r] = "find_receipt" /\ pc'[r] \in {"check", "done"}
           \/ pc[r] = "put_receipt" /\ pc'[r] = "put_command"
           \/ pc[r] = "put_command" /\ pc'[r] = "done"
    BY <1>9, <1>a DEF FindReceipt, PutReceipt, PutCommand, Continue, Answer,
       Goto, store
  <2>2. TraceOK(r)'
    BY <1>b, <2>1 DEF TraceOK, Serving
  <2> QED  BY <1>9, <1>q, <2>1, <2>2 DEF Step
<1>10. ASSUME NEW r \in Requests, Fail(r) PROVE TraceInv'
  <2>1. pc'[r] = "dead" /\ cmd' = cmd /\ events' = events
    BY <1>10, <1>a DEF Fail, Goto, store
  <2> QED  BY <1>10, <1>q, <2>1 DEF TraceOK, Serving
<1>11. CASE UNCHANGED vars
  BY <1>11 DEF vars, TraceInv, TraceOK, EventsOK, ReceiptFollowsEffect, Effect,
     Sequences, Serving
<1> QED
  BY <1>1, <1>2, <1>3, <1>4, <1>5, <1>6, <1>7, <1>8, <1>9, <1>10, <1>11
     DEF Next, Step, AppendEvent

\* The traces are as claimed in every reachable state.
LEMMA SpecTrace == ASSUME Serial PROVE Spec => []TraceInv
<1>1. IInv /\ IInv' /\ SerialInv /\ MintInv /\ MintInv' /\ TraceInv /\ [Next]_vars
        => TraceInv'
  BY NextTrace DEF IInv
<1> QED  BY <1>1, InitTrace, SpecIInv, SpecSerial, SpecMint, PTL DEF Spec

-----------------------------------------------------------------------------
(* The expected sequence.  While no task has died the row's cursor is the  *)
(* end of the log, so that the next sequence is the one after it.          *)

ExpectInv ==
  /\ Dead = {}
  /\ \A r \in Requests :
       pc[r] = "append_event" /\ cmd[r].expected # Nothing =>
         seq[r] = cmd[r].expected + 1
  /\ AppliedWhereExpected

\* Without deaths every sequence is minted where the client expects it.
LEMMA NextExpect ==
  ASSUME Serial, ~MayFail, IInv, Typed', SerialInv, MintInv, LagInv, TraceInv,
         ExpectInv, [Next]_vars
  PROVE  ExpectInv'
<1>a. /\ pc \in [Requests -> Steps] /\ cmd \in [Requests -> Command]
      /\ seq \in [Requests -> Nat] /\ events \subseteq Event
      /\ snapshot \in [Sessions -> Snapshot] /\ rows \subseteq Sessions
  BY DEF IInv, Typed, TypeOK
<1>b. \A r \in Requests : /\ TaskOK(r) /\ TaskLogOK(r) /\ CopyOK(r)
                          /\ CheckOK(r) /\ TraceOK(r)
  BY DEF IInv, Typed, SerialInv, TraceInv
<1>c. EventOf \in [DOMAIN EventOf -> EventKinds \ {"session_created"}]
  BY DEF EventOf, EventKinds
<1>o. ASSUME NEW r \in Requests, Start(r) \/ Step(r)
      PROVE  \A q \in Requests \ {r} : ~InFlight(q) /\ ~InFlight(q)'
  BY <1>o, OthersRest DEF IInv, SerialInv
\* No step but Fail ends in death, and only NextSequence leads to append_event.
<1>1. ASSUME NEW r \in Requests, Start(r) \/ Step(r) PROVE Dead' = {}
  <2>1. pc'[r] # "dead"
    BY <1>1, <1>a DEF Start, Step, CreateSession, SubmitForbidden, Submit, NewRow,
       NewEvent, NewSave, FindReceipt, Check, NextSequence, AppendEvent,
       PutSnapshot, MarkDeleted, PutReceipt, PutCommand, Continue, Answer, Goto,
       MayStart
  <2>2. \A q \in Requests \ {r} : pc'[q] = pc[q]
    BY <1>1, StepOfOne DEF IInv
  <2> QED  BY <2>1, <2>2 DEF ExpectInv, Dead
<1>2. ASSUME NEW r \in Requests, Start(r) \/ Step(r), ~NextSequence(r)
      PROVE  pc'[r] # "append_event"
  BY <1>2, <1>a DEF Start, Step, CreateSession, SubmitForbidden, Submit, NewRow,
     NewEvent, NewSave, FindReceipt, Check, AppendEvent, PutSnapshot,
     MarkDeleted, PutReceipt, PutCommand, Continue, Answer, Goto, MayStart
\* An event keeps the command it came from.
<1>3. ASSUME NEW r \in Requests, Start(r) \/ Step(r), NEW e \in events,
             Logged(e)
      PROVE  e.by \in Requests /\ cmd'[e.by] = cmd[e.by]
  <2>1. e.by \in Requests
    BY <1>3 DEF TraceInv, EventsOK
  <2>2. CASE e.by # r
    BY <1>3, <2>1, <2>2, StepOfOne DEF IInv
  <2>3. CASE e.by = r
    <3>1. ~Start(r)
      BY <1>b, <2>3 DEF Start, CreateSession, SubmitForbidden, Submit, MayStart,
         TraceOK
    <3>2. cmd' = cmd
      BY <1>3, <3>1 DEF Step, NewRow, NewEvent, NewSave, FindReceipt, Check,
         NextSequence, AppendEvent, PutSnapshot, MarkDeleted, PutReceipt,
         PutCommand
    <3> QED  BY <2>1, <3>2
  <2> QED  BY <2>2, <2>3
<1>4. ASSUME NEW r \in Requests, NextSequence(r), pc[r] = "next_sequence",
             cmd[r].expected # Nothing
      PROVE  seq'[r] = cmd'[r].expected + 1
  <2> DEFINE s == cmd[r].session
  <2>1. PICK m \in Sequences(s) \cup {0} :
          IsMaxSequence(m, s) /\ seq' = [seq EXCEPT ![r] = m + 1]
    BY <1>4 DEF NextSequence
  <2>2. s \in rows /\ snap[r].last = snapshot[s].last
    BY <1>b, <1>4 DEF TaskOK, CopyOK, Serving, Unsaved, Row
  <2>3. cmd[r].expected = snapshot[s].last
    BY <1>b, <1>4, <2>2 DEF CheckOK, Checked, Serving
  <2>4. Behind(s) = {}
    <3>1. \A q \in Requests : ~AheadOf(q, s)
      BY <1>4, <1>o DEF Step, AheadOf, InFlight
    <3> QED  BY <3>1 DEF Behind, ExpectInv
  <2>5. \A k \in Sequences(s) : k <= snapshot[s].last + 0
    BY <2>2, <2>4, FS_EmptySet DEF LagInv, Lag
  <2>6. snapshot[s].last \in Sequences(s) \cup {0}
    BY <1>b, <1>4, <2>2 DEF TaskLogOK, Serving
  <2>7. Sequences(s) \subseteq Nat
    BY <1>a DEF Sequences, Event
  <2>8. \A k \in Sequences(s) : k <= m
    BY <2>1 DEF IsMaxSequence
  <2>9. m = snapshot[s].last
    BY <2>1, <2>5, <2>6, <2>7, <2>8
  <2>10. seq'[r] = m + 1 /\ cmd' = cmd
    BY <1>4, <1>a, <2>1 DEF NextSequence
  <2> QED  BY <2>3, <2>9, <2>10
<1>5. ASSUME NEW r \in Requests, Start(r) \/ Step(r),
             NEW q \in Requests, pc'[q] = "append_event",
             cmd'[q].expected # Nothing
      PROVE  seq'[q] = cmd'[q].expected + 1
  <2>1. q = r
    BY <1>5, <1>o DEF InFlight
  <2>2. NextSequence(r)
    BY <1>2, <1>5, <2>1
  <2>3. pc[r] = "next_sequence" /\ cmd' = cmd
    BY <1>5, <1>a, <2>1, <2>2 DEF NextSequence, Goto
  <2> QED  BY <1>4, <1>5, <2>1, <2>2, <2>3
<1>6. ASSUME NEW r \in Requests, Start(r) \/ Step(r) PROVE AppliedWhereExpected'
  <2> SUFFICES ASSUME NEW e \in events',
                      e.kind \in {EventOf[k] : k \in DOMAIN EventOf},
                      cmd'[e.by].expected # Nothing
               PROVE  e.sequence = cmd'[e.by].expected + 1
    BY DEF AppliedWhereExpected
  <2>1. Logged(e)
    BY <1>c DEF Logged
  <2>2. CASE e \in events
    BY <1>3, <1>6, <2>1, <2>2 DEF ExpectInv, AppliedWhereExpected
  <2>3. CASE e \notin events
    <3>1. NewEvent(r) \/ AppendEvent(r)
      BY <1>6, <2>3, LogRests
    <3>2. e = Stored(r)
      BY <2>3, <3>1, LogGrows DEF IInv
    <3>3. pc[r] = "append_event" /\ AppendEvent(r)
      BY <2>1, <3>1, <3>2, EffectKinds
         DEF NewEvent, AppendEvent, Stored, Logged
    <3>4. e.sequence = seq[r] /\ e.by = r /\ cmd' = cmd
      BY <3>2, <3>3 DEF AppendEvent, Stored
    <3> QED  BY <3>3, <3>4 DEF ExpectInv
  <2> QED  BY <2>2, <2>3
<1>7. ASSUME NEW r \in Requests, Start(r) \/ Step(r) PROVE ExpectInv'
  BY <1>1, <1>5, <1>6, <1>7 DEF ExpectInv
<1>8. CASE UNCHANGED vars
  BY <1>8 DEF vars, ExpectInv, Dead, AppliedWhereExpected
<1> QED  BY <1>7, <1>8 DEF Next, Fail

\* A command that named the cursor its client had seen is applied directly
\* after that cursor or not at all, as long as no task dies.
THEOREM AppliesWhereExpected ==
  ASSUME Serial, ~MayFail PROVE Spec => []AppliedWhereExpected
<1>1. Init => ExpectInv
  BY SessionsAssumption
     DEF Init, ExpectInv, Dead, AppliedWhereExpected, EventOf
<1>2. IInv /\ IInv' /\ SerialInv /\ MintInv /\ LagInv /\ TraceInv /\ ExpectInv
        /\ [Next]_vars => ExpectInv'
  BY NextExpect DEF IInv
<1>3. ExpectInv => AppliedWhereExpected
  BY DEF ExpectInv
<1> QED  BY <1>1, <1>2, <1>3, SpecIInv, SpecSerial, SpecMint, SpecLag, SpecTrace,
         PTL DEF Spec

-----------------------------------------------------------------------------
(* The stored receipts: one for a key, none for the key of a request that  *)
(* is still being applied, and one behind everything that was answered or  *)
(* applied by a request that finished.                                     *)

Searched(r) == Serving(r) /\ pc[r] # "find_receipt"

HasReceipt(r, origin) ==
  \E c \in commands :
    c.session = cmd[r].session /\ c.key = cmd[r].key /\ c.by = origin

ReceiptOK(r) ==
  /\ Searched(r) => Prior(r) = {}
  /\ pc[r] # "done" => reply[r].outcome = "none"
  /\ Acknowledged(r) => HasReceipt(r, reply[r].origin)
  /\ pc[r] = "done" => \A e \in events :
       Logged(e) /\ e.by = r => HasReceipt(r, r)
  /\ pc[r] \in {"new_row", "new_event", "new_save"} =>
       cmd[r].kind \in {"create", "fork"}

OnePerKey ==
  \A c, d \in commands : c.session = d.session /\ c.key = d.key => c = d

ReceiptInv ==
  /\ AcceptedLeavesReceiptEvent
  /\ OnePerKey
  /\ \A r \in Requests : ReceiptOK(r)

\* No receipt is stored at the start.
LEMMA InitReceipt == Init => ReceiptInv
BY DEF Init, ReceiptInv, AcceptedLeavesReceiptEvent, OnePerKey, ReceiptOK,
   Searched, Serving, Acknowledged

\* No event is lost.
LEMMA LogKeeps ==
  ASSUME Typed, Typed', MintInv, NEW r \in Requests, Start(r) \/ Step(r) \/ Fail(r)
  PROVE  /\ events \subseteq events'
         /\ \A e \in events' \ events : e.by = r
<1>1. CASE NewEvent(r) \/ AppendEvent(r)
  <2>1. events' = events \cup {Stored(r)}
    BY <1>1, LogGrows
  <2>2. Stored(r).by = r
    BY DEF Stored
  <2> QED  BY <2>1, <2>2
<1>2. CASE ~NewEvent(r) /\ ~AppendEvent(r)
  BY <1>2, LogRests
<1> QED  BY <1>1, <1>2

\* A statement that keeps every receipt keeps the claims of the requests at
\* rest.
LEMMA ReceiptFrame ==
  ASSUME Serial, Typed, Typed', Alone, MintInv, ReceiptInv, NEW r \in Requests,
         Start(r) \/ Step(r) \/ Fail(r), commands \subseteq commands',
         AcceptedLeavesReceiptEvent', OnePerKey', ReceiptOK(r)'
  PROVE  ReceiptInv'
<1>1. ASSUME NEW q \in Requests \ {r} PROVE ReceiptOK(q)'
  <2>1. /\ pc'[q] = pc[q] /\ cmd'[q] = cmd[q] /\ reply'[q] = reply[q]
        /\ ~InFlight(q)'
    BY StepOfOne, OthersRest
  <2>2. \A o : HasReceipt(q, o) => HasReceipt(q, o)'
    BY <2>1 DEF HasReceipt
  <2>3. \A e \in events' : e.by = q => e \in events
    BY LogKeeps
  <2>4. ~Searched(q)' /\ pc'[q] \notin {"new_row", "new_event", "new_save"}
    BY <2>1 DEF Searched, Serving, InFlight
  <2>5. Acknowledged(q)' => Acknowledged(q)
    BY <2>1 DEF Acknowledged
  <2> QED  BY <2>1, <2>2, <2>3, <2>4, <2>5 DEF ReceiptInv, ReceiptOK
<1> QED  BY <1>1 DEF ReceiptInv

\* The statements that store no receipt.
LEMMA ReceiptQuiet ==
  ASSUME Serial, Typed, Typed', Alone, MintInv, ReceiptInv, NEW r \in Requests,
         Start(r) \/ Step(r) \/ Fail(r), commands' = commands, ReceiptOK(r)'
  PROVE  ReceiptInv'
<1>1. AcceptedLeavesReceiptEvent'
  BY LogKeeps DEF ReceiptInv, AcceptedLeavesReceiptEvent
<1>2. OnePerKey'
  BY DEF ReceiptInv, OnePerKey
<1> QED  BY <1>1, <1>2, ReceiptFrame

\* Every statement keeps the receipts behind the answers and the events.
LEMMA NextReceipt ==
  ASSUME Serial, Typed, Typed', SerialInv, MintInv, TraceInv, ReceiptInv,
         [Next]_vars
  PROVE  ReceiptInv'
<1>a. /\ pc \in [Requests -> Steps] /\ cmd \in [Requests -> Command]
      /\ reply \in [Requests -> Reply]
  BY DEF Typed, TypeOK
<1>b. \A r \in Requests : TaskOK(r) /\ TraceOK(r) /\ ReceiptOK(r)
  BY DEF Typed, TraceInv, ReceiptInv
<1>q. ASSUME NEW r \in Requests, Start(r) \/ Step(r) \/ Fail(r),
             commands' = commands, ReceiptOK(r)'
      PROVE  ReceiptInv'
  BY <1>q, ReceiptQuiet DEF SerialInv
<1>1. ASSUME NEW r \in Requests, Start(r) PROVE ReceiptInv'
  <2>1. /\ pc[r] = "idle" /\ commands' = commands /\ events' = events
        /\ \A e \in events : e.by # r
    BY <1>1, <1>b DEF Start, CreateSession, SubmitForbidden, Submit, MayStart,
       store, TraceOK
  <2>2. \/ pc'[r] = "new_row" /\ cmd'[r] = NoCommand /\ reply' = reply
        \/ pc'[r] = "find_receipt" /\ reply' = reply
        \/ pc'[r] = "done" /\ reply'[r].outcome \in {"forbidden", "not_found"}
    BY <1>1, <1>a, <1>b DEF Start, CreateSession, SubmitForbidden, Submit,
       MayStart, Answer, Continue, Goto, TaskOK
  <2>3. ReceiptOK(r)'
    BY <1>b, <2>1, <2>2 DEF ReceiptOK, Searched, Serving, Acknowledged, NoCommand
  <2> QED  BY <1>1, <1>q, <2>1, <2>3
<1>2. ASSUME NEW r \in Requests, FindReceipt(r) PROVE ReceiptInv'
  <2>1. /\ pc[r] = "find_receipt" /\ cmd' = cmd /\ commands' = commands
        /\ events' = events /\ \A e \in events : e.by # r
    BY <1>2, <1>b DEF FindReceipt, store, TraceOK
  <2>2. CASE Prior(r) = {} /\ Continue(r, "check")
    <3>1. ReceiptOK(r)'
      BY <1>a, <1>b, <2>1, <2>2 DEF ReceiptOK, Searched, Serving, Acknowledged,
         Continue, Goto, Prior
    <3> QED  BY <1>2, <1>q, <2>1, <3>1 DEF Step
  <2>3. ASSUME NEW c \in Prior(r), Answer(r, "replayed", c.by) PROVE ReceiptInv'
    <3>1. pc'[r] = "done" /\ reply'[r].origin = c.by
      BY <1>a, <2>3 DEF Answer, Goto
    <3>2. HasReceipt(r, reply[r].origin)'
      BY <2>1, <2>3, <3>1 DEF HasReceipt, Prior
    <3>3. ReceiptOK(r)'
      BY <2>1, <3>1, <3>2 DEF ReceiptOK, Searched, Serving
    <3> QED  BY <1>2, <1>q, <2>1, <3>3 DEF Step
  <2> QED  BY <1>2, <2>2, <2>3 DEF FindReceipt
<1>3. ASSUME NEW r \in Requests, Check(r) PROVE ReceiptInv'
  <2>1. /\ pc[r] = "check" /\ cmd' = cmd /\ commands' = commands
        /\ events' = events /\ \A e \in events : e.by # r
        /\ Prior(r) = {} /\ Prior(r)' = Prior(r)
    BY <1>3, <1>b DEF Check, store, TraceOK, ReceiptOK, Searched, Serving, Prior
  <2>2. \/ pc'[r] \in {"next_receipt", "next_sequence"} /\ reply' = reply
        \/ pc'[r] = "new_row" /\ cmd[r].kind = "fork" /\ reply' = reply
        \/ /\ pc'[r] = "done"
           /\ reply'[r].outcome \in {"not_found", "stale_sequence",
                "invalid_state", "unknown_kind", "invalid_command"}
    BY <1>3, <1>a DEF Check, Refusal, Answer, Continue, Goto
  <2>3. ReceiptOK(r)'
    BY <1>b, <2>1, <2>2 DEF ReceiptOK, Searched, Serving, Acknowledged
  <2> QED  BY <1>3, <1>q, <2>1, <2>3 DEF Step
<1>4. ASSUME NEW r \in Requests, NewSave(r) PROVE ReceiptInv'
  <2>1. /\ pc[r] = "new_save" /\ cmd' = cmd /\ commands' = commands
        /\ events' = events /\ \A e \in events : e.by = r => ~Logged(e)
        /\ Prior(r)' = Prior(r)
    BY <1>4, <1>b DEF NewSave, TraceOK, Prior
  <2>2. \/ pc'[r] = "next_receipt" /\ cmd[r].kind = "fork" /\ reply' = reply
        \/ pc'[r] = "done" /\ cmd[r].kind = "create"
    BY <1>4, <1>a, <1>b DEF NewSave, Answer, Continue, Goto, ReceiptOK
  <2>3. ReceiptOK(r)'
    BY <1>b, <2>1, <2>2 DEF ReceiptOK, Searched, Serving, Acknowledged
  <2> QED  BY <1>4, <1>q, <2>1, <2>3 DEF Step
<1>5. ASSUME NEW r \in Requests,
             \/ NewRow(r) \/ NewEvent(r) \/ NextSequence(r) \/ AppendEvent(r)
             \/ PutSnapshot(r) \/ MarkDeleted(r) \/ PutReceipt(r)
      PROVE  ReceiptInv'
  <2>1. cmd' = cmd /\ commands' = commands /\ reply' = reply
    BY <1>5 DEF NewRow, NewEvent, NextSequence, AppendEvent, PutSnapshot,
       MarkDeleted, PutReceipt, Continue, store
  <2>2. /\ pc[r] \in Steps \ {"idle", "done", "dead"}
        /\ pc'[r] \in Steps \ {"idle", "done", "dead", "find_receipt"}
        /\ Serving(r)' => Searched(r)
        /\ pc'[r] \in {"new_row", "new_event", "new_save"} =>
             pc[r] \in {"new_row", "new_event", "new_save"}
    BY <1>5, <1>a DEF NewRow, NewEvent, NextSequence, AppendEvent, PutSnapshot,
       MarkDeleted, PutReceipt, Continue, Goto, Serving, Searched, Steps
  <2>3. ReceiptOK(r)'
    BY <1>b, <2>1, <2>2 DEF ReceiptOK, Searched, Acknowledged, Prior
  <2> QED  BY <1>5, <1>q, <2>1, <2>3 DEF Step
<1>6. ASSUME NEW r \in Requests, PutCommand(r) PROVE ReceiptInv'
  <2> DEFINE c == [session |-> cmd[r].session, key |-> cmd[r].key, by |-> r]
  <2>1. /\ pc[r] = "put_command" /\ cmd' = cmd /\ events' = events
        /\ Prior(r) = {} /\ commands' = commands \cup {c}
        /\ pc'[r] = "done" /\ reply'[r].origin = r
    BY <1>6, <1>a, <1>b DEF PutCommand, Answer, Goto, ReceiptOK, Searched, Serving
  <2>2. AcceptedLeavesReceiptEvent'
    <3>1. \E e \in events : IsReceipt(e) /\ e.by = r /\ e.session = c.session
      BY <1>b, <2>1 DEF TraceOK
    <3> QED  BY <2>1, <3>1 DEF ReceiptInv, AcceptedLeavesReceiptEvent, IsReceipt
  <2>3. OnePerKey'
    BY <2>1 DEF ReceiptInv, OnePerKey, Prior
  <2>4. HasReceipt(r, r)'
    <3>1. c.session = cmd'[r].session /\ c.key = cmd'[r].key /\ c.by = r
      BY <2>1
    <3>2. c \in commands'
      BY <2>1
    <3> HIDE DEF c
    <3> QED  BY <3>1, <3>2 DEF HasReceipt
  <2>5. ReceiptOK(r)'
    BY <2>1, <2>4 DEF ReceiptOK, Searched, Serving
  <2> QED  BY <1>6, <2>1, <2>2, <2>3, <2>5, ReceiptFrame DEF SerialInv, Step
<1>7. ASSUME NEW r \in Requests, Fail(r) PROVE ReceiptInv'
  <2>1. /\ pc'[r] = "dead" /\ commands' = commands /\ reply' = reply
        /\ pc[r] # "done"
    BY <1>7, <1>a DEF Fail, Goto, store, InFlight
  <2>2. ReceiptOK(r)'
    BY <1>b, <2>1 DEF ReceiptOK, Searched, Serving, Acknowledged
  <2> QED  BY <1>7, <1>q, <2>1, <2>2
<1>8. CASE UNCHANGED vars
  BY <1>8 DEF vars, ReceiptInv, AcceptedLeavesReceiptEvent, OnePerKey,
     ReceiptOK, Searched, Serving, Acknowledged, HasReceipt, Prior
<1> QED
  BY <1>1, <1>2, <1>3, <1>4, <1>5, <1>6, <1>7, <1>8 DEF Next, Step

\* The receipts are as claimed in every reachable state.
LEMMA SpecReceipt == ASSUME Serial PROVE Spec => []ReceiptInv
<1>1. IInv /\ IInv' /\ SerialInv /\ MintInv /\ TraceInv /\ ReceiptInv
        /\ [Next]_vars => ReceiptInv'
  BY NextReceipt DEF IInv
<1> QED  BY <1>1, InitReceipt, SpecIInv, SpecSerial, SpecMint, SpecTrace,
         PTL DEF Spec

\* Every stored receipt has its event in the log, and the event stands
\* directly after the effect that it reports.
THEOREM ReceiptsStandInLog == ASSUME Serial PROVE Spec => []ReceiptsMatchLog
<1>1. TraceInv /\ ReceiptInv => ReceiptsMatchLog
  BY DEF TraceInv, EventsOK, ReceiptInv, ReceiptsMatchLog
<1> QED  BY <1>1, SpecTrace, SpecReceipt, PTL

\* A resubmitted command is answered with its original result, and applied
\* a second time only where a task that had applied it died before it stored
\* the receipt.
THEOREM RetriesReplay == ASSUME Serial PROVE Spec => []ReplaysInsteadOfApplying
<1>1. ASSUME ReceiptInv PROVE OneResultPerKey
  BY <1>1 DEF ReceiptInv, ReceiptOK, HasReceipt, OnePerKey, OneResultPerKey, SameKey
<1>2. ASSUME Typed, SerialInv, TraceInv, ReceiptInv,
             NEW d \in events, NEW e \in events, Repeats(d, e), d # e
      PROVE  "dead" \in {pc[d.by], pc[e.by]}
  <2> DEFINE q == d.by
             r == e.by
  <2>1. /\ Logged(d) /\ Logged(e) /\ (IsReceipt(d) <=> IsReceipt(e))
        /\ cmd[q].session = cmd[r].session /\ cmd[q].key = cmd[r].key
    BY <1>2 DEF Repeats, Logged, IsReceipt, SameKey
  <2>2. q \in Requests /\ r \in Requests /\ q # r
    BY <1>2, <2>1 DEF TraceInv, EventsOK
  \* A request with an event in the log is past its search for a receipt.
  <2>3. ASSUME NEW f \in events, Logged(f), f.by \in Requests,
               pc[f.by] # "dead"
        PROVE  \/ pc[f.by] = "done" /\ HasReceipt(f.by, f.by)
               \/ InFlight(f.by) /\ Prior(f.by) = {}
    <3>1. TraceOK(f.by) /\ ReceiptOK(f.by) /\ pc[f.by] \in Steps
      BY <1>2, <2>3 DEF TraceInv, ReceiptInv, Typed, TypeOK
    <3>2. pc[f.by] \notin {"idle", "find_receipt", "check", "new_row",
                           "new_event", "new_save"}
      BY <2>3, <3>1 DEF TraceOK
    <3> QED  BY <2>3, <3>1, <3>2
             DEF ReceiptOK, Searched, Serving, InFlight, Steps
  <2>4. ~(InFlight(q) /\ InFlight(r))
    BY <1>2, <2>2 DEF SerialInv, Alone
  <2>5. ~(HasReceipt(q, q) /\ HasReceipt(r, r))
    BY <1>2, <2>1, <2>2 DEF HasReceipt, ReceiptInv, OnePerKey
  <2>6. HasReceipt(q, q) => Prior(r) # {}
    BY <2>1 DEF HasReceipt, Prior
  <2>7. HasReceipt(r, r) => Prior(q) # {}
    BY <2>1 DEF HasReceipt, Prior
  <2> QED  BY <2>1, <2>2, <2>3, <2>4, <2>5, <2>6, <2>7
<1>3. IInv /\ SerialInv /\ TraceInv /\ ReceiptInv => ReplaysInsteadOfApplying
  BY <1>1, <1>2 DEF IInv, ReplaysInsteadOfApplying
<1> QED  BY <1>3, SpecIInv, SpecSerial, SpecTrace, SpecReceipt, PTL

-----------------------------------------------------------------------------
(* The queue depth: a row counts every message whose receipt was saved.    *)

Counted(s) ==
  {r \in Requests : /\ cmd[r].kind = "submit_message" /\ cmd[r].session = s
                    /\ pc[r] = "put_command" \/ reply[r].outcome = "ok"}

Depth(s) == Cardinality(Counted(s)) <= snapshot[s].depth

DepthInv ==
  /\ \A s \in rows : Depth(s)
  /\ \A s \in Sessions \ rows : Counted(s) = {}

\* No message is accepted at the start.
LEMMA InitDepth == ASSUME Init PROVE DepthInv
<1>1. \A s : Counted(s) = {}
  BY DEF Init, Counted, NoCommand
<1>2. \A s \in rows : snapshot[s].depth = 0
  BY SessionsAssumption DEF Init, NewSnapshot
<1> QED  BY <1>1, <1>2, FS_EmptySet DEF DepthInv, Depth

\* A row that keeps its depth keeps its bound while nobody joins the count.
LEMMA DepthKept ==
  ASSUME Typed, Typed', NEW s \in rows, Depth(s), Counted(s)' \subseteq Counted(s),
         snapshot'[s].depth = snapshot[s].depth
  PROVE  Depth(s)'
<1>1. Counted(s) \subseteq Requests /\ Counted(s)' \subseteq Requests
  BY DEF Counted
<1>2. /\ Cardinality(Counted(s)) \in Nat /\ Cardinality(Counted(s)') \in Nat
      /\ Cardinality(Counted(s)') <= Cardinality(Counted(s))
  BY <1>1, Counting
<1>3. snapshot[s].depth \in Nat
  BY DEF Typed, TypeOK, Snapshot
<1> QED  BY <1>2, <1>3 DEF Depth

\* Every statement keeps each row at or above the messages it must count.
LEMMA NextDepth ==
  ASSUME Typed, Typed', SerialInv, ReceiptInv, DepthInv, [Next]_vars
  PROVE  DepthInv'
<1>a. /\ pc \in [Requests -> Steps] /\ cmd \in [Requests -> Command]
      /\ snap \in [Requests -> Snapshot] /\ reply \in [Requests -> Reply]
      /\ snapshot \in [Sessions -> Snapshot] /\ rows \subseteq Sessions
      /\ rows' \subseteq Sessions
  BY DEF Typed, TypeOK
<1>b. \A r \in Requests : TaskOK(r) /\ CopyOK(r) /\ FreshOK(r) /\ ReceiptOK(r)
  BY DEF Typed, SerialInv, ReceiptInv
\* Nobody joins the count, and no row's depth changes.
<1>q. ASSUME \A s : Counted(s)' \subseteq Counted(s), rows \subseteq rows',
             \A s \in rows : snapshot'[s].depth = snapshot[s].depth,
             \A s \in rows' \ rows : snapshot'[s].depth = 0
      PROVE  DepthInv'
  <2>1. ASSUME NEW s \in rows PROVE Depth(s)'
    BY <1>q, <2>1, DepthKept DEF DepthInv
  <2>2. ASSUME NEW s \in rows' \ rows PROVE Depth(s)'
    <3>1. s \in Sessions \ rows
      BY <1>a, <2>2
    <3>2. Counted(s)' = {}
      BY <1>q, <3>1 DEF DepthInv
    <3>3. snapshot'[s].depth = 0
      BY <1>q, <2>2
    <3> QED  BY <3>2, <3>3, FS_EmptySet DEF Depth
  <2>3. \A s \in Sessions \ rows' : Counted(s)' = {}
    BY <1>q DEF DepthInv
  <2> QED  BY <2>1, <2>2, <2>3 DEF DepthInv
<1>c. ASSUME NEW r \in Requests, Start(r) \/ Step(r) \/ Fail(r),
             \/ pc'[r] # "put_command" /\ reply'[r].outcome # "ok"
             \/ cmd'[r].kind # "submit_message"
             \/ cmd' = cmd /\ pc[r] = "put_command"
      PROVE  \A s : Counted(s)' \subseteq Counted(s)
  <2>1. \A q \in Requests \ {r} :
          pc'[q] = pc[q] /\ cmd'[q] = cmd[q] /\ reply'[q] = reply[q]
    BY <1>c, StepOfOne
  <2> QED  BY <1>c, <2>1 DEF Counted
<1>1. ASSUME NEW r \in Requests, Start(r) \/ Fail(r) PROVE DepthInv'
  <2>1. /\ UNCHANGED <<rows, snapshot>>
        /\ pc'[r] # "put_command" /\ reply'[r].outcome # "ok"
    BY <1>1, <1>a, <1>b DEF Start, Fail, CreateSession, SubmitForbidden, Submit,
       MayStart, Answer, Continue, Goto, ReceiptOK, store, InFlight
  <2> QED  BY <1>1, <1>c, <1>q, <2>1
<1>2. ASSUME NEW r \in Requests,
             \/ NewEvent(r) \/ FindReceipt(r) \/ Check(r) \/ NextSequence(r)
             \/ AppendEvent(r) \/ MarkDeleted(r)
      PROVE  DepthInv'
  <2>1. /\ UNCHANGED <<rows, snapshot>> /\ pc[r] # "done"
        /\ pc'[r] # "put_command"
    BY <1>2, <1>a DEF NewEvent, FindReceipt, Check, NextSequence, AppendEvent,
       MarkDeleted, Answer, Continue, Goto, store
  <2>2. reply[r].outcome = "none"
    BY <1>b, <2>1 DEF ReceiptOK
  <2>3. reply'[r].outcome # "ok"
    BY <1>2, <1>a, <2>2 DEF NewEvent, FindReceipt, Check, Refusal, NextSequence,
       AppendEvent, MarkDeleted, Answer, Continue
  <2> QED  BY <1>2, <1>c, <1>q, <2>1, <2>3 DEF Step
<1>3. ASSUME NEW r \in Requests, NewRow(r) PROVE DepthInv'
  <2>1. PICK s \in Sessions \ rows :
          /\ rows' = rows \cup {s}
          /\ snapshot' = [snapshot EXCEPT ![s] = NewSnapshot]
    BY <1>3 DEF NewRow
  <2>2. pc'[r] # "put_command" /\ reply' = reply /\ reply[r].outcome = "none"
    BY <1>3, <1>a, <1>b DEF NewRow, Goto, ReceiptOK
  <2>3. /\ \A t \in rows : snapshot'[t].depth = snapshot[t].depth
        /\ \A t \in rows' \ rows : snapshot'[t].depth = 0
    BY <1>a, <2>1 DEF NewSnapshot
  <2> QED  BY <1>3, <1>c, <1>q, <2>1, <2>2, <2>3 DEF Step
<1>4. ASSUME NEW r \in Requests, NewSave(r) PROVE DepthInv'
  <2>1. fresh[r] \in rows /\ snapshot[fresh[r]].depth = 0 /\ rows' = rows
    BY <1>4, <1>b DEF NewSave, FreshOK
  <2>2. \A t \in rows : snapshot'[t].depth = snapshot[t].depth
    BY <1>4, <1>a, <2>1 DEF NewSave, NewSnapshot
  <2>3. cmd'[r].kind # "submit_message"
    BY <1>4, <1>b DEF NewSave, ReceiptOK
  <2> QED  BY <1>4, <1>c, <1>q, <2>1, <2>2, <2>3 DEF Step
<1>5. ASSUME NEW r \in Requests, PutSnapshot(r) PROVE DepthInv'
  <2>1. /\ cmd[r].session \in rows /\ rows' = rows
        /\ snap[r].depth = Row(r).depth
        /\ snapshot' = [snapshot EXCEPT ![cmd[r].session] = snap[r]]
    BY <1>5, <1>b DEF PutSnapshot, TaskOK, CopyOK, Serving
  <2>2. \A t \in rows : snapshot'[t].depth = snapshot[t].depth
    BY <1>a, <2>1 DEF Row
  <2>3. /\ pc'[r] # "put_command" /\ reply' = reply
        /\ reply[r].outcome = "none"
    BY <1>5, <1>a, <1>b DEF PutSnapshot, Goto, ReceiptOK
  <2> QED  BY <1>5, <1>c, <1>q, <2>1, <2>2, <2>3 DEF Step
<1>6. ASSUME NEW r \in Requests, PutReceipt(r) PROVE DepthInv'
  <2>0. PICK s \in rows : s = cmd[r].session
    BY <1>6, <1>b DEF PutReceipt, TaskOK, Serving
  <2>1. /\ pc[r] = "put_receipt" /\ rows' = rows /\ cmd' = cmd /\ reply' = reply
        /\ snapshot' = [snapshot EXCEPT ![s] = snap[r]]
    BY <1>6, <2>0 DEF PutReceipt, Continue
  <2>2. Row(r) = snapshot[s] /\ snapshot[s] \in Snapshot
    BY <1>a, <2>0 DEF Row
  <2>3. snap[r].depth = IF cmd[r].kind = "submit_message"
                        THEN snapshot[s].depth + 1 ELSE snapshot[s].depth
    BY <1>b, <2>1, <2>2, ApplyFields DEF CopyOK
  <2>4. CASE cmd[r].kind # "submit_message"
    <3>1. \A t \in rows : snapshot'[t].depth = snapshot[t].depth
      BY <1>a, <2>1, <2>3, <2>4
    <3> QED  BY <1>6, <1>c, <1>q, <2>1, <2>4, <3>1 DEF Step
  <2>5. CASE cmd[r].kind = "submit_message"
    <3>1. /\ Counted(s)' \subseteq Counted(s) \cup {r}
          /\ \A t : t # s => Counted(t)' \subseteq Counted(t)
      <4>1. \A q \in Requests \ {r} : pc'[q] = pc[q]
        BY <1>6, StepOfOne DEF Step
      <4> QED  BY <2>0, <2>1, <4>1 DEF Counted
    <3>2. ASSUME NEW t \in rows, t # s PROVE Depth(t)'
      BY <1>a, <2>1, <3>1, <3>2, DepthKept DEF DepthInv
    <3>3. Depth(s)'
      <4>1. /\ Counted(s) \in SUBSET Requests /\ Counted(s)' \in SUBSET Requests
            /\ Counted(s) \cup {r} \in SUBSET Requests
        BY DEF Counted
      <4>2. /\ Cardinality(Counted(s)') <= Cardinality(Counted(s) \cup {r})
            /\ Cardinality(Counted(s) \cup {r}) <= Cardinality(Counted(s)) + 1
            /\ Cardinality(Counted(s)) \in Nat
            /\ Cardinality(Counted(s)') \in Nat
            /\ Cardinality(Counted(s) \cup {r}) \in Nat
        <5>1. CASE r \in Counted(s)
          <6>1. Counted(s) \cup {r} = Counted(s)
            BY <5>1
          <6> QED  BY <3>1, <4>1, <6>1, Counting
        <5>2. CASE r \notin Counted(s)
          BY <3>1, <4>1, <5>2, Counting
        <5> QED  BY <5>1, <5>2
      <4>3. Cardinality(Counted(s)) <= snapshot[s].depth
        BY DEF DepthInv, Depth
      <4>4. snapshot'[s].depth = snapshot[s].depth + 1 /\ snapshot[s].depth \in Nat
        BY <1>a, <2>1, <2>2, <2>3, <2>5 DEF Snapshot
      <4> QED  BY <4>2, <4>3, <4>4 DEF Depth
    <3>4. \A t \in Sessions \ rows' : Counted(t)' = {}
      BY <2>1, <3>1 DEF DepthInv
    <3> QED  BY <2>1, <3>2, <3>3, <3>4 DEF DepthInv
  <2> QED  BY <2>4, <2>5
<1>7. ASSUME NEW r \in Requests, PutCommand(r) PROVE DepthInv'
  <2>1. UNCHANGED <<rows, snapshot, cmd>> /\ pc[r] = "put_command"
    BY <1>7 DEF PutCommand
  <2> QED  BY <1>7, <1>c, <1>q, <2>1 DEF Step
<1>8. CASE UNCHANGED vars
  BY <1>8 DEF vars, DepthInv, Depth, Counted
<1> QED
  BY <1>1, <1>2, <1>3, <1>4, <1>5, <1>6, <1>7, <1>8 DEF Next, Step

\* No accepted message is lost from the queue depth of its session.
THEOREM DepthLosesNothing == ASSUME Serial PROVE Spec => []DepthCountsAccepted
<1>1. IInv /\ IInv' /\ SerialInv /\ ReceiptInv /\ DepthInv /\ [Next]_vars
        => DepthInv'
  BY NextDepth DEF IInv
<1>2. ASSUME Typed, DepthInv PROVE DepthCountsAccepted
  <2>1. ASSUME NEW s \in rows
        PROVE  Cardinality({r \in Requests : /\ reply[r].outcome = "ok"
                                             /\ cmd[r].kind = "submit_message"
                                             /\ cmd[r].session = s})
                 <= snapshot[s].depth
    <3> DEFINE ok == {r \in Requests : /\ reply[r].outcome = "ok"
                                       /\ cmd[r].kind = "submit_message"
                                       /\ cmd[r].session = s}
    <3>1. ok \subseteq Counted(s) /\ Counted(s) \subseteq Requests
      BY DEF Counted
    <3>2. /\ Cardinality(ok) <= Cardinality(Counted(s))
          /\ Cardinality(ok) \in Nat /\ Cardinality(Counted(s)) \in Nat
      BY <3>1, Counting
    <3>3. /\ Cardinality(Counted(s)) <= snapshot[s].depth
          /\ snapshot[s].depth \in Nat
      BY <1>2 DEF DepthInv, Depth, Typed, TypeOK, Snapshot
    <3> HIDE DEF ok
    <3>4. Cardinality(ok) <= snapshot[s].depth
      BY <3>2, <3>3
    <3> QED  BY <3>4 DEF ok
  <2> QED  BY <2>1 DEF DepthCountsAccepted
<1>3. IInv /\ DepthInv => DepthCountsAccepted
  BY <1>2 DEF IInv
<1>4. Init => DepthInv
  BY InitDepth
<1> QED  BY <1>1, <1>3, <1>4, SpecIInv, SpecSerial, SpecReceipt, PTL DEF Spec

\* attach, the one kind that a client without control may submit, moves no
\* session from one state to another.
THEOREM AttachIsReadOnly == ASSUME Serial PROVE Spec => AttachKeepsState
<1> DEFINE Kept == \A r \in Requests : cmd[r].kind = "attach" /\ pc'[r] # pc[r] =>
                     \A s \in Sessions : snapshot'[s].state = snapshot[s].state
<1>1. ASSUME Typed, SerialInv, ReceiptInv, [Next]_vars PROVE [Kept]_vars
  <2>a. /\ cmd \in [Requests -> Command] /\ snap \in [Requests -> Snapshot]
        /\ snapshot \in [Sessions -> Snapshot] /\ rows \subseteq Sessions
    BY <1>1 DEF Typed, TypeOK
  <2>1. ASSUME NEW r \in Requests, Start(r) \/ Step(r) \/ Fail(r),
               cmd[r].kind = "attach", NEW s \in Sessions
        PROVE  snapshot'[s].state = snapshot[s].state
    <3>1. CASE Start(r) \/ Fail(r)
      BY <3>1 DEF Start, Fail, CreateSession, SubmitForbidden, Submit, store
    <3>2. CASE NewRow(r) \/ NewSave(r)
      BY <1>1, <2>1, <3>2 DEF NewRow, NewSave, ReceiptInv, ReceiptOK
    <3>3. CASE PutSnapshot(r)
      BY <1>1, <2>1, <3>3 DEF PutSnapshot, Typed, TaskOK, EventOf
    <3>4. CASE PutReceipt(r)
      <4>1. /\ cmd[r].session \in rows /\ pc[r] = "put_receipt"
            /\ snapshot' = [snapshot EXCEPT ![cmd[r].session] = snap[r]]
        BY <1>1, <3>4 DEF PutReceipt, Typed, TaskOK, Serving
      <4>2. Row(r) \in Snapshot
        BY <2>a, <4>1 DEF Row
      <4>3. snap[r].state = Row(r).state
        BY <1>1, <2>1, <4>1, <4>2, ApplyFields DEF SerialInv, CopyOK, StateAfter
      <4> QED  BY <2>a, <4>1, <4>3 DEF Row
    <3>5. CASE \/ NewEvent(r) \/ FindReceipt(r) \/ Check(r) \/ NextSequence(r)
               \/ AppendEvent(r) \/ MarkDeleted(r) \/ PutCommand(r)
      BY <3>5 DEF NewEvent, FindReceipt, Check, NextSequence, AppendEvent,
         MarkDeleted, PutCommand, store
    <3> QED  BY <2>1, <3>1, <3>2, <3>3, <3>4, <3>5 DEF Step
  <2>2. CASE Next
    <3>1. PICK r \in Requests : Start(r) \/ Step(r) \/ Fail(r)
      BY <2>2 DEF Next
    <3>2. \A q \in Requests : pc'[q] # pc[q] => q = r
      BY <1>1, <3>1, StepOfOne
    <3> QED  BY <2>1, <3>1, <3>2
  <2> QED  BY <1>1, <2>2
<1>2. IInv /\ SerialInv /\ ReceiptInv /\ [Next]_vars => [Kept]_vars
  BY <1>1 DEF IInv
<1> QED  BY <1>2, SpecIInv, SpecSerial, SpecReceipt, PTL DEF Spec, AttachKeepsState

-----------------------------------------------------------------------------
(* Streams: the writers may race, and connections break *)

Received(c) == Len(received[c])

\* What a stream task has fetched: the events that follow the frames its client
\* has, without a hole and one of each number.
BatchOK(c) ==
  /\ \A d, e \in pending[c] : d.sequence = e.sequence => d = e
  /\ \A e \in pending[c] : e.sequence > Received(c)
  /\ \A e \in pending[c] : \A k \in Received(c) + 1 .. e.sequence :
       \E d \in pending[c] : d.sequence = k

StreamInv ==
  /\ IInv
  /\ StreamTypeOK
  /\ DeliveredOnceInOrder
  /\ \A c \in Clients : BatchOK(c)
  /\ \A c \in open : cursor[c] = Received(c)

\* The id a client passes when it comes back is the number of frames it has.
LEMMA LastIdIsCount ==
  ASSUME StreamInv, NEW c \in Clients
  PROVE  LastId(c) = Received(c) /\ Received(c) \in Nat
<1>1. received[c] \in Seq(Event) /\ Received(c) \in Nat
  BY DEF StreamInv, StreamTypeOK, Received
<1>2. CASE received[c] = <<>>
  BY <1>1, <1>2 DEF LastId, Received
<1>3. CASE received[c] # <<>>
  <2>1. Len(received[c]) \in 1 .. Len(received[c])
    BY <1>1, <1>3
  <2> QED  BY <1>1, <1>3, <2>1 DEF LastId, Received, StreamInv, DeliveredOnceInOrder
<1> QED  BY <1>2, <1>3

\* A fetch from a gap-free log gives a batch that continues what the client has.
LEMMA FetchedBatch ==
  ASSUME StreamInv, NEW c \in Clients,
         pending'[c] = EventsAfter(Received(c)), received' = received
  PROVE  BatchOK(c)' /\ pending'[c] \subseteq Event
<1>1. Received(c) \in Nat /\ Received(c)' = Received(c)
  BY LastIdIsCount DEF Received
<1>2. events \subseteq Event /\ LogGapFree
  BY DEF StreamInv, IInv, Typed, TypeOK
<1>3. \A e \in pending'[c] : e \in events /\ e.session = Watched /\ e.sequence > Received(c)
                             /\ e.sequence \in Nat
  BY <1>2 DEF EventsAfter, Event
<1>4. \A d, e \in pending'[c] : d.sequence = e.sequence => d = e
  BY <1>2, <1>3 DEF LogGapFree
<1>5. ASSUME NEW e \in pending'[c], NEW k \in Received(c) + 1 .. e.sequence
      PROVE  \E d \in pending'[c] : d.sequence = k
  <2>1. k \in 1 .. e.sequence /\ k > Received(c)
    BY <1>1, <1>3, <1>5
  <2>2. PICK d \in events : d.session = Watched /\ d.sequence = k
    BY <1>2, <1>3, <2>1 DEF LogGapFree, Sequences
  <2> QED  BY <2>1, <2>2 DEF EventsAfter
<1> QED  BY <1>1, <1>2, <1>3, <1>4, <1>5 DEF BatchOK

\* The frame with the least number is the next one the client lacks.
LEMMA SentIsNext ==
  ASSUME StreamInv, NEW c \in Clients, NEW e \in pending[c],
         \A d \in pending[c] : e.sequence <= d.sequence
  PROVE  e.sequence = Received(c) + 1
<1>1. Received(c) \in Nat
  BY LastIdIsCount
<1>2. e.sequence \in Nat /\ \A d \in pending[c] : d.sequence \in Nat
  BY DEF StreamInv, StreamTypeOK, Event
<1>3. e.sequence > Received(c)
  BY DEF StreamInv, BatchOK
<1>4. PICK d \in pending[c] : d.sequence = Received(c) + 1
  <2>1. Received(c) + 1 \in Received(c) + 1 .. e.sequence
    BY <1>1, <1>2, <1>3
  <2> QED  BY <2>1 DEF StreamInv, BatchOK
<1> QED  BY <1>1, <1>2, <1>3, <1>4

\* Nobody has connected yet.
LEMMA InitStreamInv == StreamInit => StreamInv
<1> SUFFICES ASSUME StreamInit PROVE StreamInv
  OBVIOUS
<1>1. IInv
  BY InitIInv DEF StreamInit
<1>2. StreamTypeOK
  <2>1. \A c \in Clients : received[c] = <<>> /\ <<>> \in Seq(Event)
    BY DEF StreamInit
  <2> QED  BY <2>1, BreaksAssumption DEF StreamInit, StreamTypeOK
<1>3. \A c \in Clients : received[c] = <<>> /\ Len(received[c]) = 0 /\ pending[c] = {}
  BY DEF StreamInit
<1>4. DeliveredOnceInOrder /\ \A c \in Clients : BatchOK(c)
  BY <1>3 DEF DeliveredOnceInOrder, BatchOK
<1> QED  BY <1>1, <1>2, <1>4 DEF StreamInv, StreamInit

\* A stream ends and drops what it had fetched.
LEMMA CloseStep ==
  ASSUME StreamInv, NEW c \in Clients, Close(c),
         UNCHANGED <<vars, cursor, received>>, listening' \in BOOLEAN, breaks' \in 0 .. MaxBreaks
  PROVE  StreamInv'
<1>1. IInv'
  BY NextIInv DEF StreamInv, vars
<1>2. StreamTypeOK'
  BY DEF StreamInv, StreamTypeOK, Close
<1>3. \A d \in Clients : Received(d)' = Received(d) /\ pending'[d] \subseteq pending[d]
                         /\ (d = c => pending'[d] = {}) /\ (d # c => pending'[d] = pending[d])
  BY DEF Received, Close, StreamInv, StreamTypeOK
<1>4. \A d \in Clients : BatchOK(d)'
  BY <1>3 DEF StreamInv, BatchOK
<1>5. DeliveredOnceInOrder' /\ \A d \in open' : cursor'[d] = Received(d)'
  BY <1>3 DEF StreamInv, StreamTypeOK, DeliveredOnceInOrder, Close, Received
<1> QED  BY <1>1, <1>2, <1>4, <1>5 DEF StreamInv

\* Only fetches fill a batch, only sending moves a client and its cursor on.
LEMMA NextStreamInv == StreamInv /\ [StreamNext]_allVars => StreamInv'
<1> SUFFICES ASSUME StreamInv, [StreamNext]_allVars PROVE StreamInv'
  OBVIOUS
<1>1. CASE Next /\ UNCHANGED streamVars
  <2>1. IInv'
    BY <1>1, NextIInv DEF StreamInv
  <2>2. UNCHANGED <<listening, open, told, cursor, pending, received, breaks>>
    BY <1>1 DEF streamVars
  <2> QED  BY <2>1, <2>2 DEF StreamInv, StreamTypeOK, DeliveredOnceInOrder, BatchOK, Received
<1>2. ASSUME NEW c \in Clients, Connect(c) \/ Poll(c) PROVE StreamInv'
  <2>1. IInv'
    BY <1>2, NextIInv DEF StreamInv, vars, Connect, Poll
  <2>2. /\ UNCHANGED <<listening, told, received, breaks>>
        /\ open' = open \cup {c} /\ cursor' = [cursor EXCEPT ![c] = Received(c)]
        /\ pending' = [pending EXCEPT ![c] = EventsAfter(Received(c))]
    BY <1>2, LastIdIsCount DEF Connect, Poll, StreamInv, StreamTypeOK
  <2>3. BatchOK(c)' /\ pending'[c] \subseteq Event
    BY <2>2, FetchedBatch DEF StreamInv, StreamTypeOK
  <2>4. \A d \in Clients \ {c} : pending'[d] = pending[d] /\ cursor'[d] = cursor[d]
    BY <2>2 DEF StreamInv, StreamTypeOK
  <2>5. StreamTypeOK'
    BY <2>2, <2>3, <2>4, LastIdIsCount DEF StreamInv, StreamTypeOK
  <2>6. \A d \in Clients : BatchOK(d)'
    BY <2>2, <2>3, <2>4 DEF StreamInv, BatchOK, Received
  <2>7. DeliveredOnceInOrder' /\ \A d \in open' : cursor'[d] = Received(d)'
    BY <2>2, <2>4 DEF StreamInv, StreamTypeOK, DeliveredOnceInOrder, Received
  <2> QED  BY <2>1, <2>5, <2>6, <2>7 DEF StreamInv
<1>3. ASSUME NEW c \in Clients, Send(c) PROVE StreamInv'
  <2>1. IInv'
    BY <1>3, NextIInv DEF StreamInv, vars, Send
  <2>2. PICK e \in pending[c] :
          /\ \A d \in pending[c] : e.sequence <= d.sequence
          /\ pending' = [pending EXCEPT ![c] = @ \ {e}]
          /\ cursor' = [cursor EXCEPT ![c] = e.sequence]
          /\ received' = [received EXCEPT ![c] = Append(@, e)]
    BY <1>3 DEF Send
  <2>3. UNCHANGED <<listening, open, told, breaks>> /\ c \in open
    BY <1>3 DEF Send
  <2>4. e.sequence = Received(c) + 1 /\ Received(c) \in Nat /\ e \in Event
    BY <2>2, SentIsNext, LastIdIsCount DEF StreamInv, StreamTypeOK
  <2>5. /\ received'[c] = Append(received[c], e) /\ pending'[c] = pending[c] \ {e}
        /\ cursor'[c] = e.sequence /\ received[c] \in Seq(Event)
        /\ \A d \in Clients \ {c} : received'[d] = received[d] /\ pending'[d] = pending[d]
                                    /\ cursor'[d] = cursor[d]
    BY <2>2 DEF StreamInv, StreamTypeOK
  <2>6. /\ received'[c] \in Seq(Event) /\ Received(c)' = Received(c) + 1
        /\ received'[c][Received(c) + 1] = e
        /\ \A i \in 1 .. Received(c) : received'[c][i] = received[c][i]
    BY <2>4, <2>5 DEF Received
  <2>7. StreamTypeOK'
    BY <2>2, <2>3, <2>4, <2>5, <2>6 DEF StreamInv, StreamTypeOK, Event
  <2>8. DeliveredOnceInOrder'
    <3> SUFFICES ASSUME NEW d \in Clients, NEW i \in 1 .. Len(received'[d])
                 PROVE  received'[d][i].sequence = i
      BY DEF DeliveredOnceInOrder
    <3>1. CASE d # c
      BY <2>5, <3>1 DEF StreamInv, DeliveredOnceInOrder
    <3>2. CASE d = c /\ i = Received(c) + 1
      BY <2>4, <2>6, <3>2
    <3>3. CASE d = c /\ i # Received(c) + 1
      <4>1. i \in 1 .. Received(c)
        BY <2>4, <2>6, <3>3 DEF Received
      <4> QED  BY <2>6, <3>3, <4>1 DEF StreamInv, DeliveredOnceInOrder, Received
    <3> QED  BY <3>1, <3>2, <3>3
  <2>9. \A d \in Clients : BatchOK(d)'
    <3>1. ASSUME NEW d \in Clients, d # c PROVE BatchOK(d)'
      BY <2>5, <3>1 DEF StreamInv, BatchOK, Received
    <3>2. BatchOK(c)'
      <4>1. \A d \in pending[c] : d.sequence \in Nat
        BY DEF StreamInv, StreamTypeOK, Event
      <4>2. \A d \in pending'[c] : d \in pending[c] /\ d.sequence > Received(c) + 1
        BY <2>2, <2>4, <2>5, <4>1 DEF StreamInv, BatchOK
      <4>3. ASSUME NEW f \in pending'[c], NEW k \in Received(c) + 2 .. f.sequence
            PROVE  \E d \in pending'[c] : d.sequence = k
        <5>1. k \in Received(c) + 1 .. f.sequence /\ k # e.sequence
          BY <2>4, <4>1, <4>2
        <5>2. PICK d \in pending[c] : d.sequence = k
          BY <4>2, <5>1 DEF StreamInv, BatchOK
        <5> QED  BY <2>5, <5>1, <5>2
      <4>4. Received(c)' + 1 = Received(c) + 2
        BY <2>4, <2>6
      <4> QED  BY <2>5, <2>6, <4>2, <4>3, <4>4 DEF StreamInv, BatchOK
    <3> QED  BY <3>1, <3>2
  <2>10. \A d \in open' : cursor'[d] = Received(d)'
    BY <2>3, <2>4, <2>5, <2>6 DEF StreamInv, StreamTypeOK, Received
  <2> QED  BY <2>1, <2>7, <2>8, <2>9, <2>10 DEF StreamInv
<1>4. ASSUME NEW c \in Clients, Shutdown(c) \/ Disconnect(c) PROVE StreamInv'
  <2>1. Close(c) /\ UNCHANGED <<vars, cursor, received, listening>>
    BY <1>4 DEF Shutdown, Disconnect
  <2>2. listening' \in BOOLEAN /\ breaks' \in 0 .. MaxBreaks
    BY <1>4, BreaksAssumption DEF StreamInv, StreamTypeOK, Shutdown, Disconnect
  <2> QED  BY <2>1, <2>2, CloseStep
<1>5. CASE Stop \/ StartServer
  <2>1. IInv'
    BY <1>5, NextIInv DEF StreamInv, vars, Stop, StartServer
  <2>2. UNCHANGED <<open, cursor, pending, received>>
    BY <1>5 DEF Stop, StartServer
  <2>3. StreamTypeOK'
    <3>1. CASE Stop
      <4>1. breaks' \in 0 .. MaxBreaks
        BY <3>1, BreaksAssumption DEF StreamInv, StreamTypeOK, Stop
      <4> QED  BY <2>2, <3>1, <4>1 DEF StreamInv, StreamTypeOK, Stop
    <3>2. CASE StartServer
      BY <3>2 DEF StreamInv, StreamTypeOK, StartServer
    <3> QED  BY <1>5, <3>1, <3>2
  <2> QED  BY <2>1, <2>2, <2>3 DEF StreamInv, DeliveredOnceInOrder, BatchOK, Received
<1>6. CASE UNCHANGED allVars
  <2>1. IInv'
    BY <1>6, NextIInv DEF StreamInv, allVars
  <2>2. UNCHANGED <<listening, open, told, cursor, pending, received, breaks>>
    BY <1>6 DEF allVars, streamVars
  <2> QED  BY <2>1, <2>2 DEF StreamInv, StreamTypeOK, DeliveredOnceInOrder, BatchOK, Received
<1> QED  BY <1>1, <1>2, <1>3, <1>4, <1>5, <1>6 DEF StreamNext

\* Every reachable state has these batches and cursors.
LEMMA SpecStreamInv == StreamSpec => []StreamInv
BY InitStreamInv, NextStreamInv, PTL DEF StreamSpec

\* The stream tasks and their connections keep their types.
THEOREM StreamTypes == StreamSpec => []StreamTypeOK
<1>1. StreamInv => StreamTypeOK
  BY DEF StreamInv
<1> QED  BY <1>1, SpecStreamInv, PTL

\* The frames a client gets are numbered 1, 2, 3, ... over all its connections, also
\* when two writers mint the same sequence and one event replaces the other.
THEOREM NoFrameLostOrRepeated == StreamSpec => []DeliveredOnceInOrder
<1>1. StreamInv => DeliveredOnceInOrder
  BY DEF StreamInv
<1> QED  BY <1>1, SpecStreamInv, PTL

\* The frames that a client has, and those that its task has fetched, are in the log.
PrefixInv ==
  \A c \in Clients : /\ \A i \in 1 .. Len(received[c]) : received[c][i] \in events
                     /\ pending[c] \subseteq events

\* Streams only read what the service does.
LEMMA StreamsOnlyRead == StreamSpec => Spec
<1>1. StreamInit => Init
  BY DEF StreamInit
<1>2. [StreamNext]_allVars => [Next]_vars
  <2> SUFFICES ASSUME [StreamNext]_allVars PROVE [Next]_vars
    OBVIOUS
  <2>1. CASE UNCHANGED allVars
    BY <2>1 DEF allVars
  <2>2. CASE StreamNext
    BY <2>2 DEF StreamNext, Connect, Send, Poll, Shutdown, Disconnect, Stop, StartServer
  <2> QED  BY <2>1, <2>2
<1> QED  BY <1>1, <1>2, PTL DEF StreamSpec, Spec

\* A fetch reads the log, a frame that is sent was fetched, and the log only grows.
LEMMA NextPrefix ==
  ASSUME StreamInv, PrefixInv, events \subseteq events', [StreamNext]_allVars
  PROVE  PrefixInv'
<1>a. /\ received \in [Clients -> Seq(Event)] /\ pending \in [Clients -> SUBSET Event]
      /\ cursor \in [Clients -> Nat]
  BY DEF StreamInv, StreamTypeOK
<1>1. CASE UNCHANGED <<received, pending>>
  BY <1>1 DEF PrefixInv
<1>2. ASSUME NEW c \in Clients, Connect(c) \/ Poll(c) PROVE PrefixInv'
  <2>1. received' = received /\ \E n : pending' = [pending EXCEPT ![c] = EventsAfter(n)]
    BY <1>2 DEF Connect, Poll
  <2>2. \A d \in Clients : pending'[d] \subseteq events
    BY <1>a, <2>1 DEF EventsAfter, PrefixInv
  <2> QED  BY <2>1, <2>2 DEF PrefixInv
<1>3. ASSUME NEW c \in Clients, Send(c) PROVE PrefixInv'
  <2>1. PICK e \in pending[c] : /\ pending' = [pending EXCEPT ![c] = @ \ {e}]
                                /\ received' = [received EXCEPT ![c] = Append(@, e)]
    BY <1>3 DEF Send
  <2>2. e \in events /\ e \in Event
    BY <1>a, <2>1 DEF PrefixInv
  <2>3. /\ received'[c] = Append(received[c], e) /\ received[c] \in Seq(Event)
        /\ \A d \in Clients \ {c} : received'[d] = received[d]
        /\ \A d \in Clients : pending'[d] \subseteq pending[d]
    BY <1>a, <2>1
  <2>4. \A i \in 1 .. Len(received'[c]) : received'[c][i] \in events
    <3>1. Len(received[c]) \in Nat /\ Len(received'[c]) = Len(received[c]) + 1
      BY <2>2, <2>3
    <3>2. /\ received'[c][Len(received[c]) + 1] = e
          /\ \A i \in 1 .. Len(received[c]) : received'[c][i] = received[c][i]
      BY <2>2, <2>3
    <3>3. \A i \in 1 .. Len(received'[c]) :
            i \in 1 .. Len(received[c]) \/ i = Len(received[c]) + 1
      BY <3>1
    <3> QED  BY <2>2, <3>2, <3>3 DEF PrefixInv
  <2> QED  BY <2>3, <2>4 DEF PrefixInv
<1>4. ASSUME NEW c \in Clients, Shutdown(c) \/ Disconnect(c) PROVE PrefixInv'
  <2>1. received' = received /\ pending' = [pending EXCEPT ![c] = {}]
    BY <1>4 DEF Shutdown, Disconnect, Close
  <2>2. \A d \in Clients : pending'[d] \subseteq pending[d]
    BY <1>a, <2>1
  <2> QED  BY <2>1, <2>2 DEF PrefixInv
<1>5. \/ UNCHANGED <<received, pending>>
      \/ \E c \in Clients : Connect(c) \/ Poll(c)
      \/ \E c \in Clients : Send(c)
      \/ \E c \in Clients : Shutdown(c) \/ Disconnect(c)
  BY DEF StreamNext, streamVars, allVars, Stop, StartServer
<1> QED  BY <1>1, <1>2, <1>3, <1>4, <1>5

\* Where writers wait for one another what a client has received is the beginning of
\* the log, over any breaks and restarts: no frame it got is ever replaced.
THEOREM ReceivedStaysInLog == ASSUME Serial PROVE StreamSpec => []ReceivedIsLogPrefix
<1>1. StreamInit => PrefixInv
  <2>1. ASSUME StreamInit, NEW c \in Clients PROVE Len(received[c]) = 0 /\ pending[c] = {}
    BY <2>1 DEF StreamInit
  <2> QED  BY <2>1 DEF PrefixInv
<1>2. Typed /\ Typed' /\ MintInv /\ [Next]_vars => events \subseteq events'
  <2> SUFFICES ASSUME Typed, Typed', MintInv, [Next]_vars PROVE events \subseteq events'
    OBVIOUS
  <2>1. CASE UNCHANGED vars
    BY <2>1 DEF vars
  <2>2. ASSUME NEW r \in Requests, Start(r) \/ Step(r) \/ Fail(r)
        PROVE  events \subseteq events'
    BY <2>2, LogKeeps
  <2>3. CASE Next
    <3>1. PICK r \in Requests : Start(r) \/ Step(r) \/ Fail(r)
      BY <2>3 DEF Next
    <3> QED  BY <2>2, <3>1
  <2> QED  BY <2>1, <2>3
<1>3. StreamInv /\ PrefixInv /\ [StreamNext]_allVars
        /\ Typed /\ Typed' /\ MintInv /\ [Next]_vars => PrefixInv'
  BY <1>2, NextPrefix
<1>4. Spec => []Typed
  BY InitTyped, NextTyped, PTL DEF Spec
<1>5. Spec => [][Next]_vars
  BY PTL DEF Spec
<1>6. PrefixInv => ReceivedIsLogPrefix
  BY DEF PrefixInv, ReceivedIsLogPrefix
<1> QED  BY <1>1, <1>3, <1>4, <1>5, <1>6, SpecMint, SpecStreamInv, StreamsOnlyRead, PTL
         DEF StreamSpec
=============================================================================
