-------------------------------- MODULE Approvals --------------------------------
(***************************************************************************)
(* The confirmation of tool calls in the terminal interface: the executor  *)
(* (external) announces a call and then waits at TuiApprovalGate, the main *)
(* loop puts announced calls into the ApprovalQueue or approves them by    *)
(* rule, and the keys of the user answer the queue's focused entry.        *)
(***************************************************************************)
EXTENDS Naturals, Sequences, FiniteSets

CONSTANTS
  Calls,       \* tool calls (tool_use_id), each made once
  Safe,        \* the calls that AutoApproveConfig::check approves
  Early,       \* whether an announced call may be answered before it waits
  MayExpire,   \* whether the 120 seconds of a waiting call may pass
  MayDetach,   \* whether the user detaches the pipeline and takes it back
  MaxSkips     \* how often the user presses [s]

VARIABLES
  tool,      \* the executor's side of each call
  gate,      \* calls whose sender is registered at the gate
  events,    \* announcements on their way to the main loop
  pending,   \* the queue
  focused_idx,
  record,    \* what the queue recorded for each call
  detached,  \* bg_mode
  cancelled, \* cancel_all was called: the session ends
  skips

vars == <<tool, gate, events, pending, focused_idx, record, detached, cancelled, skips>>

Init ==
  /\ tool = [c \in Calls |-> "idle"]
  /\ gate = {} /\ events = <<>> /\ pending = <<>> /\ focused_idx = 0
  /\ record = [c \in Calls |-> "none"]
  /\ detached = FALSE /\ cancelled = FALSE /\ skips = 0

-----------------------------------------------------------------------------
(* The executor and TuiApprovalGate::request *)

Announce(c) ==
  /\ tool[c] = "idle" /\ ~cancelled
  /\ events' = Append(events, c)
  /\ IF Early THEN tool' = [tool EXCEPT ![c] = "announced"] /\ UNCHANGED gate
     ELSE tool' = [tool EXCEPT ![c] = "waiting"] /\ gate' = gate \cup {c}
  /\ UNCHANGED <<pending, focused_idx, record, detached, cancelled, skips>>

Wait(c) ==
  /\ tool[c] = "announced"
  /\ tool' = [tool EXCEPT ![c] = "waiting"]
  /\ gate' = gate \cup {c}
  /\ UNCHANGED <<events, pending, focused_idx, record, detached, cancelled, skips>>

\* The timer fires; the entry of the gate is removed under the lock, a step later.
Expire(c) ==
  /\ MayExpire /\ tool[c] = "waiting"
  /\ tool' = [tool EXCEPT ![c] = "expired"]
  /\ UNCHANGED <<gate, events, pending, focused_idx, record, detached, cancelled, skips>>

CleanUp(c) ==
  /\ tool[c] = "expired"
  /\ tool' = [tool EXCEPT ![c] = "rejected"]
  /\ gate' = gate \ {c}
  /\ UNCHANGED <<events, pending, focused_idx, record, detached, cancelled, skips>>

-----------------------------------------------------------------------------
(* The main loop.  Decisions go to the gate in the step that makes them.   *)

\* respond: an answer reaches a registered call that still waits.
Slip_respond(answers) ==
  /\ gate' = gate \ DOMAIN answers
  /\ tool' = [c \in Calls |-> IF c \in gate THEN "approved" ELSE tool[c]]
respond(answers) ==
  /\ gate' = gate \ DOMAIN answers
  /\ tool' = [c \in Calls |->
       IF c \in DOMAIN answers \cap gate /\ tool[c] = "waiting"
       THEN IF answers[c] = "rejected" THEN "rejected" ELSE "approved"
       ELSE tool[c]]

NoAnswer == UNCHANGED <<gate, tool>>

\* ToolPendingApproval: push, and in the foreground the decision of a rule is
\* sent; in the background it is dropped.
HandlePending ==
  /\ events # <<>>
  /\ events' = Tail(events)
  /\ LET c == Head(events)
     IN IF c \in Safe
        THEN /\ record' = [record EXCEPT ![c] = "auto"]
             /\ UNCHANGED pending
             /\ IF detached THEN NoAnswer ELSE respond([d \in {c} |-> "auto"])
        ELSE pending' = Append(pending, c) /\ UNCHANGED record /\ NoAnswer
  /\ UNCHANGED <<focused_idx, detached, cancelled, skips>>

Smaller(a, b) == IF a < b THEN a ELSE b
Without(s, k) == SubSeq(s, 1, k - 1) \o SubSeq(s, k + 1, Len(s))

\* Slip: the focus stays behind the end of the queue.
Slip_resolve_focused(decision) ==
  /\ pending # <<>>
  /\ LET idx == Smaller(focused_idx, Len(pending) - 1) + 1
     IN /\ pending' = Without(pending, idx)
        /\ record' = [record EXCEPT ![pending[idx]] = decision]
        /\ UNCHANGED focused_idx
        /\ respond([c \in {pending[idx]} |-> decision])
  /\ UNCHANGED <<events, detached, cancelled, skips>>

\* Slip: the focus moves back also from the first entry.
Slip_focus_below(decision) ==
  /\ pending # <<>>
  /\ LET idx == Smaller(focused_idx, Len(pending) - 1) + 1
         left == Len(pending) - 1
     IN /\ pending' = Without(pending, idx)
        /\ record' = [record EXCEPT ![pending[idx]] = decision]
        /\ focused_idx' = IF focused_idx >= left THEN focused_idx - 1 ELSE focused_idx
        /\ respond([c \in {pending[idx]} |-> decision])
  /\ UNCHANGED <<events, detached, cancelled, skips>>

\* resolve_focused, for [a] and [r]; a sequence counts from 1, focused_idx from 0.
resolve_focused(decision) ==
  /\ pending # <<>>
  /\ LET idx == Smaller(focused_idx, Len(pending) - 1) + 1
         left == Len(pending) - 1
     IN /\ pending' = Without(pending, idx)
        /\ record' = [record EXCEPT ![pending[idx]] = decision]
        /\ focused_idx' = IF focused_idx >= left /\ focused_idx > 0
                          THEN focused_idx - 1 ELSE focused_idx
        /\ respond([c \in {pending[idx]} |-> decision])
  /\ UNCHANGED <<events, detached, cancelled, skips>>

\* [s]
focus_next ==
  /\ pending # <<>> /\ skips < MaxSkips
  /\ skips' = skips + 1
  /\ focused_idx' = (focused_idx + 1) % Len(pending)
  /\ UNCHANGED <<tool, gate, events, pending, record, detached, cancelled>>

Detach ==
  /\ MayDetach
  /\ detached' = ~detached
  /\ UNCHANGED <<tool, gate, events, pending, focused_idx, record, cancelled, skips>>

\* The end of the program, and /cancel: every call at the gate is rejected.  The
\* queue keeps its entries.
cancel_all ==
  /\ ~cancelled /\ cancelled' = TRUE
  /\ tool' = [c \in Calls |-> IF c \in gate /\ tool[c] = "waiting" THEN "rejected" ELSE tool[c]]
  /\ gate' = {}
  /\ UNCHANGED <<events, pending, focused_idx, record, detached, skips>>

Next ==
  \/ \E c \in Calls : Announce(c) \/ Wait(c) \/ Expire(c) \/ CleanUp(c)
  \/ HandlePending \/ focus_next \/ Detach \/ cancel_all
  \/ \E decision \in {"approved", "rejected"} : resolve_focused(decision)

\* Nobody makes the user press a key; the rest is scheduled by tokio.
Fairness ==
  /\ \A c \in Calls : WF_vars(Wait(c)) /\ WF_vars(Expire(c)) /\ WF_vars(CleanUp(c))
  /\ WF_vars(HandlePending)

Spec == Init /\ [][Next]_vars /\ Fairness

-----------------------------------------------------------------------------
(* Properties *)

Decided == {c \in Calls : tool[c] \in {"approved", "rejected"}}

TypeOK ==
  /\ tool \in [Calls -> {"idle", "announced", "waiting", "expired", "approved", "rejected"}]
  /\ gate \subseteq Calls
  /\ events \in Seq(Calls) /\ pending \in Seq(Calls)
  /\ focused_idx \in Nat /\ skips \in Nat
  /\ record \in [Calls -> {"none", "auto", "approved", "rejected"}]
  /\ detached \in BOOLEAN /\ cancelled \in BOOLEAN

\* A tool runs only after this very call was approved, by a rule or a key, and
\* never after it was rejected, whatever expired or was detached in between.
RunsOnlyApproved == \A c \in Calls :
  tool[c] = "approved" => record[c] \in {"auto", "approved"}

Members(s) == {s[k] : k \in DOMAIN s}
Distinct(s) == \A j, k \in DOMAIN s : s[j] = s[k] => j = k
Recorded == {c \in Calls : record[c] # "none"}

\* Each announced call is at one place: on its way, in the queue or on record; and
\* the focus stays on an entry of the queue.
QueueIsConsistent ==
  /\ Distinct(events) /\ Distinct(pending)
  /\ Members(events) \cap Members(pending) = {}
  /\ Recorded \cap (Members(events) \cup Members(pending)) = {}
  /\ Recorded \cup Members(events) \cup Members(pending) = {c \in Calls : tool[c] # "idle"}
  /\ pending # <<>> => focused_idx < Len(pending)

\* A recorded decision has reached its call: none goes on waiting for it.
AnswersAreHeard == \A c \in Recorded :
  c \notin gate /\ tool[c] \in {"approved", "rejected", "expired"}

\* Decisions are heard where calls wait before they are announced, and stay in the
\* foreground: in the background "it resolves normally once the pipeline is
\* re-attached", state.rs:1841, is not so.
QueueAgreesWithGate ==
  /\ QueueIsConsistent
  /\ ~Early /\ ~MayDetach => AnswersAreHeard

\* Every call is answered in the end, without the user too.
CallsAreAnswered == []<>(\A c \in Calls : tool[c] # "idle" => c \in Decided)

\* "When the agent is blocked waiting for approval, a/r/s resolve it"
\* (state.rs:2264): the key that resolves an entry answers a call that waits.
KeyStep ==
  /\ Len(pending') < Len(pending)
  /\ \E k \in DOMAIN pending : tool[pending[k]] = "waiting"
  => gate' # gate
KeyAnswersWaitingCall == [][KeyStep]_vars
=============================================================================
