---------------------------- MODULE SessionStream ----------------------------
(***************************************************************************)
(* The /stream route of the local session server (transport.rs): each      *)
(* subscriber has a task that sends the events it has fetched, one frame   *)
(* at a time, and then polls the log of SessionService after its cursor,   *)
(* until the client goes away or the server is stopped.  A client that     *)
(* comes back passes the id of the last frame it received.                 *)
(***************************************************************************)
EXTENDS SessionService, Sequences

CONSTANTS
  Clients,          \* subscribers
  Watched,          \* the session they subscribe to
  MaxBreaks         \* how often connections break, and the server stops

ASSUME WatchedAssumption == Watched \in Existing
ASSUME BreaksAssumption == MaxBreaks \in Nat

VARIABLES
  listening,        \* the server accepts connections
  open,             \* clients whose stream task is running
  told,             \* open streams whose shutdown receiver has fired
  cursor,           \* the task's cursor: the last sequence sent
  pending,          \* the events fetched and not sent yet
  received,         \* history: the frames the client got, over reconnects
  breaks            \* connections broken and servers stopped so far

streamVars == <<listening, open, told, cursor, pending, received, breaks>>
allVars == <<vars, streamVars>>

StreamInit ==
  /\ Init
  /\ listening = TRUE
  /\ open = {}
  /\ told = {}
  /\ cursor = [c \in Clients |-> 0]
  /\ pending = [c \in Clients |-> {}]
  /\ received = [c \in Clients |-> <<>>]
  /\ breaks = 0

\* SessionService::events.  Its first statement only asks whether the row
\* exists, and rows are never removed.
EventsAfter(n) == {e \in events : e.session = Watched /\ e.sequence > n}

LastId(c) ==
  IF received[c] = <<>> THEN 0 ELSE received[c][Len(received[c])].sequence

\* GET .../stream?after=<last id>: the first fetch precedes the headers.
Connect(c) ==
  /\ listening
  /\ c \notin open
  /\ open' = open \cup {c}
  /\ cursor' = [cursor EXCEPT ![c] = LastId(c)]
  /\ pending' = [pending EXCEPT ![c] = EventsAfter(LastId(c))]
  /\ UNCHANGED <<vars, listening, told, received, breaks>>

\* The cursor stays where the connection started.
SlipCursorStays(c) ==
  /\ c \in open
  /\ \E e \in pending[c] :
       /\ \A d \in pending[c] : e.sequence <= d.sequence
       /\ pending' = [pending EXCEPT ![c] = @ \ {e}]
       /\ received' = [received EXCEPT ![c] = Append(@, e)]
  /\ UNCHANGED <<vars, listening, open, told, cursor, breaks>>

\* One frame, in sequence order.
Send(c) ==
  /\ c \in open
  /\ \E e \in pending[c] :
       /\ \A d \in pending[c] : e.sequence <= d.sequence
       /\ pending' = [pending EXCEPT ![c] = @ \ {e}]
       /\ cursor' = [cursor EXCEPT ![c] = e.sequence]
       /\ received' = [received EXCEPT ![c] = Append(@, e)]
  /\ UNCHANGED <<vars, listening, open, told, breaks>>

\* The poll interval has passed.  select! may take this branch although the
\* shutdown signal is there too: both futures are then ready.
Poll(c) ==
  /\ c \in open
  /\ pending[c] = {}
  /\ pending' = [pending EXCEPT ![c] = EventsAfter(cursor[c])]
  /\ UNCHANGED <<vars, listening, open, told, cursor, received, breaks>>

Close(c) ==
  /\ open' = open \ {c}
  /\ told' = told \ {c}
  /\ pending' = [pending EXCEPT ![c] = {}]

\* A stream asks whether the server is down instead of its own receiver.
SlipShutdownShared(c) ==
  /\ c \in told
  /\ ~listening
  /\ pending[c] = {}
  /\ Close(c)
  /\ UNCHANGED <<vars, listening, cursor, received, breaks>>

\* shutdown.changed() ends the stream between two polls.
Shutdown(c) ==
  /\ c \in told
  /\ pending[c] = {}
  /\ Close(c)
  /\ UNCHANGED <<vars, listening, cursor, received, breaks>>

\* The client goes away: a write fails, and what was fetched is not sent.
Disconnect(c) ==
  /\ c \in open
  /\ breaks < MaxBreaks
  /\ breaks' = breaks + 1
  /\ Close(c)
  /\ UNCHANGED <<vars, listening, cursor, received>>

\* LocalSessionServer::stop and ::start
Stop ==
  /\ listening
  /\ breaks < MaxBreaks
  /\ breaks' = breaks + 1
  /\ listening' = FALSE
  /\ told' = open
  /\ UNCHANGED <<vars, open, cursor, pending, received>>

StartServer ==
  /\ ~listening
  /\ listening' = TRUE
  /\ UNCHANGED <<vars, open, told, cursor, pending, received, breaks>>

StreamNext ==
  \/ Next /\ UNCHANGED streamVars
  \/ \E c \in Clients :
       Connect(c) \/ Send(c) \/ Poll(c) \/ Shutdown(c) \/ Disconnect(c)
  \/ Stop \/ StartServer

StreamSpec == StreamInit /\ [][StreamNext]_allVars

\* A stream task keeps running: a frame that can be written is written, the
\* poll timer fires, and select! does not for ever prefer the timer to a
\* shutdown signal that is there at every poll.  Clients, requests and the
\* operator owe nothing.
StreamFair ==
  /\ StreamSpec
  /\ \A c \in Clients :
       /\ WF_allVars(Send(c))
       /\ WF_allVars(Poll(c))
       /\ SF_allVars(Shutdown(c))

-----------------------------------------------------------------------------
StreamTypeOK ==
  /\ listening \in BOOLEAN
  /\ open \subseteq Clients
  /\ told \subseteq open
  /\ cursor \in [Clients -> Nat]
  /\ pending \in [Clients -> SUBSET Event]
  /\ received \in [Clients -> Seq(Event)]
  /\ breaks \in 0 .. MaxBreaks

\* Whatever writers race and connections break, the frames a client gets are
\* numbered 1, 2, 3, ...: none is skipped and none is sent twice.
DeliveredOnceInOrder ==
  \A c \in Clients : \A i \in 1 .. Len(received[c]) :
    received[c][i].sequence = i

\* SessionService: every mutation appends to the log, so a client that
\* reconnects resumes exactly where it left off.  What it has received is
\* the beginning of the log.
ReceivedIsLogPrefix ==
  \A c \in Clients : \A i \in 1 .. Len(received[c]) : received[c][i] \in events

\* A client that stays connected gets every event of the log.
EveryEventDelivered ==
  \A c \in Clients : \A n \in 1 .. 4 :
    []<>(c \notin open)
    \/ (n \in Sequences(Watched) ~> Len(received[c]) >= n)

\* stop ends every stream that is open.
StopEndsStreams ==
  \A c \in Clients : c \in told ~> c \notin told

\* write_stream's comment: when the session was deleted the stream ends.
DeleteEndsStream ==
  \A c \in Clients : (Watched \in deleted /\ c \in open) ~> c \notin open
=============================================================================
