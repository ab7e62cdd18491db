-------------------------- MODULE TerminalManager --------------------------
(***************************************************************************)
(* The background terminals of xaft-tools (terminals/manager.rs and        *)
(* record.rs): a manager spawns process groups and keeps, for each, a      *)
(* record in a map, an entry with the child handle in a second map, and a  *)
(* row in a file that the next manager reads.  A monitor task waits for    *)
(* the child, pump tasks fold its output into the record, and callers      *)
(* start, stop, observe and probe it meanwhile.  No lock is held across an *)
(* await, so one action here is one critical section or one await.         *)
(***************************************************************************)
EXTENDS Naturals, FiniteSets

CONSTANTS
  Callers,        \* tasks that call the manager, one call at a time each
  Starters,       \* those that start terminals
  Calls,          \* the calls made, a subset of AllCalls
  Limit,          \* max_terminals
  MaxIds,         \* how many ids one manager hands out
  MaxSpawns,      \* how many processes are spawned in a behaviour
  MaxOutput,      \* how many chunks the process prints that prints
  MaxRestarts,    \* how often the manager's process dies
  WaitMayFail     \* TRUE: the operating system may refuse a wait

AllCalls == {"start", "stop", "close", "wait", "ready"}

ASSUME CallsAssumption == Starters \subseteq Callers /\ Calls \subseteq AllCalls
ASSUME BoundsAssumption ==
  /\ Limit \in Nat /\ MaxIds \in Nat \ {0} /\ MaxSpawns \in Nat
  /\ MaxOutput \in Nat /\ MaxRestarts \in Nat /\ WaitMayFail \in BOOLEAN

Ids == 0 .. MaxIds - 1
Pids == 1 .. MaxSpawns

VARIABLES
  records,     \* the record of each id
  entries,     \* ids with a live entry: what a stop may signal
  entry,       \* the RuntimeEntry, which tasks keep beyond its time in entries
  file,        \* the last row of each id in terminals.jsonl
  counter,     \* the next id
  generation,  \* which manager this is
  monitor,     \* the monitor task of each id
  process,     \* the process groups of the machine
  strays,      \* history: process groups of an earlier manager signalled
  caller,      \* what each caller is doing
  reply        \* what its last call returned

vars == <<records, entries, entry, file, counter, generation, monitor,
          process, strays, caller, reply>>

-----------------------------------------------------------------------------
(* Data *)

ActiveStates == {"starting", "running", "stopping"}
FinalStates == {"exited", "failed", "timed_out", "stopped", "spawn_failed",
                "orphaned"}

\* TerminalRecord: its state, the chunks of output folded in, the process.
Record == [state : ActiveStates \cup FinalStates \cup {"absent"},
           out : Nat, pid : Pids \cup {0}]
NoRecord == [state |-> "absent", out |-> 0, pid |-> 0]
Active(record) == record.state \in ActiveStates

\* RuntimeEntry: the handle, the request to stop and the latch.
Entry == [record : Record, child : BOOLEAN, stop : BOOLEAN, done : BOOLEAN]
NoEntry == [record |-> NoRecord, child |-> FALSE, stop |-> FALSE, done |-> FALSE]

MonitorSteps == {"none", "take", "wait", "retake", "grace", "retake_forced",
                 "forced", "reattach", "kill", "drain", "fire", "observe",
                 "fold", "remove", "persist", "end"}
\* The locals of the monitor: whether it has a budget, whether the budget ran
\* out, whether the status is known, whether the pipes were read to their end.
Monitor == [pc : MonitorSteps, budget : BOOLEAN, timed_out : BOOLEAN,
            known : BOOLEAN, drained : BOOLEAN, seen : Nat,
            final : Record]
NoMonitor == [pc |-> "none", budget |-> FALSE, timed_out |-> FALSE,
              known |-> TRUE, drained |-> FALSE, seen |-> 0, final |-> NoRecord]

\* The leader of a group, whether a background child of it runs, what it
\* printed and what of that is still in the pipe.
Process == [leader : {"none", "running", "zombie", "gone"}, background : BOOLEAN,
            printed : Nat, pipe : Nat,
            owner : 0 .. MaxRestarts]
NoProcess == [leader |-> "none", background |-> FALSE, printed |-> 0,
              pipe |-> 0, owner |-> 0]

CallSteps == {"idle", "insert", "spawn", "running", "stop_next", "stop_lock",
              "stop_persist", "stop_grace", "stop_settle", "stop_orphan",
              "wait_lookup", "wait_latch", "ready_persist", "ready_poll",
              "ready_probe"}
\* todo: what a close has left to stop; option: whether a stop is forced, or
\* whether a wait has a timeout.
Call == [pc : CallSteps, id : Ids, copy : Record, todo : SUBSET Ids,
         option : BOOLEAN]
NoCall == [pc |-> "idle", id |-> 0, copy |-> NoRecord, todo |-> {},
           option |-> FALSE]

\* What the stop that returned last said, and of which terminal.
Reply == [stop : {"none", "finished", "refused"}, id : Ids]
NoReply == [stop |-> "none", id |-> 0]

Group(t) == entry[t].record.pid
Alive(p) == process[p].leader = "running" \/ process[p].background

-----------------------------------------------------------------------------
Init ==
  /\ records = [t \in Ids |-> NoRecord]
  /\ entries = {}
  /\ entry = [t \in Ids |-> NoEntry]
  /\ file = [t \in Ids |-> NoRecord]
  /\ counter = 0
  /\ generation = 0
  /\ monitor = [t \in Ids |-> NoMonitor]
  /\ process = [p \in Pids |-> NoProcess]
  /\ strays = {}
  /\ caller = [c \in Callers |-> NoCall]
  /\ reply = [c \in Callers |-> NoReply]

\* persist_into: the map, then the file, here in one step.
Persist(t, record) ==
  /\ records' = [records EXCEPT ![t] = record]
  /\ file' = [file EXCEPT ![t] = record]

Goto(c, step) == caller' = [caller EXCEPT ![c].pc = step]

Return(c) == caller' = [caller EXCEPT ![c] = NoCall] /\ UNCHANGED reply

\* A call begins: what the last one answered is forgotten.
Begin(c, call) ==
  /\ caller[c].pc = "idle"
  /\ caller' = [caller EXCEPT ![c] = call]
  /\ reply' = [reply EXCEPT ![c] = NoReply]

\* signal_group: SIGKILL ends every process of the group; SIGINT may be
\* ignored, and whether it is shows in Exit.
Signalled(p, force) ==
  IF force
  THEN [process EXCEPT ![p].leader = IF @ = "running" THEN "zombie" ELSE @,
                       ![p].background = FALSE]
  ELSE process

SignalGroup(p, force) ==
  /\ process' = Signalled(p, force)
  /\ strays' = IF process[p].owner = generation THEN strays ELSE strays \cup {p}

\* signal_entry: a handle in the entry is asked first, with try_wait, which
\* reaps a child that has exited; without a handle the group is signalled.
SignalThrough(t, handle, force) ==
  LET p == Group(t)
  IN  IF handle /\ process[p].leader \in {"zombie", "gone"}
      THEN /\ process' = [process EXCEPT ![p].leader = "gone"]
           /\ UNCHANGED strays
      ELSE SignalGroup(p, force)

SignalEntry(t, force) == SignalThrough(t, entry[t].child, force)

-----------------------------------------------------------------------------
(* start *)

\* Mutant: the limit is compared with <=.
SlipCheckLimits == Cardinality({t \in Ids : Active(records[t])}) <= Limit

CheckLimits == Cardinality({t \in Ids : Active(records[t])}) < Limit

\* A call that is refused, for its arguments or the limit, changes nothing.
Start(c) ==
  /\ c \in Starters /\ "start" \in Calls
  /\ CheckLimits
  /\ Begin(c, [NoCall EXCEPT !.pc = "insert"])
  /\ UNCHANGED <<records, entries, entry, file, counter, generation, monitor,
                 process, strays>>

Insert(c) ==
  /\ caller[c].pc = "insert"
  /\ counter \in Ids
  /\ Persist(counter, [state |-> "starting", out |-> 0, pid |-> 0])
  /\ caller' = [caller EXCEPT ![c].pc = "spawn", ![c].id = counter]
  /\ counter' = counter + 1
  /\ UNCHANGED <<entries, entry, generation, monitor, process, strays, reply>>

NextPid == Cardinality({p \in Pids : process[p].leader # "none"}) + 1

\* The child runs, in a group of its own, and the entry holds its handle.
Spawn(c) ==
  /\ caller[c].pc = "spawn"
  /\ NextPid \in Pids
  /\ \E background \in BOOLEAN :
       /\ process' = [process EXCEPT ![NextPid] =
            [NoProcess EXCEPT !.leader = "running", !.background = background,
                              !.owner = generation]]
       /\ entry' = [entry EXCEPT ![caller[c].id] =
            [NoEntry EXCEPT !.child = TRUE,
               !.record = [state |-> "running", out |-> 0, pid |-> NextPid]]]
  /\ entries' = entries \cup {caller[c].id}
  /\ Goto(c, "running")
  /\ UNCHANGED <<records, file, counter, generation, monitor, strays, reply>>

SpawnFails(c) ==
  /\ caller[c].pc = "spawn"
  /\ Persist(caller[c].id, [state |-> "spawn_failed", out |-> 0, pid |-> 0])
  /\ Return(c)
  /\ UNCHANGED <<entries, entry, counter, generation, monitor, process, strays>>

\* The record is stored as it was at the spawn, and the tasks are spawned.  A
\* start with a probe goes on as wait_readiness does.
MarkRunning(c) ==
  LET t == caller[c].id
  IN  /\ caller[c].pc = "running"
      /\ Persist(t, [state |-> "running", out |-> 0, pid |-> entry[t].record.pid])
      /\ \E budget \in BOOLEAN :
           monitor' = [monitor EXCEPT ![t].pc = "take", ![t].budget = budget]
      /\ Return(c)
      /\ UNCHANGED <<entries, entry, counter, generation, process, strays>>

-----------------------------------------------------------------------------
(* The processes and the pumps *)

\* To bound the model only one process of a behaviour prints.
WriteChunk(p) ==
  /\ Alive(p)
  /\ process[p].printed < MaxOutput
  /\ \A q \in Pids \ {p} : process[q].printed = 0
  /\ process' = [process EXCEPT ![p].printed = @ + 1, ![p].pipe = @ + 1]
  /\ UNCHANGED <<records, entries, entry, file, counter, generation, monitor,
                 strays, caller, reply>>

\* By itself or on SIGINT, which a background child ignores.
Exit(p) ==
  /\ process[p].leader = "running"
  /\ process' = [process EXCEPT ![p].leader = "zombie"]
  /\ UNCHANGED <<records, entries, entry, file, counter, generation, monitor,
                 strays, caller, reply>>

\* apply_output_chunk, into the record of the map only.
Pump(t) ==
  LET p == Group(t)
  IN  /\ monitor[t].pc # "none"
      /\ process[p].pipe > 0
      /\ process' = [process EXCEPT ![p].pipe = @ - 1]
      /\ records' = [records EXCEPT ![t].out = @ + 1]
      /\ UNCHANGED <<entries, entry, file, counter, generation, monitor, strays,
                     caller, reply>>

-----------------------------------------------------------------------------
(* The monitor of a terminal *)

Moves(t, from, to) ==
  /\ monitor[t].pc = from
  /\ monitor' = [monitor EXCEPT ![t].pc = to]

MonitorOnly == UNCHANGED <<records, file, counter, generation, caller, reply>>

Take(t) ==
  /\ Moves(t, "take", "wait")
  /\ entry' = [entry EXCEPT ![t].child = FALSE]
  /\ UNCHANGED <<entries, process, strays>> /\ MonitorOnly

\* wait(): the leader has exited and is reaped.
Reaps(t) ==
  /\ process[Group(t)].leader \in {"zombie", "gone"}
  /\ process' = [process EXCEPT ![Group(t)].leader = "gone"]
  /\ UNCHANGED <<entries, entry, strays>> /\ MonitorOnly

Wait(t) == Moves(t, "wait", "reattach") /\ Reaps(t)
GraceWait(t) == Moves(t, "grace", "kill") /\ Reaps(t)
ForcedWait(t) == Moves(t, "forced", "kill") /\ Reaps(t)

\* wait() fails: the status is never known.
WaitFails(t) ==
  /\ WaitMayFail
  /\ monitor[t].pc \in {"wait", "grace", "forced"}
  /\ monitor' = [monitor EXCEPT ![t].known = FALSE,
       ![t].pc = IF @ = "wait" THEN "reattach" ELSE "kill"]
  /\ UNCHANGED <<entries, entry, process, strays>> /\ MonitorOnly

\* The budget is spent: the handle goes back and the group is asked to end.
Deadline(t) ==
  /\ monitor[t].pc = "wait" /\ monitor[t].budget
  /\ monitor' = [monitor EXCEPT ![t].pc = "retake", ![t].timed_out = TRUE]
  /\ entry' = [entry EXCEPT ![t].stop = TRUE, ![t].child = TRUE]
  /\ SignalThrough(t, TRUE, FALSE)
  /\ UNCHANGED entries /\ MonitorOnly

\* Mutant: After the grace the group is asked again instead of killed.
SlipGraceOver(t) ==
  /\ Moves(t, "grace", "retake_forced")
  /\ entry' = [entry EXCEPT ![t].child = TRUE]
  /\ SignalThrough(t, TRUE, FALSE)
  /\ UNCHANGED entries /\ MonitorOnly

\* The grace is over: the same, by force.
GraceOver(t) ==
  /\ Moves(t, "grace", "retake_forced")
  /\ entry' = [entry EXCEPT ![t].child = TRUE]
  /\ SignalThrough(t, TRUE, TRUE)
  /\ UNCHANGED entries /\ MonitorOnly

\* take_child: nobody else takes a handle, so there always is one.
Retake(t) ==
  /\ \/ Moves(t, "retake", "grace")
     \/ Moves(t, "retake_forced", "forced")
  /\ entry' = [entry EXCEPT ![t].child = FALSE]
  /\ UNCHANGED <<entries, process, strays>> /\ MonitorOnly

Reattach(t) ==
  /\ Moves(t, "reattach", "kill")
  /\ entry' = [entry EXCEPT ![t].child = TRUE]
  /\ UNCHANGED <<entries, process, strays>> /\ MonitorOnly

\* Mutant: The group is not closed out once its leader is reaped.
SlipKill(t) ==
  /\ Moves(t, "kill", "drain")
  /\ UNCHANGED <<entries, entry, process, strays>> /\ MonitorOnly

\* What the leader left behind is killed with its group.
Kill(t) ==
  /\ Moves(t, "kill", "drain")
  /\ SignalGroup(Group(t), TRUE)
  /\ UNCHANGED <<entries, entry>> /\ MonitorOnly

\* Until the pipes end, or half a second each.
Drain(t) ==
  /\ monitor[t].pc = "drain"
  /\ monitor' = [monitor EXCEPT ![t].pc = "fire",
       ![t].drained = ~Alive(Group(t)) /\ process[Group(t)].pipe = 0]
  /\ UNCHANGED <<entries, entry, process, strays>> /\ MonitorOnly

\* Mutant: Notify instead of a latch: only those who wait already are woken.
SlipFire(t) ==
  /\ Moves(t, "fire", "observe")
  /\ entry' = [entry EXCEPT ![t].done =
       \E c \in Callers : caller[c].pc = "wait_latch" /\ caller[c].id = t]
  /\ UNCHANGED <<entries, process, strays>> /\ MonitorOnly

Fire(t) ==
  /\ Moves(t, "fire", "observe")
  /\ entry' = [entry EXCEPT ![t].done = TRUE]
  /\ UNCHANGED <<entries, process, strays>> /\ MonitorOnly

Observe(t) ==
  /\ monitor[t].pc = "observe"
  /\ monitor' = [monitor EXCEPT ![t].pc = "fold", ![t].seen = records[t].out]
  /\ UNCHANGED <<entries, entry, process, strays>> /\ MonitorOnly

\* Mutant: A timeout is reported with a state of its own that the record does not have.
SlipOutcomes(t) ==
  IF ~monitor[t].known THEN {"orphaned"}
  ELSE IF monitor[t].timed_out THEN {"cancelled"}
  ELSE IF entry[t].stop THEN {"stopped"}
  ELSE {"exited", "failed"}

\* Which state the terminal ends in.
Outcomes(t) ==
  IF ~monitor[t].known THEN {"orphaned"}
  ELSE IF monitor[t].timed_out THEN {"timed_out"}
  ELSE IF entry[t].stop THEN {"stopped"}
  ELSE {"exited", "failed"}

Fold(t) ==
  /\ monitor[t].pc = "fold"
  /\ \E state \in Outcomes(t) :
       LET final == [entry[t].record EXCEPT !.state = state,
                                            !.out = monitor[t].seen]
       IN  /\ entry' = [entry EXCEPT ![t].record = final]
           /\ monitor' = [monitor EXCEPT ![t].pc = "remove", ![t].final = final]
  /\ UNCHANGED <<entries, process, strays>> /\ MonitorOnly

Remove(t) ==
  /\ Moves(t, "remove", "persist")
  /\ entries' = entries \ {t}
  /\ UNCHANGED <<entry, process, strays>> /\ MonitorOnly

PersistFinal(t) ==
  /\ Moves(t, "persist", "end")
  /\ Persist(t, monitor[t].final)
  /\ UNCHANGED <<entries, entry, counter, generation, process, strays, caller,
                 reply>>

-----------------------------------------------------------------------------
(* stop and close *)

CallerOnly == UNCHANGED <<counter, generation, monitor>>

\* stop takes one id, close the ids of all entries, one after the other.
StopCall(c) ==
  /\ "stop" \in Calls
  /\ \E t \in Ids, force \in BOOLEAN :
       Begin(c, [NoCall EXCEPT !.pc = "stop_next", !.todo = {t}, !.option = force])
  /\ UNCHANGED <<records, entries, entry, file, process, strays>>
  /\ CallerOnly

CloseCall(c) ==
  /\ "close" \in Calls /\ entries # {}
  /\ Begin(c, [NoCall EXCEPT !.pc = "stop_next", !.todo = entries])
  /\ UNCHANGED <<records, entries, entry, file, process, strays>>
  /\ CallerOnly

\* The answer for terminal t; a close goes on with the next one.
Answer(c, t, finished) ==
  LET left == caller[c].todo \ {t}
  IN  /\ reply' = [reply EXCEPT ![c] =
           [stop |-> IF finished THEN "finished" ELSE "refused", id |-> t]]
      /\ caller' = [caller EXCEPT ![c] =
           IF left = {} THEN NoCall
           ELSE [@ EXCEPT !.pc = "stop_next", !.todo = left, !.copy = NoRecord]]

\* Mutant: A stop without an entry falls back to the pid in the record.
SlipStopNext(c) ==
  /\ caller[c].pc = "stop_next"
  /\ \E t \in caller[c].todo :
       \/ /\ t \in entries
          /\ caller' = [caller EXCEPT ![c].pc = "stop_lock", ![c].id = t]
          /\ UNCHANGED <<reply, process, strays>>
       \/ /\ t \notin entries
          /\ records[t].pid \in Pids
          /\ SignalGroup(records[t].pid, TRUE)
          /\ Answer(c, t, FALSE)
  /\ UNCHANGED <<records, entries, entry, file>> /\ CallerOnly

\* Only a terminal with a live entry is stopped.
StopNext(c) ==
  /\ caller[c].pc = "stop_next"
  /\ \E t \in caller[c].todo :
       \/ /\ t \in entries
          /\ caller' = [caller EXCEPT ![c].pc = "stop_lock", ![c].id = t]
          /\ UNCHANGED reply
       \/ /\ t \notin entries
          /\ Answer(c, t, FALSE)
  /\ UNCHANGED <<records, entries, entry, file, process, strays>> /\ CallerOnly

StopTooLate(c) ==
  /\ caller[c].pc = "stop_lock"
  /\ ~Active(entry[caller[c].id].record)
  /\ Answer(c, caller[c].id, FALSE)
  /\ UNCHANGED <<records, entries, entry, file, process, strays>> /\ CallerOnly

\* Mutant: A stop does not look whether the terminal has ended meanwhile.
SlipStopLock(c) ==
  LET t == caller[c].id
  IN  /\ caller[c].pc = "stop_lock"
      /\ entry' = [entry EXCEPT ![t].stop = TRUE, ![t].record.state = "stopping"]
      /\ SignalEntry(t, caller[c].option)
      /\ caller' = [caller EXCEPT ![c].pc = "stop_persist",
                                  ![c].copy = entry'[t].record]
      /\ UNCHANGED <<records, entries, file, reply>> /\ CallerOnly

StopLock(c) ==
  LET t == caller[c].id
  IN  /\ caller[c].pc = "stop_lock"
      /\ Active(entry[t].record)
      /\ entry' = [entry EXCEPT ![t].stop = TRUE, ![t].record.state = "stopping"]
      /\ SignalEntry(t, caller[c].option)
      /\ caller' = [caller EXCEPT ![c].pc = "stop_persist",
                                  ![c].copy = entry'[t].record]
      /\ UNCHANGED <<records, entries, file, reply>> /\ CallerOnly

StopPersist(c) ==
  /\ caller[c].pc = "stop_persist"
  /\ Persist(caller[c].id, caller[c].copy)
  /\ Goto(c, "stop_grace")
  /\ UNCHANGED <<entries, entry, process, strays, reply>> /\ CallerOnly

\* Mutant: The stop does not escalate before it gives up.
SlipStopGraceOver(c) ==
  /\ caller[c].pc = "stop_grace"
  /\ Goto(c, "stop_settle")
  /\ UNCHANGED <<records, entries, entry, file, process, strays, reply>>
  /\ CallerOnly

\* The latch is waited for; when the grace is over the group is killed.
StopGraceOver(c) ==
  /\ caller[c].pc = "stop_grace"
  /\ SignalEntry(caller[c].id, TRUE)
  /\ Goto(c, "stop_settle")
  /\ UNCHANGED <<records, entries, entry, file, reply>> /\ CallerOnly

StopFinished(c) ==
  /\ caller[c].pc \in {"stop_grace", "stop_settle"}
  /\ entry[caller[c].id].done
  /\ Answer(c, caller[c].id, TRUE)
  /\ UNCHANGED <<records, entries, entry, file, process, strays>> /\ CallerOnly

\* The latch did not fire in the second wait either.
StopOrphans(c) ==
  LET t == caller[c].id
  IN  /\ caller[c].pc = "stop_settle"
      /\ entry' = [entry EXCEPT ![t].record.state = "orphaned"]
      /\ caller' = [caller EXCEPT ![c].pc = "stop_orphan",
                                  ![c].copy = entry'[t].record]
      /\ UNCHANGED <<records, entries, file, process, strays, reply>>
      /\ CallerOnly

StopPersistOrphan(c) ==
  /\ caller[c].pc = "stop_orphan"
  /\ Persist(caller[c].id, caller[c].copy)
  /\ entries' = entries \ {caller[c].id}
  /\ Answer(c, caller[c].id, FALSE)
  /\ UNCHANGED <<entry, process, strays>> /\ CallerOnly

-----------------------------------------------------------------------------
(* wait and wait_readiness *)

Observes == UNCHANGED <<entries, entry, process, strays>> /\ CallerOnly

\* An unknown terminal is answered at once, without a trace.
WaitCall(c) ==
  /\ "wait" \in Calls
  /\ \E t \in Ids, bounded \in BOOLEAN :
       /\ records[t] # NoRecord
       /\ Begin(c, [NoCall EXCEPT !.pc = "wait_lookup", !.id = t,
                                  !.option = bounded])
  /\ UNCHANGED <<records, file>> /\ Observes

\* Without an entry there is nothing to wait for.
WaitLookup(c) ==
  /\ caller[c].pc = "wait_lookup"
  /\ IF caller[c].id \in entries
     THEN Goto(c, "wait_latch") /\ UNCHANGED reply
     ELSE Return(c)
  /\ UNCHANGED <<records, file>> /\ Observes

\* The latch has fired, or the timeout of the observation is over.
WaitReturns(c) ==
  /\ caller[c].pc = "wait_latch"
  /\ entry[caller[c].id].done \/ caller[c].option
  /\ Return(c)
  /\ UNCHANGED <<records, file>> /\ Observes

\* A probe that is malformed or refused is answered at once.
ReadyCall(c) ==
  /\ "ready" \in Calls
  /\ \E t \in Ids :
       /\ records[t] # NoRecord
       /\ Begin(c, [NoCall EXCEPT !.pc = "ready_persist", !.id = t,
                                  !.copy = records[t]])
  /\ UNCHANGED <<records, file>> /\ Observes

ReadyPersist(c) ==
  /\ caller[c].pc = "ready_persist"
  /\ Persist(caller[c].id, caller[c].copy)
  /\ Goto(c, "ready_poll")
  /\ UNCHANGED reply /\ Observes

ReadyPoll(c) ==
  LET record == records[caller[c].id]
  IN  /\ caller[c].pc = "ready_poll"
      /\ IF Active(record)
         THEN /\ caller' = [caller EXCEPT ![c].pc = "ready_probe",
                                          ![c].copy = record]
              /\ UNCHANGED reply
         ELSE Return(c)
      /\ UNCHANGED <<records, file>> /\ Observes

\* The probe answers, or its time is up: the copy is stored.
ReadyEnds(c) ==
  /\ caller[c].pc = "ready_probe"
  /\ Persist(caller[c].id, caller[c].copy)
  /\ Return(c)
  /\ Observes

ReadyAgain(c) ==
  /\ caller[c].pc = "ready_probe"
  /\ Goto(c, "ready_poll")
  /\ UNCHANGED <<records, file, reply>> /\ Observes

-----------------------------------------------------------------------------
(* The manager dies and another one takes over; the processes live on. *)

\* new: prune drops rows that are final and old, and what is active in the
\* rest is orphaned, in the file too.
Recovered(pruned) ==
  [t \in Ids |->
     IF t \in pruned THEN NoRecord
     ELSE IF Active(file[t]) THEN [file[t] EXCEPT !.state = "orphaned"]
     ELSE file[t]]

Restart ==
  /\ generation < MaxRestarts
  /\ generation' = generation + 1
  /\ \E pruned \in SUBSET {t \in Ids : ~Active(file[t])} :
       records' = Recovered(pruned)
  /\ file' = records'
  /\ entries' = {}
  /\ counter' = 0
  /\ entry' = [t \in Ids |-> NoEntry]
  /\ monitor' = [t \in Ids |-> NoMonitor]
  /\ caller' = [c \in Callers |-> NoCall]
  /\ reply' = [c \in Callers |-> NoReply]
  /\ UNCHANGED <<process, strays>>

-----------------------------------------------------------------------------
MonitorStep(t) ==
  \/ Take(t) \/ Wait(t) \/ Deadline(t) \/ Retake(t)
  \/ GraceWait(t) \/ GraceOver(t) \/ ForcedWait(t) \/ Reattach(t) \/ Kill(t)
  \/ Drain(t) \/ Fire(t) \/ Observe(t) \/ Fold(t) \/ Remove(t)
  \/ PersistFinal(t)

\* What a call that was made does.
CallStep(c) ==
  \/ Insert(c) \/ Spawn(c) \/ SpawnFails(c) \/ MarkRunning(c)
  \/ StopNext(c) \/ StopTooLate(c) \/ StopLock(c) \/ StopPersist(c)
  \/ StopGraceOver(c) \/ StopFinished(c) \/ StopOrphans(c)
  \/ StopPersistOrphan(c)
  \/ WaitLookup(c) \/ WaitReturns(c)
  \/ ReadyPersist(c) \/ ReadyPoll(c) \/ ReadyEnds(c) \/ ReadyAgain(c)

NewCall(c) ==
  Start(c) \/ StopCall(c) \/ CloseCall(c) \/ WaitCall(c) \/ ReadyCall(c)

Next ==
  \/ \E c \in Callers : NewCall(c) \/ CallStep(c)
  \/ \E t \in Ids : MonitorStep(t) \/ WaitFails(t) \/ Pump(t)
  \/ \E p \in Pids : WriteChunk(p) \/ Exit(p)
  \/ Restart

Spec == Init /\ [][Next]_vars

\* The tasks that run go on: the runtime schedules them, and a timer that was
\* set fires.  Processes, new calls, failures and pumps owe nothing.
FairSpec ==
  /\ Spec
  /\ \A t \in Ids : WF_vars(MonitorStep(t))
  /\ \A c \in Callers : WF_vars(CallStep(c))

-----------------------------------------------------------------------------
(* Properties *)

\* Every variable keeps its type.
TypeOK ==
  /\ records \in [Ids -> Record] /\ file \in [Ids -> Record]
  /\ entries \subseteq Ids /\ entry \in [Ids -> Entry]
  /\ counter \in 0 .. MaxIds /\ generation \in 0 .. MaxRestarts
  /\ monitor \in [Ids -> Monitor] /\ process \in [Pids -> Process]
  /\ strays \subseteq Pids
  /\ caller \in [Callers -> Call] /\ reply \in [Callers -> Reply]

Running(p) == process[p].leader = "running" /\ process[p].owner = generation

\* manager.rs:4-7: a terminal is signalled only while this manager holds the
\* child it spawned.  After a restart the rows name processes of the manager
\* before, which still run: no stop reaches one of them.
SignalsOnlyOwn == strays = {}

\* max_terminals bounds the processes that run, not only the records that say
\* so, while stops, deadlines and orphaned records come and go.
LimitRespected == Cardinality({p \in Pids : Running(p)}) <= Limit

\* check_limits counts records.  Whatever else changes a record (a stop that
\* gives up, a stale copy), a process that runs has an active one.
RunningIsCounted ==
  \A t \in Ids :
    monitor[t].pc # "none" /\ Running(Group(t)) => Active(records[t])

\* A stop that says it succeeded left nothing of the group alive, not even a
\* background child that ignored the signal.
StoppedIsDead ==
  \A c \in Callers :
    reply[c].stop = "finished" => ~Alive(Group(reply[c].id))

\* A terminal somebody stopped is never recorded as one that ended by itself.
StopIsRecorded ==
  \A t \in Ids :
    monitor[t].pc \in {"remove", "persist", "end"} /\ entry[t].stop =>
      monitor[t].final.state \in {"stopped", "timed_out", "orphaned"}

\* manager.rs:83-101: the latch wakes a task whenever it starts to wait.  A
\* wait on a terminal whose leader is dead returns.
WaiterWakes ==
  \A c \in Callers, t \in Ids :
    (/\ caller[c].pc = "wait_latch" /\ caller[c].id = t
     /\ process[Group(t)].leader # "running")
      ~> caller[c].pc # "wait_latch"

\* A terminal that is being stopped, or has a budget, is gone in the end and
\* its monitor with it, although its process may ignore the first signal.
TerminalEnds ==
  \A t \in Ids :
    (entry[t].stop \/ monitor[t].budget) ~> monitor[t].pc \in {"end", "none"}

\* manager.rs:675-678: the pumps are drained so that the final transcript is
\* seen.  When the pipes were read to their end before the latch fired, the
\* record in the end holds all that was printed.  A stop stores the copy that
\* the entry keeps since the spawn, and wipes out what was captured.
OutputKept ==
  \A t \in Ids :
    monitor[t].pc = "end" /\ monitor[t].drained =>
      records[t].out = process[Group(t)].printed
=============================================================================
