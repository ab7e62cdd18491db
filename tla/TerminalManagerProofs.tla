------------------------- MODULE TerminalManagerProofs -------------------------
(***************************************************************************)
(* Proofs about TerminalManager for every number of callers, terminals,    *)
(* processes and restarts: only groups of this manager are signalled, a    *)
(* stop that succeeds leaves nothing alive, and what was stopped is        *)
(* recorded so; a process that runs is counted, and no more run than the   *)
(* limit allows.                                                           *)
(***************************************************************************)
EXTENDS TerminalManager, FiniteSetTheorems, TLAPS

Starting(c) == caller[c].pc \in {"spawn", "running"}
Stopping(c) ==
  caller[c].pc \in {"stop_lock", "stop_persist", "stop_grace", "stop_settle", "stop_orphan"}
Latched == {"observe", "fold", "remove", "persist", "end"}
Closed == {"drain", "fire"} \cup Latched
Folded == {"remove", "persist", "end"}

Used(p) == process[p].leader # "none"

\* The entry names a process that this manager spawned.
HasGroup(t) == Group(t) \in Pids /\ Used(Group(t)) /\ process[Group(t)].owner = generation

StopShows(t) ==
  entry[t].stop => monitor[t].final.state \in {"stopped", "timed_out", "orphaned"}

\* What is so of a terminal, whichever task looks at it.
TerminalOK(t) ==
  /\ t \in entries \/ monitor[t].pc # "none" => HasGroup(t)
  /\ monitor[t].pc # "none" => t < counter
  /\ monitor[t].pc \in Closed => ~Alive(Group(t))
  /\ entry[t].done => monitor[t].pc \in Latched
  /\ monitor[t].pc \in Folded => ~Active(entry[t].record) /\ StopShows(t)

\* What a call knows of its terminal at each step.
CallOK(c) ==
  /\ Starting(c) => caller[c].id < counter /\ monitor[caller[c].id].pc = "none"
  /\ caller[c].pc = "running" \/ Stopping(c) => HasGroup(caller[c].id)
  /\ reply[c].stop = "finished" => entry[reply[c].id].done

\* Two calls never start the same terminal.
StartsDiffer == \A c, d \in Callers :
  Starting(c) /\ Starting(d) /\ caller[c].id = caller[d].id => c = d

\* Pids are handed out from 1 on.
PidsInUse == \E k \in 0 .. MaxSpawns : {p \in Pids : Used(p)} = 1 .. k

TerminalInv ==
  /\ TypeOK
  /\ SignalsOnlyOwn
  /\ PidsInUse
  /\ StartsDiffer
  /\ \A t \in Ids : TerminalOK(t)
  /\ \A c \in Callers : CallOK(c)

\* The next pid is one that no process has had.
LEMMA NextPidIsNew ==
  ASSUME PidsInUse, NextPid \in Pids
  PROVE  ~Used(NextPid) /\ {p \in Pids : Used(p)} \cup {NextPid} = 1 .. NextPid
<1>1. PICK k \in 0 .. MaxSpawns : {p \in Pids : Used(p)} = 1 .. k
  BY DEF PidsInUse
<1>2. k \in Nat
  BY BoundsAssumption
<1>3. Cardinality(1 .. k) = k
  BY <1>2, FS_Interval
<1>4. NextPid = k + 1
  BY <1>1, <1>2, <1>3 DEF NextPid, Used
<1>5. k + 1 \notin 1 .. k /\ (1 .. k) \cup {k + 1} = 1 .. k + 1
  BY <1>2
<1> QED  BY <1>1, <1>4, <1>5

\* The values that stand for nothing have their types.
LEMMA EmptyTyped ==
  /\ NoRecord \in Record /\ NoEntry \in Entry /\ NoMonitor \in Monitor
  /\ NoProcess \in Process /\ NoCall \in Call /\ NoReply \in Reply
  /\ 0 \in Ids /\ ~Active(NoRecord)
<1>1. 0 \in Ids /\ 0 \in 0 .. MaxRestarts
  BY BoundsAssumption DEF Ids
<1>2. NoRecord \in Record
  BY DEF NoRecord, Record
<1> QED  BY <1>1, <1>2 DEF NoEntry, Entry, NoMonitor, Monitor, MonitorSteps, NoProcess, Process,
                           NoCall, Call, CallSteps, NoReply, Reply, Active, NoRecord, ActiveStates

\* A manager that has started nothing.
LEMMA InitTerminalInv == Init => TerminalInv
<1> SUFFICES ASSUME Init PROVE TerminalInv
  OBVIOUS
<1>1. TypeOK
  BY EmptyTyped, BoundsAssumption DEF Init, TypeOK
<1>2. PidsInUse
  <2>1. {p \in Pids : Used(p)} = {} /\ 1 .. 0 = {} /\ 0 \in 0 .. MaxSpawns
    BY BoundsAssumption DEF Init, Used, NoProcess
  <2> QED  BY <2>1 DEF PidsInUse
<1>3. \A t \in Ids : TerminalOK(t)
  BY DEF Init, TerminalOK, NoMonitor, NoEntry, Closed, Latched, Folded
<1>4. \A c \in Callers : CallOK(c) /\ ~Starting(c)
  BY DEF Init, CallOK, Starting, Stopping, NoCall, NoReply
<1> QED  BY <1>1, <1>2, <1>3, <1>4 DEF TerminalInv, SignalsOnlyOwn, StartsDiffer, Init

\* No process but a new one comes to life, and none changes hands.
ProcessesKept ==
  /\ process' \in [Pids -> Process]
  /\ \A p \in Pids : /\ process'[p].owner = process[p].owner
                     /\ Used(p)' <=> Used(p)
                     /\ Alive(p)' => Alive(p)

\* The processes are as in the invariant after such a step.
LEMMA KeptGroups ==
  ASSUME TypeOK, PidsInUse, ProcessesKept, generation' = generation
  PROVE  /\ PidsInUse'
         /\ \A t \in Ids : Group(t)' = Group(t) /\ HasGroup(t) => HasGroup(t)'
<1>1. {p \in Pids : Used(p)}' = {p \in Pids : Used(p)}
  BY DEF ProcessesKept
<1>2. PidsInUse'
  BY <1>1 DEF PidsInUse
<1> QED  BY <1>2 DEF ProcessesKept, HasGroup

\* A signal to a group of this manager is such a step, and a forced one kills it.
LEMMA SignalKeeps ==
  ASSUME TypeOK, SignalsOnlyOwn, NEW p \in Pids, Used(p), process[p].owner = generation,
         NEW force \in BOOLEAN, SignalGroup(p, force)
  PROVE  /\ ProcessesKept /\ strays' = {} /\ (force => ~Alive(p)')
<1>1. process \in [Pids -> Process]
  BY DEF TypeOK
<1>2. strays' = {}
  BY DEF SignalGroup, SignalsOnlyOwn
<1>3. CASE force
  <2>1. process' = [process EXCEPT ![p].leader = IF @ = "running" THEN "zombie" ELSE @,
                                   ![p].background = FALSE]
    BY <1>3 DEF SignalGroup, Signalled
  <2>a. process[p] \in Process
    BY <1>1
  <2>b. process'[p] = [[process[p] EXCEPT !.leader = IF process[p].leader = "running" THEN "zombie"
                                                     ELSE process[p].leader]
                       EXCEPT !.background = FALSE]
    BY <1>1, <2>1
  <2>c. \A q \in Pids \ {p} : process'[q] = process[q]
    BY <1>1, <2>1
  <2>2. /\ process'[p].leader = (IF process[p].leader = "running" THEN "zombie" ELSE process[p].leader)
        /\ process'[p].background = FALSE /\ process'[p].owner = process[p].owner
    BY <2>a, <2>b DEF Process
  <2>3. process' \in [Pids -> Process]
    <3>1. process'[p] \in Process
      BY <2>a, <2>b DEF Process
    <3>2. DOMAIN process' = Pids /\ process' = [q \in Pids |-> process'[q]]
      BY <1>1, <2>1
    <3> QED  BY <1>1, <2>c, <3>1, <3>2
  <2> QED  BY <1>2, <2>c, <2>2, <2>3 DEF ProcessesKept, Used, Alive
<1>4. CASE ~force
  BY <1>1, <1>2, <1>4 DEF SignalGroup, Signalled, ProcessesKept, Used, Alive
<1> QED  BY <1>3, <1>4

\* So is a signal through an entry.
LEMMA ThroughKeeps ==
  ASSUME TypeOK, SignalsOnlyOwn, NEW t \in Ids, HasGroup(t),
         NEW handle \in BOOLEAN, NEW force \in BOOLEAN, SignalThrough(t, handle, force)
  PROVE  ProcessesKept /\ strays' = {}
<1>1. process \in [Pids -> Process] /\ Group(t) \in Pids
  BY DEF TypeOK, HasGroup
<1>2. CASE SignalGroup(Group(t), force)
  BY <1>1, <1>2, SignalKeeps DEF HasGroup
<1>3. CASE /\ process[Group(t)].leader \in {"zombie", "gone"}
           /\ process' = [process EXCEPT ![Group(t)].leader = "gone"]
           /\ UNCHANGED strays
  BY <1>1, <1>3 DEF ProcessesKept, Used, Alive, Process, SignalsOnlyOwn
<1> QED  BY <1>2, <1>3 DEF SignalThrough

Typed(rows) == rows \in [Ids -> Record]

\* A step of one call that starts nothing.
LEMMA CallerStep ==
  ASSUME TerminalInv, NEW c \in Callers, UNCHANGED <<counter, generation, monitor>>,
         ProcessesKept, strays' = {}, Typed(records'), Typed(file'), entries' \subseteq entries,
         entry' \in [Ids -> Entry],
         \A t \in Ids : /\ Group(t)' = Group(t) /\ entry'[t].done = entry[t].done
                        /\ monitor[t].pc \in Folded =>
                             ~Active(entry'[t].record) /\ entry'[t].stop = entry[t].stop,
         caller' \in [Callers -> Call], reply' \in [Callers -> Reply],
         \A d \in Callers \ {c} : caller'[d] = caller[d] /\ reply'[d] = reply[d],
         ~Starting(c)', Stopping(c)' => HasGroup(caller'[c].id),
         reply'[c].stop = "finished" => entry[reply'[c].id].done
  PROVE  TerminalInv'
<1>1. TypeOK'
  BY DEF TerminalInv, TypeOK, ProcessesKept, Typed
<1>2. PidsInUse' /\ \A t \in Ids : HasGroup(t) => HasGroup(t)'
  BY KeptGroups DEF TerminalInv
<1>3. \A d \in Callers : caller'[d].id \in Ids /\ reply'[d].id \in Ids /\ caller[d].id \in Ids
  BY DEF TerminalInv, TypeOK, Call, Reply
<1>4. \A d \in Callers : Starting(d)' => Starting(d) /\ caller'[d] = caller[d]
  BY DEF Starting
<1>5. StartsDiffer'
  BY <1>4 DEF TerminalInv, StartsDiffer
<1>6. \A t \in Ids : TerminalOK(t)'
  <2> SUFFICES ASSUME NEW t \in Ids PROVE TerminalOK(t)'
    OBVIOUS
  <2>1. monitor[t].pc \in Closed => monitor[t].pc # "none" /\ HasGroup(t)
    BY DEF TerminalInv, TerminalOK, Closed, Latched
  <2>2. monitor[t].pc \in Closed => ~Alive(Group(t))'
    BY <2>1 DEF TerminalInv, TerminalOK, ProcessesKept, HasGroup
  <2>3. monitor[t].pc \in Folded => ~Active(entry'[t].record) /\ StopShows(t)'
    BY DEF TerminalInv, TerminalOK, StopShows
  <2> QED  BY <1>2, <2>2, <2>3 DEF TerminalInv, TerminalOK
<1>7. ASSUME NEW d \in Callers PROVE CallOK(d)'
  <2>1. CASE d = c
    <3>1. ~(caller'[c].pc = "running") /\ (Stopping(c)' => HasGroup(caller[c].id)')
      BY <1>2, <1>3 DEF Starting, HasGroup, Group, Used
    <3>2. reply'[c].stop = "finished" => entry'[reply'[c].id].done
      BY <1>3
    <3> QED  BY <2>1, <3>1, <3>2 DEF CallOK
  <2>2. CASE d # c
    BY <1>2, <1>3, <2>2 DEF TerminalInv, CallOK, Starting, Stopping
  <2> QED  BY <2>1, <2>2
<1> QED  BY <1>1, <1>2, <1>5, <1>6, <1>7 DEF TerminalInv, SignalsOnlyOwn

\* A step of one monitor that keeps what its terminal must satisfy.
LEMMA MonitorMoves ==
  ASSUME TerminalInv, NEW t \in Ids, UNCHANGED <<counter, generation, caller, reply>>,
         ProcessesKept, strays' = {}, Typed(records'), Typed(file'), entries' \subseteq entries,
         entry' \in [Ids -> Entry], monitor' \in [Ids -> Monitor],
         \A u \in Ids \ {t} : entry'[u] = entry[u] /\ monitor'[u] = monitor[u],
         monitor[t].pc # "none", Group(t)' = Group(t), entry[t].done => entry'[t].done,
         monitor'[t].pc \in Closed => ~Alive(Group(t))',
         entry'[t].done => monitor'[t].pc \in Latched,
         monitor'[t].pc \in Folded => ~Active(entry'[t].record) /\ StopShows(t)'
  PROVE  TerminalInv'
<1>1. TypeOK'
  BY DEF TerminalInv, TypeOK, ProcessesKept, Typed
<1>2. \A u \in Ids : Group(u)' = Group(u)
  BY DEF Group
<1>3. PidsInUse' /\ \A u \in Ids : HasGroup(u) => HasGroup(u)'
  BY <1>2, KeptGroups DEF TerminalInv
<1>4. TerminalOK(t)'
  <2>1. HasGroup(t)' /\ t < counter
    BY <1>3 DEF TerminalInv, TerminalOK
  <2> QED  BY <2>1 DEF TerminalOK
<1>5. ASSUME NEW u \in Ids, u # t PROVE TerminalOK(u)'
  <2>1. monitor[u].pc \in Closed => monitor[u].pc # "none" /\ HasGroup(u)
    BY DEF TerminalInv, TerminalOK, Closed, Latched
  <2>2. monitor[u].pc \in Closed => ~Alive(Group(u))'
    BY <1>2, <2>1 DEF TerminalInv, TerminalOK, ProcessesKept, HasGroup
  <2> QED  BY <1>3, <1>5, <2>2 DEF TerminalInv, TerminalOK, StopShows
<1>6. ASSUME NEW d \in Callers PROVE CallOK(d)'
  <2>1. caller[d].id \in Ids /\ reply[d].id \in Ids
    BY DEF TerminalInv, TypeOK, Call, Reply
  <2>2. Starting(d) => caller[d].id # t
    BY DEF TerminalInv, CallOK
  <2> QED  BY <1>3, <2>1, <2>2 DEF TerminalInv, CallOK, Starting, Stopping
<1>7. StartsDiffer'
  BY DEF TerminalInv, StartsDiffer, Starting
<1> QED  BY <1>1, <1>3, <1>4, <1>5, <1>6, <1>7 DEF TerminalInv, SignalsOnlyOwn

\* A process, or a pump, goes on.
LEMMA ProcessStep ==
  ASSUME TerminalInv, ProcessesKept, Typed(records'),
         UNCHANGED <<entries, entry, file, counter, generation, monitor, strays, caller, reply>>
  PROVE  TerminalInv'
<1>1. TypeOK'
  BY DEF TerminalInv, TypeOK, ProcessesKept, Typed
<1>2. \A u \in Ids : Group(u)' = Group(u)
  BY DEF Group
<1>3. PidsInUse' /\ \A u \in Ids : HasGroup(u) => HasGroup(u)'
  BY <1>2, KeptGroups DEF TerminalInv
<1>4. ASSUME NEW u \in Ids PROVE TerminalOK(u)'
  <2>1. monitor[u].pc \in Closed => monitor[u].pc # "none" /\ HasGroup(u)
    BY DEF TerminalInv, TerminalOK, Closed, Latched
  <2>2. monitor[u].pc \in Closed => ~Alive(Group(u))'
    BY <1>2, <2>1 DEF TerminalInv, TerminalOK, ProcessesKept, HasGroup
  <2> QED  BY <1>3, <2>2 DEF TerminalInv, TerminalOK, StopShows
<1>5. ASSUME NEW d \in Callers PROVE CallOK(d)'
  <2>1. caller[d].id \in Ids /\ reply[d].id \in Ids
    BY DEF TerminalInv, TypeOK, Call, Reply
  <2> QED  BY <1>3, <2>1 DEF TerminalInv, CallOK, Starting, Stopping
<1>6. StartsDiffer'
  BY DEF TerminalInv, StartsDiffer, Starting
<1> QED  BY <1>1, <1>3, <1>4, <1>5, <1>6 DEF TerminalInv, SignalsOnlyOwn

StopSteps == {"stop_lock", "stop_persist", "stop_grace", "stop_settle", "stop_orphan"}

\* A call goes on, or returns, and touches no terminal but for its record.
LEMMA CallMoves ==
  ASSUME TerminalInv, NEW c \in Callers,
         UNCHANGED <<entry, counter, generation, monitor, process, strays>>,
         entries' \subseteq entries, Typed(records'), Typed(file'),
         NEW call \in Call, caller' = [caller EXCEPT ![c] = call],
         call.pc \notin {"spawn", "running"}, call.pc \in StopSteps => HasGroup(call.id),
         NEW answer \in Reply, reply' = [reply EXCEPT ![c] = answer],
         answer.stop = "finished" => entry[answer.id].done
  PROVE  TerminalInv'
<1>1. ProcessesKept /\ strays' = {} /\ entry' \in [Ids -> Entry]
  BY DEF ProcessesKept, TerminalInv, TypeOK, SignalsOnlyOwn, Used, Alive
<1>2. /\ caller' \in [Callers -> Call] /\ reply' \in [Callers -> Reply]
      /\ caller'[c] = call /\ reply'[c] = answer
      /\ \A d \in Callers \ {c} : caller'[d] = caller[d] /\ reply'[d] = reply[d]
  BY DEF TerminalInv, TypeOK
<1>3. \A t \in Ids : /\ Group(t)' = Group(t) /\ entry'[t].done = entry[t].done
                     /\ monitor[t].pc \in Folded =>
                          ~Active(entry'[t].record) /\ entry'[t].stop = entry[t].stop
  BY DEF Group, TerminalInv, TerminalOK
<1>4. ~Starting(c)' /\ (Stopping(c)' => HasGroup(caller'[c].id))
  BY <1>2 DEF Starting, Stopping, StopSteps
<1>5. reply'[c].stop = "finished" => entry[reply'[c].id].done
  BY <1>2
<1>6. UNCHANGED <<counter, generation, monitor>>
  OBVIOUS
<1> QED  BY <1>1, <1>2, <1>3, <1>4, <1>5, <1>6, CallerStep

\* The answer of a call that has not answered, and what of it is typed.
LEMMA CallTypes ==
  ASSUME TerminalInv, NEW c \in Callers
  PROVE  /\ caller[c] \in Call /\ caller[c].id \in Ids /\ caller[c].copy \in Record
         /\ caller[c].todo \subseteq Ids /\ caller[c].option \in BOOLEAN
         /\ reply[c] \in Reply /\ (reply' = reply => reply' = [reply EXCEPT ![c] = reply[c]])
         /\ reply[c].stop = "finished" => entry[reply[c].id].done
         /\ Stopping(c) => HasGroup(caller[c].id)
         /\ Typed(records) /\ Typed(file) /\ entry \in [Ids -> Entry]
         /\ NoReply \in Reply /\ NoReply.stop = "none" /\ NoCall \in Call /\ NoCall.pc = "idle"
BY EmptyTyped DEF TerminalInv, TypeOK, Call, CallOK, Typed, NoReply, NoCall

\* Calls begin.
LEMMA CallsBegin ==
  ASSUME TerminalInv, NEW c \in Callers, NewCall(c)
  PROVE  TerminalInv'
<1>1. PICK call \in Call :
        /\ Begin(c, call) /\ call.pc \in {"insert", "stop_next", "wait_lookup", "ready_persist"}
        /\ UNCHANGED <<records, file, entries, entry, counter, generation, monitor, process, strays>>
  <2>1. CASE Start(c)
    <3>1. [NoCall EXCEPT !.pc = "insert"] \in Call /\ [NoCall EXCEPT !.pc = "insert"].pc = "insert"
      BY EmptyTyped DEF Call, CallSteps, NoCall
    <3> QED  BY <2>1, <3>1 DEF Start
  <2>2. CASE StopCall(c)
    <3>1. PICK t \in Ids, force \in BOOLEAN :
            Begin(c, [NoCall EXCEPT !.pc = "stop_next", !.todo = {t}, !.option = force])
      BY <2>2 DEF StopCall
    <3>2. LET call == [NoCall EXCEPT !.pc = "stop_next", !.todo = {t}, !.option = force]
          IN  call \in Call /\ call.pc = "stop_next"
      BY EmptyTyped DEF Call, CallSteps, NoCall
    <3> QED  BY <2>2, <3>1, <3>2 DEF StopCall, CallerOnly
  <2>3. CASE CloseCall(c)
    <3>1. LET call == [NoCall EXCEPT !.pc = "stop_next", !.todo = entries]
          IN  call \in Call /\ call.pc = "stop_next"
      BY EmptyTyped DEF Call, CallSteps, NoCall, TerminalInv, TypeOK
    <3> QED  BY <2>3, <3>1 DEF CloseCall, CallerOnly
  <2>4. CASE WaitCall(c)
    <3>1. PICK t \in Ids, bounded \in BOOLEAN :
            Begin(c, [NoCall EXCEPT !.pc = "wait_lookup", !.id = t, !.option = bounded])
      BY <2>4 DEF WaitCall
    <3>2. LET call == [NoCall EXCEPT !.pc = "wait_lookup", !.id = t, !.option = bounded]
          IN  call \in Call /\ call.pc = "wait_lookup"
      BY EmptyTyped DEF Call, CallSteps, NoCall
    <3> QED  BY <2>4, <3>1, <3>2 DEF WaitCall, CallerOnly, Observes
  <2>5. CASE ReadyCall(c)
    <3>1. PICK t \in Ids : Begin(c, [NoCall EXCEPT !.pc = "ready_persist", !.id = t, !.copy = records[t]])
      BY <2>5 DEF ReadyCall
    <3>2. records[t] \in Record
      BY DEF TerminalInv, TypeOK
    <3>3. LET call == [NoCall EXCEPT !.pc = "ready_persist", !.id = t, !.copy = records[t]]
          IN  call \in Call /\ call.pc = "ready_persist"
      BY <3>2, EmptyTyped DEF Call, CallSteps, NoCall
    <3> QED  BY <2>5, <3>1, <3>3 DEF ReadyCall, CallerOnly, Observes
  <2> QED  BY <2>1, <2>2, <2>3, <2>4, <2>5 DEF NewCall
<1>2. caller' = [caller EXCEPT ![c] = call] /\ reply' = [reply EXCEPT ![c] = NoReply]
  BY <1>1 DEF Begin
<1> QED  BY <1>1, <1>2, CallTypes, CallMoves DEF StopSteps

\* Waits, probes and failed spawns return or go on, and store a record at most.
LEMMA CallsObserve ==
  ASSUME TerminalInv, NEW c \in Callers,
         \/ SpawnFails(c) \/ WaitLookup(c) \/ WaitReturns(c)
         \/ ReadyPersist(c) \/ ReadyPoll(c) \/ ReadyEnds(c) \/ ReadyAgain(c)
  PROVE  TerminalInv'
<1>1. /\ UNCHANGED <<entries, entry, counter, generation, monitor, process, strays, reply>>
      /\ \/ caller' = [caller EXCEPT ![c] = NoCall]
         \/ \E step \in {"wait_latch", "ready_poll"} : Goto(c, step)
         \/ caller' = [caller EXCEPT ![c].pc = "ready_probe", ![c].copy = records[caller[c].id]]
  BY DEF SpawnFails, WaitLookup, WaitReturns, ReadyPersist, ReadyPoll, ReadyEnds, ReadyAgain,
         Return, Observes, CallerOnly
<1>2. Typed(records') /\ Typed(file')
  <2>1. [state |-> "spawn_failed", out |-> 0, pid |-> 0] \in Record
    BY DEF Record, FinalStates
  <2>2. \/ UNCHANGED <<records, file>>
        \/ Persist(caller[c].id, caller[c].copy)
        \/ Persist(caller[c].id, [state |-> "spawn_failed", out |-> 0, pid |-> 0])
    BY DEF SpawnFails, WaitLookup, WaitReturns, ReadyPersist, ReadyPoll, ReadyEnds, ReadyAgain
  <2> QED  BY <2>1, <2>2, CallTypes DEF Persist, Typed
<1>3. PICK call \in Call : caller' = [caller EXCEPT ![c] = call]
                           /\ call.pc \in {"idle", "wait_latch", "ready_poll", "ready_probe"}
  <2>1. records[caller[c].id] \in Record
    BY CallTypes DEF Typed
  <2>2. CASE \E step \in {"wait_latch", "ready_poll"} : Goto(c, step)
    <3>1. PICK step \in {"wait_latch", "ready_poll"} : caller' = [caller EXCEPT ![c].pc = step]
      BY <2>2 DEF Goto
    <3>2. [caller[c] EXCEPT !.pc = step] \in Call /\ [caller[c] EXCEPT !.pc = step].pc = step
      BY CallTypes DEF Call, CallSteps
    <3> QED  BY <3>1, <3>2
  <2>3. CASE caller' = [caller EXCEPT ![c].pc = "ready_probe", ![c].copy = records[caller[c].id]]
    <3>1. LET call == [[caller[c] EXCEPT !.pc = "ready_probe"] EXCEPT !.copy = records[caller[c].id]]
          IN  call \in Call /\ call.pc = "ready_probe" /\ caller' = [caller EXCEPT ![c] = call]
      BY <2>1, <2>3, CallTypes DEF Call, CallSteps, TerminalInv, TypeOK
    <3> QED  BY <3>1
  <2> QED  BY <1>1, <2>2, <2>3, CallTypes
<1>4. /\ UNCHANGED <<entry, counter, generation, monitor, process, strays>> /\ entries' \subseteq entries
      /\ reply' = [reply EXCEPT ![c] = reply[c]] /\ reply[c] \in Reply
      /\ reply[c].stop = "finished" => entry[reply[c].id].done
  BY <1>1, CallTypes
<1>5. call.pc \notin {"spawn", "running"} /\ call.pc \notin StopSteps
  BY <1>3 DEF StopSteps
<1> QED  BY <1>2, <1>3, <1>4, <1>5, CallMoves

\* The answer of a stop, and the rest of a close.
LEMMA AnswerMoves ==
  ASSUME TerminalInv, NEW c \in Callers, NEW t \in Ids, NEW finished \in BOOLEAN,
         Answer(c, t, finished), finished => entry[t].done,
         UNCHANGED <<entry, counter, generation, monitor, process, strays>>,
         entries' \subseteq entries, Typed(records'), Typed(file')
  PROVE  TerminalInv'
<1> DEFINE left == caller[c].todo \ {t}
           answer == [stop |-> IF finished THEN "finished" ELSE "refused", id |-> t]
           next == [[[caller[c] EXCEPT !.pc = "stop_next"] EXCEPT !.todo = left] EXCEPT !.copy = NoRecord]
           call == IF left = {} THEN NoCall ELSE next
<1>1. answer \in Reply /\ (answer.stop = "finished" => entry[answer.id].done)
  BY DEF Reply
<1>2. next \in Call /\ next.pc = "stop_next"
  BY CallTypes, EmptyTyped DEF Call, CallSteps
<1>3. call \in Call /\ call.pc \in {"idle", "stop_next"}
  BY <1>2, CallTypes
<1>4. reply' = [reply EXCEPT ![c] = answer]
  BY DEF Answer
<1>5. caller' = [caller EXCEPT ![c] = call]
  BY CallTypes DEF Answer, Call, TerminalInv, TypeOK
<1> HIDE DEF answer, call
<1> QED  BY <1>1, <1>3, <1>4, <1>5, CallMoves DEF StopSteps

\* The steps of a stop that touch no process.
LEMMA StopsMove ==
  ASSUME TerminalInv, NEW c \in Callers,
         \/ StopNext(c) \/ StopTooLate(c) \/ StopPersist(c) \/ StopFinished(c) \/ StopPersistOrphan(c)
  PROVE  TerminalInv'
<1>1. CASE StopNext(c)
  <2>1. UNCHANGED <<records, entries, entry, file, process, strays, counter, generation, monitor>>
    BY <1>1 DEF StopNext, CallerOnly
  <2>2. PICK t \in caller[c].todo :
          \/ /\ t \in entries /\ UNCHANGED reply
             /\ caller' = [caller EXCEPT ![c].pc = "stop_lock", ![c].id = t]
          \/ Answer(c, t, FALSE)
    BY <1>1 DEF StopNext
  <2>3. t \in Ids
    BY CallTypes
  <2>4. CASE Answer(c, t, FALSE)
    BY <2>1, <2>3, <2>4, CallTypes, AnswerMoves
  <2>5. CASE /\ t \in entries /\ UNCHANGED reply
             /\ caller' = [caller EXCEPT ![c].pc = "stop_lock", ![c].id = t]
    <3> DEFINE call == [[caller[c] EXCEPT !.pc = "stop_lock"] EXCEPT !.id = t]
    <3>1. call \in Call /\ call.pc = "stop_lock" /\ call.id = t
      BY <2>3, CallTypes DEF Call, CallSteps
    <3>2. caller' = [caller EXCEPT ![c] = call]
      BY <2>5, CallTypes DEF Call, TerminalInv, TypeOK
    <3>3. HasGroup(t)
      BY <2>3, <2>5 DEF TerminalInv, TerminalOK
    <3> HIDE DEF call
    <3>4. reply' = [reply EXCEPT ![c] = reply[c]]
      BY <2>5, CallTypes
    <3> QED  BY <2>1, <3>1, <3>2, <3>3, <3>4, CallTypes, CallMoves
  <2> QED  BY <2>2, <2>4, <2>5
<1>2. CASE StopTooLate(c) \/ StopFinished(c)
  <2>1. /\ UNCHANGED <<records, entries, entry, file, process, strays, counter, generation, monitor>>
        /\ \E finished \in BOOLEAN : Answer(c, caller[c].id, finished)
                                     /\ (finished => entry[caller[c].id].done)
    BY <1>2 DEF StopTooLate, StopFinished, CallerOnly
  <2> QED  BY <2>1, CallTypes, AnswerMoves
<1>3. CASE StopPersist(c)
  <2> DEFINE call == [caller[c] EXCEPT !.pc = "stop_grace"]
  <2>1. call \in Call /\ call.pc = "stop_grace" /\ call.id = caller[c].id
    BY CallTypes DEF Call, CallSteps
  <2>2. caller' = [caller EXCEPT ![c] = call] /\ Typed(records') /\ Typed(file')
        /\ UNCHANGED <<entries, entry, process, strays, reply, counter, generation, monitor>>
    BY <1>3, CallTypes DEF StopPersist, Goto, Persist, Typed, CallerOnly
  <2>3. HasGroup(caller[c].id)
    BY <1>3, CallTypes DEF StopPersist, Stopping
  <2> HIDE DEF call
  <2>4. reply' = [reply EXCEPT ![c] = reply[c]]
    BY <2>2, CallTypes
  <2> QED  BY <2>1, <2>2, <2>3, <2>4, CallTypes, CallMoves
<1>4. CASE StopPersistOrphan(c)
  <2>1. /\ Answer(c, caller[c].id, FALSE) /\ entries' \subseteq entries
        /\ UNCHANGED <<entry, process, strays, counter, generation, monitor>>
        /\ Persist(caller[c].id, caller[c].copy)
    BY <1>4 DEF StopPersistOrphan, CallerOnly
  <2>2. Typed(records') /\ Typed(file')
    BY <2>1, CallTypes DEF Persist, Typed
  <2> QED  BY <2>1, <2>2, CallTypes, AnswerMoves
<1> QED  BY <1>1, <1>2, <1>3, <1>4

\* The steps of a stop that signal its group or write in the entry.
LEMMA StopsSignal ==
  ASSUME TerminalInv, NEW c \in Callers, StopLock(c) \/ StopGraceOver(c) \/ StopOrphans(c)
  PROVE  TerminalInv'
<1> DEFINE t == caller[c].id
<1>1. t \in Ids /\ HasGroup(t) /\ entry[t] \in Entry /\ entry[t].record \in Record
  BY CallTypes DEF Stopping, StopLock, StopGraceOver, StopOrphans, Entry
<1>2. UNCHANGED <<records, entries, file, reply, counter, generation, monitor>>
  BY DEF StopLock, StopGraceOver, StopOrphans, CallerOnly
<1>3. ProcessesKept /\ strays' = {}
  <2>1. CASE \E force \in BOOLEAN : SignalEntry(t, force)
    <3>1. entry[t].child \in BOOLEAN
      BY <1>1 DEF Entry
    <3> QED  BY <1>1, <2>1, <3>1, ThroughKeeps DEF SignalEntry, TerminalInv
  <2>2. CASE UNCHANGED <<process, strays>>
    BY <2>2 DEF ProcessesKept, TerminalInv, TypeOK, SignalsOnlyOwn, Used, Alive
  <2>3. caller[c].option \in BOOLEAN
    BY CallTypes
  <2> QED  BY <2>1, <2>2, <2>3 DEF StopLock, StopGraceOver, StopOrphans
<1>4. /\ entry' \in [Ids -> Entry]
      /\ \A u \in Ids : /\ Group(u)' = Group(u) /\ entry'[u].done = entry[u].done
                        /\ monitor[u].pc \in Folded =>
                             ~Active(entry'[u].record) /\ entry'[u].stop = entry[u].stop
  <2>1. \A u \in Ids : monitor[u].pc \in Folded => ~Active(entry[u].record)
    BY DEF TerminalInv, TerminalOK
  <2>2. CASE UNCHANGED entry
    BY <2>1, <2>2, CallTypes DEF Group
  <2>3. CASE \/ /\ Active(entry[t].record)
                /\ entry' = [entry EXCEPT ![t].stop = TRUE, ![t].record.state = "stopping"]
             \/ entry' = [entry EXCEPT ![t].record.state = "orphaned"]
    <3>1. /\ entry \in [Ids -> Entry] /\ DOMAIN entry' = Ids /\ \A u \in Ids \ {t} : entry'[u] = entry[u]
          /\ entry' = [u \in Ids |-> entry'[u]]
      BY <2>3, CallTypes
    <3>2. PICK state \in {"stopping", "orphaned"} :
            /\ entry'[t].record = [entry[t].record EXCEPT !.state = state]
            /\ entry'[t] = [record |-> entry'[t].record, child |-> entry[t].child,
                            stop |-> entry'[t].stop, done |-> entry[t].done]
            /\ \/ entry'[t].stop = TRUE /\ Active(entry[t].record)
               \/ entry'[t].stop = entry[t].stop /\ state = "orphaned"
      BY <1>1, <2>3, CallTypes, SMTT(40) DEF Entry
    <3>3. entry'[t].record \in Record /\ entry'[t].record.pid = entry[t].record.pid
          /\ (state = "orphaned" => ~Active(entry'[t].record))
      BY <1>1, <3>2 DEF Record, ActiveStates, FinalStates, Active
    <3>4. entry'[t] \in Entry /\ entry'[t].done = entry[t].done
      <4>1. entry'[t].stop \in BOOLEAN /\ entry[t].child \in BOOLEAN /\ entry[t].done \in BOOLEAN
        BY <1>1, <3>2 DEF Entry
      <4> QED  BY <3>2, <3>3, <4>1 DEF Entry
    <3> QED  BY <1>1, <2>1, <3>1, <3>2, <3>3, <3>4 DEF Group
  <2> QED  BY <2>2, <2>3 DEF StopLock, StopGraceOver, StopOrphans
<1>5. /\ caller' \in [Callers -> Call] /\ \A d \in Callers \ {c} : caller'[d] = caller[d]
      /\ caller'[c].pc \in {"stop_persist", "stop_settle", "stop_orphan"} /\ caller'[c].id = t
  <2>1. entry'[t].record \in Record
    BY <1>1, <1>4 DEF Entry
  <2>2. PICK step \in {"stop_persist", "stop_settle", "stop_orphan"}, copy \in Record :
          caller' = [caller EXCEPT ![c] = [[caller[c] EXCEPT !.pc = step] EXCEPT !.copy = copy]]
    <3>1. CASE StopGraceOver(c)
      <4>1. [[caller[c] EXCEPT !.pc = "stop_settle"] EXCEPT !.copy = caller[c].copy]
              = [caller[c] EXCEPT !.pc = "stop_settle"]
        BY CallTypes DEF Call
      <4> QED  BY <3>1, <4>1, CallTypes DEF StopGraceOver, Goto
    <3>2. CASE StopLock(c)
      <4>1. caller' = [caller EXCEPT ![c].pc = "stop_persist", ![c].copy = entry'[t].record]
        BY <3>2 DEF StopLock
      <4> QED  BY <2>1, <4>1, CallTypes DEF Call, TerminalInv, TypeOK
    <3>3. CASE StopOrphans(c)
      <4>1. caller' = [caller EXCEPT ![c].pc = "stop_orphan", ![c].copy = entry'[t].record]
        BY <3>3 DEF StopOrphans
      <4> QED  BY <2>1, <4>1, CallTypes DEF Call, TerminalInv, TypeOK
    <3> QED  BY <3>1, <3>2, <3>3
  <2>3. [[caller[c] EXCEPT !.pc = step] EXCEPT !.copy = copy] \in Call
    BY CallTypes DEF Call, CallSteps
  <2> QED  BY <2>2, <2>3, CallTypes DEF Call, TerminalInv, TypeOK
<1>6. ~Starting(c)' /\ (Stopping(c)' => HasGroup(caller'[c].id))
  BY <1>1, <1>5 DEF Starting
<1>7. reply' \in [Callers -> Reply] /\ (reply'[c].stop = "finished" => entry[reply'[c].id].done)
  BY <1>2, CallTypes DEF TerminalInv, TypeOK
<1> QED  BY <1>2, <1>3, <1>4, <1>5, <1>6, <1>7, CallTypes, CallerStep

\* A start takes the next id, which no terminal has had.
LEMMA InsertStep ==
  ASSUME TerminalInv, NEW c \in Callers, Insert(c)
  PROVE  TerminalInv'
<1>1. /\ caller[c].pc = "insert" /\ counter \in Ids /\ counter' = counter + 1
      /\ caller' = [caller EXCEPT ![c].pc = "spawn", ![c].id = counter]
      /\ UNCHANGED <<entries, entry, generation, monitor, process, strays, reply>>
  BY DEF Insert
<1>2. Typed(records') /\ Typed(file')
  <2>1. [state |-> "starting", out |-> 0, pid |-> 0] \in Record
    BY DEF Record, ActiveStates
  <2> QED  BY <2>1, CallTypes DEF Insert, Persist, Typed
<1>3. counter \in Nat /\ counter' \in 0 .. MaxIds
  BY <1>1, BoundsAssumption DEF Ids
<1>4. /\ caller' \in [Callers -> Call] /\ caller'[c].pc = "spawn" /\ caller'[c].id = counter
      /\ \A d \in Callers \ {c} : caller'[d] = caller[d]
  <2> DEFINE call == [[caller[c] EXCEPT !.pc = "spawn"] EXCEPT !.id = counter]
  <2>1. call \in Call /\ call.pc = "spawn" /\ call.id = counter
    BY <1>1, CallTypes DEF Call, CallSteps
  <2>2. caller' = [caller EXCEPT ![c] = call]
    BY <1>1, CallTypes DEF Call, TerminalInv, TypeOK
  <2> HIDE DEF call
  <2> QED  BY <2>1, <2>2 DEF TerminalInv, TypeOK
<1>5. TypeOK'
  BY <1>1, <1>2, <1>3, <1>4 DEF TerminalInv, TypeOK, Typed
<1>6. /\ PidsInUse' /\ \A t \in Ids : Group(t)' = Group(t) /\ (HasGroup(t) => HasGroup(t)')
  BY <1>1 DEF TerminalInv, PidsInUse, HasGroup, Group, Used
<1>7. \A t \in Ids : t \in Nat /\ TerminalOK(t)'
  BY <1>1, <1>3, <1>6 DEF TerminalInv, TerminalOK, StopShows, Alive, Ids
<1>8. monitor[counter].pc = "none"
  BY <1>1, <1>3 DEF TerminalInv, TerminalOK
<1>9. \A d \in Callers : caller[d].id \in Nat /\ caller[d].id \in Ids
  BY CallTypes DEF Ids
<1>10. \A d \in Callers \ {c} : Starting(d)' => Starting(d) /\ caller[d].id < counter
  BY <1>4 DEF TerminalInv, CallOK, Starting
<1>11. StartsDiffer'
  <2> SUFFICES ASSUME NEW d \in Callers, NEW e \in Callers, Starting(d)', Starting(e)',
                      caller'[d].id = caller'[e].id
               PROVE  d = e
    BY DEF StartsDiffer
  <2>1. CASE d = c \/ e = c
    BY <1>3, <1>4, <1>9, <1>10, <2>1
  <2>2. CASE d # c /\ e # c
    BY <1>4, <1>10, <2>2 DEF TerminalInv, StartsDiffer
  <2> QED  BY <2>1, <2>2
<1>12. ASSUME NEW d \in Callers PROVE CallOK(d)'
  <2>1. CASE d = c
    BY <1>1, <1>3, <1>4, <1>8, <2>1 DEF TerminalInv, CallOK, Starting, Stopping
  <2>2. CASE d # c
    BY <1>1, <1>3, <1>4, <1>6, <1>9, <2>2 DEF TerminalInv, CallOK, Starting, Stopping
  <2> QED  BY <2>1, <2>2
<1> QED  BY <1>1, <1>5, <1>6, <1>7, <1>11, <1>12 DEF TerminalInv, SignalsOnlyOwn

\* The new process has a pid of its own, so no group that is closed comes to life.
LEMMA SpawnStep ==
  ASSUME TerminalInv, NEW c \in Callers, Spawn(c)
  PROVE  TerminalInv'
<1>t. PICK t \in Ids : t = caller[c].id
  BY CallTypes
<1>p. PICK p \in Pids : p = NextPid
  BY DEF Spawn
<1>1. PICK background \in BOOLEAN :
        /\ process' = [process EXCEPT ![p] =
             [NoProcess EXCEPT !.leader = "running", !.background = background, !.owner = generation]]
        /\ entry' = [entry EXCEPT ![t] =
             [NoEntry EXCEPT !.child = TRUE, !.record = [state |-> "running", out |-> 0, pid |-> p]]]
  BY <1>t, <1>p DEF Spawn
<1>2. /\ caller[c].pc = "spawn" /\ p \in Pids /\ entries' = entries \cup {t}
      /\ caller' = [caller EXCEPT ![c].pc = "running"]
      /\ UNCHANGED <<records, file, counter, generation, monitor, strays, reply>>
  BY <1>t, <1>p DEF Spawn, Goto
<1>3. t \in Ids /\ t < counter /\ monitor[t].pc = "none"
  BY <1>2, <1>t DEF TerminalInv, CallOK, Starting
<1>4. ~Used(p) /\ {q \in Pids : Used(q)} \cup {p} = 1 .. p
  BY <1>p, NextPidIsNew DEF TerminalInv
<1>5. /\ process' \in [Pids -> Process] /\ process'[p].leader = "running"
      /\ process'[p].owner = generation /\ \A q \in Pids \ {p} : process'[q] = process[q]
  <2>1. [NoProcess EXCEPT !.leader = "running", !.background = background, !.owner = generation]
          \in Process
    BY EmptyTyped DEF Process, NoProcess, TerminalInv, TypeOK
  <2> QED  BY <1>1, <1>2, <2>1 DEF TerminalInv, TypeOK, NoProcess
<1>6. /\ entry' \in [Ids -> Entry] /\ Group(t)' = p /\ ~entry'[t].done
      /\ \A u \in Ids \ {t} : entry'[u] = entry[u] /\ Group(u)' = Group(u)
  <2>1. [state |-> "running", out |-> 0, pid |-> p] \in Record
    BY <1>2 DEF Record, ActiveStates
  <2>2. [NoEntry EXCEPT !.child = TRUE, !.record = [state |-> "running", out |-> 0, pid |-> p]] \in Entry
    BY <2>1 DEF Entry, NoEntry
  <2>3. entry'[t] = [NoEntry EXCEPT !.child = TRUE,
                                    !.record = [state |-> "running", out |-> 0, pid |-> p]]
    BY <1>1, CallTypes
  <2>4. entry'[t].record.pid = p /\ ~entry'[t].done
    BY <2>3 DEF NoEntry
  <2> QED  BY <1>1, <2>2, <2>4, CallTypes DEF Group
<1>7. /\ caller' \in [Callers -> Call] /\ caller'[c].pc = "running" /\ caller'[c].id = t
      /\ \A d \in Callers \ {c} : caller'[d] = caller[d]
  <2>1. [caller[c] EXCEPT !.pc = "running"] \in Call
    BY CallTypes DEF Call, CallSteps
  <2> QED  BY <1>2, <1>t, <2>1, CallTypes DEF TerminalInv, TypeOK, Call
<1>8. TypeOK'
  BY <1>2, <1>3, <1>5, <1>6, <1>7 DEF TerminalInv, TypeOK
<1>9. PidsInUse'
  <2>1. {q \in Pids : Used(q)}' = 1 .. p
    BY <1>2, <1>4, <1>5 DEF Used
  <2>2. p \in 0 .. MaxSpawns
    BY <1>2, BoundsAssumption DEF Pids
  <2> QED  BY <2>1, <2>2 DEF PidsInUse
<1>10. HasGroup(t)'
  BY <1>2, <1>5, <1>6 DEF HasGroup, Used
<1>11. \A u \in Ids \ {t} : HasGroup(u) =>
         HasGroup(u)' /\ process'[Group(u)] = process[Group(u)] /\ Group(u)' = Group(u)
  BY <1>2, <1>4, <1>5, <1>6 DEF HasGroup, Used
<1>12. \A u \in Ids : HasGroup(u) => HasGroup(u)'
  BY <1>10, <1>11
<1>13. ASSUME NEW u \in Ids PROVE TerminalOK(u)'
  <2>1. CASE u = t
    BY <1>2, <1>3, <1>6, <1>10, <2>1 DEF TerminalOK, Closed, Latched, Folded
  <2>2. CASE u # t
    <3>1. monitor[u].pc \in Closed => HasGroup(u)
      BY DEF TerminalInv, TerminalOK, Closed, Latched
    <3>2. monitor[u].pc \in Closed => ~Alive(Group(u))'
      BY <1>11, <2>2, <3>1 DEF TerminalInv, TerminalOK, Alive
    <3> QED  BY <1>2, <1>6, <1>11, <2>2, <3>2 DEF TerminalInv, TerminalOK, StopShows
  <2> QED  BY <2>1, <2>2
<1>14. \A d \in Callers : Starting(d)' => Starting(d) /\ caller'[d].id = caller[d].id
  BY <1>2, <1>7, <1>t DEF Starting
<1>15. StartsDiffer'
  BY <1>14 DEF TerminalInv, StartsDiffer
<1>16. ASSUME NEW d \in Callers PROVE CallOK(d)'
  <2>1. reply[d].stop = "finished" => entry'[reply[d].id].done
    <3>1. reply[d].id \in Ids
      BY DEF TerminalInv, TypeOK, Reply
    <3>2. entry[t].done => FALSE
      BY <1>3 DEF TerminalInv, TerminalOK, Latched
    <3> QED  BY <1>6, <3>1, <3>2 DEF TerminalInv, CallOK
  <2>2. caller[d].id \in Ids
    BY CallTypes
  <2>3. CASE d = c
    BY <1>2, <1>3, <1>7, <1>10, <2>1, <2>3 DEF CallOK, Starting, Stopping
  <2>4. CASE d # c
    BY <1>2, <1>7, <1>12, <2>1, <2>2, <2>4 DEF TerminalInv, CallOK, Starting, Stopping
  <2> QED  BY <2>3, <2>4
<1> QED  BY <1>2, <1>8, <1>9, <1>13, <1>15, <1>16 DEF TerminalInv, SignalsOnlyOwn

\* The monitor of the new terminal begins.
LEMMA MarkRunningStep ==
  ASSUME TerminalInv, NEW c \in Callers, MarkRunning(c)
  PROVE  TerminalInv'
<1> DEFINE t == caller[c].id
<1>1. PICK budget \in BOOLEAN : monitor' = [monitor EXCEPT ![t].pc = "take", ![t].budget = budget]
  BY DEF MarkRunning
<1>2. /\ caller[c].pc = "running" /\ caller' = [caller EXCEPT ![c] = NoCall]
      /\ UNCHANGED <<entries, entry, counter, generation, process, strays, reply>>
      /\ Persist(t, [state |-> "running", out |-> 0, pid |-> entry[t].record.pid])
  BY DEF MarkRunning, Return
<1>3. t \in Ids /\ t < counter /\ monitor[t].pc = "none" /\ HasGroup(t) /\ Starting(c)
  BY <1>2, CallTypes DEF TerminalInv, CallOK, Starting
<1>4. Typed(records') /\ Typed(file')
  <2>1. [state |-> "running", out |-> 0, pid |-> entry[t].record.pid] \in Record
    BY <1>3 DEF Record, ActiveStates, HasGroup, Group
  <2> QED  BY <1>2, <2>1, CallTypes DEF Persist, Typed
<1>5. /\ monitor' \in [Ids -> Monitor] /\ monitor'[t].pc = "take"
      /\ \A u \in Ids \ {t} : monitor'[u] = monitor[u]
  <2> DEFINE new == [[monitor[t] EXCEPT !.pc = "take"] EXCEPT !.budget = budget]
  <2>1. monitor \in [Ids -> Monitor] /\ monitor[t] \in Monitor
    BY <1>3 DEF TerminalInv, TypeOK
  <2>2. new \in Monitor /\ new.pc = "take"
    BY <2>1 DEF Monitor, MonitorSteps
  <2>3. monitor' = [monitor EXCEPT ![t] = new]
    BY <1>1, <1>3, <2>1 DEF Monitor
  <2> HIDE DEF new
  <2> QED  BY <1>3, <2>1, <2>2, <2>3
<1> HIDE DEF t
<1>6. /\ caller' \in [Callers -> Call] /\ caller'[c] = NoCall
      /\ \A d \in Callers \ {c} : caller'[d] = caller[d]
  BY <1>2, CallTypes DEF TerminalInv, TypeOK
<1>7. TypeOK'
  BY <1>2, <1>4, <1>5, <1>6 DEF TerminalInv, TypeOK, Typed
<1>8. /\ PidsInUse' /\ \A u \in Ids : Group(u)' = Group(u) /\ (HasGroup(u) => HasGroup(u)')
  BY <1>2 DEF TerminalInv, PidsInUse, HasGroup, Group, Used
<1>9. ASSUME NEW u \in Ids PROVE TerminalOK(u)'
  <2>1. CASE u = t
    BY <1>2, <1>3, <1>5, <1>8, <2>1 DEF TerminalInv, TerminalOK, Closed, Latched, Folded
  <2>2. CASE u # t
    BY <1>2, <1>5, <1>8, <2>2 DEF TerminalInv, TerminalOK, StopShows, Alive
  <2> QED  BY <2>1, <2>2
<1>10. ~Starting(c)' /\ ~Stopping(c)'
  BY <1>6, CallTypes DEF Starting, Stopping, NoCall
<1>11. \A d \in Callers \ {c} : Starting(d) => caller[d].id # t
  BY <1>3 DEF TerminalInv, StartsDiffer, t
<1>12. StartsDiffer'
  BY <1>6, <1>10 DEF TerminalInv, StartsDiffer, Starting
<1>13. ASSUME NEW d \in Callers PROVE CallOK(d)'
  <2>1. caller[d].id \in Ids
    BY CallTypes
  <2>2. CASE d = c
    BY <1>2, <1>6, <2>2 DEF TerminalInv, CallOK, Starting, Stopping, NoCall
  <2>3. CASE d # c
    BY <1>2, <1>5, <1>6, <1>8, <1>11, <2>1, <2>3 DEF TerminalInv, CallOK, Starting, Stopping
  <2> QED  BY <2>2, <2>3
<1> QED  BY <1>2, <1>7, <1>8, <1>9, <1>12, <1>13 DEF TerminalInv, SignalsOnlyOwn

Early == {"take", "wait", "retake", "grace", "retake_forced", "forced", "reattach", "kill"}

\* What a monitor at work finds.
LEMMA MonitorTypes ==
  ASSUME TerminalInv, NEW t \in Ids, monitor[t].pc # "none"
  PROVE  /\ monitor \in [Ids -> Monitor] /\ monitor[t] \in Monitor
         /\ entry \in [Ids -> Entry] /\ entry[t] \in Entry /\ entry[t].record \in Record
         /\ Typed(records) /\ Typed(file) /\ strays = {} /\ HasGroup(t)
         /\ process \in [Pids -> Process] /\ Group(t) \in Pids
         /\ entry[t].done => monitor[t].pc \in Latched
         /\ monitor[t].pc \in Closed => ~Alive(Group(t))
         /\ monitor[t].pc \in Folded => ~Active(entry[t].record) /\ StopShows(t)
         /\ monitor[t].final \in Record /\ monitor[t].seen \in Nat
BY DEF TerminalInv, TypeOK, SignalsOnlyOwn, TerminalOK, Typed, HasGroup, Entry, Monitor

\* The monitor of t goes to another step.
LEMMA StepTaken ==
  ASSUME TerminalInv, NEW t \in Ids, NEW step \in MonitorSteps,
         monitor' = [monitor EXCEPT ![t].pc = step]
  PROVE  /\ monitor' \in [Ids -> Monitor] /\ monitor'[t].pc = step
         /\ monitor'[t].final = monitor[t].final
         /\ \A u \in Ids \ {t} : monitor'[u] = monitor[u]
<1>1. monitor \in [Ids -> Monitor] /\ monitor[t] \in Monitor
  BY DEF TerminalInv, TypeOK
<1>2. [monitor[t] EXCEPT !.pc = step] \in Monitor
  BY <1>1 DEF Monitor
<1>3. monitor' = [monitor EXCEPT ![t] = [monitor[t] EXCEPT !.pc = step]]
  OBVIOUS
<1> QED  BY <1>1, <1>2, <1>3 DEF Monitor

\* Until the leader is reaped: handles come and go, and the group is asked to end.
LEMMA MonitorRuns ==
  ASSUME TerminalInv, NEW t \in Ids, UNCHANGED <<records, file, entries, counter, generation, caller, reply>>,
         ProcessesKept, strays' = {}, monitor[t].pc \in Early,
         monitor' \in [Ids -> Monitor], monitor'[t].pc \in Early,
         \A u \in Ids \ {t} : monitor'[u] = monitor[u],
         NEW stop \in BOOLEAN, NEW child \in BOOLEAN,
         entry' = [entry EXCEPT ![t] = [[entry[t] EXCEPT !.stop = stop] EXCEPT !.child = child]]
  PROVE  TerminalInv'
<1>1. monitor[t].pc # "none" /\ monitor[t].pc \notin Latched
      /\ monitor'[t].pc \notin Closed /\ monitor'[t].pc \notin Folded
  BY DEF Early, Latched, Closed, Folded
<1>2. /\ entry' \in [Ids -> Entry] /\ entry'[t].record = entry[t].record
      /\ entry'[t].done = entry[t].done /\ \A u \in Ids \ {t} : entry'[u] = entry[u]
  BY <1>1, MonitorTypes DEF Entry
<1>3. Typed(records') /\ Typed(file') /\ ~entry[t].done /\ ~entry'[t].done
  BY <1>1, <1>2, MonitorTypes
<1>4. Group(t)' = Group(t) /\ entries' \subseteq entries
  BY <1>2 DEF Group
<1> QED  BY <1>1, <1>2, <1>3, <1>4, MonitorMoves

\* An entry whose handle, or whose request, is set.
LEMMA EntrySet ==
  ASSUME TerminalInv, NEW t \in Ids, monitor[t].pc # "none"
  PROVE  /\ [entry EXCEPT ![t].child = FALSE] = [entry EXCEPT ![t] =
              [[entry[t] EXCEPT !.stop = entry[t].stop] EXCEPT !.child = FALSE]]
         /\ [entry EXCEPT ![t].child = TRUE] = [entry EXCEPT ![t] =
              [[entry[t] EXCEPT !.stop = entry[t].stop] EXCEPT !.child = TRUE]]
         /\ [entry EXCEPT ![t].stop = TRUE, ![t].child = TRUE] = [entry EXCEPT ![t] =
              [[entry[t] EXCEPT !.stop = TRUE] EXCEPT !.child = TRUE]]
         /\ entry = [entry EXCEPT ![t] =
              [[entry[t] EXCEPT !.stop = entry[t].stop] EXCEPT !.child = entry[t].child]]
         /\ entry[t].stop \in BOOLEAN /\ entry[t].child \in BOOLEAN
BY MonitorTypes DEF Entry

\* A step that leaves the processes as they are keeps them.
LEMMA SameProcesses ==
  ASSUME TerminalInv, UNCHANGED <<process, strays>>
  PROVE  ProcessesKept /\ strays' = {}
BY DEF ProcessesKept, TerminalInv, TypeOK, SignalsOnlyOwn, Used, Alive

\* The first part of a monitor, up to the point where its leader is reaped.
LEMMA MonitorEarly ==
  ASSUME TerminalInv, NEW t \in Ids,
         \/ Take(t) \/ Wait(t) \/ Deadline(t) \/ Retake(t) \/ GraceWait(t) \/ GraceOver(t)
         \/ ForcedWait(t) \/ Reattach(t) \/ WaitFails(t)
  PROVE  TerminalInv'
<1>1. UNCHANGED <<records, file, entries, counter, generation, caller, reply>>
  BY DEF Take, Wait, Deadline, Retake, GraceWait, GraceOver, ForcedWait, Reattach, WaitFails,
         Reaps, MonitorOnly
<1>2. CASE Take(t) \/ Retake(t) \/ Reattach(t)
  <2>1. /\ monitor[t].pc \in Early /\ UNCHANGED <<process, strays>>
        /\ \E step \in {"wait", "grace", "forced", "kill"} : monitor' = [monitor EXCEPT ![t].pc = step]
        /\ \/ entry' = [entry EXCEPT ![t].child = FALSE]
           \/ entry' = [entry EXCEPT ![t].child = TRUE]
    BY <1>2 DEF Take, Retake, Reattach, Moves, Early
  <2>2. monitor' \in [Ids -> Monitor] /\ monitor'[t].pc \in Early
        /\ \A u \in Ids \ {t} : monitor'[u] = monitor[u]
    BY <2>1, StepTaken DEF MonitorSteps, Early
  <2>3. \E child \in BOOLEAN : entry' = [entry EXCEPT ![t] =
          [[entry[t] EXCEPT !.stop = entry[t].stop] EXCEPT !.child = child]]
    BY <2>1, EntrySet DEF Early
  <2>4. entry[t].stop \in BOOLEAN
    BY <2>1, EntrySet DEF Early
  <2> QED  BY <1>1, <2>1, <2>2, <2>3, <2>4, SameProcesses, MonitorRuns
<1>3. CASE Deadline(t) \/ GraceOver(t)
  <2>1. monitor[t].pc \in Early /\ monitor[t].pc # "none"
    BY <1>3 DEF Deadline, GraceOver, Moves, Early
  <2>2. monitor' \in [Ids -> Monitor] /\ monitor'[t].pc \in Early
        /\ \A u \in Ids \ {t} : monitor'[u] = monitor[u]
    <3>1. CASE GraceOver(t)
      BY <3>1, StepTaken DEF GraceOver, Moves, MonitorSteps, Early
    <3>2. CASE Deadline(t)
      <4> DEFINE new == [[monitor[t] EXCEPT !.pc = "retake"] EXCEPT !.timed_out = TRUE]
      <4>1. new \in Monitor /\ new.pc = "retake"
        BY <2>1, MonitorTypes DEF Monitor, MonitorSteps
      <4>2. monitor' = [monitor EXCEPT ![t] = new]
        BY <2>1, <3>2, MonitorTypes DEF Deadline, Monitor
      <4> HIDE DEF new
      <4> QED  BY <2>1, <4>1, <4>2, MonitorTypes DEF Early
    <3> QED  BY <1>3, <3>1, <3>2
  <2>3. ProcessesKept /\ strays' = {}
    BY <1>3, <2>1, MonitorTypes, ThroughKeeps DEF Deadline, GraceOver, TerminalInv
  <2>4. PICK stop \in BOOLEAN : entry' = [entry EXCEPT ![t] =
          [[entry[t] EXCEPT !.stop = stop] EXCEPT !.child = TRUE]]
    BY <1>3, <2>1, EntrySet DEF Deadline, GraceOver
  <2> QED  BY <1>1, <2>1, <2>2, <2>3, <2>4, MonitorRuns
<1>4. CASE Wait(t) \/ GraceWait(t) \/ ForcedWait(t) \/ WaitFails(t)
  <2>1. monitor[t].pc \in Early /\ monitor[t].pc # "none" /\ UNCHANGED <<entry, strays>>
    BY <1>4 DEF Wait, GraceWait, ForcedWait, WaitFails, Moves, Reaps, Early
  <2>2. monitor' \in [Ids -> Monitor] /\ monitor'[t].pc \in Early
        /\ \A u \in Ids \ {t} : monitor'[u] = monitor[u]
    <3>1. CASE Wait(t) \/ GraceWait(t) \/ ForcedWait(t)
      BY <3>1, StepTaken DEF Wait, GraceWait, ForcedWait, Moves, MonitorSteps, Early
    <3>2. CASE WaitFails(t)
      <4>1. PICK step \in {"reattach", "kill"} :
              monitor' = [monitor EXCEPT ![t] = [[monitor[t] EXCEPT !.known = FALSE] EXCEPT !.pc = step]]
        BY <2>1, <3>2, MonitorTypes DEF WaitFails, Monitor
      <4>2. [[monitor[t] EXCEPT !.known = FALSE] EXCEPT !.pc = step] \in Monitor
        BY <2>1, MonitorTypes DEF Monitor, MonitorSteps
      <4>3. [[monitor[t] EXCEPT !.known = FALSE] EXCEPT !.pc = step].pc = step
        BY <2>1, MonitorTypes DEF Monitor
      <4> QED  BY <2>1, <4>1, <4>2, <4>3, MonitorTypes DEF Early
    <3> QED  BY <1>4, <3>1, <3>2
  <2>3. ProcessesKept
    <3>1. CASE UNCHANGED process
      BY <2>1, <3>1, SameProcesses
    <3>2. CASE /\ process[Group(t)].leader \in {"zombie", "gone"}
               /\ process' = [process EXCEPT ![Group(t)].leader = "gone"]
      BY <2>1, <3>2, MonitorTypes DEF ProcessesKept, Used, Alive, Process
    <3> QED  BY <1>4, <3>1, <3>2 DEF Wait, GraceWait, ForcedWait, WaitFails, Reaps
  <2>4. strays' = {} /\ entry[t].stop \in BOOLEAN /\ entry[t].child \in BOOLEAN
        /\ entry' = [entry EXCEPT ![t] =
             [[entry[t] EXCEPT !.stop = entry[t].stop] EXCEPT !.child = entry[t].child]]
    BY <2>1, EntrySet, MonitorTypes
  <2> QED  BY <1>1, <2>1, <2>2, <2>3, <2>4, MonitorRuns
<1> QED  BY <1>2, <1>3, <1>4

\* Its second part: the group is killed and the end is recorded.
LEMMA MonitorLate ==
  ASSUME TerminalInv, NEW t \in Ids,
         \/ Kill(t) \/ Drain(t) \/ Fire(t) \/ Observe(t) \/ Fold(t) \/ Remove(t) \/ PersistFinal(t)
  PROVE  TerminalInv'
<1>1. /\ UNCHANGED <<counter, generation, caller, reply>> /\ entries' \subseteq entries
      /\ monitor[t].pc \in {"kill", "drain", "fire", "observe", "fold", "remove", "persist"}
      /\ monitor[t].pc # "none"
  BY DEF Kill, Drain, Fire, Observe, Fold, Remove, PersistFinal, Moves, MonitorOnly
<1>2. Typed(records') /\ Typed(file')
  BY <1>1, MonitorTypes
     DEF Kill, Drain, Fire, Observe, Fold, Remove, PersistFinal, Persist, MonitorOnly, Typed
<1>3. CASE Kill(t)
  <2>1. /\ monitor[t].pc = "kill" /\ monitor' = [monitor EXCEPT ![t].pc = "drain"]
        /\ SignalGroup(Group(t), TRUE) /\ UNCHANGED entry
    BY <1>3 DEF Kill, Moves
  <2>2. ProcessesKept /\ strays' = {} /\ ~Alive(Group(t))'
    <3>1. /\ ProcessesKept /\ strays' = {} /\ \A p \in Pids : p = Group(t) => ~Alive(p)'
      BY <1>1, <2>1, MonitorTypes, SignalKeeps DEF HasGroup, TerminalInv
    <3> QED  BY <1>1, <2>1, <3>1, MonitorTypes DEF Group, Alive
  <2>3. /\ monitor' \in [Ids -> Monitor] /\ monitor'[t].pc = "drain"
        /\ \A u \in Ids \ {t} : monitor'[u] = monitor[u]
    BY <2>1, StepTaken DEF MonitorSteps
  <2>4. ~entry[t].done
    BY <1>1, <2>1, MonitorTypes DEF Latched
  <2>5. /\ entry' \in [Ids -> Entry] /\ entry' = entry /\ Group(t)' = Group(t)
    BY <1>1, <2>1, MonitorTypes DEF Group
  <2>6. monitor'[t].pc \notin Folded
    BY <2>3 DEF Folded
  <2> QED  BY <1>1, <1>2, <2>2, <2>3, <2>4, <2>5, <2>6, MonitorMoves
<1>4. CASE Drain(t) \/ Fire(t) \/ Observe(t) \/ Remove(t) \/ PersistFinal(t)
  <2>1. /\ UNCHANGED <<process, strays>>
        /\ entry' = entry \/ (entry' = [entry EXCEPT ![t].done = TRUE] /\ monitor'[t].pc = "observe")
    BY <1>1, <1>4, StepTaken DEF Drain, Fire, Observe, Remove, PersistFinal, Moves, MonitorSteps
  <2>2. /\ monitor' \in [Ids -> Monitor] /\ monitor'[t].final = monitor[t].final
        /\ \A u \in Ids \ {t} : monitor'[u] = monitor[u]
        /\ \/ monitor[t].pc = "drain" /\ monitor'[t].pc = "fire"
           \/ monitor[t].pc = "fire" /\ monitor'[t].pc = "observe"
           \/ monitor[t].pc = "observe" /\ monitor'[t].pc = "fold"
           \/ monitor[t].pc = "remove" /\ monitor'[t].pc = "persist"
           \/ monitor[t].pc = "persist" /\ monitor'[t].pc = "end"
    <3>1. CASE Fire(t) \/ Remove(t) \/ PersistFinal(t)
      BY <3>1, StepTaken DEF Fire, Remove, PersistFinal, Moves, MonitorSteps
    <3>2. CASE Drain(t)
      <4>1. PICK drained \in BOOLEAN :
              monitor' = [monitor EXCEPT ![t] = [[monitor[t] EXCEPT !.pc = "fire"] EXCEPT !.drained = drained]]
        BY <1>1, <3>2, MonitorTypes DEF Drain, Monitor
      <4> DEFINE new == [[monitor[t] EXCEPT !.pc = "fire"] EXCEPT !.drained = drained]
      <4>2. new \in Monitor /\ new.pc = "fire" /\ new.final = monitor[t].final
        BY <1>1, MonitorTypes DEF Monitor, MonitorSteps
      <4>3. monitor' = [monitor EXCEPT ![t] = new]
        BY <4>1
      <4>4. monitor[t].pc = "drain"
        BY <3>2 DEF Drain
      <4> HIDE DEF new
      <4> QED  BY <1>1, <4>2, <4>3, <4>4, MonitorTypes
    <3>3. CASE Observe(t)
      <4> DEFINE new == [[monitor[t] EXCEPT !.pc = "fold"] EXCEPT !.seen = records[t].out]
      <4>1. records[t].out \in Nat
        BY <1>1, MonitorTypes DEF Typed, Record
      <4>2. new \in Monitor /\ new.pc = "fold" /\ new.final = monitor[t].final
        BY <1>1, <4>1, MonitorTypes DEF Monitor, MonitorSteps
      <4>3. monitor' = [monitor EXCEPT ![t] = new] /\ monitor[t].pc = "observe"
        BY <1>1, <3>3, MonitorTypes DEF Observe, Monitor
      <4> HIDE DEF new
      <4> QED  BY <1>1, <4>2, <4>3, MonitorTypes
    <3> QED  BY <1>4, <3>1, <3>2, <3>3
  <2>3. /\ entry' \in [Ids -> Entry] /\ entry'[t].record = entry[t].record
        /\ entry'[t].stop = entry[t].stop /\ \A u \in Ids \ {t} : entry'[u] = entry[u]
        /\ entry'[t].done = entry[t].done \/ (entry'[t].done /\ monitor'[t].pc = "observe")
    <3>1. CASE entry' = entry
      BY <1>1, <3>1, MonitorTypes
    <3>2. CASE entry' = [entry EXCEPT ![t].done = TRUE] /\ monitor'[t].pc = "observe"
      BY <1>1, <3>2, MonitorTypes DEF Entry
    <3> QED  BY <2>1, <3>1, <3>2
  <2>4. Group(t)' = Group(t) /\ (entry[t].done => entry'[t].done)
    BY <2>3 DEF Group
  <2>5. ~Alive(Group(t))'
    BY <1>1, <2>1, <2>2, <2>4, MonitorTypes DEF Alive, Closed, Latched
  <2>6. entry'[t].done => monitor'[t].pc \in Latched
    BY <1>1, <2>2, <2>3, MonitorTypes DEF Latched
  <2>7. monitor'[t].pc \in Folded => monitor[t].pc \in Folded
    BY <2>2 DEF Folded
  <2>8. monitor'[t].pc \in Folded => ~Active(entry'[t].record) /\ StopShows(t)'
    BY <1>1, <2>2, <2>3, <2>7, MonitorTypes DEF StopShows
  <2> QED  BY <1>1, <1>2, <2>1, <2>2, <2>3, <2>4, <2>5, <2>6, <2>8, SameProcesses, MonitorMoves
<1>5. CASE Fold(t)
  <2>1. PICK state \in Outcomes(t) :
          LET final == [entry[t].record EXCEPT !.state = state, !.out = monitor[t].seen]
          IN  /\ entry' = [entry EXCEPT ![t].record = final]
              /\ monitor' = [monitor EXCEPT ![t].pc = "remove", ![t].final = final]
    BY <1>5 DEF Fold
  <2> DEFINE final == [[entry[t].record EXCEPT !.state = state] EXCEPT !.out = monitor[t].seen]
  <2>2. /\ state \in FinalStates
        /\ entry[t].stop => state \in {"stopped", "timed_out", "orphaned"}
    BY DEF Outcomes, FinalStates
  <2>3. final \in Record /\ final.state = state /\ final.pid = entry[t].record.pid
    BY <1>1, <2>2, MonitorTypes DEF Record
  <2>4. /\ entry' = [entry EXCEPT ![t] = [entry[t] EXCEPT !.record = final]]
        /\ monitor' = [monitor EXCEPT ![t] = [[monitor[t] EXCEPT !.pc = "remove"] EXCEPT !.final = final]]
    BY <1>1, <2>1, MonitorTypes DEF Monitor, Entry, Record
  <2> HIDE DEF final
  <2>5. /\ entry' \in [Ids -> Entry] /\ entry'[t].record = final /\ entry'[t].stop = entry[t].stop
        /\ entry'[t].done = entry[t].done /\ \A u \in Ids \ {t} : entry'[u] = entry[u]
    BY <1>1, <2>3, <2>4, MonitorTypes DEF Entry
  <2>6. /\ monitor' \in [Ids -> Monitor] /\ monitor'[t].pc = "remove" /\ monitor'[t].final = final
        /\ \A u \in Ids \ {t} : monitor'[u] = monitor[u]
    BY <1>1, <2>3, <2>4, MonitorTypes, ZenonT(60) DEF Monitor, MonitorSteps
  <2>7. ~Active(entry'[t].record) /\ StopShows(t)'
    BY <2>2, <2>3, <2>5, <2>6 DEF Active, ActiveStates, FinalStates, StopShows
  <2>8. UNCHANGED <<process, strays>> /\ monitor[t].pc = "fold"
    BY <1>5 DEF Fold
  <2>9. Group(t)' = Group(t) /\ ~Alive(Group(t))'
    BY <1>1, <2>3, <2>5, <2>8, MonitorTypes DEF Group, Alive, Closed, Latched
  <2>10. monitor'[t].pc \in Latched
    BY <2>6 DEF Latched
  <2> QED  BY <1>1, <1>2, <2>5, <2>6, <2>7, <2>8, <2>9, <2>10, SameProcesses, MonitorMoves
<1> QED  BY <1>3, <1>4, <1>5

\* Processes print and exit, pumps read; a new manager begins with nothing.
LEMMA RestStep ==
  ASSUME TerminalInv,
         \/ \E p \in Pids : WriteChunk(p) \/ Exit(p)
         \/ \E t \in Ids : Pump(t)
         \/ Restart \/ UNCHANGED vars
  PROVE  TerminalInv'
<1>0. process \in [Pids -> Process] /\ Typed(records) /\ Typed(file)
  BY DEF TerminalInv, TypeOK, Typed
<1>1. ASSUME NEW p \in Pids, WriteChunk(p) \/ Exit(p) PROVE TerminalInv'
  <2>1. process[p] \in Process
    BY <1>0
  <2>2. UNCHANGED <<records, entries, entry, file, counter, generation, monitor, strays, caller, reply>>
    BY <1>1 DEF WriteChunk, Exit
  <2>3. PICK new \in Process :
          /\ process' = [process EXCEPT ![p] = new]
          /\ new.owner = process[p].owner /\ Alive(p) /\ (new.leader # "none" <=> Used(p))
    <3>1. CASE WriteChunk(p)
      <4> DEFINE new == [[process[p] EXCEPT !.printed = process[p].printed + 1]
                         EXCEPT !.pipe = process[p].pipe + 1]
      <4>0. process[p].printed + 1 \in Nat /\ process[p].pipe + 1 \in Nat
        BY <2>1 DEF Process
      <4>1. new \in Process /\ new.owner = process[p].owner /\ new.leader = process[p].leader
        <5> DEFINE n == process[p].printed + 1
                   m == process[p].pipe + 1
        <5> HIDE DEF n, m
        <5>1. [[process[p] EXCEPT !.printed = n] EXCEPT !.pipe = m] \in Process
          BY <2>1, <4>0 DEF Process, n, m
        <5> QED  BY <2>1, <5>1 DEF n, m, Process
      <4>2. process' = [process EXCEPT ![p] = new] /\ Alive(p)
        BY <1>0, <2>1, <3>1 DEF WriteChunk, Process
      <4> HIDE DEF new
      <4> QED  BY <4>1, <4>2 DEF Used
    <3>2. CASE Exit(p)
      <4> DEFINE new == [process[p] EXCEPT !.leader = "zombie"]
      <4>1. new \in Process /\ new.owner = process[p].owner /\ new.leader = "zombie"
        BY <2>1 DEF Process
      <4>2. process' = [process EXCEPT ![p] = new] /\ Alive(p) /\ Used(p)
        BY <3>2 DEF Exit, Alive, Used
      <4> HIDE DEF new
      <4> QED  BY <4>1, <4>2
    <3> QED  BY <1>1, <3>1, <3>2
  <2>4. ProcessesKept
    BY <1>0, <2>3 DEF ProcessesKept, Used, Alive
  <2> QED  BY <1>0, <2>2, <2>4, ProcessStep
<1>2. ASSUME NEW t \in Ids, Pump(t) PROVE TerminalInv'
  <2>1. /\ monitor[t].pc # "none" /\ process[Group(t)].pipe > 0
        /\ process' = [process EXCEPT ![Group(t)].pipe = @ - 1]
        /\ records' = [records EXCEPT ![t].out = @ + 1]
        /\ UNCHANGED <<entries, entry, file, counter, generation, monitor, strays, caller, reply>>
    BY <1>2 DEF Pump
  <2>2. Group(t) \in Pids /\ process[Group(t)] \in Process
    BY <1>0, <2>1, MonitorTypes
  <2>3. ProcessesKept
    BY <1>0, <2>1, <2>2 DEF ProcessesKept, Used, Alive, Process
  <2>4. Typed(records')
    BY <1>0, <2>1 DEF Typed, Record
  <2> QED  BY <2>1, <2>3, <2>4, ProcessStep
<1>3. CASE Restart
  <2>1. /\ generation < MaxRestarts /\ generation' = generation + 1
        /\ file' = records' /\ entries' = {} /\ counter' = 0
        /\ entry' = [t \in Ids |-> NoEntry] /\ monitor' = [t \in Ids |-> NoMonitor]
        /\ caller' = [c \in Callers |-> NoCall] /\ reply' = [c \in Callers |-> NoReply]
        /\ UNCHANGED <<process, strays>>
        /\ \E pruned \in SUBSET Ids : records' = Recovered(pruned)
    BY <1>3 DEF Restart
  <2>2. Typed(records')
    <3>1. PICK pruned \in SUBSET Ids : records' = Recovered(pruned)
      BY <2>1
    <3>2. \A t \in Ids : [file[t] EXCEPT !.state = "orphaned"] \in Record
      BY <1>0 DEF Typed, Record, FinalStates
    <3> QED  BY <1>0, <3>1, <3>2, EmptyTyped DEF Recovered, Typed
  <2>3. counter' \in 0 .. MaxIds /\ generation' \in 0 .. MaxRestarts
    BY <2>1, BoundsAssumption DEF TerminalInv, TypeOK
  <2>4. TypeOK'
    BY <2>1, <2>2, <2>3, EmptyTyped DEF TerminalInv, TypeOK, Typed
  <2>5. PidsInUse'
    BY <2>1 DEF TerminalInv, PidsInUse, Used
  <2>6. \A t \in Ids : TerminalOK(t)'
    BY <2>1 DEF TerminalOK, NoMonitor, NoEntry, Closed, Latched, Folded
  <2>7. \A c \in Callers : CallOK(c)' /\ ~Starting(c)'
    BY <2>1 DEF CallOK, Starting, Stopping, NoCall, NoReply
  <2> QED  BY <2>1, <2>4, <2>5, <2>6, <2>7 DEF TerminalInv, SignalsOnlyOwn, StartsDiffer
<1>4. CASE UNCHANGED vars
  <2>1. UNCHANGED <<records, entries, entry, file, counter, generation, monitor, process, strays,
                    caller, reply>>
    BY <1>4 DEF vars
  <2> QED  BY <1>0, <2>1, SameProcesses, ProcessStep
<1> QED  BY <1>1, <1>2, <1>3, <1>4

\* Every step keeps the invariant.
LEMMA NextTerminalInv == TerminalInv /\ [Next]_vars => TerminalInv'
<1> SUFFICES ASSUME TerminalInv, [Next]_vars PROVE TerminalInv'
  OBVIOUS
<1>1. ASSUME NEW c \in Callers, NewCall(c) \/ CallStep(c) PROVE TerminalInv'
  <2>1. CASE NewCall(c)
    BY <2>1, CallsBegin
  <2>2. CASE CallStep(c)
    BY <2>2, InsertStep, SpawnStep, MarkRunningStep, StopsMove, StopsSignal, CallsObserve
       DEF CallStep
  <2> QED  BY <1>1, <2>1, <2>2
<1>2. ASSUME NEW t \in Ids, MonitorStep(t) \/ WaitFails(t) PROVE TerminalInv'
  BY <1>2, MonitorEarly, MonitorLate DEF MonitorStep
<1> QED  BY <1>1, <1>2, RestStep DEF Next

\* Every reachable state satisfies it.
LEMMA SpecTerminalInv == Spec => []TerminalInv
BY InitTerminalInv, NextTerminalInv, PTL DEF Spec

\* Records, entries, monitors, processes and calls keep their types.
THEOREM TypeCorrect == Spec => []TypeOK
<1>1. TerminalInv => TypeOK
  BY DEF TerminalInv
<1> QED  BY <1>1, SpecTerminalInv, PTL

\* manager.rs:4-7: whatever restarts and stale rows there are, no process group is ever
\* signalled that this manager did not spawn.
THEOREM OnlyOwnSignalled == Spec => []SignalsOnlyOwn
<1>1. TerminalInv => SignalsOnlyOwn
  BY DEF TerminalInv
<1> QED  BY <1>1, SpecTerminalInv, PTL

\* A stop that says it succeeded left nothing of the group alive, and nothing of it
\* comes back: pids are not used twice.
THEOREM StopIsThorough == Spec => []StoppedIsDead
<1>1. TerminalInv => StoppedIsDead
  <2> SUFFICES ASSUME TerminalInv, NEW c \in Callers, reply[c].stop = "finished"
               PROVE  ~Alive(Group(reply[c].id))
    BY DEF StoppedIsDead
  <2>1. entry[reply[c].id].done /\ reply[c].id \in Ids
    BY DEF TerminalInv, CallOK, TypeOK, Reply
  <2> QED  BY <2>1 DEF TerminalInv, TerminalOK, Closed
<1> QED  BY <1>1, SpecTerminalInv, PTL

\* A terminal somebody stopped is never recorded as one that ended by itself.
THEOREM StopIsShown == Spec => []StopIsRecorded
<1>1. TerminalInv => StopIsRecorded
  BY DEF TerminalInv, TerminalOK, StopIsRecorded, StopShows, Folded
<1> QED  BY <1>1, SpecTerminalInv, PTL
-----------------------------------------------------------------------------
(* Counting: check_limits counts the records that say that something runs. *)
(* It bounds the processes because a process that runs always has such a   *)
(* record, although stops and probes store copies they took before.        *)

\* A monitor, or the call that spawned it, has the terminal.
Started(t) ==
  \/ monitor[t].pc # "none"
  \/ \E c \in Callers : caller[c].pc = "running" /\ caller[c].id = t

Spawning(t) == \E c \in Callers : caller[c].pc = "spawn" /\ caller[c].id = t

\* The terminal has a process that runs, or is about to have one.
Live(t) == Spawning(t) \/ (Started(t) /\ Running(Group(t)))

\* The steps at which a call holds a copy of a record that it will store.
Holding == {"stop_persist", "stop_orphan", "ready_persist", "ready_probe"}
Probing == {"ready_persist", "ready_poll", "ready_probe"}

\* The next manager gives out again the ids of the rows it read, so that a probe
\* of an old row may store its copy over the record of a new terminal.
ProbesKnown == MaxRestarts = 0 \/ "ready" \notin Calls

\* What is stored over the record of a terminal that runs says that it does.
CopyOK(c) ==
  /\ caller[c].pc \in Holding /\ Live(caller[c].id) => Active(caller[c].copy)
  /\ caller[c].pc \in Probing => "ready" \in Calls /\ caller[c].id < counter
  /\ caller[c].pc \in {"stop_settle", "stop_orphan"} => ~Running(Group(caller[c].id))

CountInv ==
  /\ MaxRestarts = 0 => \A t \in Ids : t >= counter => records[t] = NoRecord
  /\ \A t \in Ids : /\ t >= counter \/ Spawning(t) => entry[t] = NoEntry
                    /\ Live(t) => Active(records[t])
  /\ \A c \in Callers : CopyOK(c)

\* Two starts may pass check_limits together before either inserts its record.
OneStarter == \A c, d \in Starters : c = d

AllRunning == {p \in Pids : Running(p)}

\* Every process that runs has a terminal, and while a start is under way
\* there is room for its process.
LimitInv ==
  /\ \A c \in Callers : caller[c].pc \in {"insert", "spawn", "running"} => c \in Starters
  /\ \A p \in Pids : process[p].owner <= generation
  /\ \A p \in Pids : Running(p) => \E t \in Ids : Started(t) /\ Group(t) = p
  /\ \A c \in Callers : caller[c].pc \in {"insert", "spawn"} =>
       Cardinality(AllRunning) < Limit
  /\ Cardinality(AllRunning) <= Limit

\* A step that starts no process, and whose processes run on or end.
Quiet ==
  /\ generation' = generation
  /\ \A p \in Pids : /\ Running(p)' => Running(p)
                     /\ process'[p].owner = process[p].owner
  /\ \A t \in Ids : /\ Group(t)' = Group(t)
                    /\ entry'[t] = entry[t] \/ HasGroup(t)
                    /\ Started(t)' <=> Started(t)

\* What runs after a step has run before it.
Ending ==
  \A p \in Pids : /\ process'[p].leader = "running" => process[p].leader = "running"
                  /\ process'[p].owner = process[p].owner

\* A signal starts no process, and a forced one ends the leader.
LEMMA SignalEnds ==
  ASSUME TypeOK, NEW t \in Ids, HasGroup(t), NEW handle \in BOOLEAN,
         NEW force \in BOOLEAN,
         SignalGroup(Group(t), force) \/ SignalThrough(t, handle, force)
  PROVE  /\ Ending
         /\ force => process'[Group(t)].leader # "running"
<1>p. PICK p \in Pids : p = Group(t)
  BY DEF HasGroup
<1>0. process \in [Pids -> Process] /\ process[p] \in Process
  BY DEF TypeOK
<1>1. CASE UNCHANGED process /\ ~force
  BY <1>1 DEF Ending
<1>2. CASE force /\ SignalGroup(p, force)
  <2>1. process' = [process EXCEPT ![p].leader = IF @ = "running" THEN "zombie" ELSE @,
                                   ![p].background = FALSE]
    BY <1>2 DEF SignalGroup, Signalled
  <2>2. process'[p] = [[process[p] EXCEPT !.leader = IF process[p].leader = "running"
                          THEN "zombie" ELSE process[p].leader] EXCEPT !.background = FALSE]
        /\ \A q \in Pids \ {p} : process'[q] = process[q]
    BY <1>0, <2>1
  <2>3. process'[p].leader # "running" /\ process'[p].owner = process[p].owner
    BY <1>0, <2>2 DEF Process
  <2> QED  BY <1>p, <2>2, <2>3 DEF Ending
<1>3. CASE /\ process[p].leader \in {"zombie", "gone"}
           /\ process' = [process EXCEPT ![p].leader = "gone"]
  <2>1. process'[p] = [process[p] EXCEPT !.leader = "gone"]
        /\ \A q \in Pids \ {p} : process'[q] = process[q]
    BY <1>0, <1>3
  <2>2. process'[p].leader = "gone" /\ process'[p].owner = process[p].owner
    BY <1>0, <2>1 DEF Process
  <2> QED  BY <1>p, <2>1, <2>2 DEF Ending
<1> QED  BY <1>p, <1>1, <1>2, <1>3 DEF SignalThrough, SignalGroup, Signalled

\* No task writes the pid of an entry.
LEMMA GroupStays ==
  ASSUME TypeOK, NEW t \in Ids,
         \/ entry' = entry
         \/ \E v \in BOOLEAN : entry' = [entry EXCEPT ![t].child = v]
         \/ entry' = [entry EXCEPT ![t].stop = TRUE, ![t].child = TRUE]
         \/ entry' = [entry EXCEPT ![t].done = TRUE]
         \/ entry' = [entry EXCEPT ![t].stop = TRUE, ![t].record.state = "stopping"]
         \/ entry' = [entry EXCEPT ![t].record.state = "orphaned"]
         \/ \E state, out : entry' = [entry EXCEPT ![t].record =
              [entry[t].record EXCEPT !.state = state, !.out = out]]
  PROVE  Group(t)' = Group(t)
<1>0. entry \in [Ids -> Entry] /\ entry[t] \in Entry /\ entry[t].record \in Record
  BY DEF TypeOK, Entry
<1>1. CASE entry' = entry
  BY <1>1 DEF Group
<1>2. CASE \E v \in BOOLEAN : entry' = [entry EXCEPT ![t].child = v]
  BY <1>0, <1>2 DEF Group, Entry
<1>3. CASE entry' = [entry EXCEPT ![t].stop = TRUE, ![t].child = TRUE]
  <2>1. entry'[t] = [[entry[t] EXCEPT !.stop = TRUE] EXCEPT !.child = TRUE]
    BY <1>0, <1>3
  <2> QED  BY <1>0, <2>1 DEF Group, Entry
<1>4. CASE entry' = [entry EXCEPT ![t].done = TRUE]
  BY <1>0, <1>4 DEF Group, Entry
<1>5. CASE entry' = [entry EXCEPT ![t].stop = TRUE, ![t].record.state = "stopping"]
  <2>1. entry'[t].record = [entry[t].record EXCEPT !.state = "stopping"]
    BY <1>0, <1>5 DEF Entry
  <2> QED  BY <1>0, <2>1 DEF Group, Record
<1>6. CASE entry' = [entry EXCEPT ![t].record.state = "orphaned"]
  <2>1. entry'[t].record = [entry[t].record EXCEPT !.state = "orphaned"]
    BY <1>0, <1>6 DEF Entry
  <2> QED  BY <1>0, <2>1 DEF Group, Record
<1>7. ASSUME NEW state, NEW out, entry' = [entry EXCEPT ![t].record =
               [entry[t].record EXCEPT !.state = state, !.out = out]]
      PROVE  Group(t)' = Group(t)
  <2>1. entry'[t].record = [[entry[t].record EXCEPT !.state = state] EXCEPT !.out = out]
    BY <1>0, <1>7 DEF Entry
  <2> QED  BY <1>0, <2>1 DEF Group, Record
<1> QED  BY <1>1, <1>2, <1>3, <1>4, <1>5, <1>6, <1>7

\* Ending processes do not begin to run.
LEMMA EndingRuns ==
  ASSUME Ending, generation' = generation
  PROVE  \A p \in Pids : (Running(p)' => Running(p)) /\ process'[p].owner = process[p].owner
BY DEF Ending, Running

\* A step of a call that starts or ends no spawn.
LEMMA CallerQuiet ==
  ASSUME NEW c \in Callers, UNCHANGED <<generation, monitor>>, Ending,
         \A d \in Callers \ {c} : caller'[d] = caller[d],
         caller[c].pc # "running", caller'[c].pc # "running",
         \A t \in Ids : Group(t)' = Group(t) /\ (entry'[t] = entry[t] \/ HasGroup(t))
  PROVE  Quiet
BY EndingRuns DEF Quiet, Started

\* What a call does to the callers.
LEMMA CallerMoves ==
  ASSUME TerminalInv, NEW c \in Callers, NewCall(c) \/ CallStep(c)
  PROVE  /\ \A d \in Callers \ {c} : caller'[d] = caller[d]
         /\ DOMAIN caller' = Callers
<1>1. caller \in [Callers -> Call]
  BY DEF TerminalInv, TypeOK
<1>2. CASE NewCall(c)
  BY <1>1, <1>2 DEF NewCall, Start, StopCall, CloseCall, WaitCall, ReadyCall, Begin
<1>3. CASE CallStep(c)
  BY <1>1, <1>3
     DEF CallStep, Insert, Spawn, SpawnFails, MarkRunning, StopNext, StopTooLate,
         StopLock, StopPersist, StopGraceOver, StopFinished, StopOrphans,
         StopPersistOrphan, WaitLookup, WaitReturns, ReadyPersist, ReadyPoll,
         ReadyEnds, ReadyAgain, Return, Goto, Answer
<1> QED  BY <1>2, <1>3

\* The steps of calls that touch neither a process nor an entry.
LEMMA QuietCalls ==
  ASSUME TerminalInv, NEW c \in Callers,
         \/ NewCall(c) \/ Insert(c) \/ SpawnFails(c) \/ StopNext(c) \/ StopTooLate(c)
         \/ StopPersist(c) \/ StopFinished(c) \/ StopPersistOrphan(c)
         \/ WaitLookup(c) \/ WaitReturns(c) \/ ReadyPersist(c) \/ ReadyPoll(c)
         \/ ReadyEnds(c) \/ ReadyAgain(c)
  PROVE  Quiet
<1>1. UNCHANGED <<generation, monitor, process, entry>>
  BY DEF NewCall, Start, StopCall, CloseCall, WaitCall, ReadyCall, Insert, SpawnFails,
         StopNext, StopTooLate, StopPersist, StopFinished, StopPersistOrphan,
         WaitLookup, WaitReturns, ReadyPersist, ReadyPoll, ReadyEnds, ReadyAgain,
         Observes, CallerOnly
<1>2. \A d \in Callers \ {c} : caller'[d] = caller[d]
  BY CallerMoves DEF CallStep
<1>0. caller \in [Callers -> Call] /\ caller[c] \in Call
  BY DEF TerminalInv, TypeOK
<1>3. caller[c].pc # "running" /\ caller'[c].pc # "running"
  <2>1. CASE NewCall(c)
    BY <1>0, <2>1
       DEF NewCall, Start, StopCall, CloseCall, WaitCall, ReadyCall, Begin, NoCall
  <2>2. CASE Insert(c)
    <3>1. caller' = [caller EXCEPT ![c].pc = "spawn", ![c].id = counter] /\ caller[c].pc = "insert"
      BY <2>2 DEF Insert
    <3>2. caller'[c] = [[caller[c] EXCEPT !.pc = "spawn"] EXCEPT !.id = counter]
      BY <1>0, <3>1
    <3> QED  BY <1>0, <3>1, <3>2 DEF Call
  <2>3. CASE SpawnFails(c) \/ WaitLookup(c) \/ WaitReturns(c) \/ ReadyPersist(c)
             \/ ReadyPoll(c) \/ ReadyEnds(c) \/ ReadyAgain(c) \/ StopPersist(c)
    BY <1>0, <2>3
       DEF SpawnFails, StopPersist, WaitLookup, WaitReturns, ReadyPersist, ReadyPoll,
           ReadyEnds, ReadyAgain, Return, Goto, NoCall, Call
  <2>4. CASE StopNext(c) \/ StopTooLate(c) \/ StopFinished(c) \/ StopPersistOrphan(c)
    <3>1. caller[c].pc # "running"
      BY <2>4 DEF StopNext, StopTooLate, StopFinished, StopPersistOrphan
    <3>2. CASE \E t \in Ids, finished \in BOOLEAN : Answer(c, t, finished)
      BY <1>0, <3>1, <3>2 DEF Answer, NoCall, Call
    <3>3. CASE \E t \in Ids : caller' = [caller EXCEPT ![c].pc = "stop_lock", ![c].id = t]
      BY <1>0, <3>1, <3>3 DEF Call
    <3>4. caller[c].todo \subseteq Ids /\ caller[c].id \in Ids
      BY <1>0 DEF Call
    <3> QED
      BY <2>4, <3>1, <3>2, <3>3, <3>4
         DEF StopNext, StopTooLate, StopFinished, StopPersistOrphan
  <2> QED  BY <2>1, <2>2, <2>3, <2>4
<1>4. Ending /\ \A t \in Ids : Group(t)' = Group(t) /\ entry'[t] = entry[t]
  BY <1>1 DEF Ending, Group
<1> QED  BY <1>1, <1>2, <1>3, <1>4, CallerQuiet

\* A stop signals the group of its terminal and writes in its entry.
LEMMA QuietStops ==
  ASSUME TerminalInv, NEW c \in Callers, StopLock(c) \/ StopGraceOver(c) \/ StopOrphans(c)
  PROVE  Quiet
<1>t. PICK t \in Ids : t = caller[c].id
  BY CallTypes
<1>0. caller \in [Callers -> Call] /\ caller[c] \in Call /\ entry \in [Ids -> Entry]
      /\ entry[t] \in Entry /\ TypeOK /\ caller[c].option \in BOOLEAN
  BY CallTypes DEF TerminalInv, TypeOK
<1>1. UNCHANGED <<generation, monitor>>
  BY DEF StopLock, StopGraceOver, StopOrphans, CallerOnly
<1>2. \A d \in Callers \ {c} : caller'[d] = caller[d]
  BY CallerMoves DEF CallStep
<1>3. caller[c].pc # "running" /\ caller'[c].pc # "running"
  <2>1. CASE StopGraceOver(c)
    BY <1>0, <2>1 DEF StopGraceOver, Goto, Call
  <2>2. ASSUME NEW step \in {"stop_persist", "stop_orphan"}, NEW copy,
               caller' = [caller EXCEPT ![c].pc = step, ![c].copy = copy]
        PROVE  caller'[c].pc # "running"
    <3>1. caller'[c] = [[caller[c] EXCEPT !.pc = step] EXCEPT !.copy = copy]
      BY <1>0, <2>2
    <3> QED  BY <1>0, <3>1 DEF Call
  <2>3. CASE StopLock(c)
    BY <2>2, <2>3 DEF StopLock
  <2>4. CASE StopOrphans(c)
    BY <2>2, <2>4 DEF StopOrphans
  <2>5. caller[c].pc # "running"
    BY DEF StopLock, StopGraceOver, StopOrphans
  <2> QED  BY <2>1, <2>3, <2>4, <2>5
<1>4. HasGroup(t)
  BY <1>t, CallTypes DEF Stopping, StopLock, StopGraceOver, StopOrphans
<1>5. entry[t].child \in BOOLEAN
  BY <1>0 DEF Entry
<1>6. Ending
  <2>1. CASE UNCHANGED process
    BY <2>1 DEF Ending
  <2>2. CASE \E force \in BOOLEAN : SignalThrough(t, entry[t].child, force)
    BY <1>0, <1>4, <1>5, <2>2, SignalEnds
  <2> QED  BY <1>0, <1>t, <2>1, <2>2 DEF StopLock, StopGraceOver, StopOrphans, SignalEntry
<1>7. \A u \in Ids \ {t} : entry'[u] = entry[u]
  BY <1>0, <1>t DEF StopLock, StopGraceOver, StopOrphans
<1>8. Group(t)' = Group(t)
  BY <1>0, <1>t, GroupStays DEF StopLock, StopGraceOver, StopOrphans
<1>9. \A u \in Ids : Group(u)' = Group(u) /\ (entry'[u] = entry[u] \/ HasGroup(u))
  BY <1>4, <1>7, <1>8 DEF Group
<1> QED  BY <1>1, <1>2, <1>3, <1>6, <1>9, CallerQuiet

\* The terminal passes from the call that started it to its monitor.
LEMMA QuietStart ==
  ASSUME TerminalInv, NEW c \in Callers, MarkRunning(c)
  PROVE  Quiet
<1>t. PICK t \in Ids : t = caller[c].id
  BY CallTypes
<1>0. caller \in [Callers -> Call] /\ monitor \in [Ids -> Monitor] /\ monitor[t] \in Monitor
  BY DEF TerminalInv, TypeOK
<1>1. UNCHANGED <<entry, generation, process>> /\ caller[c].pc = "running"
      /\ caller' = [caller EXCEPT ![c] = NoCall]
  BY DEF MarkRunning, Return
<1>2. PICK budget \in BOOLEAN : monitor' = [monitor EXCEPT ![t].pc = "take", ![t].budget = budget]
  BY <1>t DEF MarkRunning
<1>3. monitor'[t].pc = "take" /\ \A u \in Ids \ {t} : monitor'[u] = monitor[u]
  BY <1>0, <1>2 DEF Monitor
<1>4. caller'[c].pc = "idle" /\ \A d \in Callers \ {c} : caller'[d] = caller[d]
  BY <1>0, <1>1 DEF NoCall
<1>5. \A u \in Ids : Started(u)' <=> Started(u)
  BY <1>t, <1>1, <1>3, <1>4 DEF Started
<1>6. Ending /\ \A u \in Ids : Group(u)' = Group(u) /\ entry'[u] = entry[u]
  BY <1>1 DEF Ending, Group
<1> QED  BY <1>1, <1>5, <1>6, EndingRuns DEF Quiet

\* A monitor works on its own terminal.
LEMMA QuietMonitor ==
  ASSUME TerminalInv, NEW t \in Ids, MonitorStep(t) \/ WaitFails(t)
  PROVE  Quiet /\ monitor[t].pc # "none"
<1>1. monitor[t].pc # "none" /\ UNCHANGED <<generation, caller>>
  BY DEF MonitorStep, WaitFails, Take, Wait, Deadline, Retake, GraceWait, GraceOver,
         ForcedWait, Reattach, Kill, Drain, Fire, Observe, Fold, Remove, PersistFinal,
         Moves, Reaps, MonitorOnly
<1>0. /\ monitor \in [Ids -> Monitor] /\ monitor[t] \in Monitor
      /\ entry \in [Ids -> Entry] /\ entry[t] \in Entry /\ entry[t].record \in Record
      /\ HasGroup(t) /\ TypeOK /\ process \in [Pids -> Process]
      /\ Group(t) \in Pids /\ process[Group(t)] \in Process
  BY <1>1, MonitorTypes DEF TerminalInv
<1>2. \A u \in Ids \ {t} : monitor'[u] = monitor[u] /\ entry'[u] = entry[u]
  BY <1>0
     DEF MonitorStep, WaitFails, Take, Wait, Deadline, Retake, GraceWait, GraceOver,
         ForcedWait, Reattach, Kill, Drain, Fire, Observe, Fold, Remove, PersistFinal,
         Moves, Reaps
<1>3. monitor'[t].pc # "none"
  <2>1. CASE \E from \in MonitorSteps, to \in MonitorSteps \ {"none"} : Moves(t, from, to)
    BY <1>0, <2>1 DEF Moves, Monitor
  <2>2. CASE WaitFails(t)
    <3>1. PICK step \in {"reattach", "kill"} :
            monitor' = [monitor EXCEPT ![t].known = FALSE, ![t].pc = step]
      BY <1>0, <2>2 DEF WaitFails, Monitor
    <3> QED  BY <1>0, <3>1 DEF Monitor
  <2>3. CASE Deadline(t)
    <3>1. monitor'[t] = [[monitor[t] EXCEPT !.pc = "retake"] EXCEPT !.timed_out = TRUE]
      BY <1>0, <2>3 DEF Deadline
    <3> QED  BY <1>0, <3>1 DEF Monitor
  <2>4. CASE Drain(t)
    <3>1. monitor'[t] = [[monitor[t] EXCEPT !.pc = "fire"] EXCEPT
                           !.drained = (~Alive(Group(t)) /\ process[Group(t)].pipe = 0)]
      BY <1>0, <2>4 DEF Drain
    <3> QED  BY <1>0, <3>1 DEF Monitor
  <2>5. CASE Observe(t)
    <3>1. monitor'[t] = [[monitor[t] EXCEPT !.pc = "fold"] EXCEPT !.seen = records[t].out]
      BY <1>0, <2>5 DEF Observe
    <3> QED  BY <1>0, <3>1 DEF Monitor
  <2>6. CASE Fold(t)
    <3>1. PICK final : monitor' = [monitor EXCEPT ![t].pc = "remove", ![t].final = final]
      BY <2>6 DEF Fold
    <3>2. monitor'[t] = [[monitor[t] EXCEPT !.pc = "remove"] EXCEPT !.final = final]
      BY <1>0, <3>1
    <3> QED  BY <1>0, <3>2 DEF Monitor
  <2>7. CASE Take(t) \/ Wait(t) \/ Retake(t) \/ GraceWait(t) \/ GraceOver(t) \/ ForcedWait(t)
    BY <2>1, <2>7
       DEF Take, Wait, Retake, GraceWait, GraceOver, ForcedWait, MonitorSteps
  <2>8. CASE Reattach(t) \/ Kill(t) \/ Fire(t) \/ Remove(t) \/ PersistFinal(t)
    BY <2>1, <2>8 DEF Reattach, Kill, Fire, Remove, PersistFinal, MonitorSteps
  <2> QED  BY <2>2, <2>3, <2>4, <2>5, <2>6, <2>7, <2>8 DEF MonitorStep
<1>4. Group(t)' = Group(t)
  <2>1. CASE Fold(t)
    <3>1. PICK state : entry' = [entry EXCEPT ![t].record =
             [entry[t].record EXCEPT !.state = state, !.out = monitor[t].seen]]
      BY <2>1 DEF Fold
    <3> QED  BY <1>0, <3>1, GroupStays
  <2>2. CASE Take(t) \/ Retake(t) \/ Reattach(t) \/ Deadline(t) \/ GraceOver(t) \/ Fire(t)
    BY <1>0, <2>2, GroupStays DEF Take, Retake, Reattach, Deadline, GraceOver, Fire
  <2>3. CASE entry' = entry
    BY <1>0, <2>3, GroupStays
  <2> QED
    BY <2>1, <2>2, <2>3
       DEF MonitorStep, WaitFails, Wait, GraceWait, ForcedWait, Kill, Drain, Observe,
           Remove, PersistFinal, Reaps
<1>5. Ending
  <2>1. CASE UNCHANGED process
    BY <2>1 DEF Ending
  <2>2. CASE \E force \in BOOLEAN : SignalThrough(t, TRUE, force) \/ SignalGroup(Group(t), force)
    BY <1>0, <2>2, SignalEnds
  <2>3. CASE process' = [process EXCEPT ![Group(t)].leader = "gone"]
    BY <1>0, <2>3 DEF Ending, Process
  <2> QED
    BY <2>1, <2>2, <2>3
       DEF MonitorStep, WaitFails, Take, Wait, Deadline, Retake, GraceWait, GraceOver,
           ForcedWait, Reattach, Kill, Drain, Fire, Observe, Fold, Remove, PersistFinal,
           Reaps
<1>6. \A u \in Ids : /\ Group(u)' = Group(u) /\ (entry'[u] = entry[u] \/ HasGroup(u))
                     /\ Started(u)' <=> Started(u)
  BY <1>0, <1>1, <1>2, <1>3, <1>4 DEF Group, Started
<1> QED  BY <1>1, <1>5, <1>6, EndingRuns DEF Quiet

\* Processes print and exit, pumps read.
LEMMA QuietRest ==
  ASSUME TerminalInv,
         \/ \E p \in Pids : WriteChunk(p) \/ Exit(p)
         \/ \E t \in Ids : Pump(t)
         \/ UNCHANGED vars
  PROVE  Quiet
<1>0. process \in [Pids -> Process]
  BY DEF TerminalInv, TypeOK
<1>1. UNCHANGED <<entry, generation, monitor, caller>>
  BY DEF WriteChunk, Exit, Pump, vars
<1>2. Ending
  <2>1. CASE UNCHANGED vars
    BY <2>1 DEF vars, Ending
  <2>2. ASSUME NEW p \in Pids, WriteChunk(p) PROVE Ending
    <3>1. process'[p] = [[process[p] EXCEPT !.printed = process[p].printed + 1]
                           EXCEPT !.pipe = process[p].pipe + 1]
          /\ \A q \in Pids \ {p} : process'[q] = process[q]
      BY <1>0, <2>2 DEF WriteChunk
    <3>2. process[p] \in Process
      BY <1>0
    <3>3. process'[p].leader = process[p].leader /\ process'[p].owner = process[p].owner
      BY <3>1, <3>2 DEF Process
    <3> QED  BY <3>1, <3>3 DEF Ending
  <2>3. ASSUME NEW p \in Pids, Exit(p) PROVE Ending
    BY <1>0, <2>3 DEF Exit, Ending, Process
  <2>4. ASSUME NEW t \in Ids, Pump(t) PROVE Ending
    <3>1. Group(t) \in Pids
      BY <2>4, MonitorTypes DEF Pump
    <3>2. process' = [process EXCEPT ![Group(t)].pipe = @ - 1]
      BY <2>4 DEF Pump
    <3> QED  BY <1>0, <3>1, <3>2 DEF Ending, Process
  <2> QED  BY <2>1, <2>2, <2>3, <2>4
<1>3. \A u \in Ids : Group(u)' = Group(u) /\ entry'[u] = entry[u] /\ (Started(u)' <=> Started(u))
  BY <1>1 DEF Group, Started
<1> QED  BY <1>1, <1>2, <1>3, EndingRuns DEF Quiet

\* A terminal that names a group has been started.
LEMMA GroupStarted ==
  ASSUME TerminalInv, CountInv, NEW t \in Ids, HasGroup(t)
  PROVE  t < counter /\ ~Spawning(t)
<1>1. entry[t] # NoEntry
  BY DEF HasGroup, Group, NoEntry, NoRecord, Pids
<1>2. t \in Nat /\ counter \in Nat
  BY BoundsAssumption DEF TerminalInv, TypeOK, Ids
<1> QED  BY <1>1, <1>2 DEF CountInv

\* A step that starts no process makes no terminal live.
LEMMA LiveFalls ==
  ASSUME TerminalInv, Quiet,
         \A d \in Callers : caller'[d] = caller[d] \/ caller'[d].pc # "spawn"
  PROVE  \A t \in Ids : (Spawning(t)' => Spawning(t)) /\ (Live(t)' => Live(t))
<1>1. \A t \in Ids : Spawning(t)' => Spawning(t)
  BY DEF Spawning
<1>2. \A t \in Ids : Started(t) => HasGroup(t)
  BY DEF TerminalInv, TerminalOK, CallOK, Started
<1>3. \A t \in Ids : (Started(t) /\ Running(Group(t)))' => Started(t) /\ Running(Group(t))
  BY <1>2 DEF Quiet, HasGroup, Running
<1> QED  BY <1>1, <1>3 DEF Live

\* A step that starts no process keeps the count if no task that holds a copy
\* may store it over the record of a terminal that runs.
LEMMA CountStep ==
  ASSUME TerminalInv, CountInv, Quiet, counter' = counter,
         \A d \in Callers : caller'[d] = caller[d]
                              \/ (caller'[d].pc # "spawn" /\ CopyOK(d)'),
         \A t \in Ids : /\ t >= counter => records'[t] = records[t]
                        /\ Live(t)' => Active(records'[t])
  PROVE  CountInv'
<1>1. \A t \in Ids : (Spawning(t)' => Spawning(t)) /\ (Live(t)' => Live(t))
  BY LiveFalls
<1>2. ASSUME NEW t \in Ids, t >= counter \/ Spawning(t)' PROVE entry'[t] = NoEntry
  <2>1. t >= counter \/ Spawning(t)
    BY <1>1, <1>2
  <2>2. t \in Nat /\ counter \in Nat
    BY BoundsAssumption DEF TerminalInv, TypeOK, Ids
  <2>3. ~HasGroup(t)
    BY <2>1, <2>2, GroupStarted
  <2> QED  BY <2>1, <2>3 DEF CountInv, Quiet
<1>3. ASSUME NEW d \in Callers PROVE CopyOK(d)'
  <2>1. CASE caller'[d] = caller[d]
    <3>u. PICK u \in Ids : u = caller[d].id
      BY CallTypes
    <3>1. (Live(u)' => Live(u)) /\ (Running(Group(u))' => Running(Group(u)) \/ ~HasGroup(u))
      BY <1>1 DEF Quiet, HasGroup, Running
    <3>2. caller[d].pc \in {"stop_settle", "stop_orphan"} => HasGroup(u)
      BY <3>u, CallTypes DEF Stopping
    <3>3. caller[d].pc \in {"stop_settle", "stop_orphan"} => ~Running(Group(u))'
      BY <3>u, <3>1, <3>2 DEF CountInv, CopyOK
    <3>4. caller'[d].id = u
      BY <2>1, <3>u
    <3> QED  BY <2>1, <3>u, <3>1, <3>3, <3>4 DEF CountInv, CopyOK
  <2> QED  BY <2>1
<1> QED  BY <1>2, <1>3 DEF CountInv

Marked == Holding \cup Probing \cup {"stop_settle", "stop_orphan"}

\* A call at the other steps holds nothing to store.
LEMMA Unmarked ==
  ASSUME NEW d \in Callers, caller'[d].pc \notin Marked
  PROVE  CopyOK(d)'
BY DEF CopyOK, Marked

\* A record is stored over that of a started terminal.
LEMMA PersistKeeps ==
  ASSUME TerminalInv, CountInv, NEW t \in Ids, NEW r, Persist(t, r), t < counter,
         \A u \in Ids : Live(u)' => Live(u), Live(t)' => Active(r)
  PROVE  \A u \in Ids : /\ u >= counter => records'[u] = records[u]
                        /\ Live(u)' => Active(records'[u])
<1>1. records'[t] = r /\ \A u \in Ids \ {t} : records'[u] = records[u]
  BY DEF Persist, TerminalInv, TypeOK
<1>2. counter \in Nat /\ \A u \in Ids : u \in Nat
  BY BoundsAssumption DEF TerminalInv, TypeOK, Ids
<1> QED  BY <1>1, <1>2 DEF CountInv

\* Calls that begin, and calls that only look.
LEMMA CountCalls ==
  ASSUME TerminalInv, CountInv, ProbesKnown, NEW c \in Callers,
         \/ NewCall(c) \/ StopNext(c) \/ StopTooLate(c) \/ StopFinished(c)
         \/ WaitLookup(c) \/ WaitReturns(c) \/ ReadyPoll(c) \/ ReadyAgain(c)
  PROVE  CountInv'
<1>0. caller \in [Callers -> Call] /\ caller[c] \in Call
      /\ \A d \in Callers \ {c} : caller'[d] = caller[d]
  BY CallerMoves DEF TerminalInv, TypeOK, CallStep
<1>1. Quiet /\ UNCHANGED <<records, counter, entry, process, generation>>
  BY QuietCalls
     DEF NewCall, Start, StopCall, CloseCall, WaitCall, ReadyCall, StopNext,
         StopTooLate, StopFinished, WaitLookup, WaitReturns, ReadyPoll, ReadyAgain,
         Observes, CallerOnly
<1>t. PICK t \in Ids : t = caller[c].id
  BY CallTypes
<1>2. CASE caller'[c].pc # "spawn" /\ caller'[c].pc \notin Marked
  <2>1. \A u \in Ids : Live(u)' => Live(u)
    BY <1>0, <1>1, <1>2, LiveFalls
  <2>2. \A u \in Ids : Live(u)' => Active(records'[u])
    BY <1>1, <2>1 DEF CountInv
  <2> QED  BY <1>0, <1>1, <1>2, <2>2, Unmarked, CountStep
<1>3. CASE ReadyCall(c)
  <2>1. PICK u \in Ids : /\ "ready" \in Calls /\ records[u] # NoRecord
                         /\ caller' = [caller EXCEPT ![c] =
                              [NoCall EXCEPT !.pc = "ready_persist", !.id = u, !.copy = records[u]]]
    BY <1>3 DEF ReadyCall, Begin
  <2>2. /\ caller'[c].pc = "ready_persist" /\ caller'[c].id = u
        /\ caller'[c].copy = records[u]
    BY <1>0, <2>1 DEF NoCall
  <2>3. \A v \in Ids : Live(v)' => Live(v)
    BY <1>0, <1>1, <2>2, LiveFalls
  <2>4. u < counter
    <3>1. u \in Nat /\ counter \in Nat
      BY BoundsAssumption DEF TerminalInv, TypeOK, Ids
    <3> QED  BY <2>1, <3>1 DEF ProbesKnown, CountInv
  <2>5. Live(u)' => Active(records[u])
    BY <2>3 DEF CountInv
  <2>6. CopyOK(c)'
    BY <1>1, <2>1, <2>2, <2>4, <2>5 DEF CopyOK
  <2>7. \A v \in Ids : Live(v)' => Active(records'[v])
    BY <1>1, <2>3 DEF CountInv
  <2> QED  BY <1>0, <1>1, <2>2, <2>6, <2>7, CountStep
<1>4. CASE ReadyPoll(c) /\ Active(records[t])
  <2>1. caller' = [caller EXCEPT ![c].pc = "ready_probe", ![c].copy = records[t]]
        /\ caller[c].pc = "ready_poll"
    BY <1>t, <1>4 DEF ReadyPoll
  <2>2. caller'[c] = [[caller[c] EXCEPT !.pc = "ready_probe"] EXCEPT !.copy = records[t]]
    BY <1>0, <2>1
  <2>3. caller'[c].pc = "ready_probe" /\ caller'[c].id = t /\ caller'[c].copy = records[t]
    BY <1>0, <1>t, <2>2 DEF Call
  <2>4. "ready" \in Calls /\ t < counter
    BY <1>t, <2>1 DEF CountInv, CopyOK, Probing
  <2>5. CopyOK(c)'
    BY <1>1, <1>4, <2>3, <2>4 DEF CopyOK
  <2>6. \A v \in Ids : Live(v)' => Live(v)
    BY <1>0, <1>1, <2>3, LiveFalls
  <2>7. \A v \in Ids : Live(v)' => Active(records'[v])
    BY <1>1, <2>6 DEF CountInv
  <2> QED  BY <1>0, <1>1, <2>3, <2>5, <2>7, CountStep
<1>5. CASE ReadyAgain(c)
  <2>1. caller' = [caller EXCEPT ![c].pc = "ready_poll"] /\ caller[c].pc = "ready_probe"
    BY <1>5 DEF ReadyAgain, Goto
  <2>2. caller'[c].pc = "ready_poll" /\ caller'[c].id = t
    BY <1>0, <1>t, <2>1 DEF Call
  <2>3. "ready" \in Calls /\ t < counter
    BY <1>t, <2>1 DEF CountInv, CopyOK, Probing
  <2>4. CopyOK(c)'
    BY <1>1, <2>2, <2>3 DEF CopyOK, Holding
  <2>5. \A v \in Ids : Live(v)' => Live(v)
    BY <1>0, <1>1, <2>2, LiveFalls
  <2>6. \A v \in Ids : Live(v)' => Active(records'[v])
    BY <1>1, <2>5 DEF CountInv
  <2> QED  BY <1>0, <1>1, <2>2, <2>4, <2>6, CountStep
<1>6. CASE Start(c) \/ StopCall(c) \/ CloseCall(c) \/ WaitCall(c) \/ WaitLookup(c)
           \/ WaitReturns(c) \/ (ReadyPoll(c) /\ ~Active(records[t]))
  <2>1. caller'[c].pc \in {"insert", "stop_next", "wait_lookup", "wait_latch", "idle"}
    <3>1. CASE Start(c) \/ StopCall(c)
      BY <1>0, <3>1 DEF Start, StopCall, Begin, NoCall
    <3>2. CASE CloseCall(c) \/ WaitCall(c)
      BY <1>0, <3>2 DEF CloseCall, WaitCall, Begin, NoCall
    <3>3. CASE WaitLookup(c) \/ WaitReturns(c)
      BY <1>0, <3>3 DEF WaitLookup, WaitReturns, Return, Goto, NoCall, Call
    <3>4. CASE ReadyPoll(c) /\ ~Active(records[t])
      BY <1>0, <1>t, <3>4 DEF ReadyPoll, Return, NoCall
    <3> QED  BY <1>6, <3>1, <3>2, <3>3, <3>4
  <2> QED  BY <1>2, <2>1 DEF Marked, Holding, Probing
<1>7. CASE StopNext(c) \/ StopTooLate(c) \/ StopFinished(c)
  <2>1. CASE \E u \in Ids, finished \in BOOLEAN : Answer(c, u, finished)
    <3>1. caller'[c].pc \in {"idle", "stop_next"}
      BY <1>0, <2>1 DEF Answer, NoCall, Call
    <3> QED  BY <1>2, <3>1 DEF Marked, Holding, Probing
  <2>2. CASE \E u \in Ids : caller' = [caller EXCEPT ![c].pc = "stop_lock", ![c].id = u]
    <3>1. caller'[c].pc = "stop_lock"
      BY <1>0, <2>2 DEF Call
    <3> QED  BY <1>2, <3>1 DEF Marked, Holding, Probing
  <2>3. caller[c].todo \subseteq Ids
    BY <1>0 DEF Call
  <2> QED  BY <1>7, <1>t, <2>1, <2>2, <2>3 DEF StopNext, StopTooLate, StopFinished
<1> QED  BY <1>3, <1>4, <1>5, <1>6, <1>7 DEF NewCall

\* A stop asks the group of a terminal to end, or finds that it will not.
LEMMA CountStops ==
  ASSUME TerminalInv, CountInv, NEW c \in Callers,
         StopLock(c) \/ StopGraceOver(c) \/ StopOrphans(c)
  PROVE  CountInv'
<1>t. PICK t \in Ids : t = caller[c].id
  BY CallTypes
<1>0. caller \in [Callers -> Call] /\ caller[c] \in Call
      /\ entry \in [Ids -> Entry] /\ entry[t] \in Entry
      /\ \A d \in Callers \ {c} : caller'[d] = caller[d]
  BY CallerMoves DEF TerminalInv, TypeOK, CallStep
<1>1. Quiet /\ UNCHANGED <<records, counter, generation>>
  BY QuietStops DEF StopLock, StopGraceOver, StopOrphans, CallerOnly
<1>2. HasGroup(t)
  BY <1>t, CallTypes DEF Stopping, StopLock, StopGraceOver, StopOrphans
<1>3. /\ caller'[c].id = t /\ caller'[c].pc \in {"stop_persist", "stop_settle", "stop_orphan"}
      /\ caller'[c].pc = "stop_persist" => Active(caller'[c].copy)
      /\ caller'[c].pc \in {"stop_settle", "stop_orphan"} => ~Running(Group(t))'
  <2>1. CASE StopGraceOver(c)
    <3>1. caller'[c].id = t /\ caller'[c].pc = "stop_settle"
      BY <1>0, <1>t, <2>1 DEF StopGraceOver, Goto, Call
    <3>2. SignalThrough(t, entry[t].child, TRUE) /\ entry' = entry
      BY <1>t, <2>1 DEF StopGraceOver, SignalEntry
    <3>3. entry[t].child \in BOOLEAN /\ TypeOK
      BY <1>0 DEF Entry, TerminalInv
    <3>4. process'[Group(t)].leader # "running"
      BY <1>2, <3>2, <3>3, SignalEnds
    <3> QED  BY <3>1, <3>2, <3>4 DEF Running, Group
  <2>2. CASE StopOrphans(c)
    <3>1. caller'[c] = [[caller[c] EXCEPT !.pc = "stop_orphan"] EXCEPT !.copy = entry'[t].record]
          /\ caller[c].pc = "stop_settle"
      BY <1>0, <1>t, <2>2 DEF StopOrphans
    <3>2. caller'[c].id = t /\ caller'[c].pc = "stop_orphan"
      BY <1>0, <1>t, <3>1 DEF Call
    <3>3. ~Running(Group(t))
      BY <1>t, <3>1 DEF CountInv, CopyOK
    <3> QED  BY <1>1, <1>2, <3>2, <3>3 DEF Quiet, HasGroup, Running
  <2>3. CASE StopLock(c)
    <3>1. caller'[c] = [[caller[c] EXCEPT !.pc = "stop_persist"] EXCEPT !.copy = entry'[t].record]
          /\ entry' = [entry EXCEPT ![t].stop = TRUE, ![t].record.state = "stopping"]
      BY <1>0, <1>t, <2>3 DEF StopLock
    <3>2. caller'[c].id = t /\ caller'[c].pc = "stop_persist" /\ caller'[c].copy = entry'[t].record
      BY <1>0, <1>t, <3>1 DEF Call
    <3>3. entry'[t].record = [entry[t].record EXCEPT !.state = "stopping"]
          /\ entry[t].record \in Record
      BY <1>0, <3>1 DEF Entry
    <3>4. Active(entry'[t].record)
      BY <3>3 DEF Active, ActiveStates, Record
    <3> QED  BY <3>2, <3>4
  <2> QED  BY <2>1, <2>2, <2>3
<1>4. \A u \in Ids : Live(u)' => Live(u)
  BY <1>0, <1>1, <1>3, LiveFalls
<1>5. ~Spawning(t)
  BY <1>2, GroupStarted
<1>6. ~Spawning(t)'
  BY <1>0, <1>1, <1>3, <1>5, LiveFalls
<1>7. CopyOK(c)'
  BY <1>3, <1>6 DEF CopyOK, Live, Holding, Probing
<1>8. \A u \in Ids : Live(u)' => Active(records'[u])
  BY <1>1, <1>4 DEF CountInv
<1> QED  BY <1>0, <1>1, <1>3, <1>7, <1>8, CountStep

\* Calls that store the copy they hold, or what came of their start.
LEMMA CountStores ==
  ASSUME TerminalInv, CountInv, NEW c \in Callers,
         \/ SpawnFails(c) \/ MarkRunning(c) \/ StopPersist(c) \/ StopPersistOrphan(c)
         \/ ReadyPersist(c) \/ ReadyEnds(c)
  PROVE  CountInv'
<1>t. PICK t \in Ids : t = caller[c].id
  BY CallTypes
<1>0. caller \in [Callers -> Call] /\ caller[c] \in Call
      /\ \A d \in Callers \ {c} : caller'[d] = caller[d]
  BY CallerMoves DEF TerminalInv, TypeOK, CallStep
<1>1. Quiet /\ counter' = counter
  BY QuietCalls, QuietStart
     DEF SpawnFails, MarkRunning, StopPersist, StopPersistOrphan, ReadyPersist,
         ReadyEnds, Observes, CallerOnly
<1>2. /\ caller'[c].pc \in {"idle", "stop_next", "stop_grace", "ready_poll"}
      /\ caller'[c].pc = "ready_poll" => caller[c].pc = "ready_persist" /\ caller'[c].id = t
  <2>1. CASE StopPersistOrphan(c)
    <3>1. Answer(c, t, FALSE)
      BY <1>t, <2>1 DEF StopPersistOrphan
    <3> QED  BY <1>0, <3>1 DEF Answer, NoCall, Call
  <2>2. CASE StopPersist(c) \/ ReadyPersist(c)
    BY <1>0, <1>t, <2>2 DEF StopPersist, ReadyPersist, Goto, Call
  <2>3. CASE SpawnFails(c) \/ MarkRunning(c) \/ ReadyEnds(c)
    BY <1>0, <2>3 DEF SpawnFails, MarkRunning, ReadyEnds, Return, NoCall
  <2> QED  BY <2>1, <2>2, <2>3
<1>3. CopyOK(c)'
  <2>1. CASE caller'[c].pc = "ready_poll"
    <3>1. "ready" \in Calls /\ t < counter
      BY <1>2, <1>t, <2>1 DEF CountInv, CopyOK, Probing
    <3> QED  BY <1>1, <1>2, <2>1, <3>1 DEF CopyOK, Holding
  <2>2. CASE caller'[c].pc # "ready_poll"
    BY <1>2, <2>2, Unmarked DEF Marked, Holding, Probing
  <2> QED  BY <2>1, <2>2
<1>4. \A u \in Ids : Live(u)' => Live(u)
  BY <1>0, <1>1, <1>2, LiveFalls
<1>5. t < counter
  <2>1. CASE SpawnFails(c) \/ MarkRunning(c)
    BY <1>t, <2>1 DEF SpawnFails, MarkRunning, TerminalInv, CallOK, Starting
  <2>2. CASE StopPersist(c) \/ StopPersistOrphan(c)
    BY <1>t, <2>2, CallTypes, GroupStarted DEF StopPersist, StopPersistOrphan, Stopping
  <2>3. CASE ReadyPersist(c) \/ ReadyEnds(c)
    BY <1>t, <2>3 DEF ReadyPersist, ReadyEnds, CountInv, CopyOK, Probing
  <2> QED  BY <2>1, <2>2, <2>3
<1>6. PICK r : Persist(t, r) /\ (Live(t)' => Active(r))
  <2>1. CASE SpawnFails(c)
    <3>1. caller[c].pc = "spawn" /\ UNCHANGED <<entry, monitor, process>>
          /\ Persist(t, [state |-> "spawn_failed", out |-> 0, pid |-> 0])
      BY <1>t, <2>1 DEF SpawnFails
    <3>2. \A d \in Callers : Starting(d) /\ caller[d].id = t => d = c
      BY <1>0, <1>t, <3>1 DEF TerminalInv, StartsDiffer, Starting
    <3>3. monitor[t].pc = "none"
      BY <1>t, <3>1 DEF TerminalInv, CallOK, Starting
    <3>4. ~Spawning(t)' /\ ~Started(t)'
      BY <1>0, <1>2, <3>1, <3>2, <3>3 DEF Spawning, Started, Starting
    <3> QED  BY <3>1, <3>4 DEF Live
  <2>2. CASE MarkRunning(c)
    <3>1. Persist(t, [state |-> "running", out |-> 0, pid |-> entry[t].record.pid])
      BY <1>t, <2>2 DEF MarkRunning
    <3> QED  BY <3>1 DEF Active, ActiveStates
  <2>3. CASE StopPersist(c) \/ StopPersistOrphan(c) \/ ReadyPersist(c) \/ ReadyEnds(c)
    <3>1. Persist(t, caller[c].copy) /\ caller[c].pc \in Holding
      BY <1>t, <2>3 DEF StopPersist, StopPersistOrphan, ReadyPersist, ReadyEnds, Holding
    <3>2. Live(t)' => Active(caller[c].copy)
      BY <1>4, <1>t, <3>1 DEF CountInv, CopyOK
    <3> QED  BY <3>1, <3>2
  <2> QED  BY <2>1, <2>2, <2>3
<1>7. \A u \in Ids : /\ u >= counter => records'[u] = records[u]
                     /\ Live(u)' => Active(records'[u])
  BY <1>4, <1>5, <1>6, PersistKeeps
<1> QED  BY <1>0, <1>1, <1>2, <1>3, <1>7, CountStep

\* Monitors, processes and pumps.
LEMMA CountTasks ==
  ASSUME TerminalInv, CountInv,
         \/ \E t \in Ids : MonitorStep(t) \/ WaitFails(t) \/ Pump(t)
         \/ \E p \in Pids : WriteChunk(p) \/ Exit(p)
         \/ UNCHANGED vars
  PROVE  CountInv'
<1>1. Quiet
  BY QuietMonitor, QuietRest
<1>2. UNCHANGED <<caller, counter>>
  BY DEF MonitorStep, WaitFails, Take, Wait, Deadline, Retake, GraceWait, GraceOver,
         ForcedWait, Reattach, Kill, Drain, Fire, Observe, Fold, Remove, PersistFinal,
         Reaps, MonitorOnly, Pump, WriteChunk, Exit, vars
<1>3. \A u \in Ids : Live(u)' => Live(u)
  BY <1>1, <1>2, LiveFalls
<1>4. \A u \in Ids : /\ u >= counter => records'[u] = records[u]
                     /\ Live(u)' => Active(records'[u])
  <2>1. CASE UNCHANGED records
    BY <1>3, <2>1 DEF CountInv
  <2>2. ASSUME NEW t \in Ids, PersistFinal(t)
        PROVE  \A u \in Ids : /\ u >= counter => records'[u] = records[u]
                              /\ Live(u)' => Active(records'[u])
    <3>1. monitor[t].pc = "persist" /\ Persist(t, monitor[t].final)
      BY <2>2 DEF PersistFinal, Moves
    <3>2. t < counter /\ ~Alive(Group(t)) /\ HasGroup(t)
      BY <3>1 DEF TerminalInv, TerminalOK, Closed, Latched
    <3>3. ~Live(t)
      BY <3>2, GroupStarted DEF Live, Running, Alive
    <3> QED  BY <1>3, <3>1, <3>2, <3>3, PersistKeeps
  <2>3. ASSUME NEW t \in Ids, Pump(t)
        PROVE  \A u \in Ids : /\ u >= counter => records'[u] = records[u]
                              /\ Live(u)' => Active(records'[u])
    <3>1. monitor[t].pc # "none" /\ records' = [records EXCEPT ![t].out = @ + 1]
      BY <2>3 DEF Pump
    <3>2. /\ records \in [Ids -> Record] /\ t < counter /\ t \in Nat /\ counter \in Nat
      BY <3>1, BoundsAssumption DEF TerminalInv, TerminalOK, TypeOK, Ids
    <3>3. records'[t].state = records[t].state /\ \A u \in Ids \ {t} : records'[u] = records[u]
      BY <3>1, <3>2 DEF Record
    <3> QED  BY <1>3, <3>2, <3>3 DEF CountInv, Active
  <2> QED
    BY <2>1, <2>2, <2>3
       DEF MonitorStep, WaitFails, Take, Wait, Deadline, Retake, GraceWait, GraceOver,
           ForcedWait, Reattach, Kill, Drain, Fire, Observe, Fold, Remove,
           Reaps, MonitorOnly, WriteChunk, Exit, vars
<1> QED  BY <1>1, <1>2, <1>4, CountStep

\* The next id is one that nobody holds a copy of.
LEMMA CountInsert ==
  ASSUME TerminalInv, CountInv, NEW c \in Callers, Insert(c)
  PROVE  CountInv'
<1>n. PICK n \in Ids : n = counter
  BY DEF Insert
<1>0. caller \in [Callers -> Call] /\ caller[c] \in Call /\ records \in [Ids -> Record]
      /\ \A d \in Callers \ {c} : caller'[d] = caller[d]
  BY CallerMoves DEF TerminalInv, TypeOK, CallStep
<1>1. Quiet /\ entry' = entry /\ counter' = n + 1
  BY <1>n, QuietCalls DEF Insert
<1>2. caller'[c].pc = "spawn" /\ caller'[c].id = n
  <2>1. caller'[c] = [[caller[c] EXCEPT !.pc = "spawn"] EXCEPT !.id = n]
    BY <1>0, <1>n DEF Insert
  <2> QED  BY <1>0, <2>1 DEF Call
<1>3. \A u \in Ids : u \in Nat /\ n \in Nat
  BY DEF Ids
<1>4. \A u \in Ids \ {n} : (Spawning(u)' => Spawning(u)) /\ (Live(u)' => Live(u))
  <2>1. \A u \in Ids \ {n} : Spawning(u)' => Spawning(u)
    BY <1>0, <1>2 DEF Spawning
  <2>2. \A u \in Ids : Started(u) => HasGroup(u)
    BY DEF TerminalInv, TerminalOK, CallOK, Started
  <2>3. \A u \in Ids : (Started(u) /\ Running(Group(u)))' => Started(u) /\ Running(Group(u))
    BY <1>1, <2>2 DEF Quiet, HasGroup, Running
  <2> QED  BY <2>1, <2>3 DEF Live
<1>5. records'[n].state = "starting" /\ \A u \in Ids \ {n} : records'[u] = records[u]
  BY <1>0, <1>n DEF Insert, Persist
<1>6. ASSUME NEW u \in Ids PROVE Live(u)' => Active(records'[u])
  BY <1>4, <1>5 DEF CountInv, Active, ActiveStates
<1>7. ASSUME NEW u \in Ids, u >= counter' \/ Spawning(u)' PROVE entry'[u] = NoEntry
  BY <1>n, <1>1, <1>3, <1>4, <1>7 DEF CountInv
<1>8. ASSUME MaxRestarts = 0, NEW u \in Ids, u >= counter' PROVE records'[u] = NoRecord
  BY <1>n, <1>1, <1>3, <1>5, <1>8 DEF CountInv
<1>9. ASSUME NEW d \in Callers PROVE CopyOK(d)'
  <2>1. CASE d = c
    BY <1>2, <2>1, Unmarked DEF Marked, Holding, Probing
  <2>2. CASE d # c
    <3>u. PICK u \in Ids : u = caller[d].id
      BY CallTypes
    <3>1. caller'[d] = caller[d]
      BY <1>0, <2>2
    <3>2. Stopping(d) => HasGroup(u) /\ u < n
      BY <1>n, <3>u, CallTypes, GroupStarted
    <3>3. caller[d].pc \in Probing => "ready" \in Calls /\ u < n
      BY <1>n, <3>u DEF CountInv, CopyOK
    <3>4. caller[d].pc \in Holding => u # n
      BY <1>3, <3>2, <3>3 DEF Holding, Probing, Stopping
    <3>5. caller[d].pc \in Holding /\ Live(u)' => Active(caller[d].copy)
      BY <1>4, <3>u, <3>4 DEF CountInv, CopyOK
    <3>6. caller[d].pc \in {"stop_settle", "stop_orphan"} => ~Running(Group(u))'
      BY <1>1, <3>u, <3>2 DEF CountInv, CopyOK, Stopping, Quiet, HasGroup, Running
    <3>7. u < n => u < counter'
      BY <1>1, <1>3
    <3> QED  BY <3>u, <3>1, <3>3, <3>5, <3>6, <3>7 DEF CopyOK
  <2> QED  BY <2>1, <2>2
<1> QED  BY <1>6, <1>7, <1>8, <1>9 DEF CountInv

\* The new process is the first of its terminal, and no other terminal's.
LEMMA SpawnFacts ==
  ASSUME TerminalInv, CountInv, NEW c \in Callers, Spawn(c), NEW t \in Ids, t = caller[c].id,
         NEW p \in Pids, p = NextPid
  PROVE  /\ UNCHANGED <<records, counter, generation, monitor>>
         /\ ~Used(p) /\ process'[p].leader = "running" /\ process'[p].owner = generation
         /\ \A q \in Pids \ {p} : process'[q] = process[q]
         /\ Group(t)' = p /\ \A u \in Ids \ {t} : entry'[u] = entry[u] /\ Group(u)' = Group(u)
         /\ caller'[c].pc = "running" /\ caller'[c].id = t /\ caller'[c].copy = caller[c].copy
         /\ \A d \in Callers \ {c} : caller'[d] = caller[d]
         /\ caller[c].pc = "spawn" /\ Spawning(t) /\ t < counter
         /\ \A u \in Ids : HasGroup(u) => u # t /\ Group(u) # p
<1>0. caller \in [Callers -> Call] /\ caller[c] \in Call
      /\ entry \in [Ids -> Entry] /\ process \in [Pids -> Process]
  BY DEF TerminalInv, TypeOK
<1>1. /\ UNCHANGED <<records, counter, generation, monitor>> /\ caller[c].pc = "spawn"
      /\ caller' = [caller EXCEPT ![c].pc = "running"]
  BY DEF Spawn, Goto
<1>2. PICK background \in BOOLEAN :
        /\ process' = [process EXCEPT ![p] =
             [NoProcess EXCEPT !.leader = "running", !.background = background, !.owner = generation]]
        /\ entry' = [entry EXCEPT ![t] =
             [NoEntry EXCEPT !.child = TRUE, !.record = [state |-> "running", out |-> 0, pid |-> p]]]
  BY DEF Spawn
<1>3. process'[p].leader = "running" /\ process'[p].owner = generation
      /\ \A q \in Pids \ {p} : process'[q] = process[q]
  BY <1>0, <1>2 DEF NoProcess
<1>4. Group(t)' = p /\ \A u \in Ids \ {t} : entry'[u] = entry[u] /\ Group(u)' = Group(u)
  BY <1>0, <1>2 DEF Group, NoEntry
<1>5. caller'[c].pc = "running" /\ caller'[c].id = t /\ caller'[c].copy = caller[c].copy
  BY <1>0, <1>1 DEF Call
<1>6. ~Used(p)
  BY NextPidIsNew DEF TerminalInv
<1>7. Spawning(t) /\ t < counter
  BY <1>1 DEF Spawning, TerminalInv, CallOK, Starting
<1>8. \A u \in Ids : HasGroup(u) => u # t /\ Group(u) # p
  BY <1>6, <1>7, GroupStarted DEF HasGroup
<1> QED  BY <1>0, <1>1, <1>3, <1>4, <1>5, <1>6, <1>7, <1>8

\* A terminal that was about to have a process has one.
LEMMA CountSpawn ==
  ASSUME TerminalInv, CountInv, NEW c \in Callers, Spawn(c)
  PROVE  CountInv'
<1>t. PICK t \in Ids : t = caller[c].id
  BY CallTypes
<1>p. PICK p \in Pids : p = NextPid
  BY DEF Spawn
<1>1. /\ UNCHANGED <<records, counter, generation, monitor>>
      /\ ~Used(p) /\ process'[p].leader = "running" /\ process'[p].owner = generation
      /\ \A q \in Pids \ {p} : process'[q] = process[q]
      /\ Group(t)' = p /\ \A u \in Ids \ {t} : entry'[u] = entry[u] /\ Group(u)' = Group(u)
      /\ caller'[c].pc = "running" /\ caller'[c].id = t /\ caller'[c].copy = caller[c].copy
      /\ \A d \in Callers \ {c} : caller'[d] = caller[d]
      /\ caller[c].pc = "spawn" /\ Spawning(t) /\ t < counter
      /\ \A u \in Ids : HasGroup(u) => u # t /\ Group(u) # p
  BY <1>t, <1>p, SpawnFacts
<1>2. ~Spawning(t)' /\ \A u \in Ids : Spawning(u)' => Spawning(u)
  <2>1. \A d \in Callers : Starting(d) /\ caller[d].id = t => d = c
    BY <1>t, <1>1 DEF TerminalInv, StartsDiffer, Starting
  <2> QED  BY <1>1, <2>1 DEF Spawning, Starting
<1>3. \A u \in Ids : Live(u)' => Live(u)
  <2> SUFFICES ASSUME NEW u \in Ids, u # t, Live(u)' PROVE Live(u)
    BY <1>1 DEF Live
  <2>1. CASE Spawning(u)'
    BY <1>2, <2>1 DEF Live
  <2>2. CASE Started(u)' /\ Running(Group(u))'
    <3>1. Started(u)
      BY <1>1, <2>2 DEF Started
    <3>2. HasGroup(u)
      BY <3>1 DEF TerminalInv, TerminalOK, CallOK, Started
    <3>3. Running(Group(u))
      BY <1>1, <2>2, <3>2 DEF HasGroup, Running
    <3> QED  BY <3>1, <3>3 DEF Live
  <2> QED  BY <2>1, <2>2 DEF Live
<1>4. ASSUME NEW u \in Ids, u >= counter \/ Spawning(u)' PROVE entry'[u] = NoEntry
  <2>1. u # t
    <3>1. t \in Nat /\ counter \in Nat
      BY BoundsAssumption DEF TerminalInv, TypeOK, Ids
    <3> QED  BY <1>1, <1>2, <1>4, <3>1
  <2> QED  BY <1>1, <1>2, <1>4, <2>1 DEF CountInv
<1>5. ASSUME NEW d \in Callers PROVE CopyOK(d)'
  <2>1. CASE d = c
    BY <1>1, <2>1, Unmarked DEF Marked, Holding, Probing
  <2>2. CASE d # c
    <3>u. PICK u \in Ids : u = caller[d].id
      BY CallTypes
    <3>1. caller'[d] = caller[d]
      BY <1>1, <2>2
    <3>2. Stopping(d) => HasGroup(u)
      BY <3>u, CallTypes
    <3>3. caller[d].pc \in Holding /\ Live(u)' => Active(caller[d].copy)
      BY <1>3, <3>u DEF CountInv, CopyOK
    <3>4. caller[d].pc \in {"stop_settle", "stop_orphan"} => ~Running(Group(u))'
      BY <1>1, <3>u, <3>2 DEF CountInv, CopyOK, Stopping, HasGroup, Running
    <3>5. caller[d].pc \in Probing => "ready" \in Calls /\ u < counter'
      BY <1>1, <3>u DEF CountInv, CopyOK
    <3> QED  BY <3>u, <3>1, <3>3, <3>4, <3>5 DEF CopyOK
  <2> QED  BY <2>1, <2>2
<1>6. \A u \in Ids : Live(u)' => Active(records'[u])
  BY <1>1, <1>3 DEF CountInv
<1> QED  BY <1>1, <1>4, <1>5, <1>6 DEF CountInv

\* A new manager has no process, and no call is under way.
LEMMA CountRestart ==
  ASSUME TerminalInv, CountInv, Restart
  PROVE  CountInv'
<1>1. /\ entry' = [t \in Ids |-> NoEntry] /\ monitor' = [t \in Ids |-> NoMonitor]
      /\ caller' = [c \in Callers |-> NoCall] /\ generation < MaxRestarts
  BY DEF Restart
<1>2. MaxRestarts # 0
  BY <1>1, BoundsAssumption DEF TerminalInv, TypeOK
<1>3. \A c \in Callers : caller'[c].pc = "idle"
  BY <1>1 DEF NoCall
<1>4. \A t \in Ids : ~Live(t)'
  BY <1>1, <1>3 DEF Live, Spawning, Started, NoMonitor
<1>5. \A c \in Callers : CopyOK(c)'
  BY <1>3, Unmarked DEF Marked, Holding, Probing
<1> QED  BY <1>1, <1>2, <1>4, <1>5 DEF CountInv

\* Every step keeps the count.
LEMMA NextCountInv ==
  ASSUME ProbesKnown, TerminalInv, CountInv, [Next]_vars
  PROVE  CountInv'
<1>1. ASSUME NEW c \in Callers, NewCall(c) \/ CallStep(c) PROVE CountInv'
  <2>1. CASE NewCall(c)
    BY <2>1, CountCalls
  <2>2. CASE CallStep(c)
    BY <2>2, CountInsert, CountSpawn, CountCalls, CountStops, CountStores DEF CallStep
  <2> QED  BY <1>1, <2>1, <2>2
<1> QED  BY <1>1, CountTasks, CountRestart DEF Next

\* Every reachable state satisfies it.
LEMMA SpecCountInv == ASSUME ProbesKnown PROVE Spec => []CountInv
<1>1. ASSUME Init PROVE CountInv
  <2>1. \A c \in Callers : caller[c].pc = "idle"
    BY <1>1 DEF Init, NoCall
  <2>2. \A t \in Ids : ~Live(t)
    BY <1>1, <2>1 DEF Init, Live, Spawning, Started, NoMonitor
  <2>3. \A c \in Callers : CopyOK(c)
    BY <2>1 DEF CopyOK, Holding, Probing
  <2> QED  BY <1>1, <2>1, <2>2, <2>3 DEF Init, CountInv
<1>2. TerminalInv /\ CountInv /\ [Next]_vars => CountInv'
  BY NextCountInv
<1>3. Init => CountInv
  BY <1>1
<1> QED  BY <1>2, <1>3, SpecTerminalInv, PTL DEF Spec

\* A process that runs is counted by check_limits, whatever stops that give up
\* and stale copies write over its record.
THEOREM ProcessesAreCounted == ASSUME ProbesKnown PROVE Spec => []RunningIsCounted
<1>1. CountInv => RunningIsCounted
  BY DEF CountInv, RunningIsCounted, Live, Started
<1> QED  BY <1>1, SpecCountInv, PTL

\* Sets of pids are finite and counted by naturals.
LEMMA PidsCount ==
  ASSUME NEW S \in SUBSET Pids
  PROVE  /\ IsFiniteSet(S) /\ Cardinality(S) \in Nat
         /\ \A T \in SUBSET S : Cardinality(T) <= Cardinality(S)
         /\ \A p : Cardinality(S \cup {p}) <= Cardinality(S) + 1
<1>1. IsFiniteSet(Pids)
  BY FS_Interval, BoundsAssumption DEF Pids
<1>2. IsFiniteSet(S) /\ Cardinality(S) \in Nat
  BY <1>1, FS_Subset, FS_CardinalityType
<1> QED  BY <1>2, FS_Subset, FS_AddElement

\* Under the limit there is room: different processes have different records.
LEMMA RoomLeft ==
  ASSUME CountInv, LimitInv, CheckLimits,
         \A c \in Callers : caller[c].pc # "running"
  PROVE  Cardinality(AllRunning) < Limit
<1> DEFINE active == {t \in Ids : Active(records[t])}
           owner == [p \in AllRunning |-> CHOOSE t \in Ids : Started(t) /\ Group(t) = p]
<1>1. IsFiniteSet(active)
  <2>1. IsFiniteSet(Ids)
    BY FS_Interval, BoundsAssumption DEF Ids
  <2> QED  BY <2>1, FS_Subset
<1>2. ASSUME NEW p \in AllRunning
      PROVE  owner[p] \in active /\ Group(owner[p]) = p
  <2>1. \E t \in Ids : Started(t) /\ Group(t) = p
    BY DEF LimitInv, AllRunning
  <2>2. owner[p] \in Ids /\ Started(owner[p]) /\ Group(owner[p]) = p
    BY <2>1
  <2> HIDE DEF owner
  <2> QED  BY <2>2 DEF CountInv, Live, AllRunning
<1>3. owner \in Injection(AllRunning, active)
  <2>1. owner \in [AllRunning -> active]
    BY <1>2
  <2>2. \A p, q \in AllRunning : owner[p] = owner[q] => p = q
    BY <1>2
  <2> HIDE DEF owner, active
  <2> QED  BY <2>1, <2>2 DEF Injection, IsInjective
<1>4. Cardinality(AllRunning) <= Cardinality(active)
  BY <1>1, <1>3, FS_Injection
<1>5. Cardinality(active) \in Nat /\ Cardinality(AllRunning) \in Nat
  BY <1>1, FS_CardinalityType, PidsCount DEF AllRunning
<1> QED  BY <1>4, <1>5, BoundsAssumption DEF CheckLimits

\* A step that starts no process keeps the limit.
LEMMA LimitStep ==
  ASSUME TerminalInv, LimitInv, Quiet,
         \A d \in Callers : caller'[d].pc \in {"insert", "spawn", "running"} =>
           \/ d \in Starters /\ Cardinality(AllRunning) < Limit
           \/ caller[d].pc \in {"insert", "spawn"}
           \/ caller[d].pc = "running" /\ caller'[d].pc = "running"
  PROVE  LimitInv'
<1>1. AllRunning' \subseteq AllRunning
  BY DEF AllRunning, Quiet
<1>2. /\ Cardinality(AllRunning') \in Nat /\ Cardinality(AllRunning) \in Nat
      /\ Cardinality(AllRunning') <= Cardinality(AllRunning)
  BY <1>1, PidsCount DEF AllRunning
<1>3. \A p \in Pids : process'[p].owner <= generation'
  BY DEF LimitInv, Quiet
<1>4. \A p \in Pids : Running(p)' => \E t \in Ids : Started(t)' /\ Group(t)' = p
  BY DEF LimitInv, Quiet
<1>5. \A c \in Callers : caller'[c].pc \in {"insert", "spawn", "running"} => c \in Starters
  BY DEF LimitInv
<1>6. \A c \in Callers : caller'[c].pc \in {"insert", "spawn"} =>
        Cardinality(AllRunning') < Limit
  BY <1>2, BoundsAssumption DEF LimitInv
<1>7. Cardinality(AllRunning') <= Limit
  BY <1>2, BoundsAssumption DEF LimitInv
<1> QED  BY <1>3, <1>4, <1>5, <1>6, <1>7 DEF LimitInv

\* A start that is let in finds room, and nobody else starts meanwhile.
LEMMA LimitStart ==
  ASSUME OneStarter, TerminalInv, CountInv, LimitInv, NEW c \in Callers, Start(c)
  PROVE  LimitInv'
<1>0. caller \in [Callers -> Call] /\ caller[c].pc = "idle" /\ c \in Starters /\ CheckLimits
      /\ \A d \in Callers \ {c} : caller'[d] = caller[d]
  BY CallerMoves DEF TerminalInv, TypeOK, NewCall, Start, Begin
<1>1. \A d \in Callers : caller[d].pc # "running"
  BY <1>0 DEF OneStarter, LimitInv
<1>2. Cardinality(AllRunning) < Limit
  BY <1>0, <1>1, RoomLeft
<1>3. Quiet
  BY QuietCalls DEF NewCall
<1>4. \A d \in Callers \ {c} : caller'[d].pc \notin {"insert", "spawn", "running"}
  BY <1>0 DEF OneStarter, LimitInv
<1> QED  BY <1>0, <1>2, <1>3, <1>4, LimitStep

\* The process of a start takes the room that the start found.
LEMMA LimitSpawn ==
  ASSUME OneStarter, TerminalInv, CountInv, LimitInv, NEW c \in Callers, Spawn(c)
  PROVE  LimitInv'
<1>t. PICK t \in Ids : t = caller[c].id
  BY CallTypes
<1>p. PICK p \in Pids : p = NextPid
  BY DEF Spawn
<1>1. /\ UNCHANGED <<records, counter, generation, monitor>>
      /\ ~Used(p) /\ process'[p].leader = "running" /\ process'[p].owner = generation
      /\ \A q \in Pids \ {p} : process'[q] = process[q]
      /\ Group(t)' = p /\ \A u \in Ids \ {t} : entry'[u] = entry[u] /\ Group(u)' = Group(u)
      /\ caller'[c].pc = "running" /\ caller'[c].id = t
      /\ \A d \in Callers \ {c} : caller'[d] = caller[d]
      /\ caller[c].pc = "spawn" /\ Spawning(t)
      /\ \A u \in Ids : HasGroup(u) => u # t /\ Group(u) # p
  BY <1>t, <1>p, SpawnFacts
<1>2. c \in Starters /\ \A d \in Callers \ {c} : caller'[d].pc \notin {"insert", "spawn", "running"}
  BY <1>1 DEF OneStarter, LimitInv
<1>3. generation \in Nat
  BY BoundsAssumption DEF TerminalInv, TypeOK
<1>4. \A q \in Pids : process'[q].owner <= generation'
  BY <1>1, <1>3 DEF LimitInv
<1>5. ASSUME NEW q \in Pids, Running(q)' PROVE \E u \in Ids : Started(u)' /\ Group(u)' = q
  <2>1. CASE q = p
    BY <1>1, <2>1 DEF Started
  <2>2. CASE q # p
    <3>1. PICK u \in Ids : Started(u) /\ Group(u) = q
      BY <1>1, <1>5, <2>2 DEF LimitInv, Running
    <3>2. u # t
      BY <1>1, <3>1 DEF TerminalInv, TerminalOK, CallOK, Started
    <3>3. Started(u)'
      BY <1>1, <3>1 DEF Started
    <3> QED  BY <1>1, <3>1, <3>2, <3>3
  <2> QED  BY <2>1, <2>2
<1>6. AllRunning' \subseteq AllRunning \cup {p}
  BY <1>1 DEF AllRunning, Running
<1>7. Cardinality(AllRunning') <= Limit
  <2>1. AllRunning \cup {p} \in SUBSET Pids /\ AllRunning \in SUBSET Pids /\ AllRunning' \in SUBSET Pids
    BY DEF AllRunning
  <2>2. Cardinality(AllRunning') <= Cardinality(AllRunning \cup {p})
        /\ Cardinality(AllRunning \cup {p}) \in Nat /\ Cardinality(AllRunning') \in Nat
    BY <1>6, <2>1, PidsCount
  <2>3. Cardinality(AllRunning \cup {p}) <= Cardinality(AllRunning) + 1
        /\ Cardinality(AllRunning) \in Nat
    BY <2>1, PidsCount
  <2>4. Cardinality(AllRunning) < Limit
    BY <1>1 DEF LimitInv
  <2> QED  BY <2>2, <2>3, <2>4, BoundsAssumption
<1> QED  BY <1>1, <1>2, <1>4, <1>5, <1>7 DEF LimitInv

\* Nothing that runs is the new manager's.
LEMMA LimitRestart ==
  ASSUME TerminalInv, LimitInv, Restart
  PROVE  LimitInv'
<1>1. /\ caller' = [c \in Callers |-> NoCall] /\ generation' = generation + 1
      /\ process' = process /\ generation \in Nat
  BY BoundsAssumption DEF Restart, TerminalInv, TypeOK
<1>2. \A c \in Callers : caller'[c].pc = "idle"
  BY <1>1 DEF NoCall
<1>3. \A p \in Pids : process[p].owner \in Nat
  BY BoundsAssumption DEF TerminalInv, TypeOK, Process
<1>4. \A p \in Pids : ~Running(p)' /\ process'[p].owner <= generation'
  BY <1>1, <1>3 DEF LimitInv, Running
<1>5. AllRunning' = {}
  BY <1>4 DEF AllRunning
<1>6. Cardinality(AllRunning') <= Limit
  BY <1>5, FS_EmptySet, BoundsAssumption
<1> QED  BY <1>2, <1>4, <1>6 DEF LimitInv

\* The other steps of calls let no process in.
LEMMA LimitCalls ==
  ASSUME TerminalInv, LimitInv, NEW c \in Callers,
         \/ StopCall(c) \/ CloseCall(c) \/ WaitCall(c) \/ ReadyCall(c)
         \/ (CallStep(c) /\ ~Spawn(c))
  PROVE  LimitInv'
<1>0. caller \in [Callers -> Call] /\ caller[c] \in Call
      /\ \A d \in Callers \ {c} : caller'[d] = caller[d]
  BY CallerMoves DEF TerminalInv, TypeOK, NewCall
<1>1. Quiet
  BY QuietCalls, QuietStops, QuietStart DEF CallStep, NewCall
<1>2. caller'[c].pc \in {"insert", "spawn", "running"} => caller[c].pc = "insert"
  <2>1. CASE StopCall(c) \/ CloseCall(c)
    BY <1>0, <2>1 DEF StopCall, CloseCall, Begin, NoCall
  <2>2. CASE WaitCall(c) \/ ReadyCall(c)
    BY <1>0, <2>2 DEF WaitCall, ReadyCall, Begin, NoCall
  <2>3. CASE Insert(c)
    BY <2>3 DEF Insert
  <2>4. CASE StopNext(c) \/ StopTooLate(c) \/ StopFinished(c) \/ StopPersistOrphan(c)
    <3>1. CASE \E t \in Ids, finished \in BOOLEAN : Answer(c, t, finished)
      BY <1>0, <3>1 DEF Answer, NoCall, Call
    <3>2. CASE \E t \in Ids : caller' = [caller EXCEPT ![c].pc = "stop_lock", ![c].id = t]
      BY <1>0, <3>2 DEF Call
    <3>3. caller[c].todo \subseteq Ids /\ caller[c].id \in Ids
      BY <1>0 DEF Call
    <3> QED
      BY <2>4, <3>1, <3>2, <3>3 DEF StopNext, StopTooLate, StopFinished, StopPersistOrphan
  <2>5. CASE StopPersist(c) \/ StopGraceOver(c) \/ WaitLookup(c) \/ ReadyPersist(c) \/ ReadyAgain(c)
    <3>1. CASE \E step \in {"stop_grace", "stop_settle", "wait_latch", "ready_poll"} : Goto(c, step)
      BY <1>0, <3>1 DEF Goto, Call
    <3>2. CASE Return(c)
      BY <1>0, <3>2 DEF Return, NoCall
    <3> QED
      BY <2>5, <3>1, <3>2
         DEF StopPersist, StopGraceOver, WaitLookup, ReadyPersist, ReadyAgain
  <2>6. CASE SpawnFails(c) \/ MarkRunning(c) \/ WaitReturns(c) \/ ReadyEnds(c)
    BY <1>0, <2>6 DEF SpawnFails, MarkRunning, WaitReturns, ReadyEnds, Return, NoCall
  <2>7. ASSUME NEW step \in {"stop_persist", "stop_orphan", "ready_probe"}, NEW copy,
               caller' = [caller EXCEPT ![c].pc = step, ![c].copy = copy]
        PROVE  caller'[c].pc \notin {"insert", "spawn", "running"}
    <3>1. caller'[c] = [[caller[c] EXCEPT !.pc = step] EXCEPT !.copy = copy]
      BY <1>0, <2>7
    <3> QED  BY <1>0, <3>1 DEF Call
  <2>8. CASE StopLock(c)
    BY <2>7, <2>8 DEF StopLock
  <2>9. CASE StopOrphans(c)
    BY <2>7, <2>9 DEF StopOrphans
  <2>10. CASE ReadyPoll(c)
    <3>1. CASE caller' = [caller EXCEPT ![c] = NoCall]
      BY <1>0, <3>1 DEF NoCall
    <3> QED  BY <2>7, <2>10, <3>1 DEF ReadyPoll, Return
  <2> QED  BY <2>1, <2>2, <2>3, <2>4, <2>5, <2>6, <2>8, <2>9, <2>10 DEF CallStep
<1> QED  BY <1>0, <1>1, <1>2, LimitStep

\* Every step keeps the limit.
LEMMA NextLimitInv ==
  ASSUME OneStarter, TerminalInv, CountInv, LimitInv, [Next]_vars
  PROVE  LimitInv'
<1>1. ASSUME NEW c \in Callers, NewCall(c) \/ CallStep(c) PROVE LimitInv'
  BY <1>1, LimitStart, LimitSpawn, LimitCalls DEF NewCall
<1>2. ASSUME Quiet, UNCHANGED caller PROVE LimitInv'
  BY <1>2, LimitStep
<1>3. ASSUME NEW t \in Ids, MonitorStep(t) \/ WaitFails(t) PROVE LimitInv'
  BY <1>2, <1>3, QuietMonitor
     DEF MonitorStep, WaitFails, Take, Wait, Deadline, Retake, GraceWait, GraceOver,
         ForcedWait, Reattach, Kill, Drain, Fire, Observe, Fold, Remove, PersistFinal,
         Reaps, MonitorOnly
<1>4. CASE \/ \E p \in Pids : WriteChunk(p) \/ Exit(p)
           \/ \E t \in Ids : Pump(t)
           \/ UNCHANGED vars
  BY <1>2, <1>4, QuietRest DEF WriteChunk, Exit, Pump, vars
<1> QED  BY <1>1, <1>3, <1>4, LimitRestart DEF Next

\* With one caller that starts terminals, never more processes run than the
\* limit allows, while stops, deadlines and orphaned records come and go.
THEOREM LimitIsKept == ASSUME ProbesKnown, OneStarter PROVE Spec => []LimitRespected
<1>1. ASSUME Init PROVE LimitInv
  <2>1. \A c \in Callers : caller[c].pc = "idle"
    BY <1>1 DEF Init, NoCall
  <2>2. \A p \in Pids : ~Running(p) /\ process[p].owner <= generation
    BY <1>1 DEF Init, Running, NoProcess
  <2>3. AllRunning = {}
    BY <2>2 DEF AllRunning
  <2>4. Cardinality(AllRunning) <= Limit
    BY <2>3, FS_EmptySet, BoundsAssumption
  <2> QED  BY <2>1, <2>2, <2>4 DEF LimitInv
<1>2. TerminalInv /\ CountInv /\ LimitInv /\ [Next]_vars => LimitInv'
  BY NextLimitInv
<1>3. LimitInv => LimitRespected
  BY DEF LimitInv, LimitRespected, AllRunning
<1>4. Init => LimitInv
  BY <1>1
<1> QED  BY <1>2, <1>3, <1>4, SpecTerminalInv, SpecCountInv, PTL DEF Spec
=============================================================================
