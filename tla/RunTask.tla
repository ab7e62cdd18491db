--------------------------------- MODULE RunTask ---------------------------------
(***************************************************************************)
(* run_task of xaft-runtime/src/runtime.rs and the commands that write the *)
(* same two databases: sessions.db with a row for each session (store.rs)  *)
(* and conversations.db with messages under keys.  Every await on a store  *)
(* is a step.  The agents of a workflow save their history under keys of   *)
(* their own, `{id}::workflow::{agent}`, which the external orchestrator   *)
(* reads back when it is given the persistent store.                       *)
(***************************************************************************)
EXTENDS Naturals, FiniteSets

CONSTANTS
  Ids,        \* session ids; each is minted once
  Procs,      \* xaft processes
  MaxRuns,    \* runs in all
  MaxCalls,   \* model calls of one run
  Commands,   \* what the processes do
  Serial,     \* TRUE: a command begins when no other is in progress
  MayCrash,   \* whether a process may die between two steps
  MayRefuse   \* whether the provider of a resumed run may fail to be built

\* SessionStatus, beside active and completed.
Final == {"failed", "cancelled"}

VARIABLES
  sessions,   \* the row of each session
  history,    \* per session: the messages of its own key and of its agents'
  procs,      \* the command each process is in
  minted,     \* ids that were handed out
  runs,       \* runs begun
  ended,      \* history variable: runs that completed their session
  billed,     \* history variable: model calls of the completed runs of a session
  turned      \* history variable: turns that its completed workflows reported

vars == <<sessions, history, procs, minted, runs, ended, billed, turned>>

\* AgentSession: what the commands read and write of it.  Its tokens and its cost are
\* counted in model calls; turn_count gets the turns of a workflow and then its calls.
NoRow == [status |-> "none", tokens |-> 0, turn_count |-> 0]
NewRow == [NoRow EXCEPT !.status = "active"]

Idle == [pc |-> "idle", command |-> "none", id |-> CHOOSE i \in Ids : TRUE, row |-> NoRow,
         run |-> 0, resume_from_completed |-> FALSE, acc |-> 0, made |-> 0, turns |-> 0]

Init ==
  /\ sessions = [i \in Ids |-> NoRow]
  /\ history = [i \in Ids |-> [session |-> {}, agents |-> {}]]
  /\ procs = [p \in Procs |-> Idle]
  /\ minted = {} /\ runs = 0 /\ ended = {}
  /\ billed = [i \in Ids |-> 0] /\ turned = [i \in Ids |-> 0]

Go(p, next) == procs' = [procs EXCEPT ![p] = next]
Done(p) == Go(p, Idle)
At(p, pc) == procs[p].pc = pc
Save(p, row) == sessions' = [sessions EXCEPT ![procs[p].id] = row]

-----------------------------------------------------------------------------
(* Commands begin *)

MayBegin(p) == At(p, "idle") /\ (Serial => \A q \in Procs : At(q, "idle"))

\* A run of a new session, dry or not.
New(p) == \E command \in {"run", "dry"} \cap Commands, i \in Ids \ minted :
  /\ MayBegin(p) /\ runs < MaxRuns
  /\ minted' = minted \cup {i} /\ runs' = runs + 1
  /\ Go(p, [Idle EXCEPT !.pc = "save", !.command = command, !.id = i, !.row = NewRow,
              !.run = runs + 1])
  /\ UNCHANGED <<sessions, history, ended, billed, turned>>

\* A run of an existing session, by --resume, --continue, session resume or the
\* next task of the terminal interface; session cancel; and SessionManager::delete.
Existing(p) == \E command \in {"resume", "cancel", "delete"} \cap Commands, i \in minted :
  /\ MayBegin(p)
  /\ IF command = "resume" THEN runs < MaxRuns /\ runs' = runs + 1 ELSE UNCHANGED runs
  /\ Go(p, [Idle EXCEPT !.pc = IF command = "delete" THEN "forget" ELSE "load",
              !.command = command, !.id = i, !.run = runs'])
  /\ UNCHANGED <<sessions, history, minted, ended, billed, turned>>

-----------------------------------------------------------------------------
(* run_task *)

\* is_resumable
Resumable(status) == status \notin Final \cup {"none"}

Load(p) ==
  LET c == procs[p]
      row == sessions[c.id]
  IN /\ At(p, "load") /\ c.command = "resume"
     /\ IF Resumable(row.status)
        THEN Go(p, [c EXCEPT !.pc = "resave", !.row = [row EXCEPT !.status = "active"],
                      !.resume_from_completed = row.status = "completed"])
        ELSE Done(p)
     /\ UNCHANGED <<sessions, history, minted, runs, ended, billed, turned>>

\* The row of a resumed run is saved twice, that of a new one once.
SaveActive(p) ==
  LET c == procs[p]
  IN /\ c.pc \in {"resave", "save"}
     /\ Save(p, c.row)
     /\ Go(p, [c EXCEPT !.pc = IF c.pc = "resave" THEN "save" ELSE "blank"])
     /\ UNCHANGED <<history, minted, runs, ended, billed, turned>>

\* The session's own key gets an empty conversation, also of a resumed run.
Blank(p) ==
  LET c == procs[p]
  IN /\ At(p, "blank")
     /\ history' = [history EXCEPT ![c.id].session = {}]
     /\ Go(p, [c EXCEPT !.pc = IF c.command = "dry" THEN "complete" ELSE "provider"])
     /\ UNCHANGED <<sessions, minted, runs, ended, billed, turned>>

\* The provider cannot be built: the run returns and its row stays active.
Refuse(p) ==
  /\ At(p, "provider") /\ MayRefuse
  /\ Done(p)
  /\ UNCHANGED <<sessions, history, minted, runs, ended, billed, turned>>

\* In a git repository the branch is saved; the accumulator of the run is empty.
Slip_subscribe(p) ==
  /\ At(p, "provider")
  /\ \/ UNCHANGED sessions
     \/ Save(p, procs[p].row)
  /\ Go(p, [procs[p] EXCEPT !.pc = "work", !.acc = procs[p].row.tokens])
  /\ UNCHANGED <<history, minted, runs, ended, billed, turned>>
Subscribe(p) ==
  /\ At(p, "provider")
  /\ \/ UNCHANGED sessions
     \/ Save(p, procs[p].row)
  /\ Go(p, [procs[p] EXCEPT !.pc = "work", !.acc = 0])
  /\ UNCHANGED <<history, minted, runs, ended, billed, turned>>

\* A model call of some agent: the accumulator counts it, and the agent's history
\* is saved, unless the run was given a store of its own in memory.
ModelCall(p) ==
  LET c == procs[p]
  IN /\ At(p, "work") /\ c.made < MaxCalls
     /\ Go(p, [c EXCEPT !.acc = @ + 1, !.made = @ + 1])
     /\ history' = IF c.resume_from_completed THEN history
                   ELSE [history EXCEPT ![c.id].agents = @ \cup {c.run}]
     /\ UNCHANGED <<sessions, minted, runs, ended, billed, turned>>

\* The workflow ends well: the orchestrator adds the turns it reports to the session
\* it was given, and the files of the run are committed.
WorkEnds(p) ==
  LET c == procs[p]
  IN /\ At(p, "work")
     /\ \E turns \in 0..c.made :
          Go(p, [c EXCEPT !.pc = "complete", !.row.turn_count = @ + turns, !.turns = turns])
     /\ UNCHANGED <<sessions, history, minted, runs, ended, billed, turned>>

\* It ends with an error: cancelled, or any other.
WorkFails(p) ==
  /\ At(p, "work")
  /\ \E status \in Final : Go(p, [procs[p] EXCEPT !.pc = "fail", !.row.status = status])
  /\ UNCHANGED <<sessions, history, minted, runs, ended, billed, turned>>

\* The accumulator is flushed into the session, its calls also into the turns.
Complete(p) ==
  LET c == procs[p]
  IN /\ At(p, "complete")
     /\ Save(p, [status |-> "completed", tokens |-> c.row.tokens + c.acc,
                 turn_count |-> c.row.turn_count + c.acc])
     /\ billed' = [billed EXCEPT ![c.id] = @ + c.made]
     /\ turned' = [turned EXCEPT ![c.id] = @ + c.turns]
     /\ ended' = ended \cup {c.run}
     /\ Done(p)
     /\ UNCHANGED <<history, minted, runs>>

\* What a run that failed or was cancelled has used is not added.
Fail(p) ==
  /\ At(p, "fail")
  /\ Save(p, procs[p].row)
  /\ Done(p)
  /\ UNCHANGED <<history, minted, runs, ended, billed, turned>>

-----------------------------------------------------------------------------
(* session cancel and SessionManager::delete *)

LoadToCancel(p) ==
  LET c == procs[p]
  IN /\ At(p, "load") /\ c.command = "cancel"
     /\ IF sessions[c.id] = NoRow THEN Done(p)
        ELSE Go(p, [c EXCEPT !.pc = "cancel", !.row = [sessions[c.id] EXCEPT !.status = "cancelled"]])
     /\ UNCHANGED <<sessions, history, minted, runs, ended, billed, turned>>

Cancel(p) ==
  /\ At(p, "cancel")
  /\ Save(p, procs[p].row)
  /\ Done(p)
  /\ UNCHANGED <<history, minted, runs, ended, billed, turned>>

\* Only the session's own key is deleted, and an error is ignored.
Forget(p) ==
  LET c == procs[p]
  IN /\ At(p, "forget")
     /\ history' = [history EXCEPT ![c.id].session = {}]
     /\ Go(p, [c EXCEPT !.pc = "drop"])
     /\ UNCHANGED <<sessions, minted, runs, ended, billed, turned>>

Drop(p) ==
  /\ At(p, "drop")
  /\ Save(p, NoRow)
  /\ Done(p)
  /\ UNCHANGED <<history, minted, runs, ended, billed, turned>>

\* The process dies; what it wrote stays.
Crash(p) ==
  /\ MayCrash /\ ~At(p, "idle")
  /\ Done(p)
  /\ UNCHANGED <<sessions, history, minted, runs, ended, billed, turned>>

Next == \E p \in Procs :
  \/ New(p) \/ Existing(p)
  \/ Load(p) \/ SaveActive(p) \/ Blank(p) \/ Refuse(p) \/ Subscribe(p)
  \/ ModelCall(p) \/ WorkEnds(p) \/ WorkFails(p) \/ Complete(p) \/ Fail(p)
  \/ LoadToCancel(p) \/ Cancel(p) \/ Forget(p) \/ Drop(p) \/ Crash(p)

Spec == Init /\ [][Next]_vars

-----------------------------------------------------------------------------
(* Properties *)

Row == [status : {"none", "active", "completed"} \cup Final, tokens : Nat, turn_count : Nat]
Task == [pc : {"idle", "load", "resave", "save", "blank", "provider", "work", "complete",
               "fail", "cancel", "forget", "drop"},
         command : {"none", "run", "dry", "resume", "cancel", "delete"},
         id : Ids \cup {Idle.id}, row : Row, run : Nat,
         resume_from_completed : BOOLEAN, acc : Nat, made : Nat, turns : Nat]

TypeOK ==
  /\ sessions \in [Ids -> Row] /\ billed \in [Ids -> Nat] /\ turned \in [Ids -> Nat]
  /\ history \in [Ids -> [session : SUBSET Nat, agents : SUBSET Nat]]
  /\ procs \in [Procs -> Task]
  /\ minted \subseteq Ids /\ runs \in Nat /\ ended \subseteq Nat
  /\ \A p \in Procs : ~At(p, "idle") => procs[p].id \in minted

\* A row never charges for more model calls than completed runs of the session have
\* made, and never counts more turns than they took and calls they made, whatever
\* overlaps or dies, although a process subscribes every run it makes to the same
\* signal and never unsubscribes (runtime.rs:466).
Covered(row, i) == row.tokens <= billed[i] /\ row.turn_count <= billed[i] + turned[i]
NeverOvercharged == \A i \in Ids : sessions[i] # NoRow => Covered(sessions[i], i)

\* Without overlap a row's tokens and cost are exactly those of the model calls of its
\* completed runs, and its turn_count is their turns and, once more, their calls.
Counted(row, i) == row.tokens = billed[i] /\ row.turn_count = billed[i] + turned[i]
CallsAreBilled == \A i \in Ids : sessions[i] # NoRow => Counted(sessions[i], i)

\* A session that failed or was cancelled stays so: only its deletion follows.
\* "Cancel session? This cannot be undone." (xaft-cli/src/commands/session.rs:235)
FinalStep == \A i \in Ids :
  sessions[i].status \in Final => sessions'[i].status \in {sessions[i].status, "none", "cancelled"}
FinalIsFinal == [][FinalStep]_vars
CancelIsFinal == [][\A i \in Ids :
  sessions[i].status = "cancelled" => sessions'[i].status \in {"cancelled", "none"}]_vars

\* "Agents must NOT reload prior tool-call history or they will re-implement the
\* previous task's work verbatim" (runtime.rs:208): what a run reloads from the
\* persistent store is never of a run that completed its session.
NoFinishedWorkReloaded == \A p \in Procs :
  At(p, "work") /\ ~procs[p].resume_from_completed
  => history[procs[p].id].agents \cap ended = {}
=============================================================================
