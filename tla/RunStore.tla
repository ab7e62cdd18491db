-------------------------------- MODULE RunStore --------------------------------
(***************************************************************************)
(* The goal runs of `xaft runs` (xaft-cli/src/runs/mod.rs): the same whole *)
(* file as the jobs, but a file that cannot be read counts as empty.       *)
(***************************************************************************)
EXTENDS WholeFile

CONSTANT Runs   \* run ids

Terminal == {"completed", "failed", "cancelled"}
Status == {"created", "starting", "planning", "running", "waiting",
           "needs_attention", "integrating", "verifying", "lost"} \cup Terminal

\* Of a run: its status, whether completed_at is set, whether it ever started
\* a session.
Run == [status : Status, completed : BOOLEAN, session : BOOLEAN]
NewRun == [status |-> "created", completed |-> FALSE, session |-> FALSE]

\* RunStore::open: what does not parse is an empty store.
Opened == IF disk.store.state = "whole" THEN disk.store.text ELSE <<>>

Put(runs, r, run) ==
  [k \in DOMAIN runs \cup {r} |-> IF k = r THEN run ELSE runs[k]]

\* put inserts a new run, or overwrites one with a new one.
Record(p, r) == Begin(p, <<Put(Opened, r, NewRun)>>)

Cancel(p, r) ==
  /\ r \in DOMAIN Opened
  /\ Begin(p, <<Put(Opened, r,
                    [Opened[r] EXCEPT !.status = "cancelled", !.completed = TRUE])>>)

\* A run that never started a session has nothing to resume.
Resume(p, r) ==
  /\ r \in DOMAIN Opened
  /\ Opened[r].session
  /\ Begin(p, <<Put(Opened, r,
                    [Opened[r] EXCEPT !.status = "starting", !.completed = FALSE])>>)

\* update: what runs the goal reports a status; it stamps the time of the end.
Update(p, r) == \E status \in Status :
  /\ r \in DOMAIN Opened
  /\ Begin(p, <<Put(Opened, r, [status |-> status, session |-> TRUE,
                                completed |-> status \in Terminal])>>)

Command(p) == \E r \in Runs :
  Record(p, r) \/ Cancel(p, r) \/ Resume(p, r) \/ Update(p, r)

Init == FileInit

Next == \E p \in Procs : Command(p) \/ Persist(p)

Spec == Init /\ [][Next]_fileVars

-----------------------------------------------------------------------------
(* Properties *)

\* The store, the temporary file and the copies of the processes hold runs.
TypeOK == FileTypeOK /\ \A runs \in Texts :
  DOMAIN runs \subseteq Runs /\ \A r \in DOMAIN runs : runs[r] \in Run

\* "When it reached a terminal status" (runs/mod.rs:137): a run has a time of
\* completion exactly while its status is final, over cancels and resumes.
CompletedIsTerminal == \A r \in DOMAIN Opened :
  Opened[r].completed <=> Opened[r].status \in Terminal

\* No command of the CLI removes a run (remove is for tests): one that is on
\* disk stays there, although an unreadable store would count as empty.
KeepsRuns == DOMAIN Opened \subseteq DOMAIN Opened'
RunsAreKept == [][KeepsRuns]_fileVars

\* "Write-then-rename so a crash mid-write cannot truncate the store"
\* (runs/mod.rs:434): when no process runs any more, the store is complete.
RestsWhole == Resting => StoreIsWhole
=============================================================================
