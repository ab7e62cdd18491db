------------------------------ MODULE ManifestStore ------------------------------
(***************************************************************************)
(* The manifest of one orchestration (xaft-cli/src/worktrees/store.rs and  *)
(* model.rs): a file of its own, which create writes once and update       *)
(* reads, changes and writes again.                                        *)
(***************************************************************************)
EXTENDS WholeFile

CONSTANTS
  Tasks   \* the tasks of the orchestration

\* TaskStatus; what a later version may write reads as "blocked".
TaskStatus == {"pending", "dispatching", "running", "completed", "failed",
               "blocked", "integrating", "integrated", "conflict", "cancelled",
               "cleaned"}

Manifest == [Tasks -> TaskStatus]
NewManifest == [t \in Tasks |-> "pending"]

\* get: a missing manifest is not found, one that does not parse is an error.
Readable == IF disk.store.state = "whole" THEN {disk.store.text} ELSE {}

\* create looks whether the file exists and writes it if not.
Create(p) ==
  /\ disk.store = Absent
  /\ Begin(p, <<NewManifest>>)

\* update with set_task_status: one task of the manifest gets a status.
Update(p, task, status) == \E manifest \in Readable :
  Begin(p, <<[manifest EXCEPT ![task] = status]>>)

Command(p) ==
  \/ Create(p)
  \/ \E task \in Tasks, status \in TaskStatus : Update(p, task, status)

Init == FileInit

Next == \E p \in Procs : Command(p) \/ Persist(p)

Spec == Init /\ [][Next]_fileVars

-----------------------------------------------------------------------------
(* Properties *)

\* Manifests, on disk and in the copies of the processes, have all tasks.
TypeOK == FileTypeOK /\ \A manifest \in Texts : manifest \in Manifest

\* "The mutation runs on a value the caller owns, so a failure inside it cannot
\* leave a half-applied manifest on disk" (store.rs:167): while updates do not
\* overlap, each write changes one task, and none undoes an earlier one.
OneTaskStep ==
  \A before \in Readable : \A after \in Readable' :
    \A s, t \in Tasks : (before[s] # after[s] /\ before[t] # after[t]) => s = t
OneTaskAtATime == [][OneTaskStep]_fileVars
=============================================================================
