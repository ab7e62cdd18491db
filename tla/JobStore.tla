-------------------------------- MODULE JobStore --------------------------------
(***************************************************************************)
(* The background jobs of `xaft jobs` (xaft-cli/src/jobs/mod.rs): each     *)
(* invocation opens the store, applies one command to its copy of the map  *)
(* of jobs and persists the copy.  A command that is refused writes        *)
(* nothing, so it has no step here.                                        *)
(***************************************************************************)
EXTENDS WholeFile

CONSTANTS
  Ids,       \* session ids of jobs
  Commands   \* the commands given, a subset of AllCommands

AllCommands == {"create", "transition", "rename", "approve", "input", "cancel",
                "resume", "delete", "restore", "purge"}

-----------------------------------------------------------------------------
(* Jobs *)

ActiveStatus == {"queued", "starting", "running", "waiting_approval",
                 "waiting_input", "retrying", "cancelling"}
TerminalStatus == {"completed", "failed", "cancelled", "orphaned", "archived",
                   "deleted"}
Status == ActiveStatus \cup TerminalStatus

\* JobStatus::can_transition_to.
Successors(status) ==
  CASE status = "queued"   -> {"starting", "cancelling", "orphaned", "failed"}
    [] status = "starting" -> {"running", "cancelling", "orphaned"}
    [] status = "running"  -> {"waiting_approval", "waiting_input", "retrying",
                               "cancelling", "completed", "failed", "orphaned"}
    [] status \in {"waiting_approval", "waiting_input"} ->
                              {"running", "cancelling"}
    [] status = "retrying"   -> {"starting", "cancelling", "orphaned"}
    [] status = "cancelling" -> {"cancelled", "orphaned"}
    [] status = "completed"  -> {"archived"}
    [] status = "failed"     -> {"retrying", "starting", "archived"}
    [] status = "cancelled"  -> {"starting", "archived"}
    [] status = "orphaned"   -> {"starting", "cancelling", "archived"}
    [] status = "archived"   -> {"starting", "completed", "failed"}
    [] status = "deleted"    -> {}

\* Of a job: its status, the one before the trash, whether completed_at is
\* set, what was answered to its last question and whether it has a title.
Job == [status : Status, before : Status \cup {"none"}, finished : BOOLEAN,
        answer : {"none", "approved", "rejected", "given"}, titled : BOOLEAN]
NewJob == [status |-> "queued", before |-> "none", finished |-> FALSE,
           answer |-> "none", titled |-> FALSE]

IsJobMap(jobs) == DOMAIN jobs \subseteq Ids /\ \A i \in DOMAIN jobs : jobs[i] \in Job

\* The map with the job i set.
Put(jobs, i, job) ==
  [k \in DOMAIN jobs \cup {i} |-> IF k = i THEN job ELSE jobs[k]]

\* What open reads: a blank file is an empty store, a torn one an error.
Opened ==
  CASE disk.store.state = "whole" -> {disk.store.text}
    [] disk.store.state \in {"absent", "blank"} -> {<<>>}
    [] OTHER -> {}

\* mut_get: the job exists and is not in the trash.
InUse(jobs, i) == i \in DOMAIN jobs /\ jobs[i].status # "deleted"

Moved(job, target) ==
  [job EXCEPT !.status = target,
              !.finished = @ \/ target \in {"completed", "failed", "cancelled"}]

\* Slip: the table is not asked.
SlipCanMove(job, target) == target # job.status

\* transition: legal from the current status; to the same one it does nothing.
CanMove(job, target) == target \in Successors(job.status)

-----------------------------------------------------------------------------
(* Commands: p opens the store and finds the map jobs *)

Run(p, command, texts) == command \in Commands /\ Begin(p, texts)

Create(p, jobs, i) ==
  /\ i \notin DOMAIN jobs
  /\ Run(p, "create", <<Put(jobs, i, NewJob)>>)

Transition(p, jobs, i) == \E target \in Status :
  /\ InUse(jobs, i)
  /\ CanMove(jobs[i], target)
  /\ Run(p, "transition", <<Put(jobs, i, Moved(jobs[i], target))>>)

\* rename; set_labels is the same with another field.
SetTitle(p, jobs, i) == \E titled \in BOOLEAN :
  /\ InUse(jobs, i)
  /\ Run(p, "rename", <<Put(jobs, i, [jobs[i] EXCEPT !.titled = titled])>>)

\* Slip: the answer is persisted before the transition.
SlipAnswer(p, jobs, i, command, waiting, answer) ==
  LET answered == [jobs[i] EXCEPT !.answer = answer]
  IN
  /\ InUse(jobs, i)
  /\ jobs[i].status = waiting
  /\ Run(p, command, <<Put(jobs, i, answered), Put(jobs, i, Moved(answered, "running"))>>)

\* approve and provide_input: the answer, and back to running, in one write.
Answer(p, jobs, i, command, waiting, answer) ==
  /\ InUse(jobs, i)
  /\ jobs[i].status = waiting
  /\ CanMove(jobs[i], "running")
  /\ Run(p, command,
         <<Put(jobs, i, Moved([jobs[i] EXCEPT !.answer = answer], "running"))>>)

Approve(p, jobs, i) == \E answer \in {"approved", "rejected"} :
  Answer(p, jobs, i, "approve", "waiting_approval", answer)

ProvideInput(p, jobs, i) ==
  Answer(p, jobs, i, "input", "waiting_input", "given")

\* Two transitions, each persisted; the second alone if the first was done.
Cancel(p, jobs, i) ==
  LET draining == Put(jobs, i, Moved(jobs[i], "cancelling"))
      ended == Put(jobs, i, Moved(jobs[i], "cancelled"))
  IN
  /\ InUse(jobs, i)
  /\ jobs[i].status \in ActiveStatus
  /\ Run(p, "cancel",
         IF jobs[i].status = "cancelling" THEN <<ended>> ELSE <<draining, ended>>)

ResumeTarget(status) == IF status = "failed" THEN "retrying" ELSE "starting"

Resume(p, jobs, i) ==
  /\ InUse(jobs, i)
  /\ jobs[i].status \in {"failed", "cancelled", "orphaned", "archived"}
  /\ LET target == ResumeTarget(jobs[i].status)
     IN /\ CanMove(jobs[i], target)
        /\ Run(p, "resume", <<Put(jobs, i, Moved(jobs[i], target))>>)

Trashed(job) == [job EXCEPT !.status = "deleted", !.before = job.status]

\* Slip: a job that is in the trash is put there again.
SlipDelete(p, jobs, i) ==
  /\ i \in DOMAIN jobs
  /\ jobs[i].status # "archived"
  /\ Run(p, "delete", <<Put(jobs, i, Trashed(jobs[i]))>>)

\* delete: the archive is left only by a transition.
Delete(p, jobs, i) ==
  /\ InUse(jobs, i)
  /\ jobs[i].status # "archived"
  /\ Run(p, "delete", <<Put(jobs, i, Trashed(jobs[i]))>>)

\* Back to the status before the trash; queued if none was recorded.
Untrashed(job) ==
  [job EXCEPT !.before = "none",
              !.status = IF job.before \in {"none", "deleted"}
                         THEN "queued" ELSE job.before]

Restore(p, jobs, i) ==
  /\ i \in DOMAIN jobs
  /\ jobs[i].status = "deleted"
  /\ Run(p, "restore", <<Put(jobs, i, Untrashed(jobs[i]))>>)

\* Removes what is in the trash for long enough: any part of the trash.
Purge(p, jobs) == \E expired \in SUBSET {i \in DOMAIN jobs : jobs[i].status = "deleted"} :
  /\ expired # {}
  /\ Run(p, "purge", <<[i \in DOMAIN jobs \ expired |-> jobs[i]]>>)

Command(p) == \E jobs \in Opened :
  \/ Purge(p, jobs)
  \/ \E i \in Ids :
       \/ Create(p, jobs, i) \/ Transition(p, jobs, i) \/ SetTitle(p, jobs, i)
       \/ Approve(p, jobs, i) \/ ProvideInput(p, jobs, i) \/ Cancel(p, jobs, i)
       \/ Resume(p, jobs, i) \/ Delete(p, jobs, i) \/ Restore(p, jobs, i)

Init == FileInit

Next == \E p \in Procs : Command(p) \/ Persist(p)

Spec == Init /\ [][Next]_fileVars

-----------------------------------------------------------------------------
(* Properties *)

\* What a process that opens the store now would find.
Stored == IF disk.store.state = "whole" THEN disk.store.text ELSE <<>>
StatusOf(i) == IF i \in DOMAIN Stored THEN Stored[i].status ELSE "none"

\* The store, the temporary file and the copies of the processes hold jobs.
TypeOK == FileTypeOK /\ \A jobs \in Texts : IsJobMap(jobs)

\* A job is in the trash exactly while it remembers where it came from, which
\* is never the trash itself or the archive: restore never falls back to
\* "queued" (jobs/mod.rs:627-654), through crashes of any command.
TrashKnowsOrigin == \A i \in DOMAIN Stored :
  /\ Stored[i].status = "deleted" <=> Stored[i].before # "none"
  /\ Stored[i].before \notin {"deleted", "archived"}

\* An answer is on disk only together with the return to work of a job that was
\* waiting: approve and provide_input change the job before a transition that
\* could fail (jobs/mod.rs:515, 535), and one persist writes both.
AnswerStep ==
  \A i \in DOMAIN Stored \cap DOMAIN Stored' :
    Stored[i].answer # Stored'[i].answer =>
      /\ Stored[i].status \in {"waiting_approval", "waiting_input"}
      /\ Stored'[i].status = "running"
AnswerResumes == [][AnswerStep]_fileVars

\* The refinement: each job as JobLifecycle sees it.
PhaseOf(status) ==
  CASE status \in {"starting", "running", "retrying"} -> "work"
    [] status \in {"waiting_approval", "waiting_input"} -> "waiting"
    [] status = "cancelling" -> "draining"
    [] status \in {"completed", "failed", "cancelled", "orphaned"} -> "over"
    [] status = "deleted" -> "trash"
    [] OTHER -> status

Phases == [i \in Ids |-> PhaseOf(StatusOf(i))]
Kept == [i \in Ids |-> IF i \in DOMAIN Stored
                        THEN PhaseOf(Stored[i].before) ELSE "none"]
=============================================================================
