--------------------------------- MODULE MCDisk ---------------------------------
(***************************************************************************)
(* What xaft keeps on disk: stores of jobs, goal runs, manifests and       *)
(* sessions, the files of the workspace, and the search for a cycle among  *)
(* the tasks of a manifest.  A behaviour is a behaviour of one scene; the  *)
(* variables of the components it is not about keep their initial values.  *)
(***************************************************************************)
EXTENDS Naturals, Sequences, FiniteSets

VARIABLES scene,
  disk, fd, pc, plan, asked,
  sessions, history, procs, minted, runs, ended, billed, turned,
  files, known, call, calls, seen,
  deps, roots, stack, visited, answer

storeVars == <<disk, fd, pc, plan, asked>>
runVars == <<sessions, history, procs, minted, runs, ended, billed, turned>>
fileVars == <<files, known, call, calls, seen>>
searchVars == <<deps, roots, stack, visited, answer>>
vars == <<scene, storeVars, runVars, fileVars, searchVars>>

\* Commands on two jobs that do not overlap but may die anywhere.
Jobs == INSTANCE JobStore WITH
  Procs <- {"p1"}, MaxCommands <- 6, Serial <- TRUE, MayCrash <- TRUE,
  Ids <- {"j1", "j2"},
  Commands <- {"create", "transition", "rename", "approve", "input", "cancel",
               "resume", "delete", "restore", "purge"}

\* Two processes on one job, that overlap and may die.
JobRaces == INSTANCE JobStore WITH
  Procs <- {"p1", "p2"}, MaxCommands <- 4, Serial <- FALSE, MayCrash <- TRUE,
  Ids <- {"j1"},
  Commands <- {"create", "transition", "rename", "approve", "input", "cancel",
               "resume", "delete", "restore", "purge"}

Goals == INSTANCE RunStore WITH
  Procs <- {"p1"}, MaxCommands <- 4, Serial <- TRUE, MayCrash <- TRUE,
  Runs <- {"r1", "r2"}

Manifests == INSTANCE ManifestStore WITH
  Procs <- {"p1"}, MaxCommands <- 3, Serial <- TRUE, MayCrash <- TRUE,
  Tasks <- {"t1", "t2"}

\* Runs of two sessions, one at a time, that may die anywhere.
Runs == INSTANCE RunTask WITH
  Ids <- {"i1", "i2"}, Procs <- {"p1"}, MaxRuns <- 3, MaxCalls <- 1,
  Commands <- {"run", "dry", "resume", "cancel", "delete"},
  Serial <- TRUE, MayCrash <- TRUE, MayRefuse <- TRUE

\* Two processes that overlap on one session.
RunRaces == INSTANCE RunTask WITH
  Ids <- {"i1"}, Procs <- {"p1", "p2"}, MaxRuns <- 3, MaxCalls <- 1,
  Commands <- {"run", "resume", "cancel", "delete"},
  Serial <- FALSE, MayCrash <- TRUE, MayRefuse <- TRUE

\* Two calls of one executor, of every tool.
Files == INSTANCE FileTools WITH
  disk <- files,
  Actors <- {"main"}, Paths <- {"f", "g"}, MaxCalls <- 2,
  Tools <- {"read_file", "write_file", "edit_file", "patch_file", "append_to_file",
            "delete_file", "truncate_file", "create_directory", "remove_directory",
            "touch_file", "move_file", "copy_file",
            "batch_write", "batch_delete", "batch_move", "batch_copy"}

\* Two executors that share the memory of what was read.
FileRaces == INSTANCE FileTools WITH
  disk <- files,
  Actors <- {"main", "sub"}, Paths <- {"f", "g"}, MaxCalls <- 2,
  Tools <- {"write_file", "patch_file", "delete_file", "move_file", "batch_write"}

Search == INSTANCE DependencyGraph WITH Tasks <- {"t1", "t2", "t3"}, Unknown <- "t0"

Tasks == {"t1", "t2", "t3"}

\* Every store starts without a file, and without a session; the workspace and the
\* dependencies of the tasks are any, in the scenes about them.
Init ==
  /\ \/ scene = "jobs" /\ Jobs!Init
     \/ scene = "jobraces" /\ JobRaces!Init
     \/ scene = "goals" /\ Goals!Init
     \/ scene \in {"manifests", "runs", "runraces", "files", "fileraces", "search"}
        /\ Manifests!Init
  /\ IF scene = "runraces" THEN RunRaces!Init ELSE Runs!Init
  /\ IF scene = "fileraces" THEN FileRaces!Init ELSE Files!Init
  /\ scene \notin {"files", "fileraces"} => \A f \in {"f", "g"} : files[f] = {}
  /\ Search!Init /\ (scene # "search" => \A t \in Tasks : deps[t] = {})

InStores(A) == A /\ UNCHANGED <<scene, runVars, fileVars, searchVars>>
InRuns(A)   == A /\ UNCHANGED <<scene, storeVars, fileVars, searchVars>>
InFiles(A)  == A /\ UNCHANGED <<scene, storeVars, runVars, searchVars>>
InSearch(A) == A /\ UNCHANGED <<scene, storeVars, runVars, fileVars>>

Next ==
  \/ scene = "jobs" /\ InStores(Jobs!Next)
  \/ scene = "jobraces" /\ InStores(JobRaces!Next)
  \/ scene = "goals" /\ InStores(Goals!Next)
  \/ scene = "manifests" /\ InStores(Manifests!Next)
  \/ scene = "runs" /\ InRuns(Runs!Next)
  \/ scene = "runraces" /\ InRuns(RunRaces!Next)
  \/ scene = "files" /\ InFiles(Files!Next)
  \/ scene = "fileraces" /\ InFiles(FileRaces!Next)
  \/ scene = "search" /\ InSearch(Search!Next)

\* The search is a loop of one thread: it goes on while it can.
Spec == Init /\ [][Next]_vars /\ WF_vars(scene = "search" /\ InSearch(Search!Next))

-----------------------------------------------------------------------------
(* Properties: those of the stores, each in the scenes it is about *)

\* Files, calls, stacks and program counters keep their types in every scene.
TypeOK ==
  CASE scene = "jobs" -> Jobs!TypeOK
    [] scene = "jobraces" -> JobRaces!TypeOK
    [] scene = "goals" -> Goals!TypeOK
    [] scene = "manifests" -> Manifests!TypeOK
    [] scene = "runs" -> Runs!TypeOK
    [] scene = "runraces" -> RunRaces!TypeOK
    [] scene = "files" -> Files!TypeOK
    [] scene = "fileraces" -> FileRaces!TypeOK
    [] scene = "search" -> Search!TypeOK

\* Commands that do not overlap never leave a store empty or torn, wherever
\* they die (jobs/mod.rs:703, runs/mod.rs:434, store.rs:20).
CrashLeavesStoreWhole == scene \in {"jobs", "goals", "manifests"} => Jobs!StoreIsWhole

\* The trash remembers where a job came from, also when processes overlap: a
\* lost update brings back a job as some legal command wrote it.  A run has a
\* time of completion exactly while its status is final.
FlagsAgree ==
  CASE scene = "jobs" -> Jobs!TrashKnowsOrigin
    [] scene = "jobraces" -> JobRaces!TrashKnowsOrigin
    [] scene = "goals" -> Goals!CompletedIsTerminal
    [] OTHER -> TRUE

\* An answer reaches the disk only with the return of a waiting job to work; a run
\* that is on disk stays there; and each update of a manifest changes one task
\* and undoes no earlier one; a session that failed or was cancelled is not taken up
\* again; and a move or a copy replaces no file unless it was told to.
StepOnDisk ==
  CASE scene = "jobs" -> Jobs!AnswerStep
    [] scene = "goals" -> Goals!KeepsRuns
    [] scene = "manifests" -> Manifests!OneTaskStep
    [] scene = "runs" -> Runs!FinalStep
    [] scene = "files" -> Files!ReplaceStep
    [] OTHER -> TRUE
StoresKeepTheRest == [][StepOnDisk]_vars

\* The refinement: commands that do not overlap, each of which may die anywhere,
\* take the jobs only through the phases of JobLifecycle, and lose none.
Lifecycle == INSTANCE JobLifecycle WITH
  Ids <- {"j1", "j2"},
  phase <- IF scene = "jobs" THEN Jobs!Phases ELSE [i \in {"j1", "j2"} |-> "none"],
  kept <- IF scene = "jobs" THEN Jobs!Kept ELSE [i \in {"j1", "j2"} |-> "none"]
JobsFollowLifecycle == Lifecycle!Spec

\* A session's row counts exactly the model calls of its completed runs where runs
\* do not overlap, wherever they die, and never more where they do.
CallsAreBilled ==
  /\ scene = "runs" => Runs!CallsAreBilled
  /\ scene = "runraces" => RunRaces!NeverOvercharged

\* A call that was refused has changed nothing, and one that failed midway has lost
\* nothing but the text of the file it was writing, also while another executor works;
\* and alone, a tool that promises to keep what a file holds does when it succeeds.
ToolsKeepPromises ==
  /\ scene = "files" =>
       Files!RefusedChangesNothing /\ Files!FailuresLoseLittle /\ Files!KeepersKeep
  /\ scene = "fileraces" => FileRaces!RefusedChangesNothing /\ FileRaces!FailuresLoseLittle

\* has_cycle is right, in whatever order tasks and dependencies are visited.
AnswerIsRight == scene = "search" => Search!AnswerIsRight

\* has_cycle returns.
SearchAnswers == scene = "search" => Search!Answers
=============================================================================
