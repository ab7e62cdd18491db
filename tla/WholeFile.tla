------------------------------- MODULE WholeFile -------------------------------
(***************************************************************************)
(* The stores of xaft-cli (jobs, runs, worktrees) keep everything in one   *)
(* file: a process reads the file, changes its copy and writes the copy to *)
(* "<file>.tmp", which it then renames over the file.  All processes use   *)
(* the same temporary name and none takes a lock.                          *)
(*                                                                         *)
(* This module has the file system and the three system calls of a write;  *)
(* the modules that extend it say what a command reads and writes.         *)
(***************************************************************************)
EXTENDS Naturals, Sequences

CONSTANTS
  Procs,        \* processes, one command at a time each
  MaxCommands,  \* how many commands are given in a behaviour
  Serial,       \* TRUE: a process starts only when no other runs
  MayCrash      \* TRUE: a process may die between any two steps

VARIABLES
  disk,   \* what the names "store" and "tmp" hold
  fd,     \* the name of the file that each process has open
  pc,     \* the system call each process makes next
  plan,   \* the texts it has still to write, in order
  asked   \* how many commands were given

fileVars == <<disk, fd, pc, plan, asked>>

\* What a file holds: a whole text, nothing yet, or parts of two texts.
Whole(text) == [state |-> "whole", text |-> text]
Hollow(state) == [state |-> state, text |-> <<>>]
Absent == Hollow("absent")
Blank == Hollow("blank")
Torn == Hollow("torn")

FileInit ==
  /\ disk = [store |-> Absent, tmp |-> Absent]
  /\ fd = [p \in Procs |-> "none"]
  /\ pc = [p \in Procs |-> "idle"]
  /\ plan = [p \in Procs |-> <<>>]
  /\ asked = 0

\* Every text that is on disk or that a process is about to write.
Texts ==
  {disk[name].text : name \in {n \in {"store", "tmp"} : disk[n].state = "whole"}}
    \cup UNION {{plan[p][k] : k \in DOMAIN plan[p]} : p \in Procs}

FileTypeOK ==
  /\ DOMAIN disk = {"store", "tmp"}
  /\ \A name \in DOMAIN disk :
       disk[name] \in {Absent, Blank, Torn, Whole(disk[name].text)}
  /\ fd \in [Procs -> {"none", "store", "tmp", "unlinked"}]
  /\ pc \in [Procs -> {"idle", "truncate", "write", "rename"}]
  /\ \A p \in Procs : Len(plan[p]) \in 0 .. 2 /\ (plan[p] = <<>> <=> pc[p] = "idle")
  /\ asked \in Nat

-----------------------------------------------------------------------------
\* A process has read the store and knows the texts it will write.
Begin(p, texts) ==
  /\ pc[p] = "idle"
  /\ Serial => \A q \in Procs : pc[q] = "idle"
  /\ asked < MaxCommands
  /\ texts # <<>>
  /\ pc' = [pc EXCEPT ![p] = "truncate"]
  /\ plan' = [plan EXCEPT ![p] = texts]
  /\ asked' = asked + 1
  /\ UNCHANGED <<disk, fd>>

\* Slip: the store itself is opened for writing.
SlipTruncate(p) ==
  /\ pc[p] = "truncate"
  /\ disk' = [disk EXCEPT !.store = Blank]
  /\ fd' = [fd EXCEPT ![p] = "store"]
  /\ pc' = [pc EXCEPT ![p] = "write"]
  /\ UNCHANGED <<plan, asked>>

\* fs::write, first half: open the temporary file and truncate it.
Truncate(p) ==
  /\ pc[p] = "truncate"
  /\ disk' = [disk EXCEPT !.tmp = Blank]
  /\ fd' = [fd EXCEPT ![p] = "tmp"]
  /\ pc' = [pc EXCEPT ![p] = "write"]
  /\ UNCHANGED <<plan, asked>>

\* What a file that held old holds after text was written from its start: if
\* another process wrote a longer text meanwhile, the end of that one is left.
Overwrite(old, text) ==
  IF old \in {Blank, Whole(text)} THEN {Whole(text)} ELSE {Whole(text), Torn}

\* The file that p has open, under the name it has now, holds content.
Fill(p, content) ==
  disk' = IF fd[p] = "unlinked" THEN disk ELSE [disk EXCEPT ![fd[p]] = content]

\* fs::write, second half: write the text and close the file.
Write(p) ==
  /\ pc[p] = "write"
  /\ IF fd[p] = "unlinked" THEN UNCHANGED disk
     ELSE \E content \in Overwrite(disk[fd[p]], Head(plan[p])) : Fill(p, content)
  /\ fd' = [fd EXCEPT ![p] = "none"]
  /\ pc' = [pc EXCEPT ![p] = "rename"]
  /\ UNCHANGED <<plan, asked>>

\* A rename moves the file, not the name: who has it open writes on in it.
Renamed(name) ==
  CASE name = "tmp" -> "store"
    [] name = "store" -> "unlinked"
    [] OTHER -> name

\* Slip: the rest of a command outlives the process.
SlipExit(p) == pc' = [pc EXCEPT ![p] = "idle"] /\ UNCHANGED plan

\* The command ends, whether it is done or failed.
Exit(p) ==
  /\ pc' = [pc EXCEPT ![p] = "idle"]
  /\ plan' = [plan EXCEPT ![p] = <<>>]

\* fs::rename: the end of one persist; a command may have another to do.
Rename(p) ==
  /\ pc[p] = "rename"
  /\ disk.tmp # Absent
  /\ disk' = [store |-> disk.tmp, tmp |-> Absent]
  /\ fd' = [q \in Procs |-> Renamed(fd[q])]
  /\ IF Len(plan[p]) > 1
       THEN /\ pc' = [pc EXCEPT ![p] = "truncate"]
            /\ plan' = [plan EXCEPT ![p] = Tail(@)]
       ELSE Exit(p)
  /\ UNCHANGED asked

\* Another process has renamed the temporary file away: the command fails.
RenameFails(p) ==
  /\ pc[p] = "rename"
  /\ disk.tmp = Absent
  /\ Exit(p)
  /\ UNCHANGED <<disk, fd, asked>>

\* The process dies, in the middle of its text if it is writing.
Crash(p) ==
  /\ MayCrash
  /\ pc[p] # "idle"
  /\ \/ UNCHANGED disk
     \/ pc[p] = "write" /\ Fill(p, Torn)
  /\ fd' = [fd EXCEPT ![p] = "none"]
  /\ Exit(p)
  /\ UNCHANGED asked

Persist(p) == Truncate(p) \/ Write(p) \/ Rename(p) \/ RenameFails(p) \/ Crash(p)

-----------------------------------------------------------------------------
Resting == \A p \in Procs : pc[p] = "idle"

\* The file under the store's name is complete: "Write-then-rename so a crash
\* mid-write cannot truncate the snapshot" (jobs/mod.rs:703).
StoreIsWhole == disk.store.state \in {"absent", "whole"}
=============================================================================
