------------------------------ MODULE JobLifecycle ------------------------------
(***************************************************************************)
(* What the commands of `xaft jobs` promise when they do not overlap: one  *)
(* job goes through phases of work, ends, may be archived, and may be put  *)
(* into the trash and taken out again as it was.  A process that dies      *)
(* leaves a job in one of these phases and never loses another job.        *)
(***************************************************************************)
CONSTANT Ids

VARIABLES
  phase,  \* of each job; "none" before it is accepted and after a purge
  kept    \* the phase a job in the trash had before

vars == <<phase, kept>>

Phases == {"none", "queued", "work", "waiting", "draining", "over", "archived",
           "trash"}

Move(i, from, to) ==
  /\ phase[i] \in from
  /\ phase' = [phase EXCEPT ![i] = to]
  /\ UNCHANGED kept

Accept(i) == Move(i, {"none"}, "queued")
Work(i) == Move(i, {"queued", "work", "waiting", "over", "archived"}, "work")
Wait(i) == Move(i, {"work"}, "waiting")
Drain(i) == Move(i, {"queued", "work", "waiting", "over"}, "draining")
End(i) == Move(i, {"queued", "work", "draining", "archived"}, "over")
Archive(i) == Move(i, {"over"}, "archived")

Trash(i) ==
  /\ phase[i] \notin {"none", "trash", "archived"}
  /\ phase' = [phase EXCEPT ![i] = "trash"]
  /\ kept' = [kept EXCEPT ![i] = phase[i]]

Untrash(i) ==
  /\ phase[i] = "trash"
  /\ phase' = [phase EXCEPT ![i] = kept[i]]
  /\ kept' = [kept EXCEPT ![i] = "none"]

\* A purge takes any number of jobs out of the trash at once.
Purge(gone) ==
  /\ \A i \in gone : phase[i] = "trash"
  /\ phase' = [i \in Ids |-> IF i \in gone THEN "none" ELSE phase[i]]
  /\ kept' = [i \in Ids |-> IF i \in gone THEN "none" ELSE kept[i]]

Init ==
  /\ phase = [i \in Ids |-> "none"]
  /\ kept = [i \in Ids |-> "none"]

Next ==
  \/ \E gone \in SUBSET Ids : Purge(gone)
  \/ \E i \in Ids :
       \/ Accept(i) \/ Work(i) \/ Wait(i) \/ Drain(i) \/ End(i) \/ Archive(i)
       \/ Trash(i) \/ Untrash(i)

Spec == Init /\ [][Next]_vars
=============================================================================
