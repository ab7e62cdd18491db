-------------------------------- MODULE FileTools --------------------------------
(***************************************************************************)
(* The file tools of xaft-tools/src/fs: each call looks at the workspace   *)
(* and then changes it, and nothing keeps another call out in between.     *)
(* A file is the set of the calls whose text it holds.  Reading tools are  *)
(* modelled by what ReadBeforeEditHook remembers of them.  Any call to the *)
(* file system may fail, and a write that fails may have emptied its file. *)
(***************************************************************************)
EXTENDS Naturals, Sequences, FiniteSets

CONSTANTS
  Actors,      \* executors that run tool calls of their own
  Paths,       \* paths that validate_path accepts
  MaxCalls,    \* calls in all
  Tools        \* the tools that are called

Writers == {"write_file", "edit_file", "patch_file"}     \* read or look, then fs write
Pairs   == {"move_file", "copy_file"}
Batches == {"batch_write", "batch_delete", "batch_move", "batch_copy"}
\* Tools that promise to keep what a file holds.
Keepers == {"edit_file", "patch_file", "append_to_file", "touch_file", "read_file"}
Transfers == {"batch_move", "batch_copy"}
Refusable == "invalid"    \* a path that validate_path rejects

\* What else a path may hold, written as sets that are no text.
Absent == {0}
Dir == {MaxCalls + 1}
Never == {MaxCalls + 2}

VARIABLES
  disk,     \* what each path holds: Absent, Dir or a set of calls
  known,    \* ReadBeforeEditHook.known_files, shared by all actors
  call,     \* the call of each actor
  calls,    \* calls made so far; the number of a call is its text
  seen      \* for each actor, what it last read or wrote of each path

vars == <<disk, known, call, calls, seen>>

Texts == SUBSET (1..MaxCalls)
IsFile(p) == disk[p] \notin {Absent, Dir}
NoCall == [pc |-> "idle", tool |-> "none", p |-> Refusable, q |-> Refusable, flag |-> FALSE,
           todo |-> <<>>, base |-> Absent, id |-> 0, changed |-> FALSE, lost |-> {},
           report |-> "none"]

Init ==
  /\ disk \in [Paths -> {Absent, Dir, {}}]
  /\ known = {} /\ calls = 0
  /\ call = [a \in Actors |-> NoCall]
  /\ seen = [a \in Actors |-> [p \in Paths |-> Never]]

\* The call of a ends with a report; the hook remembers what was read or written.
Report(a, report, next) ==
  call' = [call EXCEPT ![a] = [next EXCEPT !.pc = "done", !.report = report]]
Go(a, next) == call' = [call EXCEPT ![a] = next]

-----------------------------------------------------------------------------
(* A call begins: arguments are checked before anything is looked at *)

Arguments(tool) ==
  IF tool \in Batches
  THEN {[p |-> Refusable, q |-> Refusable, todo |-> <<x, y>>] :
          x, y \in IF tool \in Transfers
                   THEN (Paths \cup {Refusable}) \X Paths
                   ELSE Paths \cup {Refusable}}
  ELSE {[p |-> x, q |-> y, todo |-> <<>>] :
          x \in Paths \cup {Refusable}, y \in IF tool \in Pairs THEN Paths ELSE {Refusable}}

EntryIsValid(tool, x) == IF tool \in Transfers THEN x[1] # Refusable ELSE x # Refusable

Valid(tool, args) ==
  IF tool \in Batches
  THEN \A k \in DOMAIN args.todo : EntryIsValid(tool, args.todo[k])
  ELSE args.p # Refusable

\* Confirmation, the hook before edit_file, and the paths of the whole batch.
Accepted(tool, args, flag) ==
  /\ Valid(tool, args)
  /\ tool = "edit_file" => args.p \in known
  /\ tool \in {"delete_file", "remove_directory"} => flag

Begin(a) == \E tool \in Tools : \E args \in Arguments(tool), flag \in BOOLEAN :
  /\ call[a].pc = "idle" /\ calls < MaxCalls
  /\ flag => tool \in Pairs \cup {"delete_file", "remove_directory", "touch_file"}
  /\ calls' = calls + 1
  /\ LET begun == [NoCall EXCEPT !.tool = tool, !.p = args.p, !.q = args.q,
                     !.todo = args.todo, !.flag = flag, !.id = calls + 1]
     IN IF Accepted(tool, args, flag)
        THEN Go(a, [begun EXCEPT !.pc = IF tool \in Batches THEN "batch" ELSE "look"])
        ELSE Report(a, "refused", begun)
  /\ UNCHANGED <<disk, known, seen>>

-----------------------------------------------------------------------------
(* The look: what the call decides on *)

\* What a tool needs to find before it goes on, and what one call to the file
\* system then makes of the workspace: `after` is empty when that call must fail.
Becomes(p, content) == {[disk EXCEPT ![p] = content]}
Nothing == {}

read_file(c)    == [fits |-> IsFile(c.p), after |-> {disk}]
append_to_file(c) ==
  [fits |-> TRUE,
   after |-> IF disk[c.p] = Dir THEN Nothing
             ELSE Becomes(c.p, IF disk[c.p] = Absent THEN {c.id} ELSE disk[c.p] \cup {c.id})]
delete_file(c)  ==
  [fits |-> IsFile(c.p), after |-> IF IsFile(c.p) THEN Becomes(c.p, Absent) ELSE Nothing]
truncate_file(c) ==
  [fits |-> IsFile(c.p), after |-> IF IsFile(c.p) THEN Becomes(c.p, {}) ELSE Nothing]
create_directory(c) ==
  [fits |-> TRUE, after |-> IF IsFile(c.p) THEN Nothing ELSE Becomes(c.p, Dir)]
remove_directory(c) ==
  [fits |-> disk[c.p] = Dir, after |-> IF disk[c.p] = Dir THEN Becomes(c.p, Absent) ELSE Nothing]

\* Slip: an empty file is written also where one was found.
Slip_touch_file(c) == [fits |-> disk[c.p] # Absent \/ c.flag, after |-> Becomes(c.p, {})]
\* A file that the look found gets a new time, and an absent one is written empty.
touch_file(c) ==
  [fits |-> disk[c.p] # Absent \/ c.flag,
   after |-> IF c.base # Absent
             THEN IF IsFile(c.p) THEN {disk} ELSE Nothing
             ELSE IF disk[c.p] # Dir THEN Becomes(c.p, {}) ELSE Nothing]

\* rename replaces a file, and an empty directory by a directory; copy onto
\* itself leaves the file empty.
CanMove(p, q) ==
  disk[p] # Absent /\ (IF disk[p] = Dir THEN disk[q] \in {Absent, Dir} ELSE disk[q] # Dir)
CanCopy(p, q) == IsFile(p) /\ disk[q] # Dir
Moved(p, q) == IF p = q THEN disk ELSE [disk EXCEPT ![q] = disk[p], ![p] = Absent]
Copied(p, q) == [disk EXCEPT ![q] = IF p = q THEN {} ELSE disk[p]]

move_file(c) ==
  [fits |-> disk[c.p] # Absent /\ (disk[c.q] = Absent \/ c.flag),
   after |-> IF CanMove(c.p, c.q) THEN {Moved(c.p, c.q)} ELSE Nothing]
copy_file(c) ==
  [fits |-> disk[c.p] # Absent /\ (disk[c.q] = Absent \/ c.flag),
   after |-> IF CanCopy(c.p, c.q) THEN {Copied(c.p, c.q)} ELSE Nothing]

\* The tools that truncate the file and fill it a step later, and with what.
write_file(c) == [fits |-> TRUE, text |-> {c.id}]
edit_file(c)  == [fits |-> IsFile(c.p), text |-> c.base \cup {c.id}]
patch_file(c) == [fits |-> IsFile(c.p), text |-> c.base \cup {c.id}]

Tool(c) ==
  CASE c.tool = "read_file" -> read_file(c)
    [] c.tool = "append_to_file" -> append_to_file(c)
    [] c.tool = "delete_file" -> delete_file(c)
    [] c.tool = "truncate_file" -> truncate_file(c)
    [] c.tool = "create_directory" -> create_directory(c)
    [] c.tool = "remove_directory" -> remove_directory(c)
    [] c.tool = "touch_file" -> touch_file(c)
    [] c.tool = "move_file" -> move_file(c)
    [] c.tool = "copy_file" -> copy_file(c)
    [] c.tool = "write_file" -> write_file(c)
    [] c.tool = "edit_file" -> edit_file(c)
    [] c.tool = "patch_file" -> patch_file(c)

Look(a) ==
  LET c == call[a] IN
  /\ c.pc = "look"
  /\ IF Tool(c).fits THEN Go(a, [c EXCEPT !.pc = "act", !.base = disk[c.p]])
     ELSE Report(a, "error", c)
  /\ UNCHANGED <<disk, known, calls, seen>>

-----------------------------------------------------------------------------
(* The change *)

\* What a step takes from a path that held something.
Keeps(old, new) == old \in {Absent, new} \/ (old \in Texts /\ new \in Texts /\ old \subseteq new)
Lost == {p \in Paths : ~Keeps(disk[p], disk'[p])}

\* From here on the call has changed something: directories above the path, at least.
Changing(a) == [call[a] EXCEPT !.changed = TRUE, !.lost = @ \cup Lost]
Succeeds(a) == Report(a, "ok", Changing(a))
Fails(a) == Report(a, "failed", Changing(a))

\* What a call that makes, empties or fills a file may leave when it fails: all of its
\* change, or the file without the new text.
HalfDone(c) ==
  IF Tool(c).after = Nothing THEN Nothing
  ELSE CASE c.tool = "append_to_file" ->
              Tool(c).after \cup Becomes(c.p, IF disk[c.p] = Absent THEN {} ELSE disk[c.p])
         [] c.tool = "copy_file" -> Tool(c).after \cup Becomes(c.q, {})
         [] c.tool = "touch_file" -> Tool(c).after
         [] OTHER -> Nothing

\* After a successful read_file or write_file the hook knows the path.
after_execution(a, content) ==
  /\ known' = IF call[a].tool \in {"read_file", "write_file"} THEN known \cup {call[a].p} ELSE known
  /\ seen' = [seen EXCEPT ![a][call[a].p] = content]

\* What a reading tool returns is what its look found.
Read(a) ==
  /\ call[a].pc = "act" /\ call[a].tool = "read_file"
  /\ Report(a, "ok", call[a])
  /\ after_execution(a, call[a].base)
  /\ UNCHANGED <<disk, calls>>

Act(a) ==
  LET c == call[a] IN
  /\ c.pc = "act" /\ c.tool \notin Writers \cup {"read_file"}
  /\ \/ disk' \in Tool(c).after /\ Succeeds(a)
     \/ disk' \in {disk} \cup HalfDone(c) /\ Fails(a)
  /\ UNCHANGED <<known, calls, seen>>

\* LocalFsStore.write: the first half leaves the file empty.
Truncate(a) ==
  LET c == call[a] IN
  /\ c.pc = "act" /\ c.tool \in Writers
  /\ \/ /\ disk[c.p] # Dir
        /\ disk' \in Becomes(c.p, {})
        /\ Go(a, [Changing(a) EXCEPT !.pc = "fill"])
     \/ UNCHANGED disk /\ Fails(a)
  /\ UNCHANGED <<known, calls, seen>>

\* The second half fills the file, if it is still at the path, or fails and leaves it.
Fill(a) ==
  LET c == call[a] IN
  /\ c.pc = "fill"
  /\ \/ /\ IF IsFile(c.p) THEN disk' \in Becomes(c.p, Tool(c).text) ELSE UNCHANGED disk
        /\ after_execution(a, Tool(c).text)
        /\ Succeeds(a)
     \/ UNCHANGED <<disk, known, seen>> /\ Fails(a)
  /\ UNCHANGED calls

-----------------------------------------------------------------------------
(* The batches: an entry after the other, a failed one does not stop them *)

\* The workspaces that one entry may leave; the same workspace when the entry fails,
\* or one with the file emptied that it was writing.
batch_write(c, x)  == IF disk[x] = Dir THEN {} ELSE Becomes(x, {}) \cup Becomes(x, {c.id})
batch_delete(x)    == IF IsFile(x) THEN Becomes(x, Absent) ELSE {}
batch_move(x)      == IF CanMove(x[1], x[2]) THEN {Moved(x[1], x[2])} ELSE {}
batch_copy(x)      ==
  IF CanCopy(x[1], x[2]) THEN {Copied(x[1], x[2])} \cup Becomes(x[2], {}) ELSE {}

Entry(c, x) ==
  {disk} \cup CASE c.tool = "batch_write" -> batch_write(c, x)
              [] c.tool = "batch_delete" -> batch_delete(x)
              [] c.tool = "batch_move" -> batch_move(x)
              [] c.tool = "batch_copy" -> batch_copy(x)

BatchStep(a) ==
  LET c == call[a] IN
  /\ c.pc = "batch" /\ c.todo # <<>>
  /\ disk' \in Entry(c, Head(c.todo))
  /\ Go(a, [Changing(a) EXCEPT !.todo = Tail(@)])
  /\ UNCHANGED <<known, calls, seen>>

BatchEnd(a) ==
  /\ call[a].pc = "batch" /\ call[a].todo = <<>>
  /\ Report(a, "ok", call[a])
  /\ UNCHANGED <<disk, known, calls, seen>>

\* The call is cancelled: before it begins to look, or between two entries of a
\* batch_write or a batch_delete, which then reports none of them.
Cancel(a) ==
  /\ call[a].pc \in {"look", "batch"}
  /\ call[a].pc = "batch" /\ call[a].changed => call[a].tool \in {"batch_write", "batch_delete"}
  /\ Report(a, "cancelled", call[a])
  /\ UNCHANGED <<disk, known, calls, seen>>

Finish(a) ==
  /\ call[a].pc = "done"
  /\ Go(a, NoCall)
  /\ UNCHANGED <<disk, known, calls, seen>>

Next == \E a \in Actors :
  Begin(a) \/ Look(a) \/ Read(a) \/ Act(a) \/ Truncate(a) \/ Fill(a)
  \/ BatchStep(a) \/ BatchEnd(a) \/ Cancel(a) \/ Finish(a)

Spec == Init /\ [][Next]_vars

-----------------------------------------------------------------------------
(* Properties *)

TypeOK ==
  /\ disk \in [Paths -> {Absent, Dir} \cup Texts]
  /\ known \subseteq Paths
  /\ calls \in 0..MaxCalls

\* A call that was refused, or whose look did not find what it needs, has changed
\* nothing: a batch is checked as a whole before its first entry is written
\* (batch_write.rs:145).
RefusedChangesNothing == \A a \in Actors :
  call[a].report \in {"refused", "error"} => ~call[a].changed

\* A call that failed in its change has taken nothing from any path but the one file
\* that it writes: what it was to move, remove, append to or make is as it was.
Written(c) ==
  CASE c.tool \in Writers \cup {"touch_file"} -> {c.p}
    [] c.tool = "copy_file" -> {c.q}
    [] OTHER -> {}
FailuresLoseLittle == \A a \in Actors :
  call[a].report = "failed" => call[a].lost \subseteq Written(call[a])

\* Tools that keep what a file holds do so, when no other call runs: what an edit
\* or a patch has read is still there when it is written back.
KeepersKeep == \A a \in Actors :
  LET c == call[a] IN
  /\ c.pc = "done" /\ c.report = "ok" /\ c.tool \in Keepers
  /\ c.base \in Texts
  => IsFile(c.p) /\ c.base \subseteq disk[c.p]

\* move_file and copy_file replace nothing unless told to, when no other call runs.
ReplaceStep == \A a \in Actors :
  LET c == call[a] IN
  c.tool \in Pairs /\ ~c.flag /\ disk' # disk => disk[c.q] = Absent

\* "you must call read_file on this path first. This ensures you have the current
\* file contents before making changes" (read_before_edit.rs:134): who edits a
\* file has last seen what it holds.
Replaces == [][ReplaceStep]_vars
EditKnowsContents == \A a \in Actors :
  call[a].tool = "edit_file" /\ call[a].pc = "act" => seen[a][call[a].p] = call[a].base
=============================================================================
