---------------------------- MODULE FileToolsProofs ----------------------------
(***************************************************************************)
(* Proofs about FileTools for every number of executors, paths and calls:  *)
(* what is refused has changed nothing, also while other calls change the  *)
(* same files; and one executor keeps the contents that it promises to     *)
(* keep.                                                                   *)
(***************************************************************************)
EXTENDS FileTools, SequenceTheorems, TLAPS

\* The tools that the executor registers; any of them may be called.
KnownTools ==
  Writers \cup Pairs \cup Batches
    \cup {"read_file", "append_to_file", "delete_file", "truncate_file", "create_directory",
          "remove_directory", "touch_file"}
ToolsAreKnown == Tools \subseteq KnownTools /\ MaxCalls \in Nat

Contents == {Absent, Dir} \cup Texts
Places == Paths \cup {Refusable}
Call == [pc : {"idle", "look", "act", "fill", "batch", "done"}, tool : KnownTools \cup {"none"},
         p : Places, q : Places, flag : BOOLEAN, todo : Seq(Places \cup (Places \X Paths)),
         base : Contents, id : 0 .. MaxCalls, changed : BOOLEAN,
         lost : SUBSET Paths, report : {"none", "ok", "refused", "error", "failed", "cancelled"}]

\* What the entries of a batch are that was accepted.
EntriesOf(tool) == IF tool \in Transfers THEN Paths \X Paths ELSE Paths

\* What a call knows of itself at each step.
CallOK(c) ==
  /\ c.pc \in {"look", "act", "fill"} => c.tool \in KnownTools \ Batches /\ c.p \in Paths
  /\ c.pc \in {"look", "act"} /\ c.tool \in Pairs => c.q \in Paths
  /\ c.pc \in {"look", "act", "fill", "batch"} => c.id \in 1 .. MaxCalls
  /\ c.pc \in {"look", "act"} => ~c.changed /\ c.lost = {}
  /\ c.pc = "fill" => c.lost \subseteq {c.p}
  /\ c.pc \in {"act", "fill"} /\ c.tool \in {"edit_file", "patch_file"} => c.base \in Texts
  /\ c.pc = "fill" => c.tool \in Writers
  /\ c.pc = "batch" => c.tool \in Batches /\ c.todo \in Seq(EntriesOf(c.tool))
  /\ c.pc # "done" => c.report = "none"
  /\ c.report \in {"refused", "error"} => ~c.changed
  /\ c.report = "failed" => c.lost \subseteq Written(c)

ToolInv ==
  /\ disk \in [Paths -> Contents]
  /\ known \subseteq Paths
  /\ calls \in 0 .. MaxCalls
  /\ call \in [Actors -> Call]
  /\ \A a \in Actors : CallOK(call[a])

-----------------------------------------------------------------------------
(* What a path may hold *)

\* No text is taken for a missing path or for a directory.
LEMMA HoldsApart ==
  ASSUME ToolsAreKnown
  PROVE  /\ Absent \notin Texts /\ Dir \notin Texts /\ Absent # Dir
         /\ {} \in Texts
         /\ \A id \in 1 .. MaxCalls : {id} \in Texts
         /\ \A old \in Texts : \A id \in 1 .. MaxCalls : old \cup {id} \in Texts
<1>1. MaxCalls \in Nat
  BY DEF ToolsAreKnown
<1>2. 0 \notin 1 .. MaxCalls /\ MaxCalls + 1 \notin 1 .. MaxCalls /\ 0 # MaxCalls + 1
  BY <1>1
<1>3. Absent \notin Texts /\ Dir \notin Texts /\ Absent # Dir
  BY <1>2, Zenon DEF Absent, Dir, Texts
<1> QED  BY <1>3 DEF Texts

\* A file of the workspace holds a text.
LEMMA FilesHoldTexts ==
  ASSUME disk \in [Paths -> Contents], NEW p \in Paths, IsFile(p)
  PROVE  disk[p] \in Texts
BY DEF Contents, IsFile

\* The workspace with one path changed to something that a path may hold.
LEMMA BecomesFits ==
  ASSUME disk \in [Paths -> Contents], NEW p \in Paths, NEW content \in Contents
  PROVE  \A d \in Becomes(p, content) : d \in [Paths -> Contents] /\ d[p] = content
BY DEF Becomes

\* A move and a copy leave on each path what was on one, or nothing.
LEMMA TransfersFit ==
  ASSUME ToolsAreKnown, disk \in [Paths -> Contents], NEW p \in Paths, NEW q \in Paths
  PROVE  Moved(p, q) \in [Paths -> Contents] /\ Copied(p, q) \in [Paths -> Contents]
<1>1. Absent \in Contents /\ {} \in Contents
  BY HoldsApart DEF Contents
<1> QED  BY <1>1 DEF Moved, Copied

\* What one call to the file system makes of the workspace is a workspace.
LEMMA AfterFits ==
  ASSUME ToolsAreKnown, disk \in [Paths -> Contents], NEW c \in Call, CallOK(c),
         c.pc = "act", c.tool \notin Writers \cup {"read_file"}
  PROVE  \A d \in Tool(c).after : d \in [Paths -> Contents]
<1>1. c.p \in Paths /\ c.id \in 1 .. MaxCalls /\ c.tool \in KnownTools \ Batches
  BY DEF CallOK
<1>2. Absent \in Contents /\ Dir \in Contents /\ {} \in Contents /\ {c.id} \in Contents
  BY <1>1, HoldsApart DEF Contents
<1>3. CASE c.tool = "append_to_file"
  <2>1. Tool(c) = append_to_file(c)
    BY <1>3 DEF Tool
  <2>2. CASE disk[c.p] \notin {Absent, Dir}
    <3>1. disk[c.p] \cup {c.id} \in Contents
      BY <1>1, <2>2, HoldsApart DEF Contents
    <3>2. append_to_file(c).after = Becomes(c.p, disk[c.p] \cup {c.id})
      BY <2>2 DEF append_to_file
    <3> QED  BY <1>1, <2>1, <3>1, <3>2, BecomesFits
  <2>3. CASE disk[c.p] \in {Absent, Dir}
    <3>1. append_to_file(c).after \in {Nothing, Becomes(c.p, {c.id})}
      BY <2>3 DEF append_to_file
    <3> QED  BY <1>1, <1>2, <2>1, <3>1, BecomesFits DEF Nothing
  <2> QED  BY <2>2, <2>3
<1>4. CASE c.tool \in {"delete_file", "truncate_file", "create_directory", "remove_directory"}
  <2>1. Tool(c).after \in {Nothing, Becomes(c.p, Absent), Becomes(c.p, {}), Becomes(c.p, Dir)}
    BY <1>4 DEF Tool, delete_file, truncate_file, create_directory, remove_directory
  <2> QED  BY <1>1, <1>2, <2>1, BecomesFits DEF Nothing
<1>5. CASE c.tool = "touch_file"
  <2>1. Tool(c).after \in {Nothing, {disk}, Becomes(c.p, {})}
    BY <1>5 DEF Tool, touch_file
  <2> QED  BY <1>1, <1>2, <2>1, BecomesFits DEF Nothing
<1>6. CASE c.tool \in Pairs
  <2>1. c.q \in Paths
    BY <1>6 DEF CallOK
  <2>2. Tool(c).after \in {Nothing, {Moved(c.p, c.q)}, {Copied(c.p, c.q)}}
    BY <1>6 DEF Tool, Pairs, move_file, copy_file
  <2> QED  BY <1>1, <2>1, <2>2, TransfersFit DEF Nothing
<1> QED  BY <1>1, <1>3, <1>4, <1>5, <1>6 DEF KnownTools

\* What a path keeps when another one is changed, and when nothing is.
LEMMA OthersKept ==
  ASSUME disk \in [Paths -> Contents], NEW p \in Paths, NEW content,
         disk' \in Becomes(p, content) \/ disk' = disk
  PROVE  Lost \subseteq {p} /\ (disk' = disk => Lost = {})
BY DEF Becomes, Lost, Keeps

\* A call that fails leaves a workspace, and has taken nothing from any other path than
\* the one it writes.
LEMMA HalfFits ==
  ASSUME ToolsAreKnown, disk \in [Paths -> Contents], NEW c \in Call, CallOK(c),
         c.pc = "act", c.tool \notin Writers \cup {"read_file"},
         disk' \in {disk} \cup HalfDone(c)
  PROVE  disk' \in [Paths -> Contents] /\ Lost \subseteq Written(c)
<1>1. c.p \in Paths /\ c.id \in 1 .. MaxCalls
  BY DEF CallOK
<1>2. {} \in Texts /\ Absent \in Contents /\ {} \in Contents
  BY HoldsApart DEF Contents
<1>3. CASE disk' = disk
  <2>1. Lost = {}
    BY <1>1, <1>3, OthersKept
  <2> QED  BY <1>3, <2>1
<1>4. CASE c.tool = "append_to_file" /\ disk' # disk
  <2> DEFINE old == IF disk[c.p] = Absent THEN {} ELSE disk[c.p]
  <2>1. Tool(c) = append_to_file(c)
    BY <1>4 DEF Tool
  <2>2. disk[c.p] # Dir /\ disk' \in Becomes(c.p, old) \cup Becomes(c.p, old \cup {c.id})
    <3>1. Tool(c).after # Nothing
      <4>1. Tool(c).after = Nothing => HalfDone(c) = Nothing
        BY DEF HalfDone
      <4> QED  BY <1>4, <4>1 DEF Nothing
    <3>2. disk[c.p] # Dir
      BY <2>1, <3>1 DEF append_to_file
    <3>3. append_to_file(c).after = Becomes(c.p, old \cup {c.id})
      BY <3>2 DEF append_to_file
    <3>4. HalfDone(c) = append_to_file(c).after \cup Becomes(c.p, old)
      BY <1>4, <2>1, <3>1 DEF HalfDone
    <3> QED  BY <1>4, <3>2, <3>3, <3>4
  <2>3. old \in Texts
    BY <1>1, <1>2, <2>2 DEF Contents
  <2>4. old \cup {c.id} \in Texts
    BY <1>1, <2>3, HoldsApart
  <2>5. PICK new \in {old, old \cup {c.id}} : disk' \in Becomes(c.p, new)
    BY <2>2
  <2>6. disk' \in [Paths -> Contents] /\ disk'[c.p] = new /\ Lost \subseteq {c.p}
    <3>1. new \in Contents
      BY <2>3, <2>4, <2>5 DEF Contents
    <3>2. Lost \subseteq {c.p}
      BY <1>1, <2>5, OthersKept
    <3> QED  BY <1>1, <2>5, <3>1, <3>2, BecomesFits
  <2>7. Keeps(disk[c.p], disk'[c.p])
    BY <1>1, <2>2, <2>3, <2>4, <2>5, <2>6 DEF Keeps
  <2>8. Lost = {}
    BY <2>6, <2>7 DEF Lost
  <2> QED  BY <2>6, <2>8
<1>5. CASE c.tool = "copy_file" /\ disk' # disk
  <2>1. c.q \in Paths /\ Tool(c) = copy_file(c)
    BY <1>5 DEF CallOK, Tool, Pairs
  <2>2. disk' \in {Copied(c.p, c.q)} \cup Becomes(c.q, {})
    <3>1. copy_file(c).after \subseteq {Copied(c.p, c.q)}
      BY DEF copy_file, Nothing
    <3> QED  BY <1>5, <2>1, <3>1 DEF HalfDone, Nothing
  <2>3. PICK content \in Contents : disk' \in Becomes(c.q, content)
    <3>1. Copied(c.p, c.q) \in Becomes(c.q, IF c.p = c.q THEN {} ELSE disk[c.p])
      BY DEF Copied, Becomes
    <3>2. disk[c.p] \in Contents
      BY <1>1
    <3> QED  BY <1>2, <2>2, <3>1, <3>2
  <2>4. disk' \in [Paths -> Contents] /\ Lost \subseteq {c.q}
    BY <2>1, <2>3, BecomesFits, OthersKept
  <2> QED  BY <1>5, <2>4 DEF Written, Writers
<1>6. CASE c.tool = "touch_file" /\ disk' # disk
  <2>1. Tool(c).after \in {Nothing, {disk}, Becomes(c.p, {})}
    BY <1>6 DEF Tool, touch_file
  <2>2. disk' \in Becomes(c.p, {})
    BY <1>6, <2>1 DEF HalfDone, Nothing
  <2>3. disk' \in [Paths -> Contents] /\ Lost \subseteq {c.p}
    BY <1>1, <1>2, <2>2, BecomesFits, OthersKept
  <2> QED  BY <1>6, <2>3 DEF Written
<1>7. disk' # disk => c.tool \in {"append_to_file", "copy_file", "touch_file"}
  BY DEF HalfDone, Nothing
<1> QED  BY <1>3, <1>4, <1>5, <1>6, <1>7

\* So is what one entry of a batch makes of it.
LEMMA EntryFits ==
  ASSUME ToolsAreKnown, disk \in [Paths -> Contents], NEW c \in Call, c.tool \in Batches,
         c.id \in 1 .. MaxCalls, NEW x \in EntriesOf(c.tool)
  PROVE  \A d \in Entry(c, x) : d \in [Paths -> Contents]
<1>1. Absent \in Contents /\ {c.id} \in Contents /\ {} \in Contents
  BY HoldsApart DEF Contents
<1>2. CASE c.tool = "batch_write"
  <2>1. x \in Paths
    BY <1>2 DEF EntriesOf, Transfers
  <2>2. Entry(c, x) \subseteq {disk} \cup Becomes(x, {}) \cup Becomes(x, {c.id})
    BY <1>2 DEF Entry, batch_write
  <2> QED  BY <1>1, <2>1, <2>2, BecomesFits
<1>3. CASE c.tool = "batch_delete"
  <2>1. x \in Paths
    BY <1>3 DEF EntriesOf, Transfers
  <2>2. Entry(c, x) \subseteq {disk} \cup Becomes(x, Absent)
    BY <1>3 DEF Entry, batch_delete
  <2> QED  BY <1>1, <2>1, <2>2, BecomesFits
<1>4. CASE c.tool \in Transfers
  <2>1. x[1] \in Paths /\ x[2] \in Paths
    BY <1>4 DEF EntriesOf
  <2>2. Entry(c, x) \subseteq {disk, Moved(x[1], x[2]), Copied(x[1], x[2])} \cup Becomes(x[2], {})
    BY <1>4 DEF Entry, batch_move, batch_copy, Transfers
  <2>3. /\ Moved(x[1], x[2]) \in [Paths -> Contents]
        /\ Copied(x[1], x[2]) \in [Paths -> Contents]
    BY <2>1, TransfersFit
  <2>4. \A d \in Becomes(x[2], {}) : d \in [Paths -> Contents]
    BY <1>1, <2>1, BecomesFits
  <2> QED  BY <2>2, <2>3, <2>4
<1> QED  BY <1>2, <1>3, <1>4 DEF Batches, Transfers

-----------------------------------------------------------------------------
(* The steps of a call, whatever other executors do in between *)

\* A step of a that leaves its call as d, and the others' as they are.
LEMMA CallMoves ==
  ASSUME ToolInv, NEW a \in Actors, NEW d \in Call, CallOK(d), call' = [call EXCEPT ![a] = d],
         disk' \in [Paths -> Contents], known' \subseteq Paths, calls' \in 0 .. MaxCalls
  PROVE  ToolInv'
<1>1. call' \in [Actors -> Call] /\ \A b \in Actors : call'[b] = d \/ call'[b] = call[b]
  BY DEF ToolInv
<1>2. \A b \in Actors : CallOK(call'[b])
  BY <1>1 DEF ToolInv
<1> QED  BY <1>1, <1>2 DEF ToolInv

\* The call of an actor, and what it knows.
LEMMA CallOf ==
  ASSUME ToolInv, NEW a \in Actors
  PROVE  call[a] \in Call /\ CallOK(call[a])
BY DEF ToolInv

\* A call that ends with a report that its changes allow.
LEMMA ReportMoves ==
  ASSUME ToolInv, NEW a \in Actors, NEW d \in Call,
         NEW report \in {"ok", "refused", "error", "failed", "cancelled"},
         report \in {"refused", "error"} => ~d.changed,
         report = "failed" => d.lost \subseteq Written(d), Report(a, report, d),
         disk' \in [Paths -> Contents], known' \subseteq Paths, calls' \in 0 .. MaxCalls
  PROVE  ToolInv'
<1> DEFINE e == [d EXCEPT !.pc = "done", !.report = report]
<1>1. /\ e \in Call /\ e.pc = "done" /\ e.report = report /\ e.changed = d.changed
      /\ e.lost = d.lost /\ e.tool = d.tool /\ e.p = d.p /\ e.q = d.q
  BY DEF Call
<1>2. call' = [call EXCEPT ![a] = e]
  BY DEF Report
<1> HIDE DEF e
<1>3. CallOK(e)
  BY <1>1 DEF CallOK, Written
<1> QED  BY <1>1, <1>2, <1>3, CallMoves

\* The new call of a, before it is known whether it is accepted.
Begun(tool, args, flag) ==
  [NoCall EXCEPT !.tool = tool, !.p = args.p, !.q = args.q, !.todo = args.todo,
                 !.flag = flag, !.id = calls + 1]
Begins(a, tool, args, flag) ==
  /\ calls < MaxCalls /\ calls' = calls + 1
  /\ IF Accepted(tool, args, flag)
     THEN Go(a, [Begun(tool, args, flag) EXCEPT
                   !.pc = IF tool \in Batches THEN "batch" ELSE "look"])
     ELSE Report(a, "refused", Begun(tool, args, flag))
  /\ UNCHANGED <<disk, known, seen>>

\* A call begins with arguments that fit its tool, or is refused.
LEMMA BeginFits ==
  ASSUME ToolsAreKnown, ToolInv, NEW a \in Actors, Begin(a)
  PROVE  ToolInv'
<1>0. PICK tool \in Tools : \E args \in Arguments(tool), flag \in BOOLEAN :
        Begins(a, tool, args, flag)
  BY DEF Begin, Begins, Begun
<1>1. PICK args \in Arguments(tool), flag \in BOOLEAN : Begins(a, tool, args, flag)
  BY <1>0
<1> DEFINE begun == Begun(tool, args, flag)
           at == IF tool \in Batches THEN "batch" ELSE "look"
           next == [begun EXCEPT !.pc = at]
<1>2. calls' \in 1 .. MaxCalls /\ calls' \in 0 .. MaxCalls /\ calls' = calls + 1
  BY <1>1 DEF Begins, ToolInv, ToolsAreKnown
<1>3. disk' \in [Paths -> Contents] /\ known' \subseteq Paths
  BY <1>1 DEF Begins, ToolInv
<1>4. tool \in KnownTools
  BY DEF ToolsAreKnown
<1>5. /\ args.p \in Places /\ args.q \in Places
      /\ args.todo \in Seq(Places \cup (Places \X Paths))
  <2>1. CASE tool \in Batches
    <3>1. PICK x, y \in Places \cup (Places \X Paths) :
            args = [p |-> Refusable, q |-> Refusable, todo |-> <<x, y>>]
      BY <2>1 DEF Arguments, Places
    <3>2. <<x, y>> \in Seq(Places \cup (Places \X Paths))
      OBVIOUS
    <3> QED  BY <3>1, <3>2 DEF Places
  <2>2. CASE tool \notin Batches
    <3>1. <<>> \in Seq(Places \cup (Places \X Paths))
      BY EmptySeq
    <3>2. PICK x \in Places, y \in Places : args = [p |-> x, q |-> y, todo |-> <<>>]
      BY <2>2 DEF Arguments, Places
    <3> QED  BY <3>1, <3>2
  <2> QED  BY <2>1, <2>2
<1>6. /\ begun \in Call /\ begun.tool = tool /\ begun.p = args.p /\ begun.q = args.q
      /\ begun.todo = args.todo /\ begun.id = calls' /\ begun.changed = FALSE
      /\ begun.lost = {} /\ begun.report = "none"
  BY <1>2, <1>4, <1>5 DEF Begun, NoCall, Call, Places, Contents
<1>7. CASE ~Accepted(tool, args, flag)
  <2>1. Report(a, "refused", begun)
    BY <1>1, <1>7 DEF Begins
  <2> HIDE DEF begun
  <2> QED  BY <1>2, <1>3, <1>6, <2>1, ReportMoves
<1>8. CASE Accepted(tool, args, flag)
  <2>1. call' = [call EXCEPT ![a] = next]
    BY <1>1, <1>8 DEF Begins, Go
  <2>2. at \in {"batch", "look"} /\ (at = "batch" <=> tool \in Batches)
    OBVIOUS
  <2> HIDE DEF begun, at
  <2>3. /\ next \in Call /\ next.pc = at /\ next.tool = tool /\ next.p = args.p
        /\ next.q = args.q /\ next.todo = args.todo /\ next.id = calls'
        /\ next.changed = FALSE /\ next.lost = {} /\ next.report = "none"
    BY <1>6, <2>2 DEF Call
  <2> HIDE DEF next
  <2>4. tool \in Batches => args.todo \in Seq(EntriesOf(tool))
    <3> SUFFICES ASSUME tool \in Batches PROVE args.todo \in Seq(EntriesOf(tool))
      OBVIOUS
    <3>1. PICK x, y \in IF tool \in Transfers THEN Places \X Paths ELSE Places :
            args = [p |-> Refusable, q |-> Refusable, todo |-> <<x, y>>]
      BY DEF Arguments, Places
    <3>2. args.todo = <<x, y>> /\ EntryIsValid(tool, x) /\ EntryIsValid(tool, y)
      <4>1. args.todo = <<x, y>>
        BY <3>1
      <4>2. \A k \in DOMAIN args.todo : EntryIsValid(tool, args.todo[k])
        BY <1>8 DEF Accepted, Valid
      <4> QED  BY <4>1, <4>2
    <3>3. x \in EntriesOf(tool) /\ y \in EntriesOf(tool)
      BY <3>2 DEF EntryIsValid, EntriesOf, Places
    <3> QED  BY <3>2, <3>3
  <2>5. tool \notin Batches => args.p \in Paths
    BY <1>5, <1>8 DEF Accepted, Valid, Places
  <2>6. tool \in Pairs => args.q \in Paths
    <3>1. tool \in Pairs => tool \notin Batches
      BY DEF Pairs, Batches
    <3> QED  BY <3>1 DEF Arguments
  <2>7. CallOK(next)
    BY <1>2, <1>4, <2>2, <2>3, <2>4, <2>5, <2>6 DEF CallOK
  <2> QED  BY <1>2, <1>3, <2>1, <2>3, <2>7, CallMoves
<1> QED  BY <1>7, <1>8

\* Every step of a call keeps the workspace and what the calls know.
LEMMA NextToolInv ==
  ASSUME ToolsAreKnown, ToolInv, [Next]_vars
  PROVE  ToolInv'
<1>1. /\ disk \in [Paths -> Contents] /\ known \subseteq Paths /\ calls \in 0 .. MaxCalls
  BY DEF ToolInv
<1>2. ASSUME NEW a \in Actors, Look(a) PROVE ToolInv'
  <2> DEFINE c == call[a]
             next == [c EXCEPT !.pc = "act", !.base = disk[c.p]]
  <2>1. /\ c.pc = "look" /\ UNCHANGED <<disk, known, calls, seen>>
        /\ IF Tool(c).fits THEN Go(a, next) ELSE Report(a, "error", c)
    BY <1>2 DEF Look
  <2>2. c \in Call /\ CallOK(c)
    BY CallOf
  <2> HIDE DEF c
  <2>3. CASE Tool(c).fits
    <3>1. c.tool \in KnownTools \ Batches /\ c.p \in Paths /\ disk[c.p] \in Contents
      BY <1>1, <2>1, <2>2 DEF CallOK
    <3>2. /\ next \in Call /\ next.pc = "act" /\ next.base = disk[c.p] /\ next.tool = c.tool
          /\ next.p = c.p /\ next.q = c.q /\ next.id = c.id /\ next.changed = c.changed
          /\ next.lost = c.lost /\ next.report = c.report
      BY <2>2, <3>1 DEF Call
    <3>3. call' = [call EXCEPT ![a] = next]
      BY <2>1, <2>3 DEF Go
    <3> HIDE DEF next
    <3>4. c.tool \in {"edit_file", "patch_file"} => disk[c.p] \in Texts
      <4> SUFFICES ASSUME c.tool \in {"edit_file", "patch_file"} PROVE IsFile(c.p)
        BY <1>1, <3>1, FilesHoldTexts
      <4>1. CASE c.tool = "edit_file"
        BY <2>3, <4>1 DEF Tool, edit_file
      <4>2. CASE c.tool = "patch_file"
        BY <2>3, <4>2 DEF Tool, patch_file
      <4> QED  BY <4>1, <4>2
    <3>5. CallOK(next)
      BY <2>1, <2>2, <3>1, <3>2, <3>4 DEF CallOK
    <3> QED  BY <1>1, <2>1, <3>2, <3>3, <3>5, CallMoves
  <2>4. CASE ~Tool(c).fits
    <3>1. Report(a, "error", c) /\ ~c.changed
      BY <2>1, <2>2, <2>4 DEF CallOK
    <3> QED  BY <1>1, <2>1, <2>2, <3>1, ReportMoves
  <2> QED  BY <2>3, <2>4
<1>3. ASSUME NEW a \in Actors, known' \subseteq Paths, calls' = calls,
             disk' \in [Paths -> Contents],
             \/ Succeeds(a)
             \/ /\ Fails(a)
                /\ call[a].lost \subseteq Written(call[a]) /\ Lost \subseteq Written(call[a])
      PROVE ToolInv'
  <2>1. /\ Changing(a) \in Call /\ Changing(a).lost = call[a].lost \cup Lost
        /\ Written(Changing(a)) = Written(call[a])
    BY CallOf DEF Changing, Call, Lost, Written
  <2> QED  BY <1>1, <1>3, <2>1, ReportMoves DEF Succeeds, Fails
<1>5. ASSUME NEW a \in Actors, call[a].pc \in {"act", "fill"}, NEW content,
             after_execution(a, content)
      PROVE  known' \subseteq Paths
  BY <1>1, <1>5, CallOf DEF after_execution, CallOK
<1>6. ASSUME NEW a \in Actors, Read(a) PROVE ToolInv'
  <2>1. known' \subseteq Paths /\ UNCHANGED <<disk, calls>> /\ Report(a, "ok", call[a])
    BY <1>5, <1>6 DEF Read
  <2> QED  BY <1>1, <2>1, CallOf, ReportMoves
<1>7. ASSUME NEW a \in Actors, Act(a) PROVE ToolInv'
  <2> DEFINE c == call[a]
  <2>1. /\ c.pc = "act" /\ c.tool \notin Writers \cup {"read_file"}
        /\ \/ disk' \in Tool(c).after /\ Succeeds(a)
           \/ disk' \in {disk} \cup HalfDone(c) /\ Fails(a)
        /\ UNCHANGED <<known, calls, seen>>
    BY <1>7 DEF Act
  <2>2. c \in Call /\ CallOK(c) /\ c.lost = {}
    BY <2>1, CallOf DEF CallOK
  <2>3. CASE disk' \in Tool(c).after /\ Succeeds(a)
    <3>1. disk' \in [Paths -> Contents]
      BY <1>1, <2>1, <2>2, <2>3, AfterFits
    <3> QED  BY <1>1, <1>3, <2>1, <2>3, <3>1
  <2>4. CASE disk' \in {disk} \cup HalfDone(c) /\ Fails(a)
    <3>1. disk' \in [Paths -> Contents] /\ Lost \subseteq Written(c)
      BY <1>1, <2>1, <2>2, <2>4, HalfFits
    <3> QED  BY <1>1, <1>3, <2>1, <2>2, <2>4, <3>1
  <2> QED  BY <2>1, <2>3, <2>4
<1>8. ASSUME NEW a \in Actors, Truncate(a) PROVE ToolInv'
  <2> DEFINE c == call[a]
             next == [Changing(a) EXCEPT !.pc = "fill"]
  <2>1. /\ c.pc = "act" /\ c.tool \in Writers /\ UNCHANGED <<known, calls, seen>>
        /\ \/ disk' \in Becomes(c.p, {}) /\ Go(a, next)
           \/ Fails(a) /\ UNCHANGED disk
    BY <1>8 DEF Truncate
  <2>2. c \in Call /\ CallOK(c) /\ c.lost = {}
    BY <2>1, CallOf DEF CallOK
  <2>3. c.p \in Paths /\ {} \in Contents
    BY <2>1, <2>2, HoldsApart DEF CallOK, Contents
  <2>4. CASE disk' \in Becomes(c.p, {}) /\ Go(a, next)
    <3>1. disk' \in [Paths -> Contents] /\ Lost \subseteq {c.p}
      BY <1>1, <2>3, <2>4, BecomesFits, OthersKept
    <3>2. /\ next \in Call /\ next.pc = "fill" /\ next.tool = c.tool /\ next.p = c.p
          /\ next.id = c.id /\ next.base = c.base /\ next.report = c.report
          /\ next.lost = c.lost \cup Lost
      BY <2>2, <3>1 DEF Changing, Call, Lost
    <3>3. call' = [call EXCEPT ![a] = next]
      BY <2>4 DEF Go
    <3> HIDE DEF c, next
    <3>4. CallOK(next)
      BY <2>1, <2>2, <3>1, <3>2 DEF CallOK
    <3> QED  BY <1>1, <2>1, <3>1, <3>2, <3>3, <3>4, CallMoves
  <2>5. CASE Fails(a) /\ UNCHANGED disk
    <3>1. Lost = {}
      BY <1>1, <2>3, <2>5, OthersKept
    <3> QED  BY <1>1, <1>3, <2>1, <2>2, <2>5, <3>1
  <2> QED  BY <2>1, <2>4, <2>5
<1>9. ASSUME NEW a \in Actors, Fill(a) PROVE ToolInv'
  <2> DEFINE c == call[a]
  <2>1. /\ c.pc = "fill" /\ calls' = calls
        /\ \/ /\ after_execution(a, Tool(c).text) /\ Succeeds(a)
              /\ disk' \in Becomes(c.p, Tool(c).text) \/ disk' = disk
           \/ UNCHANGED <<disk, known, seen>> /\ Fails(a)
    BY <1>9 DEF Fill
  <2>2. Tool(c).text \in Contents /\ c.p \in Paths
    <3>1. c \in Call /\ CallOK(c)
      BY CallOf
    <3>2. c.tool \in Writers /\ c.id \in 1 .. MaxCalls /\ c.p \in Paths
      BY <2>1, <3>1 DEF CallOK
    <3>3. CASE c.tool = "write_file"
      BY <3>2, <3>3, HoldsApart DEF Tool, write_file, Contents
    <3>4. CASE c.tool \in {"edit_file", "patch_file"}
      <4>1. c.base \cup {c.id} \in Texts
        BY <2>1, <3>1, <3>2, <3>4, HoldsApart DEF CallOK
      <4>2. Tool(c).text = c.base \cup {c.id}
        BY <3>4 DEF Tool, edit_file, patch_file
      <4> QED  BY <3>2, <4>1, <4>2 DEF Contents
    <3> QED  BY <3>2, <3>3, <3>4 DEF Writers
  <2>3. CASE /\ after_execution(a, Tool(c).text) /\ Succeeds(a)
             /\ disk' \in Becomes(c.p, Tool(c).text) \/ disk' = disk
    <3>1. disk' \in [Paths -> Contents]
      BY <1>1, <2>2, <2>3, BecomesFits
    <3>2. known' \subseteq Paths
      BY <1>5, <2>1, <2>3
    <3> QED  BY <1>3, <2>1, <2>3, <3>1, <3>2
  <2>4. CASE UNCHANGED <<disk, known, seen>> /\ Fails(a)
    <3>1. Lost = {}
      BY <1>1, <2>2, <2>4, OthersKept
    <3>2. c.lost \subseteq Written(c)
      <4>1. CallOK(c)
        BY CallOf
      <4>2. c.tool \in Writers /\ c.lost \subseteq {c.p}
        BY <2>1, <4>1 DEF CallOK
      <4> QED  BY <4>2 DEF Written, Writers
    <3> QED  BY <1>1, <1>3, <2>1, <2>4, <3>1, <3>2
  <2> QED  BY <2>1, <2>3, <2>4
<1>10. ASSUME NEW a \in Actors, BatchStep(a) PROVE ToolInv'
  <2> DEFINE c == call[a]
             next == [Changing(a) EXCEPT !.todo = Tail(@)]
  <2>1. /\ c.pc = "batch" /\ c.todo # <<>> /\ disk' \in Entry(c, Head(c.todo))
        /\ Go(a, next) /\ UNCHANGED <<known, calls, seen>>
    BY <1>10 DEF BatchStep
  <2>2. c \in Call /\ CallOK(c)
    BY CallOf
  <2>3. c.tool \in Batches /\ c.todo \in Seq(EntriesOf(c.tool)) /\ c.id \in 1 .. MaxCalls
    BY <2>1, <2>2 DEF CallOK
  <2>4. Head(c.todo) \in EntriesOf(c.tool) /\ Tail(c.todo) \in Seq(EntriesOf(c.tool))
    BY <2>1, <2>3, HeadTailProperties
  <2>5. disk' \in [Paths -> Contents]
    BY <1>1, <2>1, <2>2, <2>3, <2>4, EntryFits
  <2>6. Tail(c.todo) \in Seq(Places \cup (Places \X Paths))
    <3>1. c.todo \in Seq(Places \cup (Places \X Paths))
      BY <2>2 DEF Call
    <3> QED  BY <2>1, <3>1, HeadTailProperties
  <2>8. /\ next \in Call /\ next.pc = "batch" /\ next.tool = c.tool
        /\ next.todo = Tail(c.todo) /\ next.id = c.id /\ next.report = c.report
    BY <2>1, <2>2, <2>6 DEF Changing, Call, Lost
  <2>9. call' = [call EXCEPT ![a] = next]
    BY <2>1 DEF Go
  <2> HIDE DEF c, next
  <2>10. CallOK(next)
    BY <2>1, <2>2, <2>3, <2>4, <2>8 DEF CallOK
  <2> QED  BY <1>1, <2>1, <2>5, <2>8, <2>9, <2>10, CallMoves
<1>11. ASSUME NEW a \in Actors, BatchEnd(a) \/ Cancel(a) PROVE ToolInv'
  <2>1. /\ UNCHANGED <<disk, known, calls, seen>>
        /\ Report(a, "ok", call[a]) \/ Report(a, "cancelled", call[a])
    BY <1>11 DEF BatchEnd, Cancel
  <2> QED  BY <1>1, <2>1, CallOf, ReportMoves
<1>12. ASSUME NEW a \in Actors, Finish(a) PROVE ToolInv'
  <2>1. call' = [call EXCEPT ![a] = NoCall] /\ UNCHANGED <<disk, known, calls, seen>>
    BY <1>12 DEF Finish, Go
  <2>2. NoCall \in Call /\ CallOK(NoCall)
    <3>1. <<>> \in Seq(Places \cup (Places \X Paths)) /\ 0 \in 0 .. MaxCalls
      BY EmptySeq DEF ToolsAreKnown
    <3> QED  BY <3>1 DEF NoCall, Call, CallOK, Places, Contents
  <2> QED  BY <1>1, <2>1, <2>2, CallMoves
<1>13. CASE UNCHANGED vars
  BY <1>13 DEF vars, ToolInv
<1> QED
  BY <1>2, <1>6, <1>7, <1>8, <1>9, <1>10, <1>11, <1>12, <1>13, BeginFits DEF Next

\* The invariant holds when no call was made.
LEMMA SpecToolInv == ASSUME ToolsAreKnown PROVE Spec => []ToolInv
<1>1. Init => ToolInv
  <2> SUFFICES ASSUME Init PROVE ToolInv
    OBVIOUS
  <2>1. disk \in [Paths -> Contents]
    BY HoldsApart DEF Init, Contents
  <2>2. NoCall \in Call /\ CallOK(NoCall)
    <3>1. <<>> \in Seq(Places \cup (Places \X Paths)) /\ 0 \in 0 .. MaxCalls
      BY EmptySeq DEF ToolsAreKnown
    <3> QED  BY <3>1 DEF NoCall, Call, CallOK, Places, Contents
  <2>3. call \in [Actors -> Call] /\ \A a \in Actors : call[a] = NoCall
    BY <2>2 DEF Init
  <2> QED  BY <2>1, <2>2, <2>3 DEF Init, ToolInv, ToolsAreKnown
<1> QED  BY <1>1, NextToolInv, PTL DEF Spec

\* Workspace, known files and number of calls keep their types.
THEOREM TypeCorrect == ASSUME ToolsAreKnown PROVE Spec => []TypeOK
<1>1. ToolInv => TypeOK
  BY DEF ToolInv, TypeOK, Contents
<1> QED  BY <1>1, SpecToolInv, PTL

\* RefusedChangesNothing: what is refused, or does not find what it needs, has changed
\* nothing, also while other executors work on the same files.
THEOREM RefusalsAreHarmless == ASSUME ToolsAreKnown PROVE Spec => []RefusedChangesNothing
<1>1. ToolInv => RefusedChangesNothing
  BY DEF ToolInv, CallOK, RefusedChangesNothing
<1> QED  BY <1>1, SpecToolInv, PTL

\* FailuresLoseLittle: a call whose change failed, at whatever step, has taken nothing
\* from any path but the one file that it was writing.
THEOREM FailuresAreContained == ASSUME ToolsAreKnown PROVE Spec => []FailuresLoseLittle
<1>1. ToolInv => FailuresLoseLittle
  BY DEF ToolInv, CallOK, FailuresLoseLittle
<1> QED  BY <1>1, SpecToolInv, PTL

-----------------------------------------------------------------------------
(* One executor: what its look found is still so when it acts *)

OneActor == \A a, b \in Actors : a = b

\* What a call that keeps a file owes when it is done.
Kept(c) ==
  c.pc = "done" /\ c.report = "ok" /\ c.tool \in Keepers /\ c.base \in Texts
    => IsFile(c.p) /\ c.base \subseteq disk[c.p]

\* The look still holds before the change, and the file is empty within a write.
LookHolds(c) ==
  /\ c.pc = "act" => c.base = disk[c.p]
  /\ c.pc = "act" /\ c.tool \in Pairs /\ ~c.flag => disk[c.q] = Absent
  /\ c.pc = "fill" => disk[c.p] = {}
  /\ Kept(c)

AloneInv == \A a \in Actors : LookHolds(call[a])

\* The only actor has its call as d.
LEMMA AloneMoves ==
  ASSUME OneActor, ToolInv, NEW a \in Actors, NEW d, call' = [call EXCEPT ![a] = d],
         d.pc = "act" => d.base = disk'[d.p],
         d.pc = "act" /\ d.tool \in Pairs /\ ~d.flag => disk'[d.q] = Absent,
         d.pc = "fill" => disk'[d.p] = {},
         d.pc = "done" /\ d.report = "ok" /\ d.tool \in Keepers /\ d.base \in Texts
           => disk'[d.p] \notin {Absent, Dir} /\ d.base \subseteq disk'[d.p]
  PROVE  AloneInv'
<1>1. \A b \in Actors : call'[b] = d
  BY DEF OneActor, ToolInv
<1> QED  BY <1>1 DEF AloneInv, LookHolds, Kept, IsFile

\* A report of a call that keeps nothing, or did not succeed.
LEMMA AloneReports ==
  ASSUME OneActor, ToolInv, NEW a \in Actors, NEW d \in Call, NEW report, Report(a, report, d),
         report = "ok" /\ d.tool \in Keepers /\ d.base \in Texts
           => disk'[d.p] \notin {Absent, Dir} /\ d.base \subseteq disk'[d.p]
  PROVE  AloneInv'
<1> DEFINE e == [d EXCEPT !.pc = "done", !.report = report]
<1>1. /\ e.pc = "done" /\ e.report = report /\ e.tool = d.tool /\ e.base = d.base
      /\ e.p = d.p
  BY DEF Call
<1>2. call' = [call EXCEPT ![a] = e]
  BY DEF Report
<1> HIDE DEF e
<1> QED  BY <1>1, <1>2, AloneMoves

\* What a keeper finds it leaves, and more.
LEMMA KeepersAct ==
  ASSUME ToolsAreKnown, ToolInv, NEW c \in Call, CallOK(c), c.pc = "act",
         c.tool \in Keepers, c.tool \notin Writers \cup {"read_file"},
         c.base \in Texts, c.base = disk[c.p], NEW d \in Tool(c).after
  PROVE  d[c.p] \notin {Absent, Dir} /\ c.base \subseteq d[c.p]
<1>1. c.p \in Paths /\ c.id \in 1 .. MaxCalls /\ disk \in [Paths -> Contents]
  BY DEF CallOK, ToolInv
<1>2. disk[c.p] \notin {Absent, Dir}
  BY HoldsApart
<1>3. CASE c.tool = "append_to_file"
  <2>1. d \in Becomes(c.p, disk[c.p] \cup {c.id})
    BY <1>2, <1>3 DEF Tool, append_to_file
  <2>2. disk[c.p] \cup {c.id} \in Texts
    BY <1>1, HoldsApart
  <2>3. d[c.p] = disk[c.p] \cup {c.id}
    BY <1>1, <2>1, <2>2, BecomesFits DEF Contents
  <2> QED  BY <2>2, <2>3, HoldsApart
<1>4. CASE c.tool = "touch_file"
  <2>1. Tool(c).after = {disk}
    BY <1>2, <1>4 DEF Tool, touch_file, IsFile
  <2> QED  BY <1>2, <2>1
<1> QED  BY <1>3, <1>4 DEF Keepers, Writers

\* Every step of the only executor keeps what its look found.
LEMMA NextAlone ==
  ASSUME ToolsAreKnown, OneActor, ToolInv, AloneInv, [Next]_vars
  PROVE  AloneInv'
<1>0. disk \in [Paths -> Contents]
  BY DEF ToolInv
<1>1. ASSUME NEW a \in Actors, Begin(a) PROVE AloneInv'
  <2>1. PICK tool \in Tools : \E args \in Arguments(tool), flag \in BOOLEAN :
          Begins(a, tool, args, flag)
    BY <1>1 DEF Begin, Begins, Begun
  <2>2. PICK args \in Arguments(tool), flag \in BOOLEAN : Begins(a, tool, args, flag)
    BY <2>1
  <2> DEFINE begun == Begun(tool, args, flag)
             at == IF tool \in Batches THEN "batch" ELSE "look"
             next == [begun EXCEPT !.pc = at]
             refused == [begun EXCEPT !.pc = "done", !.report = "refused"]
  <2>3. /\ next.pc \in {"batch", "look"}
        /\ refused.pc = "done" /\ refused.report = "refused"
    BY DEF Begun, NoCall
  <2>4. call' = [call EXCEPT ![a] = next] \/ call' = [call EXCEPT ![a] = refused]
    BY <2>2 DEF Begins, Go, Report
  <2> HIDE DEF next, refused
  <2> QED  BY <2>3, <2>4, AloneMoves
<1>2. ASSUME NEW a \in Actors, Look(a) PROVE AloneInv'
  <2> DEFINE c == call[a]
             next == [c EXCEPT !.pc = "act", !.base = disk[c.p]]
  <2>1. /\ c.pc = "look" /\ UNCHANGED disk
        /\ IF Tool(c).fits THEN Go(a, next) ELSE Report(a, "error", c)
    BY <1>2 DEF Look
  <2>2. c \in Call /\ CallOK(c)
    BY CallOf
  <2> HIDE DEF c
  <2>3. CASE Tool(c).fits
    <3>1. /\ next.pc = "act" /\ next.base = disk[c.p] /\ next.tool = c.tool
          /\ next.p = c.p /\ next.q = c.q /\ next.flag = c.flag
      BY <2>2 DEF Call
    <3>2. call' = [call EXCEPT ![a] = next]
      BY <2>1, <2>3 DEF Go
    <3> HIDE DEF next
    <3>3. c.tool \in Pairs /\ ~c.flag => disk[c.q] = Absent
      BY <2>3 DEF Tool, Pairs, move_file, copy_file
    <3> QED  BY <2>1, <3>1, <3>2, <3>3, AloneMoves
  <2>4. CASE ~Tool(c).fits
    BY <2>1, <2>2, <2>4, AloneReports
  <2> QED  BY <2>3, <2>4
<1>3. ASSUME NEW a \in Actors, Read(a) PROVE AloneInv'
  <2>1. /\ call[a].pc = "act" /\ UNCHANGED disk /\ Report(a, "ok", call[a])
    BY <1>3 DEF Read
  <2>2. call[a].base = disk[call[a].p]
    BY <2>1 DEF AloneInv, LookHolds
  <2> QED  BY <2>1, <2>2, CallOf, HoldsApart, AloneReports
<1>4. ASSUME NEW a \in Actors, Succeeds(a),
             call[a].tool \in Keepers /\ call[a].base \in Texts
               => /\ disk'[call[a].p] \notin {Absent, Dir}
                  /\ call[a].base \subseteq disk'[call[a].p]
      PROVE AloneInv'
  <2> DEFINE d == Changing(a)
  <2>1. d \in Call /\ d.tool = call[a].tool /\ d.base = call[a].base /\ d.p = call[a].p
    BY CallOf DEF Changing, Call, Lost
  <2>2. Report(a, "ok", d)
    BY <1>4 DEF Succeeds
  <2> HIDE DEF d
  <2> QED  BY <1>4, <2>1, <2>2, AloneReports
<1>13. ASSUME NEW a \in Actors, Fails(a) PROVE AloneInv'
  <2>1. Changing(a) \in Call
    BY CallOf DEF Changing, Call, Lost
  <2> QED  BY <1>13, <2>1, AloneReports DEF Fails
<1>5. ASSUME NEW a \in Actors, Act(a) PROVE AloneInv'
  <2> DEFINE c == call[a]
  <2>1. /\ c.pc = "act" /\ c.tool \notin Writers \cup {"read_file"}
        /\ (disk' \in Tool(c).after /\ Succeeds(a)) \/ Fails(a)
    BY <1>5 DEF Act
  <2>2. c.base = disk[c.p] /\ c \in Call /\ CallOK(c)
    BY <2>1, CallOf DEF AloneInv, LookHolds
  <2>3. CASE disk' \in Tool(c).after /\ Succeeds(a)
    <3>1. c.tool \in Keepers /\ c.base \in Texts
            => disk'[c.p] \notin {Absent, Dir} /\ c.base \subseteq disk'[c.p]
      BY <2>1, <2>2, <2>3, KeepersAct
    <3> QED  BY <1>4, <2>3, <3>1
  <2>4. CASE Fails(a)
    BY <1>13, <2>4
  <2> QED  BY <2>1, <2>3, <2>4
<1>6. ASSUME NEW a \in Actors, Truncate(a) PROVE AloneInv'
  <2> DEFINE c == call[a]
             next == [Changing(a) EXCEPT !.pc = "fill"]
  <2>1. /\ c.pc = "act"
        /\ \/ disk' \in Becomes(c.p, {}) /\ Go(a, next)
           \/ Fails(a)
    BY <1>6 DEF Truncate
  <2>2. c \in Call /\ c.p \in Paths /\ {} \in Contents
    BY <2>1, CallOf, HoldsApart DEF CallOK, Contents
  <2>3. CASE disk' \in Becomes(c.p, {}) /\ Go(a, next)
    <3>1. disk'[c.p] = {}
      BY <1>0, <2>2, <2>3, BecomesFits
    <3>2. next.pc = "fill" /\ next.p = c.p
      BY <2>2 DEF Changing, Call, Lost
    <3>3. call' = [call EXCEPT ![a] = next]
      BY <2>3 DEF Go
    <3> HIDE DEF c, next
    <3> QED  BY <3>1, <3>2, <3>3, AloneMoves
  <2>4. CASE Fails(a)
    BY <1>13, <2>4
  <2> QED  BY <2>1, <2>3, <2>4
<1>7. ASSUME NEW a \in Actors, Fill(a) PROVE AloneInv'
  <2> DEFINE c == call[a]
  <2>1. /\ c.pc = "fill"
        /\ \/ /\ IF IsFile(c.p) THEN disk' \in Becomes(c.p, Tool(c).text) ELSE UNCHANGED disk
              /\ Succeeds(a)
           \/ Fails(a)
    BY <1>7 DEF Fill
  <2>2. c \in Call /\ c.p \in Paths /\ c.tool \in Writers /\ c.id \in 1 .. MaxCalls
        /\ CallOK(c)
    BY <2>1, CallOf DEF CallOK
  <2>3. disk[c.p] = {} /\ IsFile(c.p)
    <3>1. disk[c.p] = {}
      BY <2>1 DEF AloneInv, LookHolds
    <3> QED  BY <3>1, HoldsApart DEF IsFile
  <2>4. CASE disk' \in Becomes(c.p, Tool(c).text) /\ Succeeds(a)
    <3>1. ASSUME c.tool \in Keepers, c.base \in Texts
          PROVE  disk'[c.p] \notin {Absent, Dir} /\ c.base \subseteq disk'[c.p]
      <4>1. Tool(c).text = c.base \cup {c.id}
        BY <2>2, <3>1 DEF Tool, edit_file, patch_file, Keepers, Writers
      <4>2. c.base \cup {c.id} \in Texts
        BY <2>2, <3>1, HoldsApart
      <4>3. disk'[c.p] = c.base \cup {c.id}
        BY <1>0, <2>4, <2>2, <4>1, <4>2, BecomesFits DEF Contents
      <4> QED  BY <4>2, <4>3, HoldsApart
    <3> QED  BY <1>4, <2>1, <2>4, <3>1
  <2>5. CASE Fails(a)
    BY <1>13, <2>5
  <2> QED  BY <2>1, <2>3, <2>4, <2>5
<1>8. ASSUME NEW a \in Actors, BatchStep(a) PROVE AloneInv'
  <2> DEFINE c == call[a]
             next == [Changing(a) EXCEPT !.todo = Tail(@)]
  <2>1. c.pc = "batch" /\ call' = [call EXCEPT ![a] = next]
    BY <1>8 DEF BatchStep, Go
  <2>2. next.pc = "batch"
    BY <2>1, CallOf DEF Changing, Call, Lost
  <2> HIDE DEF next
  <2> QED  BY <2>1, <2>2, AloneMoves
<1>9. ASSUME NEW a \in Actors, BatchEnd(a) PROVE AloneInv'
  <2>1. call[a].tool \notin Keepers /\ Report(a, "ok", call[a])
    BY <1>9, CallOf DEF BatchEnd, CallOK, Batches, Keepers
  <2> QED  BY <2>1, CallOf, AloneReports
<1>10. ASSUME NEW a \in Actors, Cancel(a) PROVE AloneInv'
  BY <1>10, CallOf, AloneReports DEF Cancel
<1>11. ASSUME NEW a \in Actors, Finish(a) PROVE AloneInv'
  <2>1. call' = [call EXCEPT ![a] = NoCall] /\ NoCall.pc = "idle"
    BY <1>11 DEF Finish, Go, NoCall
  <2> QED  BY <2>1, AloneMoves
<1>12. CASE UNCHANGED vars
  BY <1>12 DEF vars, AloneInv, LookHolds, Kept, IsFile
<1> QED
  BY <1>1, <1>2, <1>3, <1>5, <1>6, <1>7, <1>8, <1>9, <1>10, <1>11, <1>12 DEF Next

\* The look of the only executor holds in every state.
LEMMA SpecAlone == ASSUME ToolsAreKnown, OneActor PROVE Spec => []AloneInv
<1>1. Init => AloneInv
  BY DEF Init, NoCall, AloneInv, LookHolds, Kept
<1> QED  BY <1>1, SpecToolInv, NextAlone, PTL DEF Spec

\* KeepersKeep: with one executor, a tool that promises to keep what a file holds, an
\* edit among them, has what it read still in the file when it is done.
THEOREM EditsKeepContents == ASSUME ToolsAreKnown, OneActor PROVE Spec => []KeepersKeep
<1>1. AloneInv => KeepersKeep
  BY DEF AloneInv, LookHolds, Kept, KeepersKeep
<1> QED  BY <1>1, SpecAlone, PTL

\* Replaces: with one executor, a move or a copy that was not told to replaces nothing.
THEOREM NothingIsReplaced == ASSUME ToolsAreKnown, OneActor PROVE Spec => Replaces
<1>1. ToolInv /\ AloneInv /\ [Next]_vars => [ReplaceStep]_vars
  <2> SUFFICES ASSUME ToolInv, AloneInv, Next, NEW b \in Actors,
                      call[b].tool \in Pairs, ~call[b].flag, disk' # disk
               PROVE  disk[call[b].q] = Absent
    BY DEF ReplaceStep
  <2>1. PICK a \in Actors :
          Begin(a) \/ Look(a) \/ Read(a) \/ Act(a) \/ Truncate(a) \/ Fill(a)
          \/ BatchStep(a) \/ BatchEnd(a) \/ Cancel(a) \/ Finish(a)
    BY DEF Next
  <2>2. a = b
    BY DEF OneActor
  <2>3. CallOK(call[b])
    BY CallOf
  <2>4. ~(Begin(a) \/ Look(a) \/ Read(a) \/ BatchEnd(a) \/ Cancel(a) \/ Finish(a))
    BY DEF Begin, Look, Read, BatchEnd, Cancel, Finish
  <2>5. ~(Truncate(a) \/ Fill(a) \/ BatchStep(a))
    BY <2>2, <2>3 DEF Truncate, Fill, BatchStep, CallOK, Pairs, Writers, Batches
  <2>6. call[b].pc = "act"
    BY <2>1, <2>2, <2>4, <2>5 DEF Act
  <2> QED  BY <2>6 DEF AloneInv, LookHolds
<1> QED  BY <1>1, SpecToolInv, SpecAlone, PTL DEF Spec, Replaces
=============================================================================
