------------------------------- MODULE StoreProofs -------------------------------
(***************************************************************************)
(* Proofs about the stores that are one whole file (WholeFile) and those   *)
(* that extend it, for every number of processes and commands: JobStore,   *)
(* RunStore and ManifestStore.  What is on disk is a text that legal       *)
(* commands wrote, however processes overlap and die; and commands that do *)
(* not overlap leave the file whole and take it only from a text to one    *)
(* that may follow it.  The lemmas about files are proved once, for any    *)
(* set of texts and any relation between them.  The last part is about the *)
(* graph of a manifest's dependencies (DependencyGraph).                   *)
(***************************************************************************)
EXTENDS JobStore, SequenceTheorems, TLAPS

CONSTANTS
  Runs,    \* run ids, of RunStore
  Tasks,   \* the tasks of one orchestration, of ManifestStore and DependencyGraph
  Unknown  \* a name that some dependency has and no task, of DependencyGraph

VARIABLES deps, roots, stack, visited, answer  \* of DependencyGraph

-----------------------------------------------------------------------------
(* Whole files: G is the set of the texts that commands write, L that of the   *)
(* pairs of texts that may follow each other on disk.                          *)

\* Whole files of good texts.
Wholes(G) == {Whole(m) : m \in G}
DiskOK(G) ==
  /\ DOMAIN disk = {"store", "tmp"}
  /\ \A name \in {"store", "tmp"} : disk[name] \in {Absent, Blank, Torn} \cup Wholes(G)

\* Under which name a process may have a file open.
Handles == {"none", "store", "tmp", "unlinked"}

\* However processes overlap: good texts on disk and in the plans.
FileInv(G) ==
  /\ DiskOK(G)
  /\ fd \in [Procs -> Handles]
  /\ pc \in [Procs -> {"idle", "truncate", "write", "rename"}]
  /\ plan \in [Procs -> Seq(G)]
  /\ \A p \in Procs : Len(plan[p]) \in 0 .. 2 /\ (plan[p] = <<>> <=> pc[p] = "idle")
  /\ asked \in Nat

\* The texts of a command that finds m.
Follows(G, L, m, texts) ==
  /\ texts \in Seq(G) /\ Len(texts) \in 1 .. 2
  /\ <<m, texts[1]>> \in L
  /\ Len(texts) = 2 => <<texts[1], texts[2]>> \in L

\* One process at most is at work, the temporary file is as it left it, and what it
\* still has to write may follow what is on disk.
Turn(G, L) ==
  /\ \A p, q \in Procs : pc[p] # "idle" /\ pc[q] # "idle" => p = q
  /\ disk.store = Absent \/ disk.store \in Wholes(G)
  /\ \A p \in Procs :
       /\ fd[p] # "none" => pc[p] = "write"
       /\ pc[p] = "write" => fd[p] = "tmp" /\ disk.tmp = Blank
       /\ pc[p] = "rename" => disk.tmp = Whole(Head(plan[p]))
       /\ pc[p] # "idle" => Follows(G, L, Stored, plan[p])

-----------------------------------------------------------------------------
(* Files, however processes overlap and die *)

\* No process has done anything yet.
LEMMA FilesBegin ==
  ASSUME NEW CONSTANT G, NEW CONSTANT L, FileInit
  PROVE  FileInv(G) /\ Turn(G, L) /\ Stored = <<>>
<1>1. DiskOK(G)
  BY DEF FileInit, DiskOK
<1>2. <<>> \in Seq(G) /\ Len(<<>>) = 0
  BY EmptySeq
<1>3. FileInv(G)
  BY <1>1, <1>2 DEF FileInit, FileInv, Handles
<1>4. Turn(G, L) /\ Stored = <<>>
  BY DEF FileInit, Turn, Stored, Absent, Hollow
<1> QED  BY <1>3, <1>4

\* What is written into the open file leaves whole, blank and torn files.
LEMMA FillKeeps ==
  ASSUME NEW CONSTANT G, DiskOK(G), NEW p \in Procs,
         NEW content \in {Absent, Blank, Torn} \cup Wholes(G), Fill(p, content)
  PROVE  DiskOK(G)'
BY DEF DiskOK, Fill

\* The first text of a process that has one, and the others.
LEMMA HeadOfPlan ==
  ASSUME NEW CONSTANT G, FileInv(G), NEW p \in Procs, pc[p] # "idle"
  PROVE  /\ plan[p] \in Seq(G) /\ Len(plan[p]) \in 1 .. 2 /\ plan[p] # <<>>
         /\ Head(plan[p]) = plan[p][1] /\ Head(plan[p]) \in G
         /\ Tail(plan[p]) \in Seq(G) /\ Len(Tail(plan[p])) = Len(plan[p]) - 1
         /\ Len(plan[p]) = 2 => Tail(plan[p])[1] = plan[p][2]
<1>1. plan[p] \in Seq(G) /\ plan[p] # <<>> /\ Len(plan[p]) \in 0 .. 2
  BY DEF FileInv
<1>2. Len(plan[p]) \in Nat \ {0}
  BY <1>1, EmptySeq
<1> QED  BY <1>1, <1>2

\* A command that plans good texts.
LEMMA BeginKeeps ==
  ASSUME NEW CONSTANT G, FileInv(G), NEW p \in Procs, NEW texts \in Seq(G),
         Len(texts) \in 1 .. 2, Begin(p, texts)
  PROVE  FileInv(G)'
<1>1. DiskOK(G)'
  BY DEF Begin, FileInv, DiskOK
<1> QED  BY <1>1 DEF Begin, FileInv

\* Every step of a write keeps the disk and the plans good, however processes overlap.
LEMMA PersistKeeps ==
  ASSUME NEW CONSTANT G, FileInv(G), NEW p \in Procs, Persist(p)
  PROVE  FileInv(G)'
<1>1. <<>> \in Seq(G) /\ Len(<<>>) = 0
  BY EmptySeq
<1>3. CASE Truncate(p)
  <2>1. DiskOK(G)'
    BY <1>3 DEF Truncate, FileInv, DiskOK
  <2>2. fd' \in [Procs -> Handles]
    BY <1>3 DEF Truncate, FileInv, Handles
  <2> QED  BY <1>3, <2>1, <2>2 DEF Truncate, FileInv
<1>4. CASE Write(p)
  <2>1. Head(plan[p]) \in G
    BY <1>4, HeadOfPlan DEF Write
  <2>2. DiskOK(G)'
    <3>1. CASE fd[p] = "unlinked"
      BY <1>4, <3>1 DEF Write, FileInv, DiskOK
    <3>2. CASE fd[p] # "unlinked"
      <4>1. PICK content \in Overwrite(disk[fd[p]], Head(plan[p])) : Fill(p, content)
        BY <1>4, <3>2 DEF Write
      <4>2. content \in {Absent, Blank, Torn} \cup Wholes(G)
        BY <2>1, <4>1 DEF Overwrite, Wholes
      <4> QED  BY <4>1, <4>2, FillKeeps DEF FileInv
    <3> QED  BY <3>1, <3>2
  <2>3. fd' \in [Procs -> Handles]
    BY <1>4 DEF Write, FileInv, Handles
  <2> QED  BY <1>4, <2>2, <2>3 DEF Write, FileInv
<1>5. ASSUME pc[p] # "idle", Exit(p), DiskOK(G)', fd' \in [Procs -> Handles], asked' = asked
      PROVE  FileInv(G)'
  BY <1>1, <1>5 DEF Exit, FileInv
<1>6. CASE Rename(p)
  <2>1. DiskOK(G)'
    BY <1>6 DEF Rename, FileInv, DiskOK
  <2>2. fd' \in [Procs -> Handles]
    <3>1. \A name \in Handles : Renamed(name) \in Handles
      BY DEF Renamed, Handles
    <3> QED  BY <1>6, <3>1 DEF Rename, FileInv
  <2>3. CASE Len(plan[p]) > 1
    <3> DEFINE left == Tail(plan[p])
    <3>0. pc[p] # "idle"
      BY <1>6 DEF Rename
    <3>1. left \in Seq(G) /\ Len(left) = 1
      <4>1. left \in Seq(G) /\ Len(plan[p]) \in 1 .. 2 /\ Len(left) = Len(plan[p]) - 1
        BY <3>0, HeadOfPlan, Zenon
      <4> HIDE DEF left
      <4> QED  BY <2>3, <4>1
    <3>2. pc' = [pc EXCEPT ![p] = "truncate"] /\ plan' = [plan EXCEPT ![p] = left]
      BY <1>6, <2>3 DEF Rename
    <3> HIDE DEF left
    <3>3. left # <<>>
      <4>1. left = <<>> => Len(left) = 0
        BY <1>1, Zenon
      <4> QED  BY <3>1, <4>1
    <3>4. asked' = asked
      BY <1>6 DEF Rename
    <3> QED  BY <2>1, <2>2, <3>1, <3>2, <3>3, <3>4 DEF FileInv
  <2>4. CASE ~(Len(plan[p]) > 1)
    BY <1>5, <1>6, <2>1, <2>2, <2>4 DEF Rename
  <2> QED  BY <2>3, <2>4
<1>7. CASE RenameFails(p)
  <2>1. DiskOK(G)' /\ fd' \in [Procs -> Handles]
    BY <1>7 DEF RenameFails, FileInv, DiskOK
  <2> QED  BY <1>5, <1>7, <2>1 DEF RenameFails
<1>8. CASE Crash(p)
  <2>1. DiskOK(G)'
    <3>1. CASE UNCHANGED disk
      BY <3>1 DEF FileInv, DiskOK
    <3>2. CASE Fill(p, Torn)
      BY <3>2, FillKeeps DEF FileInv
    <3> QED  BY <1>8, <3>1, <3>2 DEF Crash
  <2>2. fd' \in [Procs -> Handles]
    BY <1>8 DEF Crash, FileInv, Handles
  <2> QED  BY <1>5, <1>8, <2>1, <2>2 DEF Crash
<1> QED  BY <1>3, <1>4, <1>6, <1>7, <1>8 DEF Persist

\* Nothing happens.
LEMMA FilesRest ==
  ASSUME NEW CONSTANT G, NEW CONSTANT L, UNCHANGED fileVars
  PROVE  /\ FileInv(G) => FileInv(G)'
         /\ Turn(G, L) => Turn(G, L)'
         /\ Stored' = Stored
BY DEF fileVars, FileInv, DiskOK, Turn, Stored

\* What FileInv says of the types, and of the texts.
LEMMA FilesTyped ==
  ASSUME NEW CONSTANT G, FileInv(G)
  PROVE  FileTypeOK /\ \A m \in Texts : m \in G
<1>1. FileTypeOK
  <2>1. ASSUME NEW name \in {"store", "tmp"}
        PROVE  disk[name] \in {Absent, Blank, Torn, Whole(disk[name].text)}
    <3>1. CASE disk[name] \in Wholes(G)
      <4>1. PICK m \in G : disk[name] = Whole(m)
        BY <3>1 DEF Wholes
      <4>2. disk[name].text = m
        BY <4>1 DEF Whole
      <4> QED  BY <4>1, <4>2
    <3>2. CASE disk[name] \in {Absent, Blank, Torn}
      BY <3>2
    <3> QED  BY <3>1, <3>2 DEF FileInv, DiskOK
  <2> QED  BY <2>1 DEF FileInv, DiskOK, FileTypeOK, Handles
<1>2. ASSUME NEW m \in Texts PROVE m \in G
  <2>1. CASE \E name \in {"store", "tmp"} : disk[name].state = "whole" /\ m = disk[name].text
    <3>1. PICK name \in {"store", "tmp"} : disk[name].state = "whole" /\ m = disk[name].text
      BY <2>1
    <3>2. disk[name] \in Wholes(G)
      BY <3>1 DEF FileInv, DiskOK, Absent, Blank, Torn, Hollow
    <3> QED  BY <3>1, <3>2 DEF Wholes, Whole
  <2>2. CASE \E p \in Procs : \E k \in DOMAIN plan[p] : m = plan[p][k]
    <3>1. PICK p \in Procs : \E k \in DOMAIN plan[p] : m = plan[p][k]
      BY <2>2
    <3>2. plan[p] \in Seq(G)
      BY DEF FileInv
    <3> QED  BY <3>1, <3>2, LenProperties, ElementOfSeq
  <2> QED  BY <1>2, <2>1, <2>2 DEF Texts
<1> QED  BY <1>1, <1>2

\* What a process that can read the store finds.
LEMMA StoredGood ==
  ASSUME NEW CONSTANT G, FileInv(G), disk.store.state = "whole"
  PROVE  Stored \in G /\ Stored = disk.store.text
<1>1. disk.store \in Wholes(G)
  BY DEF FileInv, DiskOK, Absent, Blank, Torn, Hollow
<1>2. disk.store.text \in G
  BY <1>1 DEF Wholes, Whole
<1> QED  BY <1>2 DEF Stored

-----------------------------------------------------------------------------
(* One command at a time *)

\* A step of p, at work before or after it, that leaves the store as it is.
LEMMA TurnStep ==
  ASSUME NEW CONSTANT G, NEW CONSTANT L,
         Turn(G, L), NEW p \in Procs, disk'.store = disk.store,
         \A q \in Procs \ {p} :
           pc[q] = "idle" /\ pc'[q] = pc[q] /\ fd'[q] = fd[q] /\ plan'[q] = plan[q],
         fd'[p] # "none" => pc'[p] = "write",
         pc'[p] = "write" => fd'[p] = "tmp" /\ disk'.tmp = Blank,
         pc'[p] = "rename" => disk'.tmp = Whole(Head(plan'[p])),
         pc'[p] # "idle" => Follows(G, L, Stored, plan'[p])
  PROVE  Turn(G, L)' /\ Stored' = Stored
<1>1. Stored' = Stored
  BY DEF Stored
<1>2. \A q \in Procs \ {p} : pc'[q] = "idle" /\ fd'[q] = "none"
  BY DEF Turn
<1> QED  BY <1>1, <1>2 DEF Turn

\* While p is at work the others are idle.
LEMMA OthersIdle ==
  ASSUME NEW CONSTANT G, NEW CONSTANT L, Turn(G, L), NEW p \in Procs, pc[p] # "idle"
  PROVE  \A q \in Procs \ {p} : pc[q] = "idle"
BY DEF Turn

\* A command that plans texts which may follow what is on disk.
LEMMA BeginTurn ==
  ASSUME NEW CONSTANT G, NEW CONSTANT L, Serial, FileInv(G), Turn(G, L), NEW p \in Procs,
         NEW texts, Follows(G, L, Stored, texts), Begin(p, texts)
  PROVE  Turn(G, L)' /\ Stored' = Stored
<1>1. \A q \in Procs : pc[q] = "idle" /\ fd[q] = "none"
  BY DEF Begin, Turn
<1>2. pc'[p] = "truncate" /\ plan'[p] = texts /\ fd' = fd /\ disk' = disk
  BY DEF Begin, FileInv
<1>3. \A q \in Procs \ {p} : pc'[q] = pc[q] /\ plan'[q] = plan[q]
  BY DEF Begin, FileInv
<1> QED  BY <1>1, <1>2, <1>3, TurnStep

\* Each step of a write keeps the turn, and takes the store to a text that may follow.
LEMMA PersistTurn ==
  ASSUME NEW CONSTANT G, NEW CONSTANT L, FileInv(G), Turn(G, L), NEW p \in Procs, Persist(p)
  PROVE  Turn(G, L)' /\ (Stored' = Stored \/ <<Stored, Stored'>> \in L)
<1>3. CASE Truncate(p)
  <2>1. pc[p] # "idle" /\ pc'[p] = "write" /\ fd'[p] = "tmp" /\ plan' = plan
    BY <1>3 DEF Truncate, FileInv
  <2>2. disk'.store = disk.store /\ disk'.tmp = Blank
    BY <1>3 DEF Truncate, FileInv, DiskOK
  <2>3. \A q \in Procs \ {p} : pc'[q] = pc[q] /\ fd'[q] = fd[q]
    BY <1>3 DEF Truncate, FileInv
  <2>4. Follows(G, L, Stored, plan'[p])
    BY <2>1 DEF Turn
  <2> QED  BY <2>1, <2>2, <2>3, <2>4, OthersIdle, TurnStep
<1>4. CASE Write(p)
  <2>1. /\ pc[p] # "idle" /\ pc'[p] = "rename" /\ fd'[p] = "none" /\ plan' = plan
        /\ fd[p] = "tmp" /\ disk.tmp = Blank
    BY <1>4 DEF Write, FileInv, Turn
  <2>2. PICK content \in Overwrite(disk[fd[p]], Head(plan[p])) : Fill(p, content)
    BY <1>4, <2>1 DEF Write
  <2>3. content = Whole(Head(plan[p]))
    BY <2>1, <2>2 DEF Overwrite
  <2>4. disk'.store = disk.store /\ disk'.tmp = Whole(Head(plan[p]))
    BY <2>1, <2>2, <2>3 DEF Fill, FileInv, DiskOK
  <2>5. \A q \in Procs \ {p} : pc'[q] = pc[q] /\ fd'[q] = fd[q]
    BY <1>4 DEF Write, FileInv
  <2>6. Follows(G, L, Stored, plan'[p])
    BY <2>1 DEF Turn
  <2> QED  BY <2>1, <2>4, <2>5, <2>6, OthersIdle, TurnStep
<1>5. CASE Rename(p)
  <2>1. pc[p] = "rename" /\ pc[p] # "idle"
    BY <1>5 DEF Rename
  <2>2. disk.tmp = Whole(plan[p][1]) /\ Follows(G, L, Stored, plan[p]) /\ plan[p][1] \in G
    BY <2>1, HeadOfPlan DEF Turn
  <2>3. disk'.store = Whole(plan[p][1])
    BY <1>5, <2>2 DEF Rename
  <2>4. Stored' = plan[p][1]
    BY <2>3 DEF Stored, Whole
  <2>5. <<Stored, Stored'>> \in L
    BY <2>2, <2>4 DEF Follows
  <2>6. disk'.store \in Wholes(G)
    BY <2>2, <2>3 DEF Wholes
  <2>7. \A q \in Procs : fd[q] = "none" /\ fd'[q] = "none"
    <3>1. \A q \in Procs : fd[q] = "none"
      BY <2>1, OthersIdle DEF Turn
    <3>2. Renamed("none") = "none"
      BY DEF Renamed
    <3> QED  BY <1>5, <3>1, <3>2 DEF Rename
  <2>8. \A q \in Procs \ {p} : pc'[q] = "idle"
    <3>1. \A q \in Procs \ {p} : pc[q] = "idle"
      BY <2>1, OthersIdle
    <3> QED  BY <1>5, <3>1 DEF Rename, Exit, FileInv
  <2>9. pc'[p] # "idle" => pc'[p] = "truncate" /\ Follows(G, L, Stored', plan'[p])
    <3>1. CASE Len(plan[p]) > 1
      <4> DEFINE left == Tail(plan[p])
      <4>1. /\ left \in Seq(G) /\ Len(left) = 1 /\ left[1] = plan[p][2]
            /\ Len(plan[p]) = 2
        <5>1. /\ left \in Seq(G) /\ Len(plan[p]) \in 1 .. 2
              /\ Len(left) = Len(plan[p]) - 1
              /\ Len(plan[p]) = 2 => left[1] = plan[p][2]
          BY <2>1, HeadOfPlan, Zenon
        <5> HIDE DEF left
        <5>4. Len(plan[p]) \in 1 .. 2
          BY <5>1, Zenon
        <5>2. Len(plan[p]) = 2
          BY <3>1, <5>4
        <5>5. Len(left) = Len(plan[p]) - 1
          BY <5>1, Zenon
        <5>3. Len(left) = 1
          BY <5>2, <5>5
        <5> QED  BY <5>1, <5>2, <5>3, Zenon
      <4>2. pc'[p] = "truncate" /\ plan'[p] = left
        BY <1>5, <3>1 DEF Rename, FileInv
      <4> HIDE DEF left
      <4>3. <<plan[p][1], plan[p][2]>> \in L
        BY <2>2, <4>1 DEF Follows
      <4>4. Follows(G, L, Stored', left)
        BY <2>4, <4>1, <4>3 DEF Follows
      <4> QED  BY <4>2, <4>4
    <3>2. CASE ~(Len(plan[p]) > 1)
      BY <1>5, <3>2 DEF Rename, Exit, FileInv
    <3> QED  BY <3>1, <3>2
  <2>10. Turn(G, L)'
    BY <2>6, <2>7, <2>8, <2>9 DEF Turn
  <2> QED  BY <2>5, <2>10
<1>6. ASSUME pc[p] # "idle", Exit(p), disk'.store = disk.store,
             fd' = [fd EXCEPT ![p] = "none"]
      PROVE  Turn(G, L)' /\ Stored' = Stored
  <2>1. pc'[p] = "idle" /\ fd'[p] = "none"
    BY <1>6 DEF Exit, FileInv
  <2>2. \A q \in Procs \ {p} : pc'[q] = pc[q] /\ fd'[q] = fd[q] /\ plan'[q] = plan[q]
    BY <1>6 DEF Exit, FileInv
  <2> QED  BY <1>6, <2>1, <2>2, OthersIdle, TurnStep
<1>7. CASE RenameFails(p)
  <2>1. pc[p] = "rename" /\ disk.tmp = Absent
    BY <1>7 DEF RenameFails
  <2>2. disk.tmp = Whole(Head(plan[p]))
    BY <2>1 DEF Turn
  <2> QED  BY <2>1, <2>2 DEF Absent, Hollow, Whole
<1>8. CASE Crash(p)
  <2>1. disk'.store = disk.store
    <3>1. CASE pc[p] = "write" /\ Fill(p, Torn)
      BY <3>1 DEF Fill, Turn, FileInv, DiskOK
    <3> QED  BY <1>8, <3>1 DEF Crash
  <2> QED  BY <1>6, <1>8, <2>1 DEF Crash
<1> QED  BY <1>3, <1>4, <1>5, <1>7, <1>8 DEF Persist

\* Where the turn is kept the store is whole.
LEMMA TurnIsWhole ==
  ASSUME NEW CONSTANT G, NEW CONSTANT L, Turn(G, L)
  PROVE  StoreIsWhole
BY DEF Turn, StoreIsWhole, Absent, Hollow, Wholes, Whole

-----------------------------------------------------------------------------
(* The jobs *)

\* What legal commands write: a job in the trash remembers where it came from.
FlagsFit(job) ==
  /\ job.status = "deleted" <=> job.before # "none"
  /\ job.before \notin {"deleted", "archived"}
JobMaps == UNION {[S -> Job] : S \in SUBSET Ids}
Sound == {m \in JobMaps : \A i \in DOMAIN m : FlagsFit(m[i])}

\* A job as JobLifecycle sees it, in a map of jobs.
PhaseIn(m, i) == PhaseOf(IF i \in DOMAIN m THEN m[i].status ELSE "none")
KeptIn(m, i) == IF i \in DOMAIN m THEN PhaseOf(m[i].before) ELSE "none"

\* The moves of one job: its phase and what it remembers, before and after.
Moves(a, ka, b, kb) ==
  \/ /\ kb = ka
     /\ \/ b = a
        \/ a = "none" /\ b = "queued"
        \/ a \in {"queued", "work", "waiting", "over", "archived"} /\ b = "work"
        \/ a = "work" /\ b = "waiting"
        \/ a \in {"queued", "work", "waiting", "over"} /\ b = "draining"
        \/ a \in {"queued", "work", "draining", "archived"} /\ b = "over"
        \/ a = "over" /\ b = "archived"
  \/ a \notin {"none", "trash", "archived"} /\ b = "trash" /\ kb = a
  \/ a = "trash" /\ b = ka /\ kb = "none"

AnswerFits(old, new) ==
  old.answer # new.answer =>
    old.status \in {"waiting_approval", "waiting_input"} /\ new.status = "running"

\* What one text on disk may be followed by.
OneMoves(m, n) == \E i \in Ids :
  /\ Moves(PhaseIn(m, i), KeptIn(m, i), PhaseIn(n, i), KeptIn(n, i))
  /\ \A k \in Ids \ {i} : PhaseIn(n, k) = PhaseIn(m, k) /\ KeptIn(n, k) = KeptIn(m, k)
SomeVanish(m, n) == \E gone \in SUBSET Ids :
  /\ \A i \in gone : PhaseIn(m, i) = "trash"
  /\ \A i \in Ids :
       /\ PhaseIn(n, i) = IF i \in gone THEN "none" ELSE PhaseIn(m, i)
       /\ KeptIn(n, i) = IF i \in gone THEN "none" ELSE KeptIn(m, i)
JobStep(m, n) ==
  /\ OneMoves(m, n) \/ SomeVanish(m, n)
  /\ \A i \in DOMAIN m \cap DOMAIN n : AnswerFits(m[i], n[i])

\* The maps that may follow each other on disk.
Leads == {x \in Sound \X Sound : JobStep(x[1], x[2])}

-----------------------------------------------------------------------------
(* One job *)

\* A legal transition keeps a job sound and is a move of the lifecycle.
LEMMA TransitionMoves ==
  ASSUME NEW job \in Job, FlagsFit(job), NEW target \in Status, CanMove(job, target)
  PROVE  /\ Moved(job, target) \in Job /\ FlagsFit(Moved(job, target))
         /\ Moved(job, target).answer = job.answer
         /\ Moves(PhaseOf(job.status), PhaseOf(job.before),
                  PhaseOf(Moved(job, target).status), PhaseOf(Moved(job, target).before))
<1> DEFINE next == Moved(job, target)
<1>1. job.status \in Status /\ target \in Successors(job.status)
  BY DEF Job, CanMove
<1>2. next \in Job /\ next.status = target /\ next.before = job.before
      /\ next.answer = job.answer
  BY DEF Job, Moved
<1>3. job.status # "deleted" /\ target # "deleted"
  BY <1>1 DEF Successors, Status, ActiveStatus, TerminalStatus
<1>4. FlagsFit(next)
  BY <1>2, <1>3 DEF FlagsFit
<1>5. Moves(PhaseOf(job.status), PhaseOf(job.before), PhaseOf(target), PhaseOf(job.before))
  BY <1>1 DEF Successors, Status, ActiveStatus, TerminalStatus, PhaseOf, Moves
<1> QED  BY <1>2, <1>4, <1>5

\* So are both halves of a cancellation.
LEMMA CancelMoves ==
  ASSUME NEW job \in Job, FlagsFit(job), job.status \in ActiveStatus
  PROVE  LET draining == Moved(job, "cancelling")
             ended == Moved(job, "cancelled")
         IN /\ draining \in Job /\ FlagsFit(draining) /\ draining.answer = job.answer
            /\ ended \in Job /\ FlagsFit(ended) /\ ended.answer = job.answer
            /\ Moves(PhaseOf(job.status), PhaseOf(job.before),
                     PhaseOf(draining.status), PhaseOf(draining.before))
            /\ Moves(PhaseOf(draining.status), PhaseOf(draining.before),
                     PhaseOf(ended.status), PhaseOf(ended.before))
            /\ job.status = "cancelling" =>
                 Moves(PhaseOf(job.status), PhaseOf(job.before),
                       PhaseOf(ended.status), PhaseOf(ended.before))
<1> DEFINE draining == Moved(job, "cancelling")
           ended == Moved(job, "cancelled")
<1>1. draining \in Job /\ draining.status = "cancelling" /\ draining.before = job.before
      /\ draining.answer = job.answer
  BY DEF Job, Moved, Status, ActiveStatus
<1>2. ended \in Job /\ ended.status = "cancelled" /\ ended.before = job.before
      /\ ended.answer = job.answer
  BY DEF Job, Moved, Status, TerminalStatus
<1>3. job.status # "deleted"
  BY DEF ActiveStatus
<1>4. FlagsFit(draining) /\ FlagsFit(ended)
  BY <1>1, <1>2, <1>3 DEF FlagsFit
<1>5. Moves(PhaseOf(job.status), PhaseOf(job.before), "draining", PhaseOf(job.before))
  BY DEF ActiveStatus, PhaseOf, Moves
<1>6. Moves("draining", PhaseOf(job.before), "over", PhaseOf(job.before))
  BY DEF Moves
<1>7. PhaseOf("cancelling") = "draining" /\ PhaseOf("cancelled") = "over"
  BY DEF PhaseOf
<1> QED  BY <1>1, <1>2, <1>4, <1>5, <1>6, <1>7

\* Into the trash and out of it.
LEMMA TrashMoves ==
  ASSUME NEW job \in Job, FlagsFit(job)
  PROVE  /\ job.status \notin {"deleted", "archived"} =>
              /\ Trashed(job) \in Job /\ FlagsFit(Trashed(job))
              /\ Trashed(job).answer = job.answer
              /\ Moves(PhaseOf(job.status), PhaseOf(job.before),
                       PhaseOf(Trashed(job).status), PhaseOf(Trashed(job).before))
         /\ job.status = "deleted" =>
              /\ Untrashed(job) \in Job /\ FlagsFit(Untrashed(job))
              /\ Untrashed(job).answer = job.answer
              /\ Moves(PhaseOf(job.status), PhaseOf(job.before),
                       PhaseOf(Untrashed(job).status), PhaseOf(Untrashed(job).before))
<1>1. /\ job.status \in Status /\ job.before \in Status \cup {"none"}
      /\ job.status = "deleted" <=> job.before # "none"
      /\ job.before \notin {"deleted", "archived"}
  BY DEF Job, FlagsFit
<1>2. ASSUME job.status \notin {"deleted", "archived"}
      PROVE  /\ Trashed(job) \in Job /\ FlagsFit(Trashed(job))
             /\ Trashed(job).answer = job.answer
             /\ Moves(PhaseOf(job.status), PhaseOf(job.before),
                      PhaseOf(Trashed(job).status), PhaseOf(Trashed(job).before))
  <2> DEFINE next == Trashed(job)
  <2>1. /\ next \in Job /\ next.status = "deleted" /\ next.before = job.status
        /\ next.answer = job.answer
    BY DEF Job, Trashed, Status, TerminalStatus
  <2>2. job.status # "none"
    BY <1>1 DEF Status, ActiveStatus, TerminalStatus
  <2>3. FlagsFit(next)
    BY <1>2, <2>1, <2>2 DEF FlagsFit
  <2>4. PhaseOf("deleted") = "trash"
    BY DEF PhaseOf
  <2>5. PhaseOf(job.status) \notin {"none", "trash", "archived"}
    BY <1>1, <1>2 DEF PhaseOf, Status, ActiveStatus, TerminalStatus
  <2>6. Moves(PhaseOf(job.status), PhaseOf(job.before), "trash", PhaseOf(job.status))
    BY <2>5 DEF Moves
  <2> QED  BY <2>1, <2>3, <2>4, <2>6
<1>3. ASSUME job.status = "deleted"
      PROVE  /\ Untrashed(job) \in Job /\ FlagsFit(Untrashed(job))
             /\ Untrashed(job).answer = job.answer
             /\ Moves(PhaseOf(job.status), PhaseOf(job.before),
                      PhaseOf(Untrashed(job).status), PhaseOf(Untrashed(job).before))
  <2> DEFINE next == Untrashed(job)
  <2>1. /\ next \in Job /\ next.status = job.before /\ next.before = "none"
        /\ next.answer = job.answer
    BY <1>1, <1>3 DEF Job, Untrashed, Status
  <2>2. FlagsFit(next)
    BY <1>1, <1>3, <2>1 DEF FlagsFit
  <2>3. PhaseOf("deleted") = "trash" /\ PhaseOf("none") = "none"
    BY DEF PhaseOf
  <2>4. Moves("trash", PhaseOf(job.before), PhaseOf(job.before), "none")
    BY DEF Moves
  <2> QED  BY <1>3, <2>1, <2>2, <2>3, <2>4
<1> QED  BY <1>2, <1>3

-----------------------------------------------------------------------------
(* Maps of jobs *)

\* A map with one job set is sound when that job is.
LEMMA PutSound ==
  ASSUME NEW m \in Sound, NEW i \in Ids, NEW job \in Job, FlagsFit(job)
  PROVE  /\ Put(m, i, job) \in Sound
         /\ DOMAIN Put(m, i, job) = DOMAIN m \cup {i}
         /\ Put(m, i, job)[i] = job
         /\ \A k \in DOMAIN m \ {i} : Put(m, i, job)[k] = m[k]
<1> DEFINE n == Put(m, i, job)
<1>1. PICK S \in SUBSET Ids : m \in [S -> Job]
  BY DEF Sound, JobMaps
<1>2. DOMAIN m = S /\ \A k \in S : m[k] \in Job /\ FlagsFit(m[k])
  BY <1>1 DEF Sound
<1>3. n = [k \in S \cup {i} |-> IF k = i THEN job ELSE m[k]]
  BY <1>2 DEF Put
<1>4. n \in [S \cup {i} -> Job]
  BY <1>2, <1>3
<1>5. n \in JobMaps
  BY <1>1, <1>4 DEF JobMaps
<1>6. \A k \in DOMAIN n : FlagsFit(n[k])
  BY <1>2, <1>3
<1> QED  BY <1>2, <1>3, <1>5, <1>6 DEF Sound

\* Two maps that differ in one job, which made a move.
LEMMA PutStep ==
  ASSUME NEW m, NEW n, NEW i \in Ids, DOMAIN n = DOMAIN m \cup {i},
         \A k \in DOMAIN m \ {i} : n[k] = m[k],
         i \in DOMAIN m => AnswerFits(m[i], n[i]),
         Moves(PhaseIn(m, i), KeptIn(m, i), PhaseOf(n[i].status), PhaseOf(n[i].before))
  PROVE  JobStep(m, n)
<1>1. PhaseIn(n, i) = PhaseOf(n[i].status) /\ KeptIn(n, i) = PhaseOf(n[i].before)
  BY DEF PhaseIn, KeptIn
<1>2. \A k \in Ids \ {i} : PhaseIn(n, k) = PhaseIn(m, k) /\ KeptIn(n, k) = KeptIn(m, k)
  BY DEF PhaseIn, KeptIn
<1>3. OneMoves(m, n)
  BY <1>1, <1>2 DEF OneMoves
<1>4. \A k \in DOMAIN m \cap DOMAIN n : AnswerFits(m[k], n[k])
  BY DEF AnswerFits
<1> QED  BY <1>3, <1>4 DEF JobStep

\* The texts of a command that writes once, and of one that writes twice.
LEMMA OnePlanned ==
  ASSUME NEW m \in Sound, NEW n \in Sound, JobStep(m, n)
  PROVE  Follows(Sound, Leads, m, <<n>>)
<1>1. <<n>> \in Seq(Sound) /\ Len(<<n>>) = 1 /\ <<n>>[1] = n
  OBVIOUS
<1>2. <<m, n>> \in Leads
  BY DEF Leads
<1> QED  BY <1>1, <1>2 DEF Follows

\* Likewise for the two writes of a cancellation.
LEMMA TwoPlanned ==
  ASSUME NEW m \in Sound, NEW n \in Sound, NEW o \in Sound, JobStep(m, n), JobStep(n, o)
  PROVE  Follows(Sound, Leads, m, <<n, o>>)
<1>1. /\ <<n, o>> \in Seq(Sound) /\ Len(<<n, o>>) = 2
      /\ <<n, o>>[1] = n /\ <<n, o>>[2] = o
  OBVIOUS
<1>2. <<m, n>> \in Leads /\ <<n, o>> \in Leads
  BY DEF Leads
<1> QED  BY <1>1, <1>2 DEF Follows

\* A command that sets one job and writes once.
LEMMA OneText ==
  ASSUME NEW m \in Sound, NEW i \in Ids, NEW job \in Job, FlagsFit(job),
         i \in DOMAIN m => AnswerFits(m[i], job),
         Moves(PhaseIn(m, i), KeptIn(m, i), PhaseOf(job.status), PhaseOf(job.before))
  PROVE  Follows(Sound, Leads, m, <<Put(m, i, job)>>)
<1> DEFINE n == Put(m, i, job)
<1>1. /\ n \in Sound /\ DOMAIN n = DOMAIN m \cup {i} /\ n[i] = job
      /\ \A k \in DOMAIN m \ {i} : n[k] = m[k]
  BY PutSound, ZenonT(60)
<1> HIDE DEF n
<1>2. JobStep(m, n)
  BY <1>1, PutStep
<1> QED  BY <1>1, <1>2, OnePlanned DEF n

\* What a process that opens the store finds is a sound map, the one on disk.
LEMMA OpenedSound ==
  ASSUME FileInv(Sound), NEW jobs \in Opened
  PROVE  jobs \in Sound /\ jobs = Stored
<1>1. CASE disk.store.state = "whole"
  <2>1. Stored \in Sound /\ Stored = disk.store.text
    BY <1>1, StoredGood
  <2> QED  BY <1>1, <2>1 DEF Opened
<1>2. CASE disk.store.state # "whole"
  <2>1. jobs = <<>> /\ jobs = Stored
    BY <1>2 DEF Opened, Stored
  <2>2. <<>> \in [1 .. 0 -> Job] /\ 1 .. 0 = {}
    BY EmptySeq, LenProperties
  <2>3. <<>> \in [{} -> Job] /\ DOMAIN <<>> = {}
    BY <2>2
  <2>4. <<>> \in JobMaps
    BY <2>3 DEF JobMaps
  <2> QED  BY <2>1, <2>3, <2>4 DEF Sound
<1> QED  BY <1>1, <1>2

\* A job of a sound map.
LEMMA JobOfMap ==
  ASSUME NEW m \in Sound, NEW i \in DOMAIN m
  PROVE  /\ m[i] \in Job /\ FlagsFit(m[i]) /\ i \in Ids
         /\ PhaseIn(m, i) = PhaseOf(m[i].status) /\ KeptIn(m, i) = PhaseOf(m[i].before)
<1>1. PICK S \in SUBSET Ids : m \in [S -> Job]
  BY DEF Sound, JobMaps
<1>2. S = DOMAIN m /\ m[i] \in Job /\ i \in Ids
  BY <1>1
<1> QED  BY <1>2 DEF Sound, PhaseIn, KeptIn

\* A command that sets a job of the map to one that keeps or may have its answer.
LEMMA SetOne ==
  ASSUME NEW m \in Sound, NEW i \in DOMAIN m, NEW job \in Job, FlagsFit(job),
         AnswerFits(m[i], job),
         Moves(PhaseOf(m[i].status), PhaseOf(m[i].before),
               PhaseOf(job.status), PhaseOf(job.before))
  PROVE  Follows(Sound, Leads, m, <<Put(m, i, job)>>)
BY JobOfMap, OneText

\* What a command plans, from the map on disk.
Planned(p) == \E texts \in Seq(Sound) :
  Follows(Sound, Leads, Stored, texts) /\ Begin(p, texts)

\* Every command plans sound maps, each of which may follow the one before.
LEMMA CommandPlans ==
  ASSUME FileInv(Sound), NEW p \in Procs, Command(p)
  PROVE  Planned(p)
<1>1. PICK jobs \in Opened :
        \/ Purge(p, jobs)
        \/ \E i \in Ids :
             \/ Create(p, jobs, i) \/ Transition(p, jobs, i) \/ SetTitle(p, jobs, i)
             \/ Approve(p, jobs, i) \/ ProvideInput(p, jobs, i) \/ Cancel(p, jobs, i)
             \/ Resume(p, jobs, i) \/ Delete(p, jobs, i) \/ Restore(p, jobs, i)
  BY DEF Command
<1>2. jobs \in Sound /\ jobs = Stored
  BY OpenedSound
<1>3. ASSUME NEW texts, Follows(Sound, Leads, jobs, texts), Begin(p, texts)
      PROVE  Planned(p)
  BY <1>2, <1>3 DEF Planned, Follows
<1>4. CASE Purge(p, jobs)
  <2>1. PICK gone \in SUBSET {i \in DOMAIN jobs : jobs[i].status = "deleted"} :
          Begin(p, <<[i \in DOMAIN jobs \ gone |-> jobs[i]]>>)
    BY <1>4 DEF Purge, Run
  <2> DEFINE left == [i \in DOMAIN jobs \ gone |-> jobs[i]]
  <2>2. PICK S \in SUBSET Ids : jobs \in [S -> Job]
    BY <1>2 DEF Sound, JobMaps
  <2>3. DOMAIN jobs = S /\ gone \subseteq S
    BY <2>1, <2>2
  <2>4. left \in [S \ gone -> Job]
    BY <2>2, <2>3
  <2>5. left \in Sound
    BY <1>2, <2>2, <2>3, <2>4 DEF Sound, JobMaps
  <2>6. /\ \A i \in gone : PhaseIn(jobs, i) = "trash"
        /\ \A i \in Ids :
             /\ PhaseIn(left, i) = IF i \in gone THEN "none" ELSE PhaseIn(jobs, i)
             /\ KeptIn(left, i) = IF i \in gone THEN "none" ELSE KeptIn(jobs, i)
    <3>1. ASSUME NEW i \in gone PROVE PhaseIn(jobs, i) = "trash"
      <4>1. i \in DOMAIN jobs /\ jobs[i].status = "deleted"
        BY <2>1
      <4> QED  BY <4>1 DEF PhaseIn, PhaseOf
    <3>2. ASSUME NEW i \in Ids
          PROVE  /\ PhaseIn(left, i) = IF i \in gone THEN "none" ELSE PhaseIn(jobs, i)
                 /\ KeptIn(left, i) = IF i \in gone THEN "none" ELSE KeptIn(jobs, i)
      <4>1. PhaseOf("none") = "none"
        BY DEF PhaseOf
      <4>2. DOMAIN left = DOMAIN jobs \ gone
        OBVIOUS
      <4>3. CASE i \in DOMAIN left
        BY <4>2, <4>3 DEF PhaseIn, KeptIn
      <4>4. CASE i \notin DOMAIN left
        BY <4>1, <4>2, <4>4 DEF PhaseIn, KeptIn
      <4> QED  BY <4>3, <4>4
    <3> QED  BY <3>1, <3>2
  <2>7. gone \in SUBSET Ids
    BY <2>3
  <2>8. SomeVanish(jobs, left)
    BY <2>6, <2>7 DEF SomeVanish
  <2>9. \A i \in DOMAIN jobs \cap DOMAIN left : AnswerFits(jobs[i], left[i])
    BY DEF AnswerFits
  <2> HIDE DEF left
  <2>10. Follows(Sound, Leads, jobs, <<left>>)
    BY <1>2, <2>5, <2>8, <2>9, OnePlanned DEF JobStep
  <2> QED  BY <1>3, <2>1, <2>10 DEF left
<1>5. ASSUME NEW i \in Ids, Create(p, jobs, i)
      PROVE  Planned(p)
  <2>1. i \notin DOMAIN jobs /\ Begin(p, <<Put(jobs, i, NewJob)>>)
    BY <1>5 DEF Create, Run
  <2>2. NewJob \in Job /\ NewJob.status = "queued" /\ NewJob.before = "none"
    BY DEF NewJob, Job, Status, ActiveStatus
  <2>3. FlagsFit(NewJob)
    BY <2>2 DEF FlagsFit
  <2>4. PhaseIn(jobs, i) = "none" /\ KeptIn(jobs, i) = "none"
    BY <2>1 DEF PhaseIn, KeptIn, PhaseOf
  <2>5. PhaseOf("queued") = "queued" /\ PhaseOf("none") = "none"
    BY DEF PhaseOf
  <2>6. Moves("none", "none", "queued", "none")
    BY DEF Moves
  <2>7. Moves(PhaseIn(jobs, i), KeptIn(jobs, i), PhaseOf(NewJob.status), PhaseOf(NewJob.before))
    BY <2>2, <2>4, <2>5, <2>6
  <2>8. Follows(Sound, Leads, jobs, <<Put(jobs, i, NewJob)>>)
    BY <1>2, <2>1, <2>2, <2>3, <2>7, OneText
  <2> QED  BY <1>3, <2>1, <2>8
<1>6. ASSUME NEW i \in DOMAIN jobs, NEW job \in Job, FlagsFit(job),
             AnswerFits(jobs[i], job),
             Moves(PhaseOf(jobs[i].status), PhaseOf(jobs[i].before),
                   PhaseOf(job.status), PhaseOf(job.before)),
             Begin(p, <<Put(jobs, i, job)>>)
      PROVE  Planned(p)
  BY <1>2, <1>3, <1>6, SetOne
<1>7. \A i \in DOMAIN jobs : jobs[i] \in Job /\ FlagsFit(jobs[i]) /\ i \in Ids
  BY <1>2, JobOfMap
<1>8. ASSUME NEW i \in Ids, NEW target \in Status, i \in DOMAIN jobs,
             CanMove(jobs[i], target), Begin(p, <<Put(jobs, i, Moved(jobs[i], target))>>)
      PROVE  Planned(p)
  <2>1. AnswerFits(jobs[i], Moved(jobs[i], target))
    BY <1>7, <1>8, TransitionMoves DEF AnswerFits
  <2> QED  BY <1>6, <1>7, <1>8, <2>1, TransitionMoves
<1>9. ASSUME NEW i \in Ids, Transition(p, jobs, i)
      PROVE  Planned(p)
  BY <1>8, <1>9 DEF Transition, Run, InUse
<1>10. ASSUME NEW i \in Ids, SetTitle(p, jobs, i)
       PROVE  Planned(p)
  <2>1. PICK titled \in BOOLEAN : i \in DOMAIN jobs
             /\ Begin(p, <<Put(jobs, i, [jobs[i] EXCEPT !.titled = titled])>>)
    BY <1>10 DEF SetTitle, Run, InUse
  <2> DEFINE job == [jobs[i] EXCEPT !.titled = titled]
  <2>2. /\ job \in Job /\ job.status = jobs[i].status /\ job.before = jobs[i].before
        /\ job.answer = jobs[i].answer
    BY <1>7, <2>1 DEF Job
  <2> HIDE DEF job
  <2>3. FlagsFit(job) /\ AnswerFits(jobs[i], job)
    BY <1>7, <2>1, <2>2 DEF FlagsFit, AnswerFits
  <2>4. Moves(PhaseOf(jobs[i].status), PhaseOf(jobs[i].before),
              PhaseOf(job.status), PhaseOf(job.before))
    BY <2>2 DEF Moves
  <2> QED  BY <1>6, <2>1, <2>2, <2>3, <2>4 DEF job
<1>11. ASSUME NEW i \in Ids, NEW command, NEW waiting, NEW reply,
              waiting \in {"waiting_approval", "waiting_input"},
              reply \in {"approved", "rejected", "given"},
              Answer(p, jobs, i, command, waiting, reply)
       PROVE  Planned(p)
  <2> DEFINE answered == [jobs[i] EXCEPT !.answer = reply]
             job == Moved(answered, "running")
  <2>1. /\ i \in DOMAIN jobs /\ jobs[i].status = waiting /\ CanMove(jobs[i], "running")
        /\ Begin(p, <<Put(jobs, i, job)>>)
    BY <1>11 DEF Answer, Run, InUse
  <2>2. /\ answered \in Job /\ answered.status = jobs[i].status
        /\ answered.before = jobs[i].before
    BY <1>7, <1>11, <2>1 DEF Job
  <2>3. FlagsFit(answered) /\ CanMove(answered, "running") /\ "running" \in Status
    BY <1>7, <2>1, <2>2 DEF FlagsFit, CanMove, Status, ActiveStatus
  <2>4. job.status = "running"
    BY <2>2 DEF Moved, Job
  <2>5. AnswerFits(jobs[i], job)
    BY <1>11, <2>1, <2>4 DEF AnswerFits
  <2>6. /\ job \in Job /\ FlagsFit(job)
        /\ Moves(PhaseOf(answered.status), PhaseOf(answered.before),
                 PhaseOf(job.status), PhaseOf(job.before))
    BY <2>2, <2>3, TransitionMoves
  <2> HIDE DEF answered, job
  <2> QED  BY <1>6, <2>1, <2>2, <2>5, <2>6
<1>12. ASSUME NEW i \in Ids, Approve(p, jobs, i) \/ ProvideInput(p, jobs, i)
       PROVE  Planned(p)
  BY <1>11, <1>12 DEF Approve, ProvideInput
<1>13. ASSUME NEW i \in Ids, Cancel(p, jobs, i)
       PROVE  Planned(p)
  <2> DEFINE first == Moved(jobs[i], "cancelling")
             last == Moved(jobs[i], "cancelled")
             draining == Put(jobs, i, first)
             ended == Put(jobs, i, last)
  <2>1. /\ i \in DOMAIN jobs /\ jobs[i].status \in ActiveStatus
        /\ Begin(p, IF jobs[i].status = "cancelling" THEN <<ended>> ELSE <<draining, ended>>)
    BY <1>13 DEF Cancel, Run, InUse
  <2>2. /\ first \in Job /\ FlagsFit(first) /\ first.answer = jobs[i].answer
        /\ last \in Job /\ FlagsFit(last) /\ last.answer = jobs[i].answer
        /\ Moves(PhaseOf(jobs[i].status), PhaseOf(jobs[i].before),
                 PhaseOf(first.status), PhaseOf(first.before))
        /\ Moves(PhaseOf(first.status), PhaseOf(first.before),
                 PhaseOf(last.status), PhaseOf(last.before))
        /\ jobs[i].status = "cancelling" =>
             Moves(PhaseOf(jobs[i].status), PhaseOf(jobs[i].before),
                   PhaseOf(last.status), PhaseOf(last.before))
    BY <1>7, <2>1, CancelMoves
  <2> HIDE DEF first, last
  <2>3. CASE jobs[i].status = "cancelling"
    <3>1. AnswerFits(jobs[i], last)
      BY <2>2 DEF AnswerFits
    <3>2. Begin(p, <<Put(jobs, i, last)>>)
      BY <2>1, <2>3
    <3> QED  BY <1>6, <2>1, <2>2, <2>3, <3>1, <3>2
  <2>4. CASE jobs[i].status # "cancelling"
    <3>0. /\ first \in Job /\ FlagsFit(first)
          /\ last \in Job /\ FlagsFit(last)
      BY <2>2
    <3>1. /\ draining \in Sound /\ DOMAIN draining = DOMAIN jobs \cup {i}
          /\ draining[i] = first /\ \A k \in DOMAIN jobs \ {i} : draining[k] = jobs[k]
      BY <1>2, <3>0, PutSound, ZenonT(60)
    <3>2. /\ ended \in Sound /\ DOMAIN ended = DOMAIN jobs \cup {i}
          /\ ended[i] = last /\ \A k \in DOMAIN jobs \ {i} : ended[k] = jobs[k]
      BY <1>2, <3>0, PutSound, ZenonT(60)
    <3> HIDE DEF draining, ended
    <3>3. PhaseIn(jobs, i) = PhaseOf(jobs[i].status) /\ KeptIn(jobs, i) = PhaseOf(jobs[i].before)
      BY <1>2, <2>1, JobOfMap
    <3>4. PhaseIn(draining, i) = PhaseOf(first.status) /\ KeptIn(draining, i) = PhaseOf(first.before)
      BY <3>1, JobOfMap
    <3>5. AnswerFits(jobs[i], draining[i]) /\ AnswerFits(draining[i], ended[i])
      BY <2>2, <3>1, <3>2 DEF AnswerFits
    <3>6. Moves(PhaseIn(jobs, i), KeptIn(jobs, i),
                PhaseOf(draining[i].status), PhaseOf(draining[i].before))
      BY <2>2, <3>1, <3>3
    <3>7. JobStep(jobs, draining)
      BY <3>1, <3>5, <3>6, PutStep
    <3>8. JobStep(draining, ended)
      <4>1. /\ DOMAIN ended = DOMAIN draining \cup {i}
            /\ \A k \in DOMAIN draining \ {i} : ended[k] = draining[k]
        BY <3>1, <3>2
      <4>2. Moves(PhaseIn(draining, i), KeptIn(draining, i),
                  PhaseOf(ended[i].status), PhaseOf(ended[i].before))
        BY <2>2, <3>2, <3>4
      <4> QED  BY <3>5, <4>1, <4>2, PutStep
    <3>9. Follows(Sound, Leads, jobs, <<draining, ended>>)
      BY <1>2, <3>1, <3>2, <3>7, <3>8, TwoPlanned
    <3> QED  BY <1>3, <2>1, <2>4, <3>9
  <2> QED  BY <2>3, <2>4
<1>14. ASSUME NEW i \in Ids, Resume(p, jobs, i)
       PROVE  Planned(p)
  <2>1. ResumeTarget(jobs[i].status) \in Status
    BY DEF ResumeTarget, Status, ActiveStatus
  <2> QED  BY <1>8, <1>14, <2>1 DEF Resume, Run, InUse
<1>15. ASSUME NEW i \in Ids, Delete(p, jobs, i)
       PROVE  Planned(p)
  <2>1. /\ i \in DOMAIN jobs /\ jobs[i].status \notin {"deleted", "archived"}
        /\ Begin(p, <<Put(jobs, i, Trashed(jobs[i]))>>)
    BY <1>15 DEF Delete, Run, InUse
  <2>2. AnswerFits(jobs[i], Trashed(jobs[i]))
    BY <1>7, <2>1, TrashMoves DEF AnswerFits
  <2> QED  BY <1>6, <1>7, <2>1, <2>2, TrashMoves
<1>16. ASSUME NEW i \in Ids, Restore(p, jobs, i)
       PROVE  Planned(p)
  <2>1. /\ i \in DOMAIN jobs /\ jobs[i].status = "deleted"
        /\ Begin(p, <<Put(jobs, i, Untrashed(jobs[i]))>>)
    BY <1>16 DEF Restore, Run
  <2>2. AnswerFits(jobs[i], Untrashed(jobs[i]))
    BY <1>7, <2>1, TrashMoves DEF AnswerFits
  <2> QED  BY <1>6, <1>7, <2>1, <2>2, TrashMoves
<1> QED  BY <1>1, <1>4, <1>5, <1>9, <1>10, <1>12, <1>13, <1>14, <1>15, <1>16

-----------------------------------------------------------------------------
(* What is on disk, however processes overlap and die *)

\* Every reachable store is sound.
LEMMA SpecFileInv == Spec => []FileInv(Sound)
<1>1. Init => FileInv(Sound)
  BY FilesBegin DEF Init
<1>2. FileInv(Sound) /\ [Next]_fileVars => FileInv(Sound)'
  <2> SUFFICES ASSUME FileInv(Sound), [Next]_fileVars PROVE FileInv(Sound)'
    OBVIOUS
  <2>1. ASSUME NEW p \in Procs, Command(p) PROVE FileInv(Sound)'
    <3>1. PICK texts \in Seq(Sound) : Follows(Sound, Leads, Stored, texts) /\ Begin(p, texts)
      BY <2>1, CommandPlans DEF Planned
    <3>2. Len(texts) \in 1 .. 2
      BY <3>1 DEF Follows
    <3> QED  BY <3>1, <3>2, BeginKeeps
  <2>2. ASSUME NEW p \in Procs, Persist(p) PROVE FileInv(Sound)'
    BY <2>2, PersistKeeps
  <2>3. CASE UNCHANGED fileVars
    BY <2>3, FilesRest
  <2> QED  BY <2>1, <2>2, <2>3 DEF Next
<1> QED  BY <1>1, <1>2, PTL DEF Spec

\* Files, plans and program counters keep their types, and every text is a map of jobs.
THEOREM TypeCorrect == Spec => []TypeOK
<1>1. FileInv(Sound) => TypeOK
  <2> SUFFICES ASSUME FileInv(Sound) PROVE TypeOK
    OBVIOUS
  <2>1. ASSUME NEW m \in Sound PROVE IsJobMap(m)
    <3>1. PICK S \in SUBSET Ids : m \in [S -> Job]
      BY DEF Sound, JobMaps
    <3> QED  BY <3>1 DEF IsJobMap
  <2> QED  BY <2>1, FilesTyped DEF TypeOK
<1> QED  BY <1>1, SpecFileInv, PTL

\* TrashKnowsOrigin: whatever a lost update or a crash brings back, the store on disk
\* is one that legal commands wrote, so restore never falls back to "queued".
THEOREM TrashRemembers == Spec => []TrashKnowsOrigin
<1>1. FileInv(Sound) => TrashKnowsOrigin
  <2> SUFFICES ASSUME FileInv(Sound), NEW i \in DOMAIN Stored
               PROVE  /\ Stored[i].status = "deleted" <=> Stored[i].before # "none"
                      /\ Stored[i].before \notin {"deleted", "archived"}
    BY DEF TrashKnowsOrigin
  <2>1. disk.store.state = "whole"
    <3>1. ASSUME disk.store.state # "whole" PROVE FALSE
      <4>1. Stored = <<>>
        BY <3>1 DEF Stored
      <4>2. DOMAIN Stored = {}
        BY <4>1, EmptySeq, LenProperties
      <4> QED  BY <4>2
    <3> QED  BY <3>1
  <2>2. Stored \in Sound
    BY <2>1, StoredGood
  <2> QED  BY <2>2 DEF Sound, FlagsFit
<1> QED  BY <1>1, SpecFileInv, PTL

-----------------------------------------------------------------------------
(* Commands that do not overlap *)

\* What holds of a store whose commands do not overlap, and of its steps.
LEMMA SerialSteps ==
  ASSUME Serial
  PROVE  /\ Spec => []Turn(Sound, Leads)
         /\ Spec => [][Stored' = Stored \/ JobStep(Stored, Stored')]_fileVars
<1>1. Init => Turn(Sound, Leads)
  BY FilesBegin DEF Init
<1>2. ASSUME FileInv(Sound), Turn(Sound, Leads), [Next]_fileVars
      PROVE  Turn(Sound, Leads)' /\ (Stored' = Stored \/ JobStep(Stored, Stored'))
  <2>1. ASSUME NEW p \in Procs, Command(p)
        PROVE  Turn(Sound, Leads)' /\ Stored' = Stored
    <3>1. PICK texts \in Seq(Sound) : Follows(Sound, Leads, Stored, texts) /\ Begin(p, texts)
      BY <1>2, <2>1, CommandPlans DEF Planned
    <3> QED  BY <1>2, <3>1, BeginTurn
  <2>2. ASSUME NEW p \in Procs, Persist(p)
        PROVE  Turn(Sound, Leads)' /\ (Stored' = Stored \/ <<Stored, Stored'>> \in Leads)
    BY <1>2, <2>2, PersistTurn
  <2>3. <<Stored, Stored'>> \in Leads => JobStep(Stored, Stored')
    BY DEF Leads
  <2>4. CASE UNCHANGED fileVars
    BY <1>2, <2>4, FilesRest
  <2> QED  BY <1>2, <2>1, <2>2, <2>3, <2>4 DEF Next
<1> QED  BY <1>1, <1>2, SpecFileInv, PTL DEF Spec

\* StoreIsWhole: a crash anywhere in a command leaves a complete file.
THEOREM CrashLeavesWhole == ASSUME Serial PROVE Spec => []StoreIsWhole
<1>1. Turn(Sound, Leads) => StoreIsWhole
  BY TurnIsWhole
<1> QED  BY <1>1, SerialSteps, PTL

\* AnswerResumes: an answer reaches the disk with the return of the job to work.
THEOREM AnswersComeWithWork == ASSUME Serial PROVE Spec => AnswerResumes
<1>1. [Stored' = Stored \/ JobStep(Stored, Stored')]_fileVars => [AnswerStep]_fileVars
  <2> SUFFICES ASSUME Stored' = Stored \/ JobStep(Stored, Stored') PROVE AnswerStep
    OBVIOUS
  <2> QED  BY DEF AnswerStep, JobStep, AnswerFits
<1> QED  BY <1>1, SerialSteps, PTL DEF AnswerResumes

-----------------------------------------------------------------------------
(* The refinement *)

Life == INSTANCE JobLifecycle WITH phase <- Phases, kept <- Kept

\* Phases and Kept are those of the map on disk.
LEMMA PhasesAre ==
  /\ Phases = [i \in Ids |-> PhaseIn(Stored, i)]
  /\ Kept = [i \in Ids |-> KeptIn(Stored, i)]
BY DEF Phases, Kept, PhaseIn, KeptIn, StatusOf

\* They are so after a step.
LEMMA PhasesWillBe ==
  /\ Phases' = [i \in Ids |-> PhaseIn(Stored', i)]
  /\ Kept' = [i \in Ids |-> KeptIn(Stored', i)]
BY DEF Phases, Kept, PhaseIn, KeptIn, StatusOf

\* A text that may follow is a step of the lifecycle, or none.
LEMMA StepIsLife ==
  ASSUME JobStep(Stored, Stored')
  PROVE  Life!Next \/ UNCHANGED <<Phases, Kept>>
<1>1. CASE OneMoves(Stored, Stored')
  <2>1. PICK i \in Ids :
          /\ Moves(PhaseIn(Stored, i), KeptIn(Stored, i), PhaseIn(Stored', i), KeptIn(Stored', i))
          /\ \A k \in Ids \ {i} : /\ PhaseIn(Stored', k) = PhaseIn(Stored, k)
                                  /\ KeptIn(Stored', k) = KeptIn(Stored, k)
    BY <1>1 DEF OneMoves
  <2> DEFINE a == PhaseIn(Stored, i)
             ka == KeptIn(Stored, i)
             b == PhaseIn(Stored', i)
             kb == KeptIn(Stored', i)
  <2>2. Phases[i] = a /\ Kept[i] = ka
    BY PhasesAre
  <2>3. Phases' = [Phases EXCEPT ![i] = b] /\ Kept' = [Kept EXCEPT ![i] = kb]
    BY <2>1, PhasesAre, PhasesWillBe
  <2>4. kb = ka => Kept' = Kept
    BY <2>2, <2>3, PhasesAre
  <2>5. b = a => Phases' = Phases
    BY <2>2, <2>3, PhasesAre
  <2>6. Moves(a, ka, b, kb)
    BY <2>1
  <2> HIDE DEF a, ka, b, kb
  <2>7. CASE kb = ka /\ b = a
    BY <2>4, <2>5, <2>7
  <2>8. CASE kb = ka /\ a = "none" /\ b = "queued"
    BY <2>2, <2>3, <2>4, <2>8 DEF Life!Next, Life!Accept, Life!Move
  <2>9. CASE kb = ka /\ a \in {"queued", "work", "waiting", "over", "archived"} /\ b = "work"
    BY <2>2, <2>3, <2>4, <2>9 DEF Life!Next, Life!Work, Life!Move
  <2>10. CASE kb = ka /\ a = "work" /\ b = "waiting"
    BY <2>2, <2>3, <2>4, <2>10 DEF Life!Next, Life!Wait, Life!Move
  <2>11. CASE kb = ka /\ a \in {"queued", "work", "waiting", "over"} /\ b = "draining"
    BY <2>2, <2>3, <2>4, <2>11 DEF Life!Next, Life!Drain, Life!Move
  <2>12. CASE kb = ka /\ a \in {"queued", "work", "draining", "archived"} /\ b = "over"
    BY <2>2, <2>3, <2>4, <2>12 DEF Life!Next, Life!End, Life!Move
  <2>13. CASE kb = ka /\ a = "over" /\ b = "archived"
    BY <2>2, <2>3, <2>4, <2>13 DEF Life!Next, Life!Archive, Life!Move
  <2>14. CASE a \notin {"none", "trash", "archived"} /\ b = "trash" /\ kb = a
    BY <2>2, <2>3, <2>14 DEF Life!Next, Life!Trash
  <2>15. CASE a = "trash" /\ b = ka /\ kb = "none"
    BY <2>2, <2>3, <2>15 DEF Life!Next, Life!Untrash
  <2> QED  BY <2>6, <2>7, <2>8, <2>9, <2>10, <2>11, <2>12, <2>13, <2>14, <2>15 DEF Moves
<1>2. CASE SomeVanish(Stored, Stored')
  <2>1. PICK gone \in SUBSET Ids :
          /\ \A i \in gone : PhaseIn(Stored, i) = "trash"
          /\ \A i \in Ids :
               /\ PhaseIn(Stored', i) = IF i \in gone THEN "none" ELSE PhaseIn(Stored, i)
               /\ KeptIn(Stored', i) = IF i \in gone THEN "none" ELSE KeptIn(Stored, i)
    BY <1>2 DEF SomeVanish
  <2>2. \A i \in gone : Phases[i] = "trash"
    BY <2>1, PhasesAre
  <2>3. Phases' = [i \in Ids |-> IF i \in gone THEN "none" ELSE Phases[i]]
    BY <2>1, PhasesAre, PhasesWillBe
  <2>4. Kept' = [i \in Ids |-> IF i \in gone THEN "none" ELSE Kept[i]]
    BY <2>1, PhasesAre, PhasesWillBe
  <2>5. Life!Purge(gone)
    BY <2>2, <2>3, <2>4 DEF Life!Purge
  <2> QED  BY <2>5 DEF Life!Next
<1> QED  BY <1>1, <1>2 DEF JobStep

\* Commands that do not overlap, each of which may die anywhere, take the jobs only
\* through the phases of JobLifecycle, and lose none.
THEOREM JobsImplementLifecycle == ASSUME Serial PROVE Spec => Life!Spec
<1>1. Init => Life!Init
  <2> SUFFICES ASSUME Init PROVE Life!Init
    OBVIOUS
  <2>1. Stored = <<>>
    BY DEF Init, FileInit, Stored, Absent, Hollow
  <2>2. DOMAIN Stored = {}
    BY <2>1, EmptySeq, LenProperties
  <2>3. \A i \in Ids : PhaseIn(Stored, i) = "none" /\ KeptIn(Stored, i) = "none"
    BY <2>2 DEF PhaseIn, KeptIn, PhaseOf
  <2> QED  BY <2>3, PhasesAre DEF Life!Init
<1>2. [Stored' = Stored \/ JobStep(Stored, Stored')]_fileVars => [Life!Next]_(Life!vars)
  <2> SUFFICES ASSUME [Stored' = Stored \/ JobStep(Stored, Stored')]_fileVars
               PROVE  Life!Next \/ UNCHANGED <<Phases, Kept>>
    BY DEF Life!vars
  <2>1. CASE JobStep(Stored, Stored')
    BY <2>1, StepIsLife
  <2>2. CASE Stored' = Stored
    BY <2>2 DEF Phases, Kept, StatusOf
  <2>3. CASE UNCHANGED fileVars
    BY <2>3 DEF fileVars, Phases, Kept, StatusOf, Stored
  <2> QED  BY <2>1, <2>2, <2>3
<1> QED  BY <1>1, <1>2, SerialSteps, PTL DEF Spec, Life!Spec

-----------------------------------------------------------------------------
(* The goal runs: RunStore keeps them in such a file too *)

Goals == INSTANCE RunStore

\* What its commands write: a run that ended, and no other, has a time of completion.
Ended(run) == run.completed <=> run.status \in Goals!Terminal
RunMaps == UNION {[S -> Goals!Run] : S \in SUBSET Runs}
Honest == {m \in RunMaps : \A r \in DOMAIN m : Ended(m[r])}

\* One that is on disk stays there.
Grows == {x \in Honest \X Honest : DOMAIN x[1] \subseteq DOMAIN x[2]}

\* Its files are those of the jobs under another name.
LEMMA GoalFiles ==
  /\ Goals!Init <=> FileInit
  /\ Goals!fileVars = fileVars
  /\ Goals!Opened = Stored
  /\ Goals!FileTypeOK <=> FileTypeOK
  /\ Goals!Texts = Texts
  /\ Goals!StoreIsWhole <=> StoreIsWhole
  /\ \A p \in Procs : \A texts : Goals!Begin(p, texts) <=> Begin(p, texts)
  /\ \A p \in Procs : Goals!Persist(p) <=> Persist(p)
<1>1. /\ Goals!Absent = Absent /\ Goals!Blank = Blank /\ Goals!Torn = Torn
      /\ \A text : Goals!Whole(text) = Whole(text)
  BY DEF Goals!Absent, Goals!Blank, Goals!Torn, Goals!Whole, Goals!Hollow,
         Absent, Blank, Torn, Whole, Hollow
<1>2. Goals!Init <=> FileInit
  BY <1>1 DEF Goals!Init, Goals!FileInit, FileInit
<1>3. Goals!fileVars = fileVars /\ Goals!Opened = Stored /\ Goals!Texts = Texts
  BY DEF Goals!fileVars, fileVars, Goals!Opened, Stored, Goals!Texts, Texts
<1>4. Goals!FileTypeOK <=> FileTypeOK
  BY <1>1 DEF Goals!FileTypeOK, FileTypeOK
<1>5. Goals!StoreIsWhole <=> StoreIsWhole
  BY DEF Goals!StoreIsWhole, StoreIsWhole
<1>6. \A p \in Procs : \A texts : Goals!Begin(p, texts) <=> Begin(p, texts)
  BY DEF Goals!Begin, Begin
<1>7. ASSUME NEW p \in Procs PROVE Goals!Persist(p) <=> Persist(p)
  <2>1. \A content : Goals!Fill(p, content) <=> Fill(p, content)
    BY DEF Goals!Fill, Fill
  <2>2. Goals!Exit(p) <=> Exit(p)
    BY DEF Goals!Exit, Exit
  <2>3. Goals!Truncate(p) <=> Truncate(p)
    BY <1>1 DEF Goals!Truncate, Truncate
  <2>4. \A old, text : Goals!Overwrite(old, text) = Overwrite(old, text)
    BY <1>1 DEF Goals!Overwrite, Overwrite
  <2>5. Goals!Write(p) <=> Write(p)
    BY <2>1, <2>4, Zenon DEF Goals!Write, Write
  <2>6. \A name : Goals!Renamed(name) = Renamed(name)
    BY DEF Goals!Renamed, Renamed
  <2>7. [q \in Procs |-> Goals!Renamed(fd[q])] = [q \in Procs |-> Renamed(fd[q])]
    BY <2>6
  <2>8. Goals!Rename(p) <=> Rename(p)
    BY <1>1, <2>2, <2>7, Zenon DEF Goals!Rename, Rename
  <2>9. Goals!RenameFails(p) <=> RenameFails(p)
    BY <1>1, <2>2 DEF Goals!RenameFails, RenameFails
  <2>10. Goals!Crash(p) <=> Crash(p)
    BY <1>1, <2>1, <2>2 DEF Goals!Crash, Crash
  <2> QED  BY <2>3, <2>5, <2>8, <2>9, <2>10 DEF Goals!Persist, Persist
<1> QED  BY <1>2, <1>3, <1>4, <1>5, <1>6, <1>7

\* A map with one run set to an honest one is honest, and lacks none of the others.
LEMMA PutHonest ==
  ASSUME NEW m \in Honest, NEW r \in Runs, NEW run \in Goals!Run, Ended(run)
  PROVE  Follows(Honest, Grows, m, <<Goals!Put(m, r, run)>>)
<1> DEFINE n == Goals!Put(m, r, run)
<1>1. PICK S \in SUBSET Runs : m \in [S -> Goals!Run]
  BY DEF Honest, RunMaps
<1>2. DOMAIN m = S /\ \A k \in S : m[k] \in Goals!Run /\ Ended(m[k])
  BY <1>1 DEF Honest
<1>3. n = [k \in S \cup {r} |-> IF k = r THEN run ELSE m[k]]
  BY <1>2 DEF Goals!Put
<1>4. n \in [S \cup {r} -> Goals!Run] /\ DOMAIN m \subseteq DOMAIN n
  BY <1>2, <1>3
<1>5. n \in Honest
  <2>1. n \in RunMaps
    BY <1>1, <1>4 DEF RunMaps
  <2>2. \A k \in DOMAIN n : Ended(n[k])
    BY <1>2, <1>3
  <2> QED  BY <2>1, <2>2 DEF Honest
<1> HIDE DEF n
<1>6. <<m, n>> \in Grows
  BY <1>4, <1>5 DEF Grows
<1>7. <<n>> \in Seq(Honest) /\ Len(<<n>>) = 1 /\ <<n>>[1] = n
  BY <1>5
<1>8. Follows(Honest, Grows, m, <<n>>)
  BY <1>6, <1>7 DEF Follows
<1> QED  BY <1>8 DEF n

\* Every command plans one honest map, with the runs that are on disk.
LEMMA GoalCommandPlans ==
  ASSUME FileInv(Honest), NEW p \in Procs, Goals!Command(p)
  PROVE  \E texts \in Seq(Honest) :
           Follows(Honest, Grows, Stored, texts) /\ Begin(p, texts)
<1>1. Stored \in Honest
  <2>1. CASE disk.store.state = "whole"
    BY <2>1, StoredGood
  <2>2. CASE disk.store.state # "whole"
    <3>1. <<>> \in [{} -> Goals!Run] /\ DOMAIN <<>> = {}
      <4>1. <<>> \in [1 .. 0 -> Goals!Run] /\ 1 .. 0 = {}
        BY EmptySeq, LenProperties
      <4> QED  BY <4>1
    <3>2. <<>> \in RunMaps
      BY <3>1 DEF RunMaps
    <3> QED  BY <2>2, <3>1, <3>2 DEF Stored, Honest
  <2> QED  BY <2>1, <2>2
<1>2. ASSUME NEW r \in Runs, NEW run \in Goals!Run, Ended(run),
             Goals!Begin(p, <<Goals!Put(Stored, r, run)>>)
      PROVE  \E texts \in Seq(Honest) :
               Follows(Honest, Grows, Stored, texts) /\ Begin(p, texts)
  <2> DEFINE texts == <<Goals!Put(Stored, r, run)>>
  <2>1. Follows(Honest, Grows, Stored, texts)
    BY <1>1, <1>2, PutHonest
  <2>2. Begin(p, texts)
    BY <1>2, GoalFiles
  <2> HIDE DEF texts
  <2> QED  BY <2>1, <2>2 DEF Follows
<1>3. PICK r \in Runs : \/ Goals!Record(p, r) \/ Goals!Cancel(p, r)
                        \/ Goals!Resume(p, r) \/ Goals!Update(p, r)
  BY DEF Goals!Command
<1>4. r \in DOMAIN Stored => Stored[r] \in Goals!Run
  BY <1>1 DEF Honest, RunMaps
<1>5. CASE Goals!Record(p, r)
  <2>1. Goals!NewRun \in Goals!Run /\ Ended(Goals!NewRun)
    BY DEF Goals!NewRun, Goals!Run, Goals!Status, Goals!Terminal, Ended
  <2> QED  BY <1>2, <1>5, <2>1, GoalFiles DEF Goals!Record
<1>6. CASE Goals!Cancel(p, r)
  <2> DEFINE run == [Stored[r] EXCEPT !.status = "cancelled", !.completed = TRUE]
  <2>1. r \in DOMAIN Stored /\ Goals!Begin(p, <<Goals!Put(Stored, r, run)>>)
    BY <1>6, GoalFiles DEF Goals!Cancel
  <2>2. run \in Goals!Run /\ run.status = "cancelled" /\ run.completed = TRUE
    BY <1>4, <2>1 DEF Goals!Run, Goals!Status, Goals!Terminal
  <2>3. Ended(run)
    BY <2>2 DEF Ended, Goals!Terminal
  <2> QED  BY <1>2, <2>1, <2>2, <2>3
<1>7. CASE Goals!Resume(p, r)
  <2> DEFINE run == [Stored[r] EXCEPT !.status = "starting", !.completed = FALSE]
  <2>1. r \in DOMAIN Stored /\ Goals!Begin(p, <<Goals!Put(Stored, r, run)>>)
    BY <1>7, GoalFiles DEF Goals!Resume
  <2>2. run \in Goals!Run /\ run.status = "starting" /\ run.completed = FALSE
    BY <1>4, <2>1 DEF Goals!Run, Goals!Status
  <2>3. Ended(run)
    BY <2>2 DEF Ended, Goals!Terminal
  <2> QED  BY <1>2, <2>1, <2>2, <2>3
<1>8. CASE Goals!Update(p, r)
  <2>1. PICK status \in Goals!Status :
          Goals!Begin(p, <<Goals!Put(Stored, r,
            [status |-> status, session |-> TRUE, completed |-> status \in Goals!Terminal])>>)
    BY <1>8, GoalFiles DEF Goals!Update
  <2> DEFINE run == [status |-> status, session |-> TRUE,
                     completed |-> status \in Goals!Terminal]
  <2>2. (status \in Goals!Terminal) \in BOOLEAN
    OBVIOUS
  <2>3. run \in Goals!Run
    BY <2>2, Zenon DEF Goals!Run
  <2>4. Ended(run)
    BY Zenon DEF Ended
  <2> QED  BY <1>2, <2>1, <2>3, <2>4
<1> QED  BY <1>3, <1>5, <1>6, <1>7, <1>8

\* Every reachable store of runs is honest.
LEMMA GoalFileInv == Goals!Spec => []FileInv(Honest)
<1>1. Goals!Init => FileInv(Honest)
  BY GoalFiles, FilesBegin
<1>2. FileInv(Honest) /\ [Goals!Next]_(Goals!fileVars) => FileInv(Honest)'
  <2> SUFFICES ASSUME FileInv(Honest), [Goals!Next]_(Goals!fileVars) PROVE FileInv(Honest)'
    OBVIOUS
  <2>1. ASSUME NEW p \in Procs, Goals!Command(p) PROVE FileInv(Honest)'
    <3>1. PICK texts \in Seq(Honest) : Follows(Honest, Grows, Stored, texts) /\ Begin(p, texts)
      BY <2>1, GoalCommandPlans
    <3>2. Len(texts) \in 1 .. 2
      BY <3>1 DEF Follows
    <3> QED  BY <3>1, <3>2, BeginKeeps
  <2>2. ASSUME NEW p \in Procs, Goals!Persist(p) PROVE FileInv(Honest)'
    BY <2>2, GoalFiles, PersistKeeps
  <2>3. CASE UNCHANGED Goals!fileVars
    BY <2>3, FilesRest DEF Goals!fileVars, fileVars
  <2> QED  BY <2>1, <2>2, <2>3 DEF Goals!Next
<1> QED  BY <1>1, <1>2, PTL DEF Goals!Spec

\* Files and plans keep their types, and every text is a map of runs.
THEOREM GoalsTypeCorrect == Goals!Spec => []Goals!TypeOK
<1>1. FileInv(Honest) => Goals!TypeOK
  <2> SUFFICES ASSUME FileInv(Honest) PROVE Goals!TypeOK
    OBVIOUS
  <2>1. ASSUME NEW m \in Honest
        PROVE  DOMAIN m \subseteq Runs /\ \A r \in DOMAIN m : m[r] \in Goals!Run
    <3>1. PICK S \in SUBSET Runs : m \in [S -> Goals!Run]
      BY DEF Honest, RunMaps
    <3> QED  BY <3>1
  <2> QED  BY <2>1, FilesTyped, GoalFiles DEF Goals!TypeOK
<1> QED  BY <1>1, GoalFileInv, PTL

\* CompletedIsTerminal: a run has a time of completion exactly while its status is
\* final, whatever processes overwrite and wherever they die.
THEOREM CompletionIsHonest == Goals!Spec => []Goals!CompletedIsTerminal
<1>1. FileInv(Honest) => Goals!CompletedIsTerminal
  <2> SUFFICES ASSUME FileInv(Honest), NEW r \in DOMAIN Stored
               PROVE  Stored[r].completed <=> Stored[r].status \in Goals!Terminal
    BY GoalFiles DEF Goals!CompletedIsTerminal
  <2>1. disk.store.state = "whole"
    <3>1. ASSUME disk.store.state # "whole" PROVE FALSE
      <4>1. Stored = <<>>
        BY <3>1 DEF Stored
      <4>2. DOMAIN Stored = {}
        BY <4>1, EmptySeq, LenProperties
      <4> QED  BY <4>2
    <3> QED  BY <3>1
  <2>2. Stored \in Honest
    BY <2>1, StoredGood
  <2> QED  BY <2>2 DEF Honest, Ended
<1> QED  BY <1>1, GoalFileInv, PTL

\* What holds of the runs while commands do not overlap, and of each step.
LEMMA GoalSteps ==
  ASSUME Serial
  PROVE  /\ Goals!Spec => []Turn(Honest, Grows)
         /\ Goals!Spec => [][DOMAIN Stored \subseteq DOMAIN Stored']_(Goals!fileVars)
<1>1. Goals!Init => Turn(Honest, Grows)
  BY GoalFiles, FilesBegin
<1>2. ASSUME FileInv(Honest), Turn(Honest, Grows), [Goals!Next]_(Goals!fileVars)
      PROVE  Turn(Honest, Grows)' /\ DOMAIN Stored \subseteq DOMAIN Stored'
  <2>1. ASSUME NEW p \in Procs, Goals!Command(p)
        PROVE  Turn(Honest, Grows)' /\ Stored' = Stored
    <3>1. PICK texts \in Seq(Honest) : Follows(Honest, Grows, Stored, texts) /\ Begin(p, texts)
      BY <1>2, <2>1, GoalCommandPlans
    <3> QED  BY <1>2, <3>1, BeginTurn
  <2>2. ASSUME NEW p \in Procs, Goals!Persist(p)
        PROVE  Turn(Honest, Grows)' /\ (Stored' = Stored \/ <<Stored, Stored'>> \in Grows)
    BY <1>2, <2>2, GoalFiles, PersistTurn
  <2>3. <<Stored, Stored'>> \in Grows => DOMAIN Stored \subseteq DOMAIN Stored'
    BY DEF Grows
  <2>4. CASE UNCHANGED Goals!fileVars
    BY <1>2, <2>4, FilesRest DEF Goals!fileVars, fileVars
  <2> QED  BY <1>2, <2>1, <2>2, <2>3, <2>4 DEF Goals!Next
<1> QED  BY <1>1, <1>2, GoalFileInv, PTL DEF Goals!Spec

\* RunsAreKept: while commands do not overlap, a run that is on disk stays there,
\* although a store that cannot be read would count as empty.
THEOREM NoRunIsLost == ASSUME Serial PROVE Goals!Spec => Goals!RunsAreKept
<1>1. [DOMAIN Stored \subseteq DOMAIN Stored']_(Goals!fileVars)
      => [Goals!KeepsRuns]_(Goals!fileVars)
  BY DEF Goals!KeepsRuns, Goals!Opened, Stored
<1> QED  BY <1>1, GoalSteps, PTL DEF Goals!RunsAreKept

\* StoreIsWhole: wherever a command dies, the store of runs is complete.
THEOREM GoalsStayWhole == ASSUME Serial PROVE Goals!Spec => []Goals!StoreIsWhole
<1>1. Turn(Honest, Grows) => Goals!StoreIsWhole
  BY TurnIsWhole, GoalFiles
<1> QED  BY <1>1, GoalSteps, PTL

-----------------------------------------------------------------------------
(* The manifests: ManifestStore keeps each in such a file *)

Manifests == INSTANCE ManifestStore

\* Two manifests that differ in one task at most.
OneDiffers(m, n) == \A s, t \in Tasks : (m[s] # n[s] /\ m[t] # n[t]) => s = t

\* A first manifest, which no other was before, or an update of one task.
Updates == {x \in (Manifests!Manifest \cup {<<>>}) \X Manifests!Manifest :
              x[1] \in Manifests!Manifest => OneDiffers(x[1], x[2])}

\* Its file is that of the jobs under another name.
LEMMA ManifestFiles ==
  /\ Manifests!Init <=> FileInit
  /\ Manifests!fileVars = fileVars
  /\ Manifests!Readable = IF disk.store.state = "whole" THEN {Stored} ELSE {}
  /\ Manifests!FileTypeOK <=> FileTypeOK
  /\ Manifests!Texts = Texts
  /\ Manifests!StoreIsWhole <=> StoreIsWhole
  /\ \A p \in Procs : \A texts : Manifests!Begin(p, texts) <=> Begin(p, texts)
  /\ \A p \in Procs : Manifests!Persist(p) <=> Persist(p)
<1>1. /\ Manifests!Absent = Absent /\ Manifests!Blank = Blank /\ Manifests!Torn = Torn
      /\ \A text : Manifests!Whole(text) = Whole(text)
  BY DEF Manifests!Absent, Manifests!Blank, Manifests!Torn, Manifests!Whole, Manifests!Hollow,
         Absent, Blank, Torn, Whole, Hollow
<1>2. Manifests!Init <=> FileInit
  BY <1>1 DEF Manifests!Init, Manifests!FileInit, FileInit
<1>3. /\ Manifests!fileVars = fileVars /\ Manifests!Texts = Texts
      /\ Manifests!Readable = IF disk.store.state = "whole" THEN {Stored} ELSE {}
  BY DEF Manifests!fileVars, fileVars, Manifests!Readable, Stored, Manifests!Texts, Texts
<1>4. Manifests!FileTypeOK <=> FileTypeOK
  BY <1>1 DEF Manifests!FileTypeOK, FileTypeOK
<1>5. Manifests!StoreIsWhole <=> StoreIsWhole
  BY DEF Manifests!StoreIsWhole, StoreIsWhole
<1>6. \A p \in Procs : \A texts : Manifests!Begin(p, texts) <=> Begin(p, texts)
  BY DEF Manifests!Begin, Begin
<1>7. ASSUME NEW p \in Procs PROVE Manifests!Persist(p) <=> Persist(p)
  <2>1. \A content : Manifests!Fill(p, content) <=> Fill(p, content)
    BY DEF Manifests!Fill, Fill
  <2>2. Manifests!Exit(p) <=> Exit(p)
    BY DEF Manifests!Exit, Exit
  <2>3. Manifests!Truncate(p) <=> Truncate(p)
    BY <1>1 DEF Manifests!Truncate, Truncate
  <2>4. \A old, text : Manifests!Overwrite(old, text) = Overwrite(old, text)
    BY <1>1 DEF Manifests!Overwrite, Overwrite
  <2>5. Manifests!Write(p) <=> Write(p)
    BY <2>1, <2>4, Zenon DEF Manifests!Write, Write
  <2>6. \A name : Manifests!Renamed(name) = Renamed(name)
    BY DEF Manifests!Renamed, Renamed
  <2>7. [q \in Procs |-> Manifests!Renamed(fd[q])] = [q \in Procs |-> Renamed(fd[q])]
    BY <2>6
  <2>8. Manifests!Rename(p) <=> Rename(p)
    BY <1>1, <2>2, <2>7, Zenon DEF Manifests!Rename, Rename
  <2>9. Manifests!RenameFails(p) <=> RenameFails(p)
    BY <1>1, <2>2 DEF Manifests!RenameFails, RenameFails
  <2>10. Manifests!Crash(p) <=> Crash(p)
    BY <1>1, <2>1, <2>2 DEF Manifests!Crash, Crash
  <2> QED  BY <2>3, <2>5, <2>8, <2>9, <2>10 DEF Manifests!Persist, Persist
<1> QED  BY <1>2, <1>3, <1>4, <1>5, <1>6, <1>7

\* A command plans one manifest, the first or one that changes one task.
LEMMA ManifestCommandPlans ==
  ASSUME FileInv(Manifests!Manifest), NEW p \in Procs, Manifests!Command(p)
  PROVE  \E texts \in Seq(Manifests!Manifest) :
           Follows(Manifests!Manifest, Updates, Stored, texts) /\ Begin(p, texts)
<1>1. ASSUME NEW n \in Manifests!Manifest, <<Stored, n>> \in Updates,
             Manifests!Begin(p, <<n>>)
      PROVE  \E texts \in Seq(Manifests!Manifest) :
               Follows(Manifests!Manifest, Updates, Stored, texts) /\ Begin(p, texts)
  <2>1. /\ <<n>> \in Seq(Manifests!Manifest) /\ Len(<<n>>) = 1 /\ <<n>>[1] = n
    OBVIOUS
  <2>2. Follows(Manifests!Manifest, Updates, Stored, <<n>>)
    BY <1>1, <2>1 DEF Follows
  <2>3. Begin(p, <<n>>)
    BY <1>1, ManifestFiles
  <2> QED  BY <2>1, <2>2, <2>3
<1>2. CASE Manifests!Create(p)
  <2> DEFINE n == Manifests!NewManifest
  <2>1. n \in Manifests!Manifest /\ Manifests!Begin(p, <<n>>) /\ Stored = <<>>
    BY <1>2 DEF Manifests!Create, Manifests!NewManifest, Manifests!Manifest,
                Manifests!TaskStatus, Manifests!Absent, Manifests!Hollow, Stored
  <2>2. Stored \in Manifests!Manifest => Tasks = {}
    <3>1. DOMAIN <<>> = {}
      BY EmptySeq, LenProperties
    <3> QED  BY <2>1, <3>1 DEF Manifests!Manifest
  <2>3. Stored \in Manifests!Manifest => OneDiffers(Stored, n)
    BY <2>2 DEF OneDiffers
  <2> HIDE DEF n
  <2>4. <<Stored, n>> \in Updates
    BY <2>1, <2>3 DEF Updates
  <2> QED  BY <1>1, <2>1, <2>4
<1>3. ASSUME NEW task \in Tasks, NEW status \in Manifests!TaskStatus,
             Manifests!Update(p, task, status)
      PROVE  \E texts \in Seq(Manifests!Manifest) :
               Follows(Manifests!Manifest, Updates, Stored, texts) /\ Begin(p, texts)
  <2> DEFINE n == [Stored EXCEPT ![task] = status]
  <2>1. disk.store.state = "whole" /\ Manifests!Begin(p, <<n>>)
    BY <1>3, ManifestFiles DEF Manifests!Update
  <2>2. Stored \in Manifests!Manifest
    BY <2>1, StoredGood
  <2>3. n \in Manifests!Manifest /\ OneDiffers(Stored, n)
    BY <2>2 DEF Manifests!Manifest, OneDiffers
  <2> HIDE DEF n
  <2>4. <<Stored, n>> \in Updates
    BY <2>2, <2>3 DEF Updates
  <2> QED  BY <1>1, <2>1, <2>3, <2>4
<1> QED  BY <1>2, <1>3 DEF Manifests!Command

\* Every text is a manifest, however processes overlap and die.
LEMMA ManifestFileInv == Manifests!Spec => []FileInv(Manifests!Manifest)
<1>1. Manifests!Init => FileInv(Manifests!Manifest)
  BY ManifestFiles, FilesBegin
<1>2. FileInv(Manifests!Manifest) /\ [Manifests!Next]_(Manifests!fileVars)
      => FileInv(Manifests!Manifest)'
  <2> SUFFICES ASSUME FileInv(Manifests!Manifest), [Manifests!Next]_(Manifests!fileVars)
               PROVE  FileInv(Manifests!Manifest)'
    OBVIOUS
  <2>1. ASSUME NEW p \in Procs, Manifests!Command(p) PROVE FileInv(Manifests!Manifest)'
    <3>1. PICK texts \in Seq(Manifests!Manifest) :
            Follows(Manifests!Manifest, Updates, Stored, texts) /\ Begin(p, texts)
      BY <2>1, ManifestCommandPlans
    <3>2. Len(texts) \in 1 .. 2
      BY <3>1 DEF Follows
    <3> QED  BY <3>1, <3>2, BeginKeeps
  <2>2. ASSUME NEW p \in Procs, Manifests!Persist(p) PROVE FileInv(Manifests!Manifest)'
    BY <2>2, ManifestFiles, PersistKeeps
  <2>3. CASE UNCHANGED Manifests!fileVars
    BY <2>3, FilesRest DEF Manifests!fileVars, fileVars
  <2> QED  BY <2>1, <2>2, <2>3 DEF Manifests!Next
<1> QED  BY <1>1, <1>2, PTL DEF Manifests!Spec

\* Files and plans keep their types, and every text has a status for each task.
THEOREM ManifestsTypeCorrect == Manifests!Spec => []Manifests!TypeOK
<1>1. FileInv(Manifests!Manifest) => Manifests!TypeOK
  BY FilesTyped, ManifestFiles DEF Manifests!TypeOK
<1> QED  BY <1>1, ManifestFileInv, PTL

\* What holds of a manifest while updates do not overlap, and of each step.
LEMMA ManifestSteps ==
  ASSUME Serial
  PROVE  /\ Manifests!Spec => []Turn(Manifests!Manifest, Updates)
         /\ Manifests!Spec
              => [][Stored' = Stored \/ <<Stored, Stored'>> \in Updates]_(Manifests!fileVars)
<1>1. Manifests!Init => Turn(Manifests!Manifest, Updates)
  BY ManifestFiles, FilesBegin
<1>2. ASSUME FileInv(Manifests!Manifest), Turn(Manifests!Manifest, Updates),
             [Manifests!Next]_(Manifests!fileVars)
      PROVE  /\ Turn(Manifests!Manifest, Updates)'
             /\ Stored' = Stored \/ <<Stored, Stored'>> \in Updates
  <2>1. ASSUME NEW p \in Procs, Manifests!Command(p)
        PROVE  Turn(Manifests!Manifest, Updates)' /\ Stored' = Stored
    <3>1. PICK texts \in Seq(Manifests!Manifest) :
            Follows(Manifests!Manifest, Updates, Stored, texts) /\ Begin(p, texts)
      BY <1>2, <2>1, ManifestCommandPlans
    <3> QED  BY <1>2, <3>1, BeginTurn
  <2>2. ASSUME NEW p \in Procs, Manifests!Persist(p)
        PROVE  /\ Turn(Manifests!Manifest, Updates)'
               /\ Stored' = Stored \/ <<Stored, Stored'>> \in Updates
    BY <1>2, <2>2, ManifestFiles, PersistTurn
  <2>3. CASE UNCHANGED Manifests!fileVars
    BY <1>2, <2>3, FilesRest DEF Manifests!fileVars, fileVars
  <2> QED  BY <1>2, <2>1, <2>2, <2>3 DEF Manifests!Next
<1> QED  BY <1>1, <1>2, ManifestFileInv, PTL DEF Manifests!Spec

\* OneTaskAtATime: while updates do not overlap, each write changes one task of the
\* manifest and undoes no earlier one, wherever a command dies.
THEOREM UpdatesChangeOneTask == ASSUME Serial PROVE Manifests!Spec => Manifests!OneTaskAtATime
<1>1. /\ FileInv(Manifests!Manifest)
      /\ [Stored' = Stored \/ <<Stored, Stored'>> \in Updates]_(Manifests!fileVars)
      => [Manifests!OneTaskStep]_(Manifests!fileVars)
  <2> SUFFICES ASSUME FileInv(Manifests!Manifest),
                      Stored' = Stored \/ <<Stored, Stored'>> \in Updates
               PROVE  Manifests!OneTaskStep
    OBVIOUS
  <2>1. ASSUME NEW before \in Manifests!Readable, NEW after \in Manifests!Readable'
        PROVE  before = Stored /\ after = Stored' /\ before \in Manifests!Manifest
    <3>1. disk.store.state = "whole" /\ before = Stored /\ after = Stored'
      BY DEF Manifests!Readable, Stored
    <3> QED  BY <3>1, StoredGood
  <2>2. Stored \in Manifests!Manifest => OneDiffers(Stored, Stored')
    BY DEF Updates, OneDiffers
  <2> QED  BY <2>1, <2>2 DEF Manifests!OneTaskStep, OneDiffers
<1> QED  BY <1>1, ManifestSteps, ManifestFileInv, PTL DEF Manifests!OneTaskAtATime

\* StoreIsWhole: wherever a command dies, the manifest is complete.
THEOREM ManifestsStayWhole == ASSUME Serial PROVE Manifests!Spec => []Manifests!StoreIsWhole
<1>1. Turn(Manifests!Manifest, Updates) => Manifests!StoreIsWhole
  BY TurnIsWhole, ManifestFiles
<1> QED  BY <1>1, ManifestSteps, PTL

-----------------------------------------------------------------------------
(* The graph of a manifest: the depth-first search of DependencyGraph says that *)
(* there is a cycle exactly when there is one, for every set of tasks and every *)
(* graph.                                                                       *)

Search == INSTANCE DependencyGraph

FrameType == [node : Search!Nodes, todo : SUBSET Search!Nodes]

\* The dependencies a call has dealt with returned false, but for the one that the
\* next call on the stack is about.
DoneIsVisited(k) == \A d \in Search!DepsOf(stack[k].node) \ stack[k].todo :
  d \in visited \/ (k < Len(stack) /\ d = stack[k + 1].node)

GraphInv ==
  /\ Search!TypeOK
  /\ answer # "searching" \/ \A k \in 1 .. Len(stack) : DoneIsVisited(k)
  /\ \A k \in 1 .. Len(stack) - 1 : stack[k + 1].node \in Search!DepsOf(stack[k].node)
  /\ Tasks \ roots \subseteq visited \cup Search!Visiting
  /\ \A set \in SUBSET Tasks : Search!Deadlocked(set) => set \cap visited = {}
  /\ Search!AnswerIsRight

\* The search has not begun.
LEMMA InitGraphInv == Search!Init => GraphInv
<1> SUFFICES ASSUME Search!Init PROVE GraphInv
  OBVIOUS
<1>1. stack = <<>> /\ Len(stack) = 0 /\ stack \in Seq(FrameType) /\ DOMAIN stack = {}
  BY EmptySeq DEF Search!Init
<1>2. Search!TypeOK
  BY <1>1 DEF Search!Init, Search!TypeOK, FrameType
<1> QED  BY <1>1, <1>2 DEF Search!Init, GraphInv, Search!AnswerIsRight, Search!Visiting

\* Nothing but the answer and the search changes, so there is a cycle or there is not.
LEMMA SameGraph ==
  ASSUME UNCHANGED deps
  PROVE  /\ \A node : Search!DepsOf(node)' = Search!DepsOf(node)
         /\ \A set : Search!Deadlocked(set)' <=> Search!Deadlocked(set)
         /\ Search!HasCycle' <=> Search!HasCycle
BY DEF Search!DepsOf, Search!Deadlocked, Search!HasCycle

\* A dependency that is being visited closes a cycle of the calls from there on.
LEMMA BackEdge ==
  ASSUME GraphInv, stack # <<>>, NEW dep \in Search!Top.todo, dep \in Search!Visiting
  PROVE  Search!HasCycle
<1> DEFINE n == Len(stack)
<1>1. stack \in Seq(FrameType) /\ n \in Nat \ {0} /\ DOMAIN stack = 1 .. n
  <2>1. stack \in Seq(FrameType)
    BY DEF GraphInv, Search!TypeOK, FrameType
  <2> QED  BY <2>1, EmptySeq
<1>n. n \in Nat \ {0} /\ n = Len(stack)
  BY <1>1
<1> HIDE DEF n
<1>2. PICK j \in 1 .. n : stack[j].node = dep
  BY <1>1 DEF Search!Visiting
<1> DEFINE ring == {stack[k].node : k \in j .. n}
<1>3. dep \in Search!DepsOf(stack[n].node)
  BY <1>1 DEF GraphInv, Search!TypeOK, Search!Top
<1>4. ASSUME NEW k \in j .. n PROVE Search!DepsOf(stack[k].node) \cap ring # {}
  <2>1. CASE k = n
    <3>1. j \in j .. n
      BY <1>1, <1>2
    <3> QED  BY <1>2, <1>3, <2>1, <3>1
  <2>2. CASE k # n
    <3>1. k \in 1 .. n - 1 /\ k + 1 \in j .. n
      BY <1>n, <2>2
    <3>2. stack[k + 1].node \in Search!DepsOf(stack[k].node)
      BY <1>n, <3>1 DEF GraphInv
    <3> QED  BY <3>1, <3>2
  <2> QED  BY <2>1, <2>2
<1>5. \A t \in ring : Search!DepsOf(t) \cap ring # {}
  BY <1>4
<1>6. ring \subseteq Tasks
  BY <1>5 DEF Search!DepsOf
<1>7. ring # {}
  <2>1. j \in j .. n
    BY <1>1, <1>2
  <2> QED  BY <2>1
<1>8. ring \in SUBSET Tasks /\ Search!Deadlocked(ring)
  BY <1>5, <1>6, <1>7 DEF Search!Deadlocked
<1> HIDE DEF ring
<1> QED  BY <1>8 DEF Search!HasCycle

\* The next task is visited, unless it was before.
LEMMA RootStep == GraphInv /\ Search!Root => GraphInv'
<1> SUFFICES ASSUME GraphInv, Search!Root PROVE GraphInv'
  OBVIOUS
<1>1. PICK node \in roots :
        /\ answer = "searching" /\ stack = <<>> /\ roots' = roots \ {node}
        /\ stack' = IF node \in visited THEN <<>> ELSE <<Search!Frame(node)>>
        /\ UNCHANGED <<deps, visited, answer>>
  BY DEF Search!Root
<1>2. /\ node \in Tasks /\ node \in Search!Nodes
      /\ Search!Frame(node) \in FrameType /\ Search!DepsOf(node) \subseteq Search!Nodes
  BY <1>1 DEF GraphInv, Search!TypeOK, Search!Frame, FrameType, Search!DepsOf, Search!Nodes
<1>3. Search!Visiting = {}
  BY <1>1 DEF Search!Visiting
<1>4. CASE node \in visited
  <2>1. stack' = stack /\ Search!Visiting' = {} /\ Len(stack) = 0
    BY <1>1, <1>3, <1>4 DEF Search!Visiting
  <2> QED  BY <1>1, <1>3, <1>4, <2>1, SameGraph
           DEF GraphInv, Search!TypeOK, Search!AnswerIsRight, DoneIsVisited
<1>5. CASE node \notin visited
  <2>1. /\ stack' = <<Search!Frame(node)>> /\ Len(stack') = 1 /\ stack'[1] = Search!Frame(node)
        /\ stack' \in Seq(FrameType) /\ DOMAIN stack' = 1 .. 1
    BY <1>1, <1>2, <1>5
  <2>2. Search!Frame(node).node = node /\ Search!Frame(node).todo = Search!DepsOf(node)
    BY DEF Search!Frame
  <2>3. Search!Visiting' = {node}
    BY <2>1, <2>2 DEF Search!Visiting
  <2>4. Search!TypeOK'
    BY <1>1, <2>1, <2>2, SameGraph DEF GraphInv, Search!TypeOK, FrameType
  <2>5. \A k \in 1 .. Len(stack') : DoneIsVisited(k)'
    BY <2>1, <2>2, <1>1, SameGraph DEF DoneIsVisited
  <2> QED  BY <1>1, <1>3, <2>1, <2>3, <2>4, <2>5, SameGraph DEF GraphInv, Search!AnswerIsRight
<1> QED  BY <1>4, <1>5

\* No task is left: every one was visited, and none of them is on a cycle.
LEMMA NoRootStep == GraphInv /\ Search!NoRootLeft => GraphInv'
<1> SUFFICES ASSUME GraphInv, Search!NoRootLeft PROVE GraphInv'
  OBVIOUS
<1>1. /\ Search!Visiting = {} /\ roots = {} /\ answer' = "acyclic"
      /\ UNCHANGED <<deps, roots, stack, visited>>
  BY DEF Search!NoRootLeft, Search!Visiting
<1>2. Tasks \subseteq visited
  BY <1>1 DEF GraphInv
<1>3. ~Search!HasCycle
  BY <1>2 DEF GraphInv, Search!HasCycle, Search!Deadlocked
<1>4. Search!TypeOK' /\ Search!Visiting' = Search!Visiting
  BY <1>1, SameGraph DEF GraphInv, Search!TypeOK, Search!Visiting
<1> QED  BY <1>1, <1>3, <1>4, SameGraph DEF GraphInv, Search!AnswerIsRight

\* The next dependency closes a cycle, was visited before, or is called.
LEMMA VisitStep == GraphInv /\ Search!Visit => GraphInv'
<1> SUFFICES ASSUME GraphInv, Search!Visit PROVE GraphInv'
  OBVIOUS
<1> DEFINE n == Len(stack)
<1>1. PICK dep \in Search!Nodes :
        /\ answer = "searching" /\ stack # <<>> /\ dep \in Search!Top.todo
        /\ LET rest == [stack EXCEPT ![n].todo = @ \ {dep}]
           IN \/ dep \in Search!Visiting /\ answer' = "cyclic" /\ UNCHANGED stack
              \/ dep \in visited /\ stack' = rest /\ UNCHANGED answer
              \/ stack' = Append(rest, Search!Frame(dep)) /\ UNCHANGED answer
        /\ UNCHANGED <<deps, roots, visited>>
  BY DEF Search!Visit
<1> DEFINE rest == [stack EXCEPT ![n].todo = @ \ {dep}]
<1>2. stack \in Seq(FrameType) /\ n \in Nat \ {0} /\ DOMAIN stack = 1 .. n
  <2>1. stack \in Seq(FrameType)
    BY DEF GraphInv, Search!TypeOK, FrameType
  <2> QED  BY <1>1, <2>1, EmptySeq
<1>n. n \in Nat \ {0} /\ n = Len(stack)
  BY <1>2
<1> HIDE DEF n
<1>3. CASE dep \in Search!Visiting /\ answer' = "cyclic" /\ UNCHANGED stack
  <2>1. Search!HasCycle
    BY <1>1, <1>3, BackEdge
  <2>2. Search!TypeOK' /\ Search!Visiting' = Search!Visiting
    BY <1>1, <1>3, SameGraph DEF GraphInv, Search!TypeOK, Search!Visiting
  <2> QED  BY <1>1, <1>3, <2>1, <2>2, SameGraph DEF GraphInv, Search!AnswerIsRight
<1>4. /\ rest \in Seq(FrameType) /\ Len(rest) = n /\ DOMAIN rest = 1 .. n
      /\ \A k \in 1 .. n : rest[k].node = stack[k].node
      /\ \A k \in 1 .. n - 1 : rest[k] = stack[k]
      /\ rest[n].todo = stack[n].todo \ {dep}
  <2>1. stack[n] \in FrameType
    BY <1>2
  <2>2. rest = [stack EXCEPT ![n] = [stack[n] EXCEPT !.todo = @ \ {dep}]]
    OBVIOUS
  <2>3. [stack[n] EXCEPT !.todo = @ \ {dep}] \in FrameType
    BY <2>1 DEF FrameType
  <2> QED  BY <1>2, <2>1, <2>2, <2>3 DEF FrameType
<1>5. \A k \in 1 .. n : stack[k].todo \subseteq Search!DepsOf(stack[k].node)
  BY <1>2 DEF GraphInv, Search!TypeOK
<1>6. \A k \in 1 .. n : rest[k].todo \subseteq Search!DepsOf(rest[k].node)
  BY <1>2, <1>4, <1>5
<1>7. \A k \in 1 .. n - 1 : DoneIsVisited(k)
  BY <1>1, <1>2 DEF GraphInv
<1>8. \A d \in Search!DepsOf(stack[n].node) \ stack[n].todo : d \in visited
  BY <1>1, <1>2 DEF GraphInv, DoneIsVisited
<1> HIDE DEF rest
<1>9. CASE dep \in visited /\ stack' = rest /\ UNCHANGED answer
  <2>1. Search!Visiting' = Search!Visiting
    BY <1>2, <1>4, <1>9 DEF Search!Visiting
  <2>2. Search!TypeOK'
    BY <1>1, <1>4, <1>6, <1>9, SameGraph DEF GraphInv, Search!TypeOK, FrameType
  <2>3. ASSUME NEW k \in 1 .. n PROVE DoneIsVisited(k)'
    <3>1. CASE k = n
      BY <1>1, <1>4, <1>8, <1>9, <3>1, SameGraph DEF DoneIsVisited
    <3>2. CASE k # n
      <4>1. k \in 1 .. n - 1 /\ k + 1 \in 1 .. n
        BY <1>2, <3>2
      <4> QED  BY <1>1, <1>4, <1>7, <1>9, <4>1, SameGraph DEF DoneIsVisited
    <3> QED  BY <3>1, <3>2
  <2>4. ASSUME NEW k \in 1 .. n - 1 PROVE stack'[k + 1].node \in Search!DepsOf(stack'[k].node)
    <3>1. k \in 1 .. n /\ k + 1 \in 1 .. n
      BY <1>2
    <3> QED  BY <1>n, <1>4, <1>9, <3>1 DEF GraphInv
  <2> QED  BY <1>1, <1>4, <1>9, <2>1, <2>2, <2>3, <2>4, SameGraph DEF GraphInv, Search!AnswerIsRight
<1>10. CASE stack' = Append(rest, Search!Frame(dep)) /\ UNCHANGED answer
  <2>1. /\ Search!Frame(dep) \in FrameType
        /\ Search!Frame(dep).node = dep /\ Search!Frame(dep).todo = Search!DepsOf(dep)
    BY <1>1 DEF Search!Frame, FrameType, Search!DepsOf, GraphInv, Search!TypeOK
  <2>2. /\ stack' \in Seq(FrameType) /\ Len(stack') = n + 1 /\ stack'[n + 1] = Search!Frame(dep)
        /\ \A k \in 1 .. n : stack'[k] = rest[k]
    BY <1>4, <1>10, <2>1
  <2>3. Search!Visiting' = Search!Visiting \cup {dep}
    <3>1. /\ Search!Visiting' = {stack'[k].node : k \in 1 .. n + 1}
          /\ Search!Visiting = {stack[k].node : k \in 1 .. n}
      BY <1>2, <2>2 DEF Search!Visiting
    <3>2. \A k \in 1 .. n : stack'[k].node = stack[k].node
      BY <1>4, <2>2
    <3>3. stack'[n + 1].node = dep
      BY <2>1, <2>2
    <3>4. \A k \in 1 .. n + 1 : k \in 1 .. n \/ k = n + 1
      BY <1>2
    <3>5. \A k \in 1 .. n : k \in 1 .. n + 1
      BY <1>2
    <3>6. n + 1 \in 1 .. n + 1
      BY <1>2
    <3> QED  BY <3>1, <3>2, <3>3, <3>4, <3>5, <3>6, Zenon
  <2>4. \A k \in 1 .. n + 1 : stack'[k].todo \subseteq Search!DepsOf(stack'[k].node)
    BY <1>2, <1>6, <2>1, <2>2
  <2>5. Search!TypeOK'
    BY <1>1, <1>10, <2>2, <2>4, SameGraph DEF GraphInv, Search!TypeOK, FrameType
  <2>6. ASSUME NEW k \in 1 .. n + 1 PROVE DoneIsVisited(k)'
    <3>1. CASE k = n + 1
      BY <2>1, <2>2, <3>1, SameGraph, <1>1 DEF DoneIsVisited
    <3>2. CASE k = n
      <4>1. stack'[n + 1].node = dep /\ n < Len(stack') /\ n \in 1 .. n
        BY <1>2, <2>1, <2>2
      <4> QED  BY <1>1, <1>4, <1>8, <2>2, <3>2, <4>1, SameGraph DEF DoneIsVisited
    <3>3. CASE k \in 1 .. n - 1
      <4>1. k + 1 \in 1 .. n /\ k \in 1 .. n /\ k < Len(stack') /\ k < n
        BY <1>2, <2>2, <3>3
      <4> QED  BY <1>n, <1>1, <1>4, <1>7, <2>2, <3>3, <4>1, SameGraph DEF DoneIsVisited
    <3> QED  BY <1>2, <3>1, <3>2, <3>3
  <2>7. ASSUME NEW k \in 1 .. n PROVE stack'[k + 1].node \in Search!DepsOf(stack'[k].node)
    <3>1. CASE k = n
      <4>1. n \in 1 .. n /\ dep \in Search!DepsOf(stack[n].node)
        BY <1>1, <1>2, <1>5 DEF Search!Top
      <4> QED  BY <1>4, <2>1, <2>2, <3>1, <4>1
    <3>2. CASE k # n
      <4>1. k \in 1 .. n - 1 /\ k + 1 \in 1 .. n
        BY <1>2, <3>2
      <4> QED  BY <1>n, <1>4, <2>2, <4>1 DEF GraphInv
    <3> QED  BY <3>1, <3>2
  <2> QED  BY <1>1, <1>2, <1>10, <2>2, <2>3, <2>5, <2>6, <2>7, SameGraph
           DEF GraphInv, Search!AnswerIsRight
<1> QED  BY <1>1, <1>3, <1>9, <1>10 DEF rest

\* A call whose dependencies all returned false returns false: no deadlocked set has
\* its node, for it would have one of the dependencies, too.
LEMMA ReturnStep == GraphInv /\ Search!Return => GraphInv'
<1> SUFFICES ASSUME GraphInv, Search!Return PROVE GraphInv'
  OBVIOUS
<1> DEFINE n == Len(stack)
<1>1. /\ answer = "searching" /\ stack # <<>> /\ stack[n].todo = {}
      /\ visited' = visited \cup {stack[n].node} /\ stack' = SubSeq(stack, 1, n - 1)
      /\ UNCHANGED <<deps, roots, answer>>
  BY DEF Search!Return, Search!Top
<1>2. stack \in Seq(FrameType) /\ n \in Nat \ {0} /\ DOMAIN stack = 1 .. n
  <2>1. stack \in Seq(FrameType)
    BY DEF GraphInv, Search!TypeOK, FrameType
  <2> QED  BY <1>1, <2>1, EmptySeq
<1>n. n \in Nat \ {0} /\ n = Len(stack)
  BY <1>2
<1> HIDE DEF n
<1>3. /\ stack' \in Seq(FrameType) /\ Len(stack') = n - 1
      /\ \A k \in 1 .. n - 1 : stack'[k] = stack[k]
  BY <1>1, <1>2, SubSeqProperties
<1>4. n \in 1 .. n /\ stack[n].node \in Search!Nodes
  <2>1. n \in 1 .. n
    BY <1>n
  <2>2. stack[n] \in FrameType
    BY <1>2, <2>1
  <2> QED  BY <2>1, <2>2 DEF FrameType
<1>5. \A d \in Search!DepsOf(stack[n].node) : d \in visited
  BY <1>n, <1>1, <1>4 DEF GraphInv, DoneIsVisited
<1>6. ASSUME NEW set \in SUBSET Tasks, Search!Deadlocked(set) PROVE set \cap visited' = {}
  BY <1>1, <1>5, <1>6 DEF GraphInv, Search!Deadlocked
<1>7. Search!Visiting \subseteq Search!Visiting' \cup {stack[n].node}
  <2>1. /\ Search!Visiting = {stack[k].node : k \in 1 .. n}
        /\ Search!Visiting' = {stack'[k].node : k \in 1 .. n - 1}
    BY <1>2, <1>3 DEF Search!Visiting
  <2>2. \A k \in 1 .. n : k \in 1 .. n - 1 \/ k = n
    BY <1>2
  <2> QED  BY <1>3, <2>1, <2>2
<1>8. Search!TypeOK'
  <2>1. DOMAIN stack' = 1 .. n - 1 /\ \A k \in 1 .. n - 1 : k \in DOMAIN stack
    BY <1>2, <1>3
  <2>2. \A k \in 1 .. n - 1 : stack'[k].todo \subseteq Search!DepsOf(stack'[k].node)
    BY <1>3, <2>1 DEF GraphInv, Search!TypeOK
  <2> QED  BY <1>1, <1>3, <1>4, <2>1, <2>2, SameGraph, SMTT(40) DEF GraphInv, Search!TypeOK, FrameType
<1>9. ASSUME NEW k \in 1 .. n - 1 PROVE DoneIsVisited(k)'
  <2>1. k \in 1 .. n /\ DoneIsVisited(k) /\ k < n
    BY <1>1, <1>2 DEF GraphInv
  <2>2. CASE k = n - 1
    <3>1. k + 1 = n
      BY <1>2, <2>2
    <3> QED  BY <1>1, <1>3, <2>1, <3>1, SameGraph DEF DoneIsVisited
  <2>3. CASE k # n - 1
    <3>1. k + 1 \in 1 .. n - 1 /\ k < n - 1
      BY <1>2, <2>3
    <3> QED  BY <1>1, <1>3, <2>1, <3>1, SameGraph DEF DoneIsVisited
  <2> QED  BY <2>2, <2>3
<1>10. ASSUME NEW k \in 1 .. n - 2 PROVE stack'[k + 1].node \in Search!DepsOf(stack'[k].node)
  <2>1. k \in 1 .. n - 1 /\ k + 1 \in 1 .. n - 1
    BY <1>2
  <2> QED  BY <1>n, <1>3, <2>1 DEF GraphInv
<1>11. \A k \in 1 .. Len(stack') - 1 : k \in 1 .. n - 2
  BY <1>2, <1>3
<1>12. Tasks \ roots' \subseteq visited' \cup Search!Visiting'
  BY <1>1, <1>7 DEF GraphInv
<1> QED  BY <1>1, <1>3, <1>6, <1>8, <1>9, <1>10, <1>11, <1>12, SameGraph
         DEF GraphInv, Search!AnswerIsRight

\* Every step of the search keeps the invariant.
LEMMA NextGraphInv == GraphInv /\ [Search!Next]_(Search!vars) => GraphInv'
<1>1. GraphInv /\ UNCHANGED Search!vars => GraphInv'
  <2> SUFFICES ASSUME GraphInv, UNCHANGED Search!vars PROVE GraphInv'
    OBVIOUS
  <2>1. UNCHANGED <<deps, roots, stack, visited, answer>>
    BY DEF Search!vars
  <2> QED  BY <2>1, SameGraph DEF GraphInv, Search!TypeOK, Search!AnswerIsRight,
                                  DoneIsVisited, Search!Visiting
<1> QED  BY <1>1, RootStep, NoRootStep, VisitStep, ReturnStep DEF Search!Next

\* Every state of a search satisfies the invariant.
LEMMA SpecGraphInv == Search!Spec => []GraphInv
BY InitGraphInv, NextGraphInv, PTL DEF Search!Spec

\* The frames, the visited nodes and the answer keep their types.
THEOREM GraphTypeCorrect == Search!Spec => []Search!TypeOK
<1>1. GraphInv => Search!TypeOK
  BY DEF GraphInv
<1> QED  BY <1>1, SpecGraphInv, PTL

\* has_cycle answers true exactly when some tasks wait for one another in a ring, for
\* every graph and every order of its keys and dependencies (model.rs:417).
THEOREM CyclesAreFound == Search!Spec => []Search!AnswerIsRight
<1>1. GraphInv => Search!AnswerIsRight
  BY DEF GraphInv
<1> QED  BY <1>1, SpecGraphInv, PTL
=============================================================================
