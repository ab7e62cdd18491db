----------------------------- MODULE RunTaskProofs -----------------------------
(***************************************************************************)
(* Proofs about RunTask for every number of sessions, processes, runs and  *)
(* calls: what a session's row says of its calls and of its end.           *)
(***************************************************************************)
EXTENDS RunTask, TLAPS

\* A process has counted no call that it did not make, and the row it holds
\* claims none that no completed run of the session has made.
Held(c) ==
  /\ c.row.tokens <= billed[c.id]
  /\ c.row.turn_count <= billed[c.id] + turned[c.id] + c.turns
  /\ c.acc <= c.made
  /\ c.pc # "complete" => c.turns = 0
Charged ==
  /\ \A i \in Ids : Covered(sessions[i], i)
  /\ \A p \in Procs : ~At(p, "idle") => Held(procs[p])

\* An idle process holds the row of no session.
LEMMA IdleTask == Idle \in Task /\ Idle.pc = "idle" /\ Idle.row = NoRow /\ NoRow \in Row
<1> DEFINE any == CHOOSE i \in Ids : TRUE
<1> HIDE DEF any
<1>1. Idle = [pc |-> "idle", command |-> "none", id |-> any, row |-> NoRow, run |-> 0,
              resume_from_completed |-> FALSE, acc |-> 0, made |-> 0, turns |-> 0]
  BY DEF Idle, any
<1>2. NoRow \in Row
  BY DEF NoRow, Row
<1> QED  BY <1>1, <1>2 DEF Task

\* A process goes on or becomes idle.
LEMMA GoTyped ==
  ASSUME TypeOK, NEW p \in Procs, NEW next \in Task, Go(p, next),
         next.pc # "idle" => next.id \in minted', minted \subseteq minted'
  PROVE  /\ procs' \in [Procs -> Task]
         /\ \A q \in Procs : ~At(q, "idle")' => procs'[q].id \in minted'
<1>1. procs' \in [Procs -> Task]
  BY DEF TypeOK, Go
<1>2. ASSUME NEW q \in Procs, ~At(q, "idle")' PROVE procs'[q].id \in minted'
  BY <1>2 DEF TypeOK, Go, At
<1> QED  BY <1>1, <1>2

\* Nothing has run yet.
LEMMA InitTyped == Init => TypeOK /\ Charged
<1> SUFFICES ASSUME Init PROVE TypeOK /\ Charged
  OBVIOUS
<1>1. \A p \in Procs : procs[p] = Idle
  BY DEF Init
<1>2. TypeOK
  BY <1>1, IdleTask DEF Init, TypeOK, At
<1>3. Charged
  BY <1>1, IdleTask DEF Init, Charged, Covered, At, NoRow
<1> QED  BY <1>2, <1>3

\* Saving a row keeps the types.
LEMMA SaveTyped ==
  ASSUME TypeOK, NEW p \in Procs, NEW row \in Row, Save(p, row)
  PROVE  sessions' \in [Ids -> Row]
BY DEF TypeOK, Save

\* Every step keeps the types.
LEMMA NextTyped == TypeOK /\ [Next]_vars => TypeOK'
<1> SUFFICES ASSUME TypeOK, [Next]_vars PROVE TypeOK'
  OBVIOUS
<1>1. ASSUME NEW p \in Procs, New(p) PROVE TypeOK'
  <2>1. PICK command \in {"run", "dry"}, i \in Ids \ minted :
          /\ minted' = minted \cup {i}
          /\ Go(p, [Idle EXCEPT !.pc = "save", !.command = command, !.id = i, !.row = NewRow,
                      !.run = runs + 1])
    BY <1>1 DEF New
  <2>2. NewRow \in Row /\ runs + 1 \in Nat
    BY DEF NewRow, NoRow, Row, TypeOK
  <2>3. [Idle EXCEPT !.pc = "save", !.command = command, !.id = i, !.row = NewRow,
           !.run = runs + 1] \in Task
    BY <2>2, IdleTask DEF Task
  <2> QED  BY <1>1, <2>1, <2>2, <2>3, GoTyped, IdleTask DEF New, TypeOK, Task
<1>2. ASSUME NEW p \in Procs, Existing(p) PROVE TypeOK'
  <2>1. PICK command \in {"resume", "cancel", "delete"} \cap Commands, i \in minted :
          /\ IF command = "resume" THEN runs < MaxRuns /\ runs' = runs + 1 ELSE UNCHANGED runs
          /\ Go(p, [Idle EXCEPT !.pc = IF command = "delete" THEN "forget" ELSE "load",
                      !.command = command, !.id = i, !.run = runs'])
    BY <1>2 DEF Existing
  <2>2. runs' \in Nat /\ i \in Ids
    BY <2>1 DEF TypeOK
  <2> DEFINE next == [Idle EXCEPT !.pc = IF command = "delete" THEN "forget" ELSE "load",
                         !.command = command, !.id = i, !.run = runs']
  <2>3. next \in Task /\ next.id = i
    BY <2>2, IdleTask DEF Task
  <2>4. UNCHANGED <<sessions, history, minted, ended, billed, turned>>
    BY <1>2 DEF Existing
  <2> HIDE DEF next
  <2>5. Go(p, next)
    BY <2>1 DEF next
  <2>6. procs' \in [Procs -> Task] /\ \A q \in Procs : ~At(q, "idle")' => procs'[q].id \in minted'
    BY <2>3, <2>4, <2>5, GoTyped
  <2> QED  BY <2>2, <2>4, <2>6 DEF TypeOK
<1>3. ASSUME NEW p \in Procs, Done(p), sessions' \in [Ids -> Row],
             UNCHANGED <<minted, runs>>, billed' \in [Ids -> Nat],
             turned' \in [Ids -> Nat], ended' \subseteq Nat,
             history' = history
      PROVE  TypeOK'
  BY <1>3, IdleTask, GoTyped DEF Done, TypeOK
<1>4. ASSUME NEW p \in Procs, ~At(p, "idle"), NEW next \in Task, Go(p, next),
             next.id = procs[p].id, sessions' \in [Ids -> Row],
             history' \in [Ids -> [session : SUBSET Nat, agents : SUBSET Nat]],
             UNCHANGED <<minted, runs, ended, billed, turned>>
      PROVE  TypeOK'
  BY <1>4, GoTyped DEF TypeOK
<1>5. ASSUME NEW p \in Procs, ~At(p, "idle")
      PROVE  procs[p] \in Task /\ procs[p].id \in Ids /\ sessions[procs[p].id] \in Row
  BY <1>5 DEF TypeOK, Task
<1>6. ASSUME NEW p \in Procs, Load(p) PROVE TypeOK'
  <2>1. [sessions[procs[p].id] EXCEPT !.status = "active"] \in Row
    BY <1>5, <1>6 DEF Load, At, Row
  <2>2. [procs[p] EXCEPT !.pc = "resave", !.row = [sessions[procs[p].id] EXCEPT !.status = "active"],
           !.resume_from_completed = sessions[procs[p].id].status = "completed"] \in Task
    BY <1>5, <1>6, <2>1 DEF Load, At, Task
  <2> QED  BY <1>3, <1>4, <1>6, <2>2, ZenonT(60) DEF Load, At, TypeOK, Task
<1>7. ASSUME NEW p \in Procs, SaveActive(p) PROVE TypeOK'
  <2>1. [procs[p] EXCEPT !.pc = IF procs[p].pc = "resave" THEN "save" ELSE "blank"] \in Task
    BY <1>5, <1>7 DEF SaveActive, At, Task
  <2>2. sessions' \in [Ids -> Row]
    BY <1>5, <1>7, SaveTyped DEF SaveActive, At, Task
  <2> QED  BY <1>4, <1>7, <2>1, <2>2 DEF SaveActive, At, TypeOK, Task
<1>8. ASSUME NEW p \in Procs, Blank(p) \/ Forget(p) PROVE TypeOK'
  <2>1. [procs[p] EXCEPT !.pc = IF procs[p].command = "dry" THEN "complete" ELSE "provider"] \in Task
    BY <1>5, <1>8 DEF Blank, Forget, At, Task
  <2>2. [procs[p] EXCEPT !.pc = "drop"] \in Task
    BY <1>5, <1>8 DEF Blank, Forget, At, Task
  <2>3. history' \in [Ids -> [session : SUBSET Nat, agents : SUBSET Nat]]
    BY <1>8, SMTT(40) DEF Blank, Forget, TypeOK
  <2>4. ~At(p, "idle") /\ sessions' \in [Ids -> Row] /\ UNCHANGED <<minted, runs, ended, billed, turned>>
    BY <1>8 DEF Blank, Forget, At, TypeOK
  <2>5. CASE Blank(p)
    BY <1>4, <2>1, <2>3, <2>4, <2>5 DEF Blank, Task
  <2>6. CASE Forget(p)
    BY <1>4, <2>2, <2>3, <2>4, <2>6 DEF Forget, Task
  <2> QED  BY <1>8, <2>5, <2>6
<1>9. ASSUME NEW p \in Procs, Refuse(p) \/ Crash(p) PROVE TypeOK'
  BY <1>3, <1>9 DEF Refuse, Crash, TypeOK
<1>10. ASSUME NEW p \in Procs, Subscribe(p) PROVE TypeOK'
  <2>1. [procs[p] EXCEPT !.pc = "work", !.acc = 0] \in Task
    BY <1>5, <1>10 DEF Subscribe, At, Task
  <2>2. sessions' \in [Ids -> Row]
    BY <1>5, <1>10, SaveTyped DEF Subscribe, At, Task, TypeOK
  <2> QED  BY <1>4, <1>10, <2>1, <2>2 DEF Subscribe, At, TypeOK, Task
<1>11. ASSUME NEW p \in Procs, ModelCall(p) PROVE TypeOK'
  <2>2. /\ procs[p] \in Task /\ procs[p].run \in Nat
        /\ procs[p].acc + 1 \in Nat /\ procs[p].made + 1 \in Nat
    BY DEF TypeOK, Task
  <2>1. [procs[p] EXCEPT !.acc = @ + 1, !.made = @ + 1] \in Task
    BY <2>2 DEF Task
  <2>3. history' \in [Ids -> [session : SUBSET Nat, agents : SUBSET Nat]]
    BY <1>11, <2>2 DEF ModelCall, TypeOK
  <2> QED  BY <1>4, <1>11, <2>1, <2>3 DEF ModelCall, At, TypeOK, Task
<1>12. ASSUME NEW p \in Procs, WorkEnds(p) PROVE TypeOK'
  <2>1. PICK turns \in 0..procs[p].made :
          Go(p, [procs[p] EXCEPT !.pc = "complete", !.row.turn_count = @ + turns, !.turns = turns])
    BY <1>12 DEF WorkEnds
  <2> DEFINE next == [procs[p] EXCEPT !.pc = "complete", !.row.turn_count = @ + turns,
                        !.turns = turns]
  <2>2. procs[p] \in Task /\ turns \in Nat /\ procs[p].row \in Row
    BY <1>5, <1>12, <2>1 DEF WorkEnds, At, Task
  <2>3. procs[p].row.turn_count + turns \in Nat
    BY <2>2 DEF Row
  <2>4. [procs[p].row EXCEPT !.turn_count = @ + turns] \in Row
    BY <2>2, <2>3 DEF Row
  <2>5. next \in Task /\ next.id = procs[p].id
    BY <2>2, <2>4 DEF Task
  <2> QED  BY <1>4, <1>12, <2>1, <2>5 DEF WorkEnds, At, TypeOK
<1>17. ASSUME NEW p \in Procs, WorkFails(p) PROVE TypeOK'
  <2>1. PICK status \in Final : Go(p, [procs[p] EXCEPT !.pc = "fail", !.row.status = status])
    BY <1>17 DEF WorkFails
  <2> DEFINE next == [procs[p] EXCEPT !.pc = "fail", !.row.status = status]
  <2>2. procs[p] \in Task /\ procs[p].row \in Row
    BY <1>5, <1>17 DEF WorkFails, At, Task
  <2>3. [procs[p].row EXCEPT !.status = status] \in Row
    BY <2>2 DEF Row
  <2>4. next \in Task /\ next.id = procs[p].id
    BY <2>2, <2>3 DEF Task
  <2> QED  BY <1>4, <1>17, <2>1, <2>4 DEF WorkFails, At, TypeOK
<1>13. ASSUME NEW p \in Procs, Complete(p) PROVE TypeOK'
  <2>1. [status |-> "completed", tokens |-> procs[p].row.tokens + procs[p].acc,
         turn_count |-> procs[p].row.turn_count + procs[p].acc] \in Row
    BY DEF TypeOK, Task, Row
  <2>2. /\ procs[p].id \in Ids /\ procs[p].run \in Nat
        /\ billed[procs[p].id] + procs[p].made \in Nat
        /\ turned[procs[p].id] + procs[p].turns \in Nat
    BY <1>5, <1>13 DEF Complete, At, TypeOK, Task
  <2>3. billed' \in [Ids -> Nat] /\ turned' \in [Ids -> Nat] /\ ended' \subseteq Nat
    BY <1>13, <2>2 DEF Complete, TypeOK
  <2> QED  BY <1>3, <1>13, <2>1, <2>3, SaveTyped DEF Complete
<1>14. ASSUME NEW p \in Procs, Fail(p) \/ Cancel(p) \/ Drop(p) PROVE TypeOK'
  <2>1. procs[p].row \in Row
    BY DEF TypeOK, Task
  <2>2. sessions' \in [Ids -> Row]
    BY <1>14, <2>1, SaveTyped, IdleTask DEF Fail, Cancel, Drop
  <2> QED  BY <1>3, <1>14, <2>2 DEF Fail, Cancel, Drop, TypeOK
<1>15. ASSUME NEW p \in Procs, LoadToCancel(p) PROVE TypeOK'
  <2>2. [sessions[procs[p].id] EXCEPT !.status = "cancelled"] \in Row
    BY <1>5, <1>15 DEF LoadToCancel, At, Row, Final
  <2>1. [procs[p] EXCEPT !.pc = "cancel",
           !.row = [sessions[procs[p].id] EXCEPT !.status = "cancelled"]] \in Task
    BY <1>5, <1>15, <2>2 DEF LoadToCancel, At, Task
  <2> QED  BY <1>3, <1>4, <1>15, <2>1 DEF LoadToCancel, At, TypeOK, Task
<1>16. CASE UNCHANGED vars
  BY <1>16 DEF vars, TypeOK, At
<1> QED
  BY <1>1, <1>2, <1>6, <1>7, <1>8, <1>9, <1>10, <1>11, <1>12, <1>13, <1>14, <1>15,
     <1>16, <1>17 DEF Next

\* Each variable has its type, however many processes run and wherever they die.
THEOREM TypeCorrect == Spec => []TypeOK
BY InitTyped, NextTyped, PTL DEF Spec

-----------------------------------------------------------------------------
(* A row never counts calls that no completed run has made *)

\* A step of one process that keeps what the row it holds may claim.
LEMMA ChargedStep ==
  ASSUME TypeOK, TypeOK', Charged, NEW p \in Procs,
         \A q \in Procs \ {p} : procs'[q] = procs[q],
         \A i \in Ids : billed[i] <= billed'[i] /\ turned[i] <= turned'[i],
         \A i \in Ids : Covered(sessions[i], i)',
         ~At(p, "idle")' => Held(procs[p])'
  PROVE  Charged'
<1>1. ASSUME NEW q \in Procs, ~At(q, "idle")' PROVE Held(procs[q])'
  <2>1. CASE q = p
    BY <1>1, <2>1
  <2>2. CASE q # p
    <3>1. procs'[q] = procs[q] /\ ~At(q, "idle") /\ procs[q].id \in Ids
      BY <1>1, <2>2 DEF At, TypeOK
    <3>2. /\ procs[q].row.tokens \in Nat /\ procs[q].row.turn_count \in Nat
          /\ procs[q].turns \in Nat
          /\ billed[procs[q].id] \in Nat /\ billed'[procs[q].id] \in Nat
          /\ turned[procs[q].id] \in Nat /\ turned'[procs[q].id] \in Nat
      BY <3>1 DEF TypeOK, Task, Row
    <3> QED  BY <3>1, <3>2 DEF Charged, Held
  <2> QED  BY <2>1, <2>2
<1> QED  BY <1>1 DEF Charged

\* Every step keeps rows from claiming what nobody ran.
LEMMA NextCharged == TypeOK /\ Charged /\ [Next]_vars => Charged'
<1> SUFFICES ASSUME TypeOK, TypeOK', Charged, [Next]_vars PROVE Charged'
  BY NextTyped
<1>1. ASSUME NEW p \in Procs, ~At(p, "idle")
      PROVE  /\ procs[p] \in Task /\ procs[p].id \in Ids
             /\ procs[p].row.tokens \in Nat /\ procs[p].row.turn_count \in Nat
             /\ procs[p].acc \in Nat /\ procs[p].made \in Nat /\ procs[p].turns \in Nat
             /\ Held(procs[p])
  BY <1>1 DEF TypeOK, Task, Row, Charged
<1>2. /\ \A i \in Ids : billed[i] \in Nat /\ turned[i] \in Nat
      /\ \A i \in Ids : sessions[i] \in Row /\ Covered(sessions[i], i)
  BY DEF TypeOK, Charged
<1>3. ASSUME NEW p \in Procs, UNCHANGED <<sessions, billed, turned>>, NEW next, Go(p, next),
             next.pc # "idle" => Held(next)
      PROVE  Charged'
  <2>1. \A q \in Procs \ {p} : procs'[q] = procs[q]
    BY <1>3 DEF Go, TypeOK
  <2>2. \A i \in Ids : Covered(sessions[i], i)'
    BY <1>2, <1>3 DEF Covered
  <2>3. ~At(p, "idle")' => Held(procs[p])'
    BY <1>3 DEF Go, At, Held, TypeOK
  <2>4. \A i \in Ids : billed[i] <= billed'[i] /\ turned[i] <= turned'[i]
    BY <1>2, <1>3
  <2> QED  BY <2>1, <2>2, <2>3, <2>4, ChargedStep
<1>4. ASSUME NEW p \in Procs, ~At(p, "idle"), UNCHANGED <<billed, turned>>,
             NEW row, Save(p, row), Covered(row, procs[p].id),
             NEW next, Go(p, next),
             next.pc # "idle" => Held(next)
      PROVE  Charged'
  <2>1. \A i \in Ids : Covered(sessions[i], i)'
    BY <1>2, <1>4 DEF Save, Covered, TypeOK
  <2>2. \A q \in Procs \ {p} : procs'[q] = procs[q]
    BY <1>4 DEF Go, TypeOK
  <2>3. ~At(p, "idle")' => Held(procs[p])'
    BY <1>4 DEF Go, At, Held, TypeOK
  <2>4. \A i \in Ids : billed[i] <= billed'[i] /\ turned[i] <= turned'[i]
    BY <1>2, <1>4
  <2> QED  BY <2>1, <2>2, <2>3, <2>4, ChargedStep
<1>5. ASSUME NEW p \in Procs, New(p) PROVE Charged'
  <2>1. PICK command \in {"run", "dry"} \cap Commands, i \in Ids \ minted :
          Go(p, [Idle EXCEPT !.pc = "save", !.command = command, !.id = i, !.row = NewRow,
                   !.run = runs + 1])
    BY <1>5 DEF New
  <2> DEFINE next == [Idle EXCEPT !.pc = "save", !.command = command, !.id = i, !.row = NewRow,
                        !.run = runs + 1]
  <2>2. /\ next.row.tokens = 0 /\ next.row.turn_count = 0 /\ next.id = i /\ i \in Ids
        /\ next.acc = 0 /\ next.made = 0 /\ next.turns = 0
    BY DEF Idle, NewRow, NoRow
  <2>3. Go(p, next)
    BY <2>1
  <2> HIDE DEF next
  <2>4. Held(next)
    BY <1>2, <2>2 DEF Held
  <2> QED  BY <1>3, <1>5, <2>3, <2>4 DEF New
<1>6. ASSUME NEW p \in Procs, Existing(p) PROVE Charged'
  <2>1. PICK command \in {"resume", "cancel", "delete"} \cap Commands, i \in minted :
          Go(p, [Idle EXCEPT !.pc = IF command = "delete" THEN "forget" ELSE "load",
                   !.command = command, !.id = i, !.run = runs'])
    BY <1>6 DEF Existing
  <2> DEFINE next == [Idle EXCEPT !.pc = IF command = "delete" THEN "forget" ELSE "load",
                        !.command = command, !.id = i, !.run = runs']
  <2>2. /\ next.row.tokens = 0 /\ next.row.turn_count = 0 /\ next.id = i /\ i \in Ids
        /\ next.acc = 0 /\ next.made = 0 /\ next.turns = 0
    BY DEF Idle, NoRow, TypeOK
  <2>3. Go(p, next)
    BY <2>1
  <2> HIDE DEF next
  <2>4. Held(next)
    BY <1>2, <2>2 DEF Held
  <2> QED  BY <1>3, <1>6, <2>3, <2>4 DEF Existing
<1>7. ASSUME NEW p \in Procs, Load(p) \/ LoadToCancel(p) PROVE Charged'
  <2>1. /\ At(p, "load") /\ ~At(p, "idle") /\ UNCHANGED <<sessions, billed, turned>>
        /\ \/ Done(p)
           \/ Go(p, [procs[p] EXCEPT !.pc = "resave",
                       !.row = [sessions[procs[p].id] EXCEPT !.status = "active"],
                       !.resume_from_completed = sessions[procs[p].id].status = "completed"])
           \/ Go(p, [procs[p] EXCEPT !.pc = "cancel",
                       !.row = [sessions[procs[p].id] EXCEPT !.status = "cancelled"]])
    BY <1>7 DEF Load, LoadToCancel, At
  <2>2. CASE Done(p)
    BY <1>3, <2>1, <2>2, IdleTask DEF Done
  <2> DEFINE row == sessions[procs[p].id]
             taken == [procs[p] EXCEPT !.pc = "resave", !.row = [row EXCEPT !.status = "active"],
                         !.resume_from_completed = row.status = "completed"]
             ended1 == [procs[p] EXCEPT !.pc = "cancel", !.row = [row EXCEPT !.status = "cancelled"]]
  <2>3. /\ procs[p] \in Task /\ procs[p].id \in Ids /\ row \in Row /\ procs[p].turns = 0
        /\ row.tokens <= billed[procs[p].id]
        /\ row.turn_count <= billed[procs[p].id] + turned[procs[p].id]
        /\ procs[p].acc <= procs[p].made
    BY <1>1, <1>2, <2>1 DEF Held, Covered, At
  <2>4. Held(taken) /\ Held(ended1)
    BY <1>2, <2>3 DEF Held, Task, Row
  <2> HIDE DEF taken, ended1
  <2>5. Done(p) \/ Go(p, taken) \/ Go(p, ended1)
    BY <2>1 DEF taken, ended1
  <2> QED  BY <1>3, <2>1, <2>2, <2>4, <2>5
<1>8. ASSUME NEW p \in Procs, SaveActive(p) PROVE Charged'
  <2> DEFINE next == [procs[p] EXCEPT !.pc = IF procs[p].pc = "resave" THEN "save" ELSE "blank"]
  <2>1. /\ ~At(p, "idle") /\ procs[p].pc # "complete" /\ UNCHANGED <<billed, turned>>
        /\ Save(p, procs[p].row) /\ Go(p, next)
    BY <1>8 DEF SaveActive, At
  <2>2. Covered(procs[p].row, procs[p].id)
    BY <1>1, <1>2, <2>1 DEF Held, Covered
  <2>3. Held(next)
    BY <1>1, <2>1 DEF Held, Task
  <2> HIDE DEF next
  <2> QED  BY <1>4, <2>1, <2>2, <2>3
<1>9. ASSUME NEW p \in Procs, Blank(p) \/ WorkEnds(p) \/ WorkFails(p) \/ Forget(p)
      PROVE  Charged'
  <2>1. /\ ~At(p, "idle") /\ procs[p].pc # "complete" /\ UNCHANGED <<sessions, billed, turned>>
    BY <1>9 DEF Blank, WorkEnds, WorkFails, Forget, At
  <2>2. /\ procs[p] \in Task /\ procs[p].row \in Row /\ procs[p].id \in Ids /\ procs[p].turns = 0
        /\ Held(procs[p])
    BY <1>1, <2>1 DEF Held, Task
  <2>3. CASE Blank(p)
    <3> DEFINE next == [procs[p] EXCEPT !.pc = IF procs[p].command = "dry" THEN "complete"
                                               ELSE "provider"]
    <3>1. Go(p, next)
      BY <2>3 DEF Blank
    <3>2. Held(next)
      BY <2>2 DEF Held, Task
    <3> HIDE DEF next
    <3> QED  BY <1>3, <2>1, <3>1, <3>2
  <2>4. CASE WorkEnds(p)
    <3>1. PICK turns \in 0..procs[p].made :
            Go(p, [procs[p] EXCEPT !.pc = "complete", !.row.turn_count = @ + turns,
                     !.turns = turns])
      BY <2>4 DEF WorkEnds
    <3> DEFINE next == [procs[p] EXCEPT !.pc = "complete", !.row.turn_count = @ + turns,
                          !.turns = turns]
    <3>2. /\ next.pc = "complete" /\ next.turns = turns /\ next.id = procs[p].id
          /\ next.row.turn_count = procs[p].row.turn_count + turns
          /\ next.row.tokens = procs[p].row.tokens
          /\ next.acc = procs[p].acc /\ next.made = procs[p].made
      BY <2>2 DEF Task, Row
    <3>3. turns \in Nat
      BY <2>2, <3>1 DEF Task
    <3>4. Go(p, next)
      BY <3>1
    <3> HIDE DEF next
    <3>5. Held(next)
      BY <1>1, <1>2, <2>1, <2>2, <3>2, <3>3 DEF Held
    <3> QED  BY <1>3, <2>1, <3>4, <3>5
  <2>5. CASE WorkFails(p)
    <3>1. PICK status \in Final :
            Go(p, [procs[p] EXCEPT !.pc = "fail", !.row.status = status])
      BY <2>5 DEF WorkFails
    <3> DEFINE next == [procs[p] EXCEPT !.pc = "fail", !.row.status = status]
    <3>2. Held(next)
      BY <2>2 DEF Held, Task, Row
    <3>3. Go(p, next)
      BY <3>1
    <3> HIDE DEF next
    <3> QED  BY <1>3, <2>1, <3>2, <3>3
  <2>6. CASE Forget(p)
    <3>1. Held([procs[p] EXCEPT !.pc = "drop"])
      BY <2>2 DEF Held, Task
    <3> QED  BY <1>3, <2>1, <2>6, <3>1 DEF Forget
  <2> QED  BY <1>9, <2>3, <2>4, <2>5, <2>6
<1>10. ASSUME NEW p \in Procs, Refuse(p) \/ Crash(p) PROVE Charged'
  BY <1>3, <1>10, IdleTask DEF Refuse, Crash, Done
<1>11. ASSUME NEW p \in Procs, Subscribe(p) PROVE Charged'
  <2>1. ~At(p, "idle") /\ procs[p].pc # "complete"
    BY <1>11 DEF Subscribe, At
  <2> DEFINE next == [procs[p] EXCEPT !.pc = "work", !.acc = 0]
  <2>2. /\ Go(p, next) /\ UNCHANGED <<billed, turned>>
        /\ UNCHANGED sessions \/ Save(p, procs[p].row)
    BY <1>11 DEF Subscribe
  <2>3. Held(next)
    BY <1>1, <2>1 DEF Held, Task
  <2>4. Covered(procs[p].row, procs[p].id)
    BY <1>1, <1>2, <2>1 DEF Held, Covered
  <2> HIDE DEF next
  <2> QED  BY <1>3, <1>4, <2>1, <2>2, <2>3, <2>4
<1>12. ASSUME NEW p \in Procs, ModelCall(p) PROVE Charged'
  <2>1. ~At(p, "idle") /\ procs[p].pc # "complete"
    BY <1>12 DEF ModelCall, At
  <2> DEFINE next == [procs[p] EXCEPT !.acc = @ + 1, !.made = @ + 1]
  <2>2. /\ next.row = procs[p].row /\ next.id = procs[p].id /\ next.turns = procs[p].turns
        /\ next.pc = procs[p].pc /\ next.acc = procs[p].acc + 1 /\ next.made = procs[p].made + 1
    BY <1>1, <2>1 DEF Task
  <2>3. Go(p, next) /\ UNCHANGED <<sessions, billed, turned>>
    BY <1>12 DEF ModelCall
  <2> HIDE DEF next
  <2>4. Held(next)
    BY <1>1, <2>1, <2>2 DEF Held
  <2> QED  BY <1>3, <2>3, <2>4
<1>13. ASSUME NEW p \in Procs, Complete(p) PROVE Charged'
  <2>1. ~At(p, "idle")
    BY <1>13 DEF Complete, At
  <2>2. /\ billed' = [billed EXCEPT ![procs[p].id] = @ + procs[p].made]
        /\ turned' = [turned EXCEPT ![procs[p].id] = @ + procs[p].turns]
        /\ sessions' = [sessions EXCEPT ![procs[p].id] =
             [status |-> "completed", tokens |-> procs[p].row.tokens + procs[p].acc,
              turn_count |-> procs[p].row.turn_count + procs[p].acc]]
    BY <1>13 DEF Complete, Save
  <2>3. \A i \in Ids : billed[i] <= billed'[i] /\ turned[i] <= turned'[i]
    BY <1>1, <1>2, <2>1, <2>2 DEF TypeOK
  <2>4. ASSUME NEW i \in Ids PROVE Covered(sessions[i], i)'
    <3>1. CASE i # procs[p].id
      BY <1>2, <2>2, <3>1 DEF Covered, TypeOK
    <3>2. CASE i = procs[p].id
      <4>1. /\ billed'[i] = billed[i] + procs[p].made /\ turned'[i] = turned[i] + procs[p].turns
            /\ sessions'[i].tokens = procs[p].row.tokens + procs[p].acc
            /\ sessions'[i].turn_count = procs[p].row.turn_count + procs[p].acc
        BY <2>2, <3>2 DEF TypeOK
      <4> QED  BY <1>1, <1>2, <2>1, <3>2, <4>1 DEF Held, Covered
    <3> QED  BY <3>1, <3>2
  <2>5. At(p, "idle")' /\ \A q \in Procs \ {p} : procs'[q] = procs[q]
    BY <1>13, IdleTask DEF Complete, Done, Go, At, TypeOK
  <2> QED  BY <2>3, <2>4, <2>5, ChargedStep
<1>14. ASSUME NEW p \in Procs, Fail(p) \/ Cancel(p) \/ Drop(p) PROVE Charged'
  <2>1. ~At(p, "idle") /\ procs[p].pc # "complete" /\ UNCHANGED <<billed, turned>> /\ Go(p, Idle)
    BY <1>14 DEF Fail, Cancel, Drop, Done, At
  <2>2. Covered(procs[p].row, procs[p].id) /\ Covered(NoRow, procs[p].id)
    BY <1>1, <1>2, <2>1 DEF Held, Covered, NoRow
  <2>3. Save(p, procs[p].row) \/ Save(p, NoRow)
    BY <1>14 DEF Fail, Cancel, Drop
  <2> QED  BY <1>4, <2>1, <2>2, <2>3, IdleTask
<1>15. CASE UNCHANGED vars
  BY <1>15 DEF vars, Charged, Covered, Held, At
<1> QED
  BY <1>5, <1>6, <1>7, <1>8, <1>9, <1>10, <1>11, <1>12, <1>13, <1>14, <1>15 DEF Next

\* NeverOvercharged: whatever overlaps or dies, a row charges for no more calls than the
\* completed runs of its session have made, and its turn_count is no more than their
\* turns and calls.
THEOREM RowsNeverOvercharge == Spec => []NeverOvercharged
<1>1. TypeOK /\ Charged => NeverOvercharged
  BY DEF Charged, NeverOvercharged
<1> QED  BY <1>1, InitTyped, NextTyped, NextCharged, PTL DEF Spec

-----------------------------------------------------------------------------
(* Runs that do not overlap: rows are exact, and an end is an end *)

Running == {"resave", "save", "blank", "provider", "work", "complete", "fail"}

\* The row a process holds counts the completed runs, and the turns of its own workflow
\* as soon as that has ended.
Tallied(c) ==
  /\ c.row.tokens = billed[c.id]
  /\ c.row.turn_count = billed[c.id] + turned[c.id] + c.turns

\* What a command in progress knows of the row of its session.
Exact(p) ==
  LET c == procs[p]
  IN /\ c.pc \in Running \cup {"cancel"} => Tallied(c)
     /\ c.acc = c.made
     /\ c.pc \notin {"work", "complete", "fail"} => c.made = 0
     /\ c.pc # "complete" => c.turns = 0
     /\ c.pc \in Running => sessions[c.id].status \notin Final
     /\ c.pc \in Running \ {"fail"} => c.row.status \notin Final
     /\ c.pc = "cancel" => c.row.status = "cancelled"

\* One command at a time; a session that was never begun has no row; and the
\* rows are exact.
Alone ==
  /\ \A p, q \in Procs : ~At(p, "idle") /\ ~At(q, "idle") => p = q
  /\ \A i \in Ids \ minted : sessions[i] = NoRow /\ billed[i] = 0 /\ turned[i] = 0
  /\ CallsAreBilled
  /\ \A p \in Procs : Exact(p)

\* Nothing is in progress yet.
LEMMA InitAlone == Init => Alone
<1> SUFFICES ASSUME Init PROVE Alone
  OBVIOUS
<1>1. \A p \in Procs : procs[p] = Idle
  BY DEF Init
<1>2. Idle.acc = 0 /\ Idle.made = 0 /\ Idle.turns = 0
  BY DEF Idle
<1> QED
  BY <1>1, <1>2, IdleTask DEF Init, Alone, CallsAreBilled, Exact, Running, At

\* A step of the one process that is not idle.
LEMMA AloneStep ==
  ASSUME TypeOK, Alone, NEW p \in Procs,
         \A q \in Procs \ {p} : procs'[q] = procs[q] /\ At(q, "idle"),
         minted \subseteq minted',
         \A i \in Ids \ minted' : sessions'[i] = sessions[i] /\ billed'[i] = billed[i] /\ turned'[i] = turned[i],
         CallsAreBilled', Exact(p)'
  PROVE  Alone'
<1>1. ASSUME NEW q \in Procs \ {p} PROVE Exact(q)' /\ At(q, "idle")'
  BY <1>1 DEF Exact, Running, Alone, At
<1>2. \A q, r \in Procs : ~At(q, "idle")' /\ ~At(r, "idle")' => q = r
  BY <1>1
<1>3. \A i \in Ids \ minted' : sessions'[i] = NoRow /\ billed'[i] = 0 /\ turned'[i] = 0
  BY DEF Alone
<1> QED  BY <1>1, <1>2, <1>3 DEF Alone

\* A process that has ended its command.
LEMMA IdleExact ==
  ASSUME TypeOK, NEW p \in Procs, Go(p, Idle)
  PROVE  Exact(p)'
<1>1. procs'[p] = Idle /\ Idle.acc = 0 /\ Idle.made = 0 /\ Idle.turns = 0
  BY DEF Go, TypeOK, Idle
<1> QED  BY <1>1, IdleTask DEF Exact, Running

\* Every step keeps the rows exact, and leaves what has ended.
LEMMA NextAlone ==
  ASSUME Serial, TypeOK, Alone, [Next]_vars
  PROVE  Alone' /\ FinalStep
<1>1. ASSUME NEW p \in Procs, ~At(p, "idle")
      PROVE  /\ \A q \in Procs \ {p} : At(q, "idle")
             /\ procs[p] \in Task /\ procs[p].id \in minted /\ procs[p].id \in Ids
             /\ procs[p].row \in Row /\ sessions[procs[p].id] \in Row
             /\ procs[p].acc \in Nat /\ procs[p].made \in Nat /\ procs[p].turns \in Nat
             /\ billed[procs[p].id] \in Nat /\ turned[procs[p].id] \in Nat
             /\ Exact(p)
  BY <1>1 DEF Alone, TypeOK, Task
<1>2. UNCHANGED sessions => FinalStep
  BY DEF FinalStep
<1>3. ASSUME NEW p \in Procs, \A q \in Procs \ {p} : At(q, "idle"), NEW next, Go(p, next),
             minted \subseteq minted', UNCHANGED <<sessions, billed, turned>>, Exact(p)'
      PROVE  Alone' /\ FinalStep
  <2>1. CallsAreBilled'
    BY <1>3 DEF Alone, CallsAreBilled, Counted
  <2>2. \A q \in Procs \ {p} : procs'[q] = procs[q]
    BY <1>3 DEF Go, TypeOK
  <2> QED  BY <1>2, <1>3, <2>1, <2>2, AloneStep
<1>4. ASSUME NEW p \in Procs, ~At(p, "idle"), NEW next, Go(p, next),
             UNCHANGED <<minted, billed, turned>>, NEW row, Save(p, row),
             row # NoRow => Counted(row, procs[p].id),
             sessions[procs[p].id].status \in Final =>
               row.status \in {sessions[procs[p].id].status, "none", "cancelled"},
             Exact(p)'
      PROVE  Alone' /\ FinalStep
  <2>1. \A q \in Procs \ {p} : procs'[q] = procs[q] /\ At(q, "idle")
    BY <1>1, <1>4 DEF Go, TypeOK
  <2>2. sessions' = [sessions EXCEPT ![procs[p].id] = row]
    BY <1>4 DEF Save
  <2>3. \A i \in Ids \ minted' : /\ sessions'[i] = sessions[i]
                                 /\ billed'[i] = billed[i] /\ turned'[i] = turned[i]
    BY <1>1, <1>4, <2>2 DEF TypeOK
  <2>4. CallsAreBilled'
    BY <1>4, <2>2 DEF Alone, CallsAreBilled, Counted, TypeOK
  <2>5. FinalStep
    BY <1>4, <2>2 DEF FinalStep, TypeOK
  <2> QED  BY <1>4, <2>1, <2>3, <2>4, <2>5, AloneStep
<1>5. ASSUME NEW p \in Procs, New(p) PROVE Alone' /\ FinalStep
  <2>1. PICK command \in {"run", "dry"} \cap Commands, i \in Ids \ minted :
          Go(p, [Idle EXCEPT !.pc = "save", !.command = command, !.id = i, !.row = NewRow,
                   !.run = runs + 1])
    BY <1>5 DEF New
  <2> DEFINE next == [Idle EXCEPT !.pc = "save", !.command = command, !.id = i, !.row = NewRow,
                        !.run = runs + 1]
  <2>2. /\ next.pc = "save" /\ next.row = NewRow /\ next.id = i
        /\ next.acc = 0 /\ next.made = 0 /\ next.turns = 0
    BY DEF Idle
  <2>3. Go(p, next) /\ UNCHANGED <<sessions, billed, turned>> /\ minted \subseteq minted'
    BY <1>5, <2>1 DEF New
  <2> HIDE DEF next
  <2>4. procs'[p] = next
    BY <2>3 DEF Go, TypeOK
  <2>5. billed[i] = 0 /\ turned[i] = 0 /\ sessions[i] = NoRow
    BY <2>1 DEF Alone
  <2>6. Exact(p)'
    BY <2>2, <2>3, <2>4, <2>5 DEF Exact, Tallied, Running, NewRow, NoRow, Final
  <2>7. \A q \in Procs \ {p} : At(q, "idle")
    BY <1>5 DEF New, MayBegin
  <2> QED  BY <1>3, <2>3, <2>6, <2>7
<1>6. ASSUME NEW p \in Procs, Existing(p) PROVE Alone' /\ FinalStep
  <2>1. PICK command \in {"resume", "cancel", "delete"} \cap Commands, i \in minted :
          Go(p, [Idle EXCEPT !.pc = IF command = "delete" THEN "forget" ELSE "load",
                   !.command = command, !.id = i, !.run = runs'])
    BY <1>6 DEF Existing
  <2> DEFINE next == [Idle EXCEPT !.pc = IF command = "delete" THEN "forget" ELSE "load",
                        !.command = command, !.id = i, !.run = runs']
  <2>2. next.pc \in {"forget", "load"} /\ next.acc = 0 /\ next.made = 0 /\ next.turns = 0
    BY DEF Idle
  <2>3. Go(p, next) /\ UNCHANGED <<sessions, billed, turned, minted>>
    BY <1>6, <2>1 DEF Existing
  <2> HIDE DEF next
  <2>4. procs'[p] = next
    BY <2>3 DEF Go, TypeOK
  <2>5. Exact(p)'
    BY <2>2, <2>4 DEF Exact, Running
  <2>6. \A q \in Procs \ {p} : At(q, "idle")
    BY <1>6 DEF Existing, MayBegin
  <2> QED  BY <1>3, <2>3, <2>5, <2>6
<1>7. ASSUME NEW p \in Procs, ~At(p, "idle"), Done(p), UNCHANGED <<sessions, billed, turned, minted>>
      PROVE  Alone' /\ FinalStep
  BY <1>1, <1>3, <1>7, IdleExact DEF Done
<1>8. ASSUME NEW p \in Procs, Load(p) PROVE Alone' /\ FinalStep
  <2>1. ~At(p, "idle") /\ UNCHANGED <<sessions, billed, turned, minted>>
    BY <1>8 DEF Load, At
  <2> DEFINE row == sessions[procs[p].id]
             next == [procs[p] EXCEPT !.pc = "resave", !.row = [row EXCEPT !.status = "active"],
                        !.resume_from_completed = row.status = "completed"]
  <2>2. CASE ~Done(p)
    <3>1. Go(p, next) /\ row.status \notin Final /\ row.status # "none"
      BY <1>8, <2>2 DEF Load, Resumable
    <3>2. row # NoRow /\ Counted(row, procs[p].id)
      BY <1>1, <2>1, <3>1 DEF NoRow, Alone, CallsAreBilled
    <3>3. /\ next.pc = "resave" /\ next.id = procs[p].id /\ next.row.tokens = row.tokens
          /\ next.row.turn_count = row.turn_count /\ next.turns = procs[p].turns
          /\ next.row.status = "active" /\ next.acc = procs[p].acc /\ next.made = procs[p].made
      BY <1>1, <2>1 DEF Task, Row
    <3>4. procs'[p] = next
      BY <3>1 DEF Go, TypeOK
    <3>5. procs[p].acc = procs[p].made /\ procs[p].made = 0 /\ procs[p].turns = 0
      BY <1>1, <1>8, <2>1 DEF Exact, Load, At
    <3>7. Tallied(procs[p])'
      BY <1>1, <2>1, <3>2, <3>3, <3>4, <3>5 DEF Tallied, Counted
    <3>6. Exact(p)'
      BY <2>1, <3>1, <3>3, <3>4, <3>5, <3>7 DEF Exact, Tallied, Final
    <3> QED  BY <1>1, <1>3, <2>1, <3>1, <3>6
  <2> QED  BY <1>7, <2>1, <2>2
<1>9. ASSUME NEW p \in Procs, LoadToCancel(p) PROVE Alone' /\ FinalStep
  <2>1. ~At(p, "idle") /\ UNCHANGED <<sessions, billed, turned, minted>>
    BY <1>9 DEF LoadToCancel, At
  <2> DEFINE row == sessions[procs[p].id]
             next == [procs[p] EXCEPT !.pc = "cancel", !.row = [row EXCEPT !.status = "cancelled"]]
  <2>2. CASE ~Done(p)
    <3>1. Go(p, next) /\ row # NoRow
      BY <1>9, <2>2 DEF LoadToCancel
    <3>2. Counted(row, procs[p].id)
      BY <1>1, <2>1, <3>1 DEF Alone, CallsAreBilled
    <3>3. /\ next.pc = "cancel" /\ next.id = procs[p].id /\ next.row.tokens = row.tokens
          /\ next.row.turn_count = row.turn_count /\ next.turns = procs[p].turns
          /\ next.row.status = "cancelled"
          /\ next.acc = procs[p].acc /\ next.made = procs[p].made
      BY <1>1, <2>1 DEF Task, Row
    <3>4. procs'[p] = next
      BY <3>1 DEF Go, TypeOK
    <3>5. procs[p].acc = procs[p].made /\ procs[p].made = 0 /\ procs[p].turns = 0
      BY <1>1, <1>9, <2>1 DEF Exact, LoadToCancel, At
    <3>7. Tallied(procs[p])'
      BY <1>1, <2>1, <3>2, <3>3, <3>4, <3>5 DEF Tallied, Counted
    <3>6. Exact(p)'
      BY <2>1, <3>3, <3>4, <3>5, <3>7 DEF Exact, Tallied, Running
    <3> QED  BY <1>1, <1>3, <2>1, <3>1, <3>6
  <2> QED  BY <1>7, <2>1, <2>2
<1>10. ASSUME NEW p \in Procs, SaveActive(p) PROVE Alone' /\ FinalStep
  <2>1. ~At(p, "idle") /\ UNCHANGED <<billed, turned, minted>> /\ Save(p, procs[p].row)
    BY <1>10 DEF SaveActive, At
  <2> DEFINE next == [procs[p] EXCEPT !.pc = IF procs[p].pc = "resave" THEN "save" ELSE "blank"]
  <2>2. /\ Go(p, next) /\ procs[p].pc \in {"resave", "save"}
        /\ next.pc \in {"save", "blank"} /\ next.id = procs[p].id /\ next.row = procs[p].row
        /\ next.acc = procs[p].acc /\ next.made = procs[p].made /\ next.turns = procs[p].turns
    BY <1>1, <1>10, <2>1 DEF SaveActive, Task
  <2> HIDE DEF next
  <2>3. procs'[p] = next /\ sessions'[procs[p].id] = procs[p].row
    BY <1>1, <2>1, <2>2 DEF Go, Save, TypeOK
  <2>4. /\ Tallied(procs[p]) /\ procs[p].row.status \notin Final
        /\ sessions[procs[p].id].status \notin Final
        /\ procs[p].acc = procs[p].made /\ procs[p].made = 0 /\ procs[p].turns = 0
    BY <1>1, <2>1, <2>2 DEF Exact, Running
  <2>5. Exact(p)'
    BY <2>1, <2>2, <2>3, <2>4 DEF Exact, Tallied
  <2>6. Counted(procs[p].row, procs[p].id)
    BY <1>1, <2>1, <2>4 DEF Tallied, Counted
  <2> QED  BY <1>4, <2>1, <2>2, <2>4, <2>5, <2>6
<1>11. ASSUME NEW p \in Procs, ~At(p, "idle"), NEW next, Go(p, next),
              UNCHANGED <<minted, billed, turned>>, next.id = procs[p].id, next.row = procs[p].row,
              procs[p].pc \in Running \ {"complete", "fail"}, next.turns = procs[p].turns,
              next.pc \in Running \ {"resave", "save", "blank"},
              next.acc = next.made,
              next.pc \notin {"work", "complete", "fail"} => next.made = 0,
              UNCHANGED sessions \/ Save(p, procs[p].row)
       PROVE  Alone' /\ FinalStep
  <2>1. /\ Tallied(procs[p]) /\ procs[p].row.status \notin Final
        /\ sessions[procs[p].id].status \notin Final /\ procs[p].turns = 0
    BY <1>1, <1>11 DEF Exact, Running
  <2>6. Counted(procs[p].row, procs[p].id)
    BY <1>1, <1>11, <2>1 DEF Tallied, Counted
  <2>2. procs'[p] = next /\ (Save(p, procs[p].row) => sessions'[procs[p].id] = procs[p].row)
    BY <1>1, <1>11 DEF Go, Save, TypeOK
  <2>3. Exact(p)'
    BY <1>11, <2>1, <2>2 DEF Exact, Tallied, Running
  <2>4. CASE UNCHANGED sessions
    BY <1>1, <1>3, <1>11, <2>3, <2>4
  <2>5. CASE Save(p, procs[p].row)
    BY <1>4, <1>11, <2>1, <2>3, <2>5, <2>6
  <2> QED  BY <1>11, <2>4, <2>5
<1>12. ASSUME NEW p \in Procs, Blank(p) PROVE Alone' /\ FinalStep
  <2>1. ~At(p, "idle") /\ procs[p].acc = procs[p].made /\ procs[p].made = 0
    BY <1>1, <1>12 DEF Blank, At, Exact
  <2> DEFINE next == [procs[p] EXCEPT !.pc = IF procs[p].command = "dry" THEN "complete" ELSE "provider"]
  <2>2. /\ Go(p, next) /\ next.pc \in {"complete", "provider"} /\ next.id = procs[p].id
        /\ next.row = procs[p].row /\ next.acc = procs[p].acc /\ next.made = procs[p].made
        /\ next.turns = procs[p].turns
    BY <1>1, <1>12, <2>1 DEF Blank, Task
  <2> HIDE DEF next
  <2> QED  BY <1>11, <1>12, <2>1, <2>2 DEF Blank, At, Running
<1>13. ASSUME NEW p \in Procs, Subscribe(p) PROVE Alone' /\ FinalStep
  <2>1. ~At(p, "idle") /\ procs[p].acc = procs[p].made /\ procs[p].made = 0
    BY <1>1, <1>13 DEF Subscribe, At, Exact
  <2> DEFINE next == [procs[p] EXCEPT !.pc = "work", !.acc = 0]
  <2>2. /\ Go(p, next) /\ next.pc = "work" /\ next.id = procs[p].id
        /\ next.row = procs[p].row /\ next.acc = 0 /\ next.made = procs[p].made
        /\ next.turns = procs[p].turns
    BY <1>1, <1>13, <2>1 DEF Subscribe, Task
  <2> HIDE DEF next
  <2> QED  BY <1>11, <1>13, <2>1, <2>2 DEF Subscribe, At, Running
<1>14. ASSUME NEW p \in Procs, ModelCall(p) PROVE Alone' /\ FinalStep
  <2>1. ~At(p, "idle") /\ procs[p].acc = procs[p].made
    BY <1>1, <1>14 DEF ModelCall, At, Exact
  <2> DEFINE next == [procs[p] EXCEPT !.acc = @ + 1, !.made = @ + 1]
  <2>2. /\ Go(p, next) /\ next.pc = "work" /\ next.id = procs[p].id
        /\ next.row = procs[p].row /\ next.acc = next.made /\ next.turns = procs[p].turns
    BY <1>1, <1>14, <2>1 DEF ModelCall, At, Task
  <2> HIDE DEF next
  <2> QED  BY <1>11, <1>14, <2>1, <2>2 DEF ModelCall, At, Running
<1>15. ASSUME NEW p \in Procs, WorkEnds(p) PROVE Alone' /\ FinalStep
  <2>1. /\ ~At(p, "idle") /\ procs[p].pc = "work" /\ UNCHANGED <<sessions, minted, billed, turned>>
        /\ procs[p].acc = procs[p].made /\ procs[p].turns = 0
        /\ Tallied(procs[p]) /\ procs[p].row.status \notin Final
        /\ sessions[procs[p].id].status \notin Final
    BY <1>1, <1>15 DEF WorkEnds, At, Exact, Running
  <2>2. PICK turns \in 0..procs[p].made :
          Go(p, [procs[p] EXCEPT !.pc = "complete", !.row.turn_count = @ + turns, !.turns = turns])
    BY <1>15 DEF WorkEnds
  <2> DEFINE next == [procs[p] EXCEPT !.pc = "complete", !.row.turn_count = @ + turns,
                        !.turns = turns]
  <2>3. /\ next.pc = "complete" /\ next.id = procs[p].id /\ next.turns = turns
        /\ next.row.status = procs[p].row.status /\ next.row.tokens = procs[p].row.tokens
        /\ next.row.turn_count = procs[p].row.turn_count + turns
        /\ next.acc = procs[p].acc /\ next.made = procs[p].made
    BY <1>1, <2>1 DEF Task, Row
  <2>4. Go(p, next) /\ procs'[p] = next
    BY <2>2 DEF Go, TypeOK
  <2> HIDE DEF next
  <2>5. procs[p].row.turn_count \in Nat /\ turns \in Nat
    BY <1>1, <2>1, <2>2 DEF Row
  <2>6. Tallied(procs[p])'
    BY <1>1, <2>1, <2>3, <2>4, <2>5 DEF Tallied
  <2>7. Exact(p)'
    BY <2>1, <2>3, <2>4, <2>6 DEF Exact, Running
  <2> QED  BY <1>1, <1>3, <2>1, <2>4, <2>7
<1>21. ASSUME NEW p \in Procs, WorkFails(p) PROVE Alone' /\ FinalStep
  <2>1. /\ ~At(p, "idle") /\ procs[p].pc = "work" /\ UNCHANGED <<sessions, minted, billed, turned>>
        /\ procs[p].acc = procs[p].made /\ procs[p].turns = 0
        /\ Tallied(procs[p]) /\ sessions[procs[p].id].status \notin Final
    BY <1>1, <1>21 DEF WorkFails, At, Exact, Running
  <2>2. PICK status \in Final : Go(p, [procs[p] EXCEPT !.pc = "fail", !.row.status = status])
    BY <1>21 DEF WorkFails
  <2> DEFINE next == [procs[p] EXCEPT !.pc = "fail", !.row.status = status]
  <2>3. /\ next.pc = "fail" /\ next.id = procs[p].id /\ next.turns = procs[p].turns
        /\ next.row.tokens = procs[p].row.tokens
        /\ next.row.turn_count = procs[p].row.turn_count
        /\ next.acc = procs[p].acc /\ next.made = procs[p].made
    BY <1>1, <2>1 DEF Task, Row
  <2>4. Go(p, next) /\ procs'[p] = next
    BY <2>2 DEF Go, TypeOK
  <2> HIDE DEF next
  <2>5. Tallied(procs[p])'
    BY <2>1, <2>3, <2>4 DEF Tallied
  <2>6. Exact(p)'
    BY <2>1, <2>3, <2>4, <2>5 DEF Exact, Running
  <2> QED  BY <1>1, <1>3, <2>1, <2>4, <2>6
<1>16. ASSUME NEW p \in Procs, Complete(p) PROVE Alone' /\ FinalStep
  <2>1. ~At(p, "idle") /\ Go(p, Idle) /\ UNCHANGED minted /\ procs[p].pc = "complete"
    BY <1>16 DEF Complete, Done, At
  <2>2. /\ billed' = [billed EXCEPT ![procs[p].id] = @ + procs[p].made]
        /\ turned' = [turned EXCEPT ![procs[p].id] = @ + procs[p].turns]
        /\ sessions' = [sessions EXCEPT ![procs[p].id] =
             [status |-> "completed", tokens |-> procs[p].row.tokens + procs[p].acc,
              turn_count |-> procs[p].row.turn_count + procs[p].acc]]
    BY <1>16 DEF Complete, Save
  <2>3. /\ Tallied(procs[p]) /\ procs[p].acc = procs[p].made
        /\ sessions[procs[p].id].status \notin Final
    BY <1>1, <2>1 DEF Exact, Running
  <2>8. /\ sessions'[procs[p].id].tokens = billed'[procs[p].id]
        /\ sessions'[procs[p].id].turn_count = billed'[procs[p].id] + turned'[procs[p].id]
    <3>1. /\ billed'[procs[p].id] = billed[procs[p].id] + procs[p].made
          /\ turned'[procs[p].id] = turned[procs[p].id] + procs[p].turns
          /\ sessions'[procs[p].id].tokens = procs[p].row.tokens + procs[p].acc
          /\ sessions'[procs[p].id].turn_count = procs[p].row.turn_count + procs[p].acc
      BY <1>1, <2>1, <2>2 DEF TypeOK
    <3> QED  BY <1>1, <2>1, <2>3, <3>1 DEF Tallied
  <2>4. CallsAreBilled'
    <3>1. ASSUME NEW i \in Ids, sessions'[i] # NoRow PROVE Counted(sessions[i], i)'
      <4>1. CASE i = procs[p].id
        BY <2>8, <4>1 DEF Counted
      <4>2. CASE i # procs[p].id
        <5>1. sessions'[i] = sessions[i] /\ billed'[i] = billed[i] /\ turned'[i] = turned[i]
          BY <2>2, <4>2 DEF TypeOK
        <5> QED  BY <3>1, <5>1 DEF Alone, CallsAreBilled, Counted
      <4> QED  BY <4>1, <4>2
    <3> QED  BY <3>1 DEF CallsAreBilled
  <2>5. FinalStep
    BY <2>2, <2>3 DEF FinalStep, TypeOK
  <2>6. \A i \in Ids \ minted' : /\ sessions'[i] = sessions[i]
                                 /\ billed'[i] = billed[i] /\ turned'[i] = turned[i]
    BY <1>1, <2>1, <2>2 DEF TypeOK
  <2>7. \A q \in Procs \ {p} : procs'[q] = procs[q] /\ At(q, "idle")
    BY <1>1, <2>1 DEF Go, TypeOK
  <2> QED  BY <2>1, <2>4, <2>5, <2>6, <2>7, AloneStep, IdleExact
<1>17. ASSUME NEW p \in Procs, Fail(p) \/ Cancel(p) \/ Drop(p) PROVE Alone' /\ FinalStep
  <2>1. /\ ~At(p, "idle") /\ Go(p, Idle) /\ UNCHANGED <<minted, billed, turned>> /\ Exact(p)'
    BY <1>17, IdleExact DEF Fail, Cancel, Drop, Done, At
  <2>2. CASE Fail(p)
    <3>1. /\ Tallied(procs[p]) /\ procs[p].turns = 0 /\ sessions[procs[p].id].status \notin Final
      BY <1>1, <2>1, <2>2 DEF Fail, At, Exact, Running
    <3>2. Counted(procs[p].row, procs[p].id)
      BY <1>1, <2>1, <3>1 DEF Tallied, Counted
    <3> QED  BY <1>4, <2>1, <2>2, <3>1, <3>2 DEF Fail
  <2>3. CASE Cancel(p)
    <3>1. /\ Tallied(procs[p]) /\ procs[p].turns = 0 /\ procs[p].row.status = "cancelled"
      BY <1>1, <2>1, <2>3 DEF Cancel, At, Exact
    <3>2. Counted(procs[p].row, procs[p].id)
      BY <1>1, <2>1, <3>1 DEF Tallied, Counted
    <3> QED  BY <1>4, <2>1, <2>3, <3>1, <3>2 DEF Cancel
  <2>4. CASE Drop(p)
    <3>1. NoRow.status = "none"
      BY DEF NoRow
    <3> QED  BY <1>4, <2>1, <2>4, <3>1 DEF Drop
  <2> QED  BY <1>17, <2>2, <2>3, <2>4
<1>18. ASSUME NEW p \in Procs, Forget(p) PROVE Alone' /\ FinalStep
  <2>1. /\ ~At(p, "idle") /\ procs[p].acc = procs[p].made /\ procs[p].made = 0
        /\ procs[p].turns = 0
    BY <1>1, <1>18 DEF Forget, At, Exact
  <2> DEFINE next == [procs[p] EXCEPT !.pc = "drop"]
  <2>2. /\ Go(p, next) /\ next.pc = "drop" /\ next.acc = procs[p].acc /\ next.made = procs[p].made
        /\ next.turns = procs[p].turns /\ UNCHANGED <<sessions, billed, turned, minted>>
    BY <1>1, <1>18, <2>1 DEF Forget, Task
  <2> HIDE DEF next
  <2>3. procs'[p] = next
    BY <2>2 DEF Go, TypeOK
  <2>4. Exact(p)'
    BY <2>1, <2>2, <2>3 DEF Exact, Running
  <2> QED  BY <1>1, <1>3, <2>1, <2>2, <2>4
<1>19. ASSUME NEW p \in Procs, Refuse(p) \/ Crash(p) PROVE Alone' /\ FinalStep
  BY <1>7, <1>19 DEF Refuse, Crash, At
<1>20. CASE UNCHANGED vars
  BY <1>2, <1>20 DEF vars, Alone, CallsAreBilled, Counted, Exact, Tallied, At
<1> QED
  BY <1>5, <1>6, <1>8, <1>9, <1>10, <1>12, <1>13, <1>14, <1>15, <1>16, <1>17, <1>18, <1>19,
     <1>20, <1>21 DEF Next

\* CallsAreBilled: where commands do not overlap a row charges exactly for the calls of
\* its completed runs, and its turn_count is exactly their turns and calls, wherever a
\* process dies.
THEOREM RowsAreExact == ASSUME Serial PROVE Spec => []CallsAreBilled
<1>1. TypeOK /\ Alone /\ [Next]_vars => Alone'
  BY NextAlone
<1>2. Alone => CallsAreBilled
  BY DEF Alone
<1> QED  BY <1>1, <1>2, InitTyped, NextTyped, InitAlone, PTL DEF Spec

\* FinalIsFinal: where commands do not overlap, a session that failed or was
\* cancelled is not taken up again.
THEOREM EndsAreFinal == ASSUME Serial PROVE Spec => FinalIsFinal
<1>1. TypeOK /\ Alone /\ [Next]_vars => Alone' /\ [FinalStep]_vars
  BY NextAlone
<1> QED  BY <1>1, InitTyped, NextTyped, InitAlone, PTL DEF Spec, FinalIsFinal
=============================================================================
