------------------------------ MODULE TuiLoopProofs ------------------------------
(***************************************************************************)
(* Proofs about TuiLoop for any number of messages, key presses, waiting   *)
(* events and pipelines in the background: what the user types runs in its *)
(* order, and the end that arrives belongs to the pipeline it is shown on. *)
(***************************************************************************)
EXTENDS TuiLoop, FunctionTheorems, FiniteSetTheorems, SequenceTheorems, TLAPS

-----------------------------------------------------------------------------
(* The invariant *)

\* The counts that bound the user are numbers; nothing else is asked of the constants.
LimitsAreNumbers == MaxTasks \in Nat /\ MaxDetach \in Nat

EventType == [kind : {"llm", "cancelled", "done", "error"}, task : Tasks]
EntryType == [task : Nat, run : Nat, status : {"running", "done", "error"}]

\* TypeOK with the channels and the list of pipelines.
Types ==
  /\ TypeOK
  /\ requests \in Seq(Nat) /\ typed \in Seq(Nat) /\ label \in Nat /\ current \in Nat
  /\ events \in Seq(EventType)
  /\ background_entries \in Seq(EntryType)
  /\ bg_mode \in BOOLEAN

\* How many ends the loop has handled: those of the runs up to this number.
Announced == Cardinality(Ended) - Cardinality(EndsWaiting)

\* How many messages have reached the runtime.
Started == Cardinality(Ended) + (IF running = 0 THEN 0 ELSE 1)

\* The places of the messages in the two channels, behind the runs that started.
InOrder ==
  /\ Ended = 1..Cardinality(Ended)
  /\ running # 0 => running = Started
  /\ Len(requests) + Len(typed) = count - Started
  /\ \A k \in 1..Len(requests) : requests[k] = Started + k
  /\ \A k \in 1..Len(typed) : typed[k] = Started + Len(requests) + k

\* By how many runs an event moves on.
Advance(e) == IF e.kind \notin Endings THEN 0 ELSE 1

\* The events lead, run by run, from the last end handled to the run in flight.
EventsFollow ==
  /\ events = <<>> => Announced = Cardinality(Ended)
  /\ events # <<>> =>
       /\ events[1].task = Announced + 1
       /\ events[Len(events)].task + Advance(events[Len(events)]) = Cardinality(Ended) + 1
  /\ \A k \in 1..Len(events) - 1 : events[k + 1].task = events[k].task + Advance(events[k])
  /\ \A k \in 1..Len(events) :
       events[k].kind \in Endings => events[k].kind = outcome[events[k].task]

\* At most one pipeline is in the background: the run whose end comes next.
Detached ==
  /\ bg_mode <=> RunningEntries # {}
  /\ \A j, k \in RunningEntries : j = k
  /\ bg_mode => ~Active
  /\ bg_mode \/ Active => current = Announced + 1
  /\ \A k \in 1..Len(background_entries) :
       LET entry == background_entries[k]
       IN IF entry.status = "running" THEN entry.run = Announced + 1
          ELSE entry.run \in Tasks /\ entry.status = outcome[entry.run]

LoopInv == Types /\ InOrder /\ EventsFollow /\ Detached

-----------------------------------------------------------------------------
(* Counting ends, and leaving out an entry *)

\* The places of the ends in a channel of events.
Ends(s) == {k \in DOMAIN s : s[k].kind \in Endings}

\* The ends among the events that wait.
LEMMA EndsAreFinite ==
  ASSUME NEW s \in Seq(EventType)
  PROVE  IsFiniteSet(Ends(s)) /\ Cardinality(Ends(s)) \in Nat /\ Ends(s) \subseteq 1..Len(s)
<1>1. Ends(s) \subseteq 1..Len(s) /\ Len(s) \in Nat
  BY DEF Ends
<1>2. IsFiniteSet(1..Len(s))
  BY <1>1, FS_Interval
<1> QED  BY <1>1, <1>2, FS_Subset, FS_CardinalityType

\* An event joins.
LEMMA AppendEnds ==
  ASSUME NEW s \in Seq(EventType), NEW e \in EventType
  PROVE  Cardinality(Ends(Append(s, e))) = Cardinality(Ends(s)) + Advance(e)
<1> DEFINE t == Append(s, e)
<1>1. /\ t \in Seq(EventType) /\ Len(t) = Len(s) + 1 /\ t[Len(t)] = e
      /\ \A k \in 1..Len(s) : t[k] = s[k]
  OBVIOUS
<1> HIDE DEF t
<1>2. /\ IsFiniteSet(Ends(s)) /\ Ends(s) \subseteq 1..Len(s) /\ Len(t) \notin Ends(s)
      /\ Cardinality(Ends(s)) \in Nat
  BY <1>1, EndsAreFinite
<1>3. CASE e.kind \notin Endings
  <2>1. Ends(t) = Ends(s)
    BY <1>1, <1>3 DEF Ends
  <2> QED  BY <1>2, <1>3, <2>1 DEF Advance, t
<1>4. CASE e.kind \in Endings
  <2>1. Ends(t) = Ends(s) \cup {Len(t)}
    BY <1>1, <1>4 DEF Ends
  <2>2. Cardinality(Ends(t)) = Cardinality(Ends(s)) + 1
    BY <1>2, <2>1, FS_AddElement
  <2> QED  BY <1>4, <2>2 DEF Advance, t
<1> QED  BY <1>3, <1>4

\* The first event leaves.
LEMMA TailEnds ==
  ASSUME NEW s \in Seq(EventType), s # <<>>
  PROVE  Cardinality(Ends(Tail(s))) = Cardinality(Ends(s)) - Advance(Head(s))
<1> DEFINE t == Tail(s)
           later == Ends(s) \ {1}
           f == [k \in Ends(t) |-> k + 1]
<1>1. /\ t \in Seq(EventType) /\ Len(t) = Len(s) - 1 /\ Len(s) \in Nat \ {0} /\ Head(s) = s[1]
      /\ \A k \in 1..Len(t) : t[k] = s[k + 1]
  OBVIOUS
<1> HIDE DEF t
<1>2. /\ IsFiniteSet(Ends(s)) /\ Ends(s) \subseteq 1..Len(s) /\ Cardinality(Ends(s)) \in Nat
      /\ IsFiniteSet(Ends(t)) /\ Ends(t) \subseteq 1..Len(t) /\ Cardinality(Ends(t)) \in Nat
  BY <1>1, EndsAreFinite
<1>0. /\ \A k \in 1..Len(t) : k \in Ends(t) <=> s[k + 1].kind \in Endings
      /\ \A k \in 1..Len(s) : k \in Ends(s) <=> s[k].kind \in Endings
  BY <1>1 DEF Ends
<1>3. f \in Bijection(Ends(t), later)
  <2>1. ASSUME NEW k \in Ends(t) PROVE k + 1 \in later
    <3>1. k \in 1..Len(t) /\ k + 1 \in 1..Len(s) /\ k + 1 # 1
      BY <1>1, <1>2
    <3> QED  BY <1>0, <3>1
  <2>2. ASSUME NEW k \in later PROVE k - 1 \in Ends(t) /\ (k - 1) + 1 = k
    <3>1. k \in 1..Len(s) /\ k - 1 \in 1..Len(t) /\ (k - 1) + 1 = k /\ k \in Ends(s)
      BY <1>1, <1>2
    <3> QED  BY <1>0, <3>1
  <2>3. f \in [Ends(t) -> later]
    BY <2>1
  <2>4. \A j, k \in Ends(t) : f[j] = f[k] => j = k
    BY <1>2
  <2>5. \A k \in later : \E j \in Ends(t) : f[j] = k
    BY <2>2
  <2> HIDE DEF f, later
  <2> QED  BY <2>3, <2>4, <2>5, Fun_IsBij
<1>4. ExistsBijection(Ends(t), later)
  BY <1>3 DEF ExistsBijection
<1>5. IsFiniteSet(later) /\ Cardinality(Ends(t)) = Cardinality(later)
  BY <1>2, <1>4, FS_Bijection
<1>6. Cardinality(Ends(t)) = Cardinality(Ends(s)) - Advance(s[1])
  <2>1. CASE s[1].kind \notin Endings
    <3>1. later = Ends(s)
      BY <1>0, <1>1, <2>1
    <3>2. Cardinality(later) = Cardinality(Ends(s))
      BY <3>1, Zenon
    <3>3. Cardinality(Ends(t)) = Cardinality(Ends(s))
      BY <1>5, <3>2, Zenon
    <3> QED  BY <1>2, <2>1, <3>3 DEF Advance
  <2>2. CASE s[1].kind \in Endings
    <3>1. 1 \in Ends(s)
      BY <1>0, <1>1, <2>2
    <3>2. Cardinality(later) = Cardinality(Ends(s)) - 1
      BY <1>2, <3>1, FS_RemoveElement
    <3> QED  BY <1>5, <2>2, <3>2 DEF Advance
  <2> QED  BY <2>1, <2>2
<1> QED  BY <1>1, <1>6 DEF t

\* Some entry leaves the list.
LEMMA WithoutEntry ==
  ASSUME NEW s \in Seq(EntryType), NEW i \in 1..Len(s)
  PROVE  /\ Without(s, i) \in Seq(EntryType) /\ Len(Without(s, i)) = Len(s) - 1
         /\ \A k \in 1..Len(s) - 1 :
              Without(s, i)[k] = IF k < i THEN s[k] ELSE s[k + 1]
<1> DEFINE front == SubSeq(s, 1, i - 1)
           back_ == SubSeq(s, i + 1, Len(s))
           t == Without(s, i)
<1>1. front \in Seq(EntryType) /\ Len(front) = i - 1 /\ \A k \in 1..i - 1 : front[k] = s[k]
  BY SubSeqProperties
<1>2. /\ back_ \in Seq(EntryType) /\ Len(back_) = Len(s) - i
      /\ \A k \in 1..Len(s) - i : back_[k] = s[i + k]
  BY SubSeqProperties
<1>3. t = front \o back_
  BY DEF Without
<1> HIDE DEF front, back_, t
<1>4. t \in Seq(EntryType) /\ Len(t) = Len(s) - 1
  <2>1. t \in Seq(EntryType) /\ Len(t) = Len(front) + Len(back_)
    BY <1>1, <1>2, <1>3, ConcatProperties, Zenon
  <2> QED  BY <1>1, <1>2, <2>1
<1>5. ASSUME NEW k \in 1..Len(s) - 1 PROVE t[k] = IF k < i THEN s[k] ELSE s[k + 1]
  <2>1. t[k] = IF k <= i - 1 THEN front[k] ELSE back_[k - (i - 1)]
    BY <1>1, <1>2, <1>3, <1>4, ConcatProperties
  <2>2. CASE k < i
    BY <1>1, <2>1, <2>2
  <2>3. CASE k >= i
    <3>1. k - (i - 1) \in 1..Len(s) - i /\ i + (k - (i - 1)) = k + 1
      BY <1>4, <2>3
    <3> QED  BY <1>2, <2>1, <2>3, <3>1
  <2> QED  BY <2>2, <2>3
<1> QED  BY <1>4, <1>5 DEF t

-----------------------------------------------------------------------------
(* Messages and runs *)

\* What InOrder speaks of.
queue == <<count, typed, requests, running, outcome>>

\* Steps that leave the messages and the runs alone.
LEMMA QueuesRest ==
  ASSUME UNCHANGED queue
  PROVE  Ended' = Ended /\ Started' = Started /\ (InOrder => InOrder')
BY DEF queue, InOrder, Started, Ended

\* Steps that leave events and outcomes alone.
LEMMA EventsRest ==
  ASSUME UNCHANGED <<events, outcome>>
  PROVE  Announced' = Announced /\ (EventsFollow => EventsFollow')
BY DEF EventsFollow, Announced, Ended, EndsWaiting

\* The counts are numbers, and the run in flight is the one behind those that ended.
LEMMA Numbers ==
  ASSUME LimitsAreNumbers, Types, InOrder
  PROVE  /\ IsFiniteSet(Ended) /\ Cardinality(Ended) \in Nat /\ Started \in Nat
         /\ Started <= count /\ (running # 0 => running = Cardinality(Ended) + 1)
         /\ IsFiniteSet(EndsWaiting) /\ Cardinality(EndsWaiting) \in Nat
         /\ Announced \in Int
<1>1. IsFiniteSet(Ended)
  <2>1. IsFiniteSet(Tasks)
    BY FS_Interval DEF Tasks, LimitsAreNumbers
  <2> QED  BY <2>1, FS_Subset DEF Ended
<1>2. Cardinality(Ended) \in Nat
  BY <1>1, FS_CardinalityType
<1>3. IsFiniteSet(EndsWaiting) /\ Cardinality(EndsWaiting) \in Nat
  BY EndsAreFinite DEF Types, EndsWaiting, Ends
<1>4. Len(requests) \in Nat /\ Len(typed) \in Nat /\ count \in Nat /\ running \in Nat
  BY DEF Types, TypeOK, LimitsAreNumbers
<1>5. Started \in Nat /\ Started <= count
  BY <1>2, <1>4 DEF Started, InOrder
<1>6. running # 0 => running = Cardinality(Ended) + 1
  BY <1>2 DEF InOrder, Started
<1> QED  BY <1>1, <1>2, <1>3, <1>5, <1>6 DEF Announced

\* The runtime takes the first accepted task.
LEMMA StartInOrder ==
  ASSUME LimitsAreNumbers, Types, InOrder, StartRun
  PROVE  InOrder' /\ running' \in Tasks
<1> DEFINE n == Cardinality(Ended)
           r == requests
           t == Tail(requests)
<1>1. /\ n \in Nat /\ Started = n /\ Ended' = Ended /\ Started <= count
  BY Numbers DEF Started, StartRun, Ended
<1>2. /\ r \in Seq(Nat) /\ r # <<>> /\ t \in Seq(Nat) /\ Len(t) = Len(r) - 1 /\ Len(r) \in Nat \ {0}
      /\ Head(r) = r[1] /\ \A k \in 1..Len(t) : t[k] = r[k + 1]
  BY DEF StartRun, Types
<1>3. r[1] = n + 1
  BY <1>1, <1>2 DEF InOrder
<1>4. /\ running' = n + 1 /\ running' # 0 /\ requests' = t /\ typed' = typed /\ count' = count
  BY <1>1, <1>2, <1>3 DEF StartRun
<1>5. Cardinality(Ended)' = n /\ Started' = n + 1
  BY <1>1, <1>4 DEF Started
<1>6. /\ Ended = 1..n /\ Len(r) + Len(typed) = count - n
      /\ \A k \in 1..Len(r) : r[k] = n + k
      /\ \A k \in 1..Len(typed) : typed[k] = n + Len(r) + k
  BY <1>1 DEF InOrder
<1>7. typed \in Seq(Nat) /\ Len(typed) \in Nat /\ count \in 0..MaxTasks /\ MaxTasks \in Nat
  BY DEF Types, TypeOK, LimitsAreNumbers
<1> HIDE DEF n, r, t
<1>8. Len(t) + Len(typed) = count - (n + 1)
  BY <1>1, <1>2, <1>6, <1>7
<1>9. \A k \in 1..Len(t) : t[k] = (n + 1) + k
  BY <1>1, <1>2, <1>6
<1>10. \A k \in 1..Len(typed) : typed[k] = (n + 1) + Len(t) + k
  BY <1>1, <1>2, <1>6, <1>7
<1>11. InOrder'
  BY <1>1, <1>4, <1>5, <1>6, <1>8, <1>9, <1>10 DEF InOrder
<1>12. n + 1 <= count
  BY <1>1, <1>2, <1>6, <1>7
<1> QED  BY <1>1, <1>4, <1>7, <1>11, <1>12 DEF Tasks

\* A run ends: its task is the next one to end.
LEMMA FinishCounts ==
  ASSUME LimitsAreNumbers, Types, InOrder, running # 0,
         NEW result \in {"done", "error"},
         outcome' = [outcome EXCEPT ![running] = result]
  PROVE  /\ running \in Tasks /\ running \notin Ended /\ running = Cardinality(Ended) + 1
         /\ Ended' = 1..Cardinality(Ended) + 1
         /\ Cardinality(Ended)' = Cardinality(Ended) + 1
<1>1. /\ IsFiniteSet(Ended) /\ Cardinality(Ended) \in Nat /\ running = Cardinality(Ended) + 1
      /\ Ended = 1..Cardinality(Ended)
  BY Numbers DEF InOrder
<1>2. running \in Tasks
  BY DEF Types, TypeOK, Tasks, LimitsAreNumbers
<1>3. Ended' = Ended \cup {running}
  BY <1>2 DEF Types, TypeOK, Ended
<1>4. running \notin Ended
  BY <1>1
<1>5. Cardinality(Ended') = Cardinality(Ended) + 1
  BY <1>1, <1>3, <1>4, FS_AddElement
<1> HIDE DEF Ended
<1> QED  BY <1>1, <1>2, <1>3, <1>4, <1>5

\* A run that ends stays the last one that started.
LEMMA FinishInOrder ==
  ASSUME LimitsAreNumbers, Types, InOrder, FinishRun
  PROVE  InOrder'
<1> PICK result \in {"done", "error"} : outcome' = [outcome EXCEPT ![running] = result]
  BY DEF FinishRun
<1> DEFINE n == Cardinality(Ended)
<1>1. running # 0 /\ running' = 0 /\ UNCHANGED <<count, typed, requests>>
  BY DEF FinishRun
<1>2. Ended' = 1..n + 1 /\ Cardinality(Ended)' = n + 1 /\ n \in Nat /\ running = n + 1
  BY <1>1, FinishCounts, Numbers
<1>3. Started = n + 1 /\ Started' = n + 1
  BY <1>1, <1>2 DEF Started
<1>4. Started' = Started
  BY <1>3
<1>5. Ended' = 1..Cardinality(Ended)'
  BY <1>2
<1> QED  BY <1>1, <1>4, <1>5 DEF InOrder

\* The first typed message goes behind the accepted ones.
LEMMA AcceptInOrder ==
  ASSUME LimitsAreNumbers, Types, InOrder, AcceptTask
  PROVE  InOrder'
<1> DEFINE n == Started
           r == requests
           h == Head(typed)
           t == Tail(typed)
<1>1. /\ n \in Nat /\ Ended' = Ended /\ Started' = Started /\ running' = running /\ count' = count
  BY Numbers DEF Started, AcceptTask, Ended
<1>2. /\ r \in Seq(Nat) /\ typed \in Seq(Nat) /\ typed # <<>> /\ t \in Seq(Nat)
      /\ Len(t) = Len(typed) - 1 /\ Len(typed) \in Nat \ {0} /\ Len(r) \in Nat
      /\ h = typed[1] /\ h \in Nat /\ \A k \in 1..Len(t) : t[k] = typed[k + 1]
  BY DEF AcceptTask, Types
<1>3. requests' = Append(r, h) /\ typed' = t
  BY DEF AcceptTask
<1>4. /\ Len(Append(r, h)) = Len(r) + 1 /\ Append(r, h)[Len(r) + 1] = h
      /\ \A k \in 1..Len(r) : Append(r, h)[k] = r[k]
  BY <1>2
<1>5. /\ Len(r) + Len(typed) = count - n
      /\ \A k \in 1..Len(r) : r[k] = n + k
      /\ \A k \in 1..Len(typed) : typed[k] = n + Len(r) + k
  BY DEF InOrder
<1>6. count \in Nat
  BY DEF Types, TypeOK, LimitsAreNumbers
<1> HIDE DEF n, r, h, t
<1>7. h = n + (Len(r) + 1)
  BY <1>1, <1>2, <1>5
<1>8. Len(requests') + Len(typed') = count - n
  BY <1>1, <1>2, <1>3, <1>4, <1>5, <1>6
<1>9. \A k \in 1..Len(requests') : requests'[k] = n + k
  <2> SUFFICES ASSUME NEW k \in 1..Len(requests') PROVE requests'[k] = n + k
    OBVIOUS
  <2>1. k \in 1..Len(r) \/ k = Len(r) + 1
    BY <1>2, <1>3, <1>4
  <2> QED  BY <1>3, <1>4, <1>5, <1>7, <2>1
<1>10. \A k \in 1..Len(typed') : typed'[k] = n + Len(requests') + k
  <2> SUFFICES ASSUME NEW k \in 1..Len(t) PROVE t[k] = n + (Len(r) + 1) + k
    BY <1>3, <1>4
  <2>1. k + 1 \in 1..Len(typed) /\ t[k] = typed[k + 1]
    BY <1>2
  <2>2. typed[k + 1] = n + Len(r) + (k + 1)
    BY <1>5, <2>1
  <2> QED  BY <1>1, <1>2, <2>1, <2>2
<1> USE DEF n
<1> QED  BY <1>1, <1>8, <1>9, <1>10 DEF InOrder

\* A new message goes behind all others.
LEMMA SubmitInOrder ==
  ASSUME LimitsAreNumbers, Types, InOrder, Submit
  PROVE  InOrder'
<1> DEFINE n == Started
           t == Append(typed, count + 1)
<1>1. /\ n \in Nat /\ Started <= count /\ Ended' = Ended /\ Started' = Started
      /\ requests' = requests /\ running' = running
  BY Numbers DEF Started, Submit, Ended, back
<1>2. /\ typed \in Seq(Nat) /\ count \in Nat /\ requests \in Seq(Nat)
      /\ Len(typed) \in Nat /\ Len(requests) \in Nat
  BY DEF Types, TypeOK, LimitsAreNumbers
<1>3. typed' = t /\ count' = count + 1
  BY DEF Submit
<1>4. /\ Len(t) = Len(typed) + 1 /\ t[Len(typed) + 1] = count + 1
      /\ \A k \in 1..Len(typed) : t[k] = typed[k]
  BY <1>2
<1>5. /\ Len(requests) + Len(typed) = count - n
      /\ \A k \in 1..Len(typed) : typed[k] = n + Len(requests) + k
  BY DEF InOrder
<1> HIDE DEF n, t
<1> DEFINE a == Len(requests)
           b == Len(typed)
<1>a. a \in Nat /\ b \in Nat /\ a + b = count - n /\ Len(t) = b + 1
  BY <1>2, <1>4, <1>5
<1> HIDE DEF a, b
<1>b. a + Len(t) = count' - n /\ count + 1 = n + a + (b + 1)
  BY <1>1, <1>2, <1>3, <1>a
<1> USE DEF a, b
<1>6. Len(requests) + Len(t) = count' - n
  BY <1>b
<1>7. \A k \in 1..Len(t) : t[k] = n + Len(requests) + k
  <2> SUFFICES ASSUME NEW k \in 1..Len(t) PROVE t[k] = n + Len(requests) + k
    OBVIOUS
  <2>1. k \in 1..Len(typed) \/ k = Len(typed) + 1
    BY <1>2, <1>4
  <2>2. count + 1 = n + Len(requests) + (Len(typed) + 1)
    BY <1>b
  <2> QED  BY <1>4, <1>5, <2>1, <2>2
<1> USE DEF n
<1> QED  BY <1>1, <1>3, <1>6, <1>7 DEF InOrder

\* Only four actions move messages or runs.
LEMMA NextInOrder ==
  ASSUME LimitsAreNumbers, Types, InOrder, [Next]_vars
  PROVE  InOrder'
<1>1. CASE StartRun \/ FinishRun \/ AcceptTask \/ Submit
  BY <1>1, StartInOrder, FinishInOrder, AcceptInOrder, SubmitInOrder
<1>2. CASE UNCHANGED queue
  BY <1>2, QueuesRest
<1>3. CASE LlmCall \/ StopRuntime \/ StopReader
  BY <1>2, <1>3 DEF LlmCall, StopRuntime, StopReader, back, queue
<1>4. CASE NoTask \/ HandleLlm \/ HandleCancelled \/ HandleEnd
  BY <1>2, <1>4 DEF NoTask, HandleLlm, HandleCancelled, HandleEnd, back, queue
<1>5. CASE Tail_ \/ End \/ CtrlCTimeout
  BY <1>2, <1>5 DEF Tail_, End, CtrlCTimeout, back, queue
<1>6. CASE handle_ctrl_b
  BY <1>2, <1>6 DEF handle_ctrl_b, back, queue
<1>7. CASE SelectBackground
  BY <1>2, <1>7 DEF SelectBackground, back, queue
<1>8. CASE TypeCancel \/ CtrlQ \/ CtrlC
  BY <1>2, <1>8 DEF TypeCancel, CtrlQ, CtrlC, back, queue
<1>9. CASE UNCHANGED vars
  BY <1>2, <1>9 DEF vars, back, queue
<1> QED  BY <1>1, <1>3, <1>4, <1>5, <1>6, <1>7, <1>8, <1>9 DEF Next, Loop, User

-----------------------------------------------------------------------------
(* Events *)

\* An event of the run in flight joins the channel.
LEMMA AppendFollows ==
  ASSUME LimitsAreNumbers, Types, InOrder, EventsFollow, NEW e \in EventType,
         events' = Append(events, e), e.task = Cardinality(Ended) + 1,
         Cardinality(Ended)' = Cardinality(Ended) + Advance(e),
         \A k \in 1..Len(events) :
           events[k].kind \in Endings => events[k].kind = outcome'[events[k].task],
         e.kind \in Endings => e.kind = outcome'[e.task]
  PROVE  EventsFollow' /\ Announced' = Announced
<1> DEFINE s == events
           t == Append(events, e)
           n == Cardinality(Ended)
           a == Announced
<1>0. s \in Seq(EventType)
  BY DEF Types
<1>1. /\ s \in Seq(EventType) /\ t \in Seq(EventType) /\ Len(s) \in Nat /\ Len(t) = Len(s) + 1
      /\ t[Len(s) + 1] = e /\ \A k \in 1..Len(s) : t[k] = s[k] /\ s[k] \in EventType
      /\ t # <<>> /\ (s = <<>> <=> Len(s) = 0)
  <2> HIDE DEF s
  <2>1. /\ t \in Seq(EventType) /\ Len(s) \in Nat /\ Len(t) = Len(s) + 1
        /\ t[Len(s) + 1] = e /\ \A k \in 1..Len(s) : t[k] = s[k] /\ s[k] \in EventType
    BY <1>0 DEF s
  <2>2. s = <<>> <=> Len(s) = 0
    BY <1>0, EmptySeq
  <2>3. t # <<>>
    BY <2>1
  <2> QED  BY <1>0, <2>1, <2>2, <2>3
<1>2. n \in Nat /\ a \in Int /\ Cardinality(EndsWaiting) \in Nat /\ Advance(e) \in {0, 1}
  BY Numbers DEF Advance
<1>3. EndsWaiting = Ends(s) /\ EndsWaiting' = Ends(t)
  BY DEF EndsWaiting, Ends
<1>4. Announced' = Announced
  <2>1. Cardinality(EndsWaiting)' = Cardinality(EndsWaiting) + Advance(e)
    BY <1>1, <1>3, AppendEnds
  <2> QED  BY <1>2, <2>1 DEF Announced
<1>5. /\ s = <<>> => a = n
      /\ s # <<>> => s[1].task = a + 1 /\ s[Len(s)].task + Advance(s[Len(s)]) = n + 1
      /\ \A k \in 1..Len(s) - 1 : s[k + 1].task = s[k].task + Advance(s[k])
  BY DEF EventsFollow
<1> HIDE DEF s, t, n, a
<1>6. t[1].task = a + 1
  <2>1. CASE s = <<>>
    BY <1>1, <1>5, <2>1 DEF n
  <2>2. CASE s # <<>>
    <3>1. 1 \in 1..Len(s)
      BY <1>1, <2>2
    <3> QED  BY <1>1, <1>5, <2>2, <3>1
  <2> QED  BY <2>1, <2>2
<1>7. t[Len(t)].task + Advance(t[Len(t)]) = Cardinality(Ended)' + 1
  <2>1. t[Len(t)] = e
    BY <1>1
  <2>2. n + 1 + Advance(e) = n + Advance(e) + 1
    BY <1>2
  <2> QED  BY <2>1, <2>2 DEF n
<1>8. ASSUME NEW k \in 1..Len(t) - 1
      PROVE  t[k + 1].task = t[k].task + Advance(t[k])
  <2>1. CASE k = Len(s)
    <3>1. k \in 1..Len(s) /\ s # <<>>
      BY <1>1, <2>1
    <3>2. t[k] = s[Len(s)] /\ t[k + 1] = e
      BY <1>1, <2>1, <3>1
    <3> QED  BY <1>5, <3>1, <3>2 DEF n
  <2>2. CASE k # Len(s)
    <3>1. k \in 1..Len(s) /\ k + 1 \in 1..Len(s) /\ k \in 1..Len(s) - 1
      BY <1>1, <2>2
    <3> QED  BY <1>1, <1>5, <3>1
  <2> QED  BY <2>1, <2>2
<1>9. ASSUME NEW k \in 1..Len(t), t[k].kind \in Endings PROVE t[k].kind = outcome'[t[k].task]
  <2>1. k \in 1..Len(s) \/ k = Len(s) + 1
    BY <1>1
  <2> QED  BY <1>1, <1>9, <2>1 DEF s
<1> USE DEF a
<1>10. events' = t
  BY DEF t
<1> QED  BY <1>1, <1>4, <1>6, <1>7, <1>8, <1>9, <1>10 DEF EventsFollow

\* The loop takes the first event: it is of the run whose end comes next.
LEMMA TailFollows ==
  ASSUME LimitsAreNumbers, Types, InOrder, EventsFollow, events # <<>>,
         events' = Tail(events), outcome' = outcome
  PROVE  /\ EventsFollow' /\ Announced' = Announced + Advance(Head(events))
         /\ Head(events) \in EventType /\ Head(events).task = Announced + 1
         /\ Head(events).kind \in Endings => Head(events).kind = outcome[Announced + 1]
<1> DEFINE s == events
           t == Tail(events)
           n == Cardinality(Ended)
           a == Announced
           b == Announced'
<1>0. s \in Seq(EventType) /\ s # <<>>
  BY DEF Types
<1>1. /\ s \in Seq(EventType) /\ t \in Seq(EventType) /\ Len(s) \in Nat \ {0} /\ Len(t) = Len(s) - 1
      /\ Head(s) = s[1] /\ \A k \in 1..Len(t) : t[k] = s[k + 1]
      /\ (t = <<>> <=> Len(t) = 0) /\ \A k \in 1..Len(s) : s[k] \in EventType
  <2>1. /\ t \in Seq(EventType) /\ Len(s) \in Nat \ {0} /\ Len(t) = Len(s) - 1
        /\ Head(s) = s[1] /\ \A k \in 1..Len(t) : t[k] = s[k + 1]
    BY <1>0
  <2>2. t = <<>> <=> Len(t) = 0
    BY <2>1, EmptySeq
  <2>3. \A k \in 1..Len(s) : s[k] \in EventType
    BY <1>0
  <2> QED  BY <1>0, <2>1, <2>2, <2>3
<1>2. /\ n \in Nat /\ a \in Int /\ Cardinality(EndsWaiting) \in Nat /\ Advance(s[1]) \in {0, 1}
      /\ Cardinality(Ended)' = n
  BY Numbers DEF Advance, Ended
<1>3. EndsWaiting = Ends(s) /\ EndsWaiting' = Ends(t)
  BY DEF EndsWaiting, Ends
<1>4. b = a + Advance(s[1])
  <2>1. Cardinality(EndsWaiting)' = Cardinality(EndsWaiting) - Advance(s[1])
    BY <1>1, <1>3, TailEnds
  <2> QED  BY <1>2, <2>1 DEF Announced
<1>5. /\ s[1].task = a + 1 /\ s[Len(s)].task + Advance(s[Len(s)]) = n + 1
      /\ \A k \in 1..Len(s) - 1 : s[k + 1].task = s[k].task + Advance(s[k])
      /\ \A k \in 1..Len(s) : s[k].kind \in Endings => s[k].kind = outcome[s[k].task]
  BY DEF EventsFollow
<1>6. events' = t
  OBVIOUS
<1> HIDE DEF s, t, n, a, b
<1>7. t = <<>> => b = n
  <2> SUFFICES ASSUME t = <<>> PROVE b = n
    OBVIOUS
  <2>1. Len(s) = 1
    BY <1>1
  <2> QED  BY <1>2, <1>4, <1>5, <2>1
<1>8. t # <<>> => t[1].task = b + 1 /\ t[Len(t)].task + Advance(t[Len(t)]) = n + 1
  <2> SUFFICES ASSUME t # <<>>
               PROVE  t[1].task = b + 1 /\ t[Len(t)].task + Advance(t[Len(t)]) = n + 1
    OBVIOUS
  <2>1. /\ 1 \in 1..Len(t) /\ 1 \in 1..Len(s) - 1 /\ Len(t) \in 1..Len(t)
        /\ Len(t) + 1 = Len(s) /\ 1 + 1 = 2
    BY <1>1
  <2>2. t[1] = s[2] /\ t[Len(t)] = s[Len(s)]
    BY <1>1, <2>1
  <2>3. s[2].task = s[1].task + Advance(s[1])
    BY <1>5, <2>1
  <2>4. t[1].task = b + 1
    BY <1>2, <1>4, <1>5, <2>2, <2>3, SMTT(40)
  <2> QED  BY <1>5, <2>2, <2>4
<1>9. ASSUME NEW k \in 1..Len(t) - 1
      PROVE  t[k + 1].task = t[k].task + Advance(t[k])
  <2>1. k \in 1..Len(t) /\ k + 1 \in 1..Len(t) /\ k + 1 \in 1..Len(s) - 1
    BY <1>1
  <2> QED  BY <1>1, <1>5, <2>1
<1>10. ASSUME NEW k \in 1..Len(t), t[k].kind \in Endings PROVE t[k].kind = outcome[t[k].task]
  <2>1. k + 1 \in 1..Len(s)
    BY <1>1
  <2> QED  BY <1>1, <1>5, <1>10, <2>1
<1>11. EventsFollow'
  BY <1>2, <1>6, <1>7, <1>8, <1>9, <1>10 DEF EventsFollow, b
<1>12. 1 \in 1..Len(s)
  BY <1>1
<1>13. s[1].kind \in Endings => s[1].kind = outcome[a + 1]
  BY <1>5, <1>12
<1> QED  BY <1>1, <1>4, <1>5, <1>11, <1>12, <1>13 DEF a, b, s

\* A model call.
LEMMA CallFollows ==
  ASSUME LimitsAreNumbers, Types, InOrder, EventsFollow, LlmCall
  PROVE  EventsFollow' /\ Announced' = Announced /\ events' \in Seq(EventType)
<1> PICK kind \in {"llm", "cancelled"} : events' = Append(events, [kind |-> kind, task |-> running])
  BY DEF LlmCall
<1> DEFINE e == [kind |-> kind, task |-> running]
<1>1. running = Cardinality(Ended) + 1 /\ Cardinality(Ended) \in Nat /\ running \in Tasks
  BY Numbers DEF LlmCall, Types, TypeOK, Tasks, LimitsAreNumbers
<1>2. e \in EventType /\ e.kind \notin Endings /\ e.task = Cardinality(Ended) + 1 /\ Advance(e) = 0
  BY <1>1 DEF EventType, Advance, Endings
<1>3. events' = Append(events, e) /\ outcome' = outcome /\ Ended' = Ended
  BY DEF LlmCall, back, Ended
<1>4. \A k \in 1..Len(events) :
        events[k].kind \in Endings => events[k].kind = outcome'[events[k].task]
  BY <1>3 DEF EventsFollow
<1>5. Cardinality(Ended)' = Cardinality(Ended) + Advance(e)
  BY <1>1, <1>2, <1>3
<1>6. events' \in Seq(EventType)
  BY <1>2, <1>3 DEF Types
<1> HIDE DEF e
<1> QED  BY <1>2, <1>3, <1>4, <1>5, <1>6, AppendFollows

\* The end of a run.
LEMMA EndFollows ==
  ASSUME LimitsAreNumbers, Types, InOrder, EventsFollow, FinishRun
  PROVE  EventsFollow' /\ Announced' = Announced /\ events' \in Seq(EventType)
<1> PICK result \in {"done", "error"} :
      /\ outcome' = [outcome EXCEPT ![running] = result]
      /\ events' = Append(events, [kind |-> result, task |-> running])
  BY DEF FinishRun
<1> DEFINE e == [kind |-> result, task |-> running]
<1>1. /\ running \in Tasks /\ running \notin Ended /\ running = Cardinality(Ended) + 1
      /\ Cardinality(Ended)' = Cardinality(Ended) + 1
  BY FinishCounts DEF FinishRun
<1>2. /\ e \in EventType /\ e.kind = result /\ e.kind \in Endings /\ e.task = Cardinality(Ended) + 1
      /\ e.task = running /\ Advance(e) = 1
  BY <1>1 DEF EventType, Advance, Endings
<1>3. outcome'[running] = result /\ \A t \in Tasks : t # running => outcome'[t] = outcome[t]
  BY <1>1 DEF Types, TypeOK
<1>4. ASSUME NEW k \in 1..Len(events), events[k].kind \in Endings
      PROVE  events[k].kind = outcome'[events[k].task]
  <2>1. events[k] \in EventType
    BY DEF Types
  <2>2. /\ events[k].task \in Tasks /\ events[k].kind \in {"done", "error"}
        /\ events[k].kind = outcome[events[k].task]
    BY <1>4, <2>1 DEF EventType, EventsFollow, Endings
  <2>3. events[k].task \in Ended
    BY <2>2 DEF Ended
  <2> QED  BY <1>1, <1>3, <2>2, <2>3
<1>5. events' = Append(events, e) /\ events' \in Seq(EventType)
  BY <1>2 DEF Types
<1> HIDE DEF e
<1> QED  BY <1>1, <1>2, <1>3, <1>4, <1>5, AppendFollows

\* The handlers take the first event.
LEMMA HandledFollows ==
  ASSUME LimitsAreNumbers, Types, InOrder, EventsFollow,
         HandleLlm \/ HandleCancelled \/ HandleEnd
  PROVE  /\ EventsFollow' /\ Announced' = Announced + Advance(Head(events))
         /\ events' \in Seq(EventType)
         /\ Head(events) \in EventType /\ Head(events).task = Announced + 1
         /\ Head(events).kind \in Endings => Head(events).kind = outcome[Announced + 1]
<1>1. events # <<>> /\ events' = Tail(events) /\ outcome' = outcome
  BY DEF HandleLlm, HandleCancelled, HandleEnd, back
<1>2. events' \in Seq(EventType)
  BY <1>1 DEF Types
<1> QED  BY <1>1, <1>2, TailFollows

\* Only four actions move events or settle a run.
LEMMA NextFollows ==
  ASSUME LimitsAreNumbers, Types, InOrder, EventsFollow, [Next]_vars
  PROVE  EventsFollow' /\ events' \in Seq(EventType)
<1>0. events \in Seq(EventType)
  BY DEF Types
<1>1. CASE LlmCall \/ FinishRun \/ HandleLlm \/ HandleCancelled \/ HandleEnd
  BY <1>1, CallFollows, EndFollows, HandledFollows
<1>2. CASE UNCHANGED <<events, outcome>>
  BY <1>0, <1>2, EventsRest
<1>3. CASE StartRun \/ StopRuntime \/ StopReader
  BY <1>2, <1>3 DEF StartRun, StopRuntime, StopReader, back
<1>4. CASE AcceptTask \/ NoTask
  BY <1>2, <1>4 DEF AcceptTask, NoTask, back
<1>5. CASE Tail_ \/ End \/ CtrlCTimeout
  BY <1>2, <1>5 DEF Tail_, End, CtrlCTimeout, back
<1>6. CASE Submit \/ handle_ctrl_b
  BY <1>2, <1>6 DEF Submit, handle_ctrl_b, back
<1>7. CASE SelectBackground
  BY <1>2, <1>7 DEF SelectBackground, back
<1>8. CASE TypeCancel \/ CtrlQ \/ CtrlC
  BY <1>2, <1>8 DEF TypeCancel, CtrlQ, CtrlC, back
<1>9. CASE UNCHANGED vars
  BY <1>2, <1>9 DEF vars, back
<1> QED  BY <1>1, <1>3, <1>4, <1>5, <1>6, <1>7, <1>8, <1>9 DEF Next, Loop, User

-----------------------------------------------------------------------------
(* Pipelines in the background *)

\* What Detached says of the entries, by their places.
LEMMA EntriesByPlace ==
  ASSUME Types
  PROVE  /\ Len(background_entries) \in Nat
         /\ DOMAIN background_entries = 1..Len(background_entries)
         /\ RunningEntries \subseteq 1..Len(background_entries)
         /\ \A k \in 1..Len(background_entries) :
              /\ background_entries[k] \in EntryType
              /\ k \in RunningEntries <=> background_entries[k].status = "running"
<1>1. background_entries \in Seq(EntryType)
  BY DEF Types
<1>2. /\ Len(background_entries) \in Nat
      /\ DOMAIN background_entries = 1..Len(background_entries)
      /\ \A k \in 1..Len(background_entries) : background_entries[k] \in EntryType
  BY <1>1
<1> QED  BY <1>2 DEF RunningEntries

\* A pipeline that runs in the background is the last that does, and the only one.
LEMMA OneRuns ==
  ASSUME Types, Detached, RunningEntries # {}
  PROVE  LastRunning \in RunningEntries /\ \A k \in RunningEntries : k = LastRunning
<1> PICK r \in RunningEntries : TRUE
  OBVIOUS
<1>1. r \in Nat
  BY EntriesByPlace
<1>2. \A k \in RunningEntries : k = r
  BY DEF Detached
<1>3. \E k \in RunningEntries : \A j \in RunningEntries : j <= k
  BY <1>1, <1>2
<1>4. LastRunning \in RunningEntries
  BY <1>3 DEF LastRunning
<1> QED  BY <1>2, <1>4

\* Detached, for steps that leave the entries alone.
LEMMA FlagsKeep ==
  ASSUME Types, Detached, UNCHANGED <<bg_mode, background_entries>>,
         Announced' = Announced,
         \A k \in 1..Len(background_entries) :
           background_entries[k].status # "running" =>
             outcome'[background_entries[k].run] = outcome[background_entries[k].run],
         Active' => (~bg_mode /\ current' = Announced + 1),
         bg_mode => current' = Announced + 1
  PROVE  Detached'
<1>1. RunningEntries' = RunningEntries
  BY DEF RunningEntries
<1> QED  BY <1>1 DEF Detached

\* Steps that leave the pipelines alone.
LEMMA DetachedRests ==
  ASSUME Types, Detached,
         UNCHANGED <<phase, bg_mode, background_entries, current, events, outcome>>
  PROVE  Detached'
<1>1. Announced' = Announced /\ (Active' <=> Active)
  BY EventsRest DEF Active
<1> QED  BY <1>1, FlagsKeep DEF Detached

\* A pipeline comes back to the foreground, or a finished one leaves the list.
LEMMA ReattachKeeps ==
  ASSUME Types, Detached, NEW i \in 1..Len(background_entries), Reattach(i),
         UNCHANGED <<current, events, outcome>>
  PROVE  /\ Detached' /\ background_entries' \in Seq(EntryType) /\ bg_mode' \in BOOLEAN
         /\ phase' \in {phase, "active"}
<1> DEFINE s == background_entries
           t == Without(background_entries, i)
           from(k) == IF k < i THEN k ELSE k + 1
<1>1. s \in Seq(EntryType) /\ bg_mode \in BOOLEAN
  BY DEF Types
<1>2. /\ t \in Seq(EntryType) /\ Len(t) = Len(s) - 1 /\ Len(s) \in Nat /\ i \in 1..Len(s)
      /\ \A k \in 1..Len(s) - 1 : t[k] = IF k < i THEN s[k] ELSE s[k + 1]
  BY <1>1, WithoutEntry, EntriesByPlace
<1>3. background_entries' = t /\ Announced' = Announced
  BY EventsRest DEF Reattach
<1> DEFINE now == RunningEntries'
<1>4. /\ now \subseteq 1..Len(t)
      /\ \A k \in 1..Len(t) : k \in now <=> t[k].status = "running"
  <2>1. DOMAIN t = 1..Len(t)
    BY <1>2
  <2> QED  BY <1>3, <2>1 DEF RunningEntries
<1>5. /\ RunningEntries \subseteq 1..Len(s)
      /\ \A k \in 1..Len(s) : k \in RunningEntries <=> s[k].status = "running"
  BY EntriesByPlace
<1> HIDE DEF s, t, now
<1>6. ASSUME NEW k \in 1..Len(t)
      PROVE  /\ from(k) \in 1..Len(s) /\ t[k] = s[from(k)] /\ from(k) # i
             /\ k \in now <=> from(k) \in RunningEntries
  <2>1. from(k) \in 1..Len(s) /\ t[k] = s[from(k)] /\ from(k) # i
    BY <1>2
  <2> QED  BY <1>4, <1>5, <2>1
<1>7. \A k \in 1..Len(s) :
        LET entry == s[k]
        IN IF entry.status = "running" THEN entry.run = Announced + 1
           ELSE entry.run \in Tasks /\ entry.status = outcome[entry.run]
  BY DEF Detached, s
<1>8. \A k \in 1..Len(t) :
        LET entry == t[k]
        IN IF entry.status = "running" THEN entry.run = Announced' + 1
           ELSE entry.run \in Tasks /\ entry.status = outcome'[entry.run]
  <2> SUFFICES ASSUME NEW k \in 1..Len(t)
               PROVE  IF t[k].status = "running" THEN t[k].run = Announced + 1
                      ELSE t[k].run \in Tasks /\ t[k].status = outcome[t[k].run]
    BY <1>3
  <2>1. from(k) \in 1..Len(s) /\ t[k] = s[from(k)]
    BY <1>6
  <2> HIDE DEF from
  <2> QED  BY <1>7, <2>1
<1>9. \A j, k \in now : j = k
  <2> SUFFICES ASSUME NEW j \in now, NEW k \in now PROVE j = k
    OBVIOUS
  <2>1. j \in 1..Len(t) /\ k \in 1..Len(t)
    BY <1>4
  <2>2. from(j) \in RunningEntries /\ from(k) \in RunningEntries
    BY <1>6, <2>1
  <2>3. from(j) = from(k)
    BY <2>2 DEF Detached
  <2> QED  BY <2>1, <2>3
<1>10. CASE i \in RunningEntries
  <2>1. bg_mode' = FALSE /\ phase' = "active" /\ current' = Announced + 1
    BY <1>10 DEF Reattach, Detached
  <2>2. now = {}
    <3> SUFFICES ASSUME NEW k \in now PROVE FALSE
      OBVIOUS
    <3>1. from(k) \in RunningEntries /\ from(k) # i
      BY <1>4, <1>6
    <3> QED  BY <1>10, <3>1 DEF Detached
  <2> QED  BY <1>2, <1>3, <1>8, <1>9, <2>1, <2>2 DEF Detached, now
<1>11. CASE i \notin RunningEntries
  <2>1. bg_mode' = bg_mode /\ phase' = phase /\ current' = current
    BY <1>11 DEF Reattach
  <2>2. now # {} => RunningEntries # {}
    BY <1>4, <1>6
  <2>3. RunningEntries # {} => now # {}
    <3> SUFFICES ASSUME NEW r \in RunningEntries PROVE now # {}
      OBVIOUS
    <3> DEFINE k == IF r < i THEN r ELSE r - 1
    <3>1. r \in 1..Len(s) /\ r # i
      BY <1>5, <1>11
    <3>2. k \in 1..Len(t) /\ from(k) = r
      BY <1>2, <3>1
    <3> HIDE DEF k, from
    <3> QED  BY <1>6, <3>2
  <2>4. Active' <=> Active
    BY <2>1 DEF Active
  <2> QED  BY <1>1, <1>2, <1>3, <1>8, <1>9, <2>1, <2>2, <2>3, <2>4 DEF Detached, now
<1> QED  BY <1>10, <1>11

\* The pipeline in flight goes to the background.
LEMMA DetachKeeps ==
  ASSUME Types, Detached, Active, ~bg_mode,
         background_entries' = Append(background_entries,
           [task |-> label, run |-> current, status |-> "running"]),
         bg_mode' = TRUE, phase' = "idle", UNCHANGED <<current, events, outcome>>
  PROVE  Detached' /\ background_entries' \in Seq(EntryType)
<1> DEFINE s == background_entries
           e == [task |-> label, run |-> current, status |-> "running"]
           t == Append(s, e)
<1>1. s \in Seq(EntryType) /\ e \in EntryType
  BY DEF Types, EntryType
<1>2. e.status = "running" /\ e.run = Announced + 1
  BY DEF Detached
<1>3. background_entries' = t /\ Announced' = Announced /\ ~Active' /\ current' = current
  BY EventsRest DEF Active
<1>4. RunningEntries = {} /\ Len(s) \in Nat
      /\ \A k \in 1..Len(s) : k \in RunningEntries <=> s[k].status = "running"
  BY EntriesByPlace DEF Detached
<1>5. \A k \in 1..Len(s) : s[k].status # "running" /\ s[k].run \in Tasks
                             /\ s[k].status = outcome[s[k].run]
  BY <1>4 DEF Detached
<1> HIDE DEF s, e
<1>6. /\ t \in Seq(EntryType) /\ Len(t) = Len(s) + 1 /\ t[Len(s) + 1] = e
      /\ \A k \in 1..Len(s) : t[k] = s[k]
      /\ DOMAIN t = 1..Len(s) + 1
  BY <1>1, <1>4
<1> HIDE DEF t
<1>7. RunningEntries' = {Len(s) + 1}
  <2>1. RunningEntries' = {k \in DOMAIN t : t[k].status = "running"}
    BY <1>3 DEF RunningEntries
  <2>2. \A k \in 1..Len(s) + 1 : t[k].status = "running" <=> k = Len(s) + 1
    BY <1>2, <1>4, <1>5, <1>6
  <2> QED  BY <1>4, <1>6, <2>1, <2>2
<1>8. ASSUME NEW k \in 1..Len(t)
      PROVE  IF t[k].status = "running" THEN t[k].run = Announced + 1
             ELSE t[k].run \in Tasks /\ t[k].status = outcome[t[k].run]
  <2>1. k \in 1..Len(s) \/ k = Len(s) + 1
    BY <1>4, <1>6
  <2> QED  BY <1>2, <1>5, <1>6, <2>1
<1>9. current' = Announced' + 1
  BY <1>3 DEF Detached
<1> QED  BY <1>3, <1>6, <1>7, <1>8, <1>9 DEF Detached

\* The end of a run is announced: its entry in the background says how.
LEMMA EndKeeps ==
  ASSUME LimitsAreNumbers, Types, InOrder, EventsFollow, Detached, HandleEnd
  PROVE  /\ Detached' /\ background_entries' \in Seq(EntryType) /\ bg_mode' \in BOOLEAN
         /\ phase' \in {phase, "done", "error"}
<1> DEFINE s == background_entries
           ending == Head(events).kind
           n == Announced
<1>1. /\ Announced' = n + Advance(Head(events)) /\ Head(events) \in EventType
      /\ Head(events).task = n + 1 /\ ending \in Endings /\ ending = outcome[n + 1]
  BY HandledFollows DEF HandleEnd
<1>2. ending \in {"done", "error"} /\ n + 1 \in Tasks /\ Announced' = n + 1
  BY <1>1 DEF EventType, Advance, Endings
<1>3. current' = current /\ outcome' = outcome
  BY DEF HandleEnd, back
<1>4. /\ s \in Seq(EntryType) /\ Len(s) \in Nat /\ RunningEntries \subseteq 1..Len(s)
      /\ \A k \in 1..Len(s) : /\ s[k] \in EntryType
                              /\ k \in RunningEntries <=> s[k].status = "running"
      /\ DOMAIN s = 1..Len(s)
  BY EntriesByPlace DEF Types
<1>5. \A k \in 1..Len(s) : IF s[k].status = "running" THEN s[k].run = n + 1
                            ELSE s[k].run \in Tasks /\ s[k].status = outcome[s[k].run]
  BY DEF Detached
<1>6. CASE bg_mode
  <2> DEFINE r == LastRunning
             t == [s EXCEPT ![r].status = ending]
  <2>1. RunningEntries # {} /\ ~Active
    BY <1>6 DEF Detached
  <2>2. r \in RunningEntries /\ \A k \in RunningEntries : k = r
    BY <2>1, OneRuns
  <2>3. /\ background_entries' = t /\ bg_mode' = FALSE
        /\ phase' = phase \/ phase' = ending
    BY <1>6, <2>1 DEF HandleEnd
  <2> HIDE DEF s, r, ending, n
  <2>4. r \in 1..Len(s)
    BY <1>4, <2>2
  <2>5. t = [s EXCEPT ![r] = [s[r] EXCEPT !.status = ending]]
    BY <1>4, <2>4
  <2>6. [s[r] EXCEPT !.status = ending] \in EntryType
    BY <1>2, <1>4, <2>4 DEF EntryType
  <2>7. t \in Seq(EntryType) /\ Len(t) = Len(s) /\ DOMAIN t = 1..Len(s)
    BY <1>4, <2>4, <2>5, <2>6
  <2>8. t[r].status = ending /\ t[r].run = n + 1
    <3>1. t[r] = [s[r] EXCEPT !.status = ending]
      BY <1>4, <2>4, <2>5
    <3>2. s[r].run = n + 1
      BY <1>4, <1>5, <2>2, <2>4
    <3> QED  BY <1>4, <2>4, <3>1, <3>2 DEF EntryType
  <2>9. \A k \in 1..Len(s) : k # r => t[k] = s[k] /\ s[k].status # "running"
    BY <1>4, <2>2
  <2> HIDE DEF t
  <2>10. \A k \in 1..Len(s) : /\ t[k].status # "running" /\ t[k].run \in Tasks
                              /\ t[k].status = outcome[t[k].run]
    <3> SUFFICES ASSUME NEW k \in 1..Len(s)
                 PROVE  /\ t[k].status # "running" /\ t[k].run \in Tasks
                        /\ t[k].status = outcome[t[k].run]
      OBVIOUS
    <3>1. CASE k = r
      BY <1>1, <1>2, <2>8, <3>1
    <3>2. CASE k # r
      BY <1>5, <2>9, <3>2
    <3> QED  BY <3>1, <3>2
  <2>11. RunningEntries' = {}
    BY <2>3, <2>7, <2>10 DEF RunningEntries
  <2>12. ~Active'
    BY <1>2, <2>1, <2>3 DEF Active
  <2> QED  BY <1>2, <1>3, <2>3, <2>7, <2>10, <2>11, <2>12 DEF Detached
<1>7. CASE ~bg_mode
  <2>1. RunningEntries = {}
    BY <1>7 DEF Detached
  <2>2. background_entries' = s /\ bg_mode' = FALSE /\ phase' = ending
    <3>1. UNCHANGED <<bg_mode, background_entries>> /\ phase' = ending
      BY <1>7 DEF HandleEnd
    <3> QED  BY <1>7, <3>1 DEF Types
  <2>3. RunningEntries' = {}
    BY <2>1, <2>2 DEF RunningEntries
  <2>4. ~Active'
    BY <1>2, <2>2 DEF Active
  <2>5. \A k \in 1..Len(s) : s[k].status # "running"
    BY <1>4, <2>1
  <2> HIDE DEF s, ending, n
  <2> QED  BY <1>2, <1>3, <1>4, <1>5, <2>2, <2>3, <2>4, <2>5 DEF Detached
<1> QED  BY <1>6, <1>7

\* The event of a model call names the run whose end comes next.
LEMMA LlmKeeps ==
  ASSUME LimitsAreNumbers, Types, InOrder, EventsFollow, Detached, HandleLlm
  PROVE  Detached' /\ bg_mode' = bg_mode /\ current' \in Nat /\ phase' \in {phase, "active"}
<1>1. /\ Announced' = Announced + Advance(Head(events)) /\ Head(events) \in EventType
      /\ Head(events).task = Announced + 1 /\ Head(events).kind = "llm"
  BY HandledFollows DEF HandleLlm
<1>2. Announced' = Announced
  BY <1>1, Numbers DEF Advance, Endings
<1>3. current' = Announced + 1 /\ current' \in Nat
  BY <1>1 DEF HandleLlm, EventType, Tasks
<1>4. bg_mode' = bg_mode
  <2>1. bg_mode \in BOOLEAN /\ (bg_mode <=> RunningEntries # {})
    BY DEF Types, Detached
  <2>2. bg_mode' = (bg_mode /\ RunningEntries # {})
    BY DEF HandleLlm
  <2> QED  BY <2>1, <2>2
<1>5. /\ UNCHANGED <<background_entries, outcome>> /\ phase' \in {phase, "active"}
      /\ (bg_mode => phase' = phase)
  BY DEF HandleLlm, back
<1>6. Active' => ~bg_mode
  <2> SUFFICES ASSUME bg_mode PROVE ~Active'
    OBVIOUS
  <2> QED  BY <1>5 DEF Active, Detached
<1> QED  BY <1>2, <1>3, <1>4, <1>5, <1>6, FlagsKeep

\* The event of an agent that was cancelled says nothing of its run.
LEMMA CancelledKeeps ==
  ASSUME LimitsAreNumbers, Types, InOrder, EventsFollow, Detached, HandleCancelled
  PROVE  Detached' /\ bg_mode' = bg_mode /\ phase' \in {phase, "error"}
<1>1. Announced' = Announced
  <2>1. /\ Announced' = Announced + Advance(Head(events)) /\ Head(events).kind = "cancelled"
    BY HandledFollows DEF HandleCancelled
  <2> QED  BY <2>1, Numbers DEF Advance, Endings
<1>2. bg_mode' = bg_mode
  <2>1. bg_mode \in BOOLEAN /\ (bg_mode <=> RunningEntries # {})
    BY DEF Types, Detached
  <2>2. bg_mode' = (bg_mode /\ RunningEntries # {})
    BY DEF HandleCancelled
  <2> QED  BY <2>1, <2>2
<1>3. UNCHANGED <<background_entries, outcome, current>> /\ phase' \in {phase, "error"}
  BY DEF HandleCancelled, back
<1>4. Active' => Active
  BY <1>3 DEF Active
<1>5. /\ Active => ~bg_mode
      /\ bg_mode \/ Active => current = Announced + 1
  BY DEF Detached
<1> QED  BY <1>1, <1>2, <1>3, <1>4, <1>5, FlagsKeep

\* The run that ends is not one an entry speaks of.
LEMMA FinishKeeps ==
  ASSUME LimitsAreNumbers, Types, InOrder, EventsFollow, Detached, FinishRun
  PROVE  Detached'
<1> PICK result \in {"done", "error"} : outcome' = [outcome EXCEPT ![running] = result]
  BY DEF FinishRun
<1>1. running \in Tasks /\ running \notin Ended
  BY FinishCounts DEF FinishRun
<1>2. Announced' = Announced
  BY EndFollows
<1>3. UNCHANGED <<phase, bg_mode, background_entries, current>>
  BY DEF FinishRun, ui
<1>4. ASSUME NEW k \in 1..Len(background_entries),
             background_entries[k].status # "running"
      PROVE  outcome'[background_entries[k].run] = outcome[background_entries[k].run]
  <2> DEFINE e == background_entries[k]
  <2>1. e \in EntryType
    BY EntriesByPlace
  <2>2. e.run \in Tasks /\ e.status = outcome[e.run]
    BY <1>4 DEF Detached
  <2>3. e.status \in {"done", "error"}
    BY <1>4, <2>1 DEF EntryType
  <2> HIDE DEF e
  <2>4. e.run \in Ended
    BY <2>2, <2>3 DEF Ended
  <2>5. outcome'[e.run] = outcome[e.run]
    BY <1>1, <2>2, <2>4 DEF Types, TypeOK
  <2> QED  BY <2>5 DEF e
<1>5. (Active' <=> Active) /\ current' = current
  BY <1>3 DEF Active
<1> QED  BY <1>2, <1>3, <1>4, <1>5, FlagsKeep DEF Detached

\* Ctrl+B detaches, takes back, or does nothing.
LEMMA CtrlBKeeps ==
  ASSUME Types, Detached, handle_ctrl_b
  PROVE  /\ Detached' /\ background_entries' \in Seq(EntryType) /\ bg_mode' \in BOOLEAN
         /\ phase' \in {phase, "idle", "active"}
<1>1. /\ UNCHANGED <<current, events, outcome>>
      /\ background_entries \in Seq(EntryType) /\ bg_mode \in BOOLEAN
  BY DEF handle_ctrl_b, back, Types
<1>2. CASE UNCHANGED <<background_entries, bg_mode, phase>>
  BY <1>1, <1>2, DetachedRests
<1>3. CASE Len(background_entries) = 1 /\ Reattach(1)
  BY <1>1, <1>3, ReattachKeeps
<1>4. CASE RunningEntries # {} /\ Reattach(LastRunning)
  <2>1. LastRunning \in 1..Len(background_entries)
    BY <1>4, OneRuns, EntriesByPlace
  <2> QED  BY <1>1, <1>4, <2>1, ReattachKeeps
<1>5. CASE /\ Active /\ ~bg_mode
           /\ background_entries' = Append(background_entries,
                [task |-> label, run |-> current, status |-> "running"])
           /\ bg_mode' = TRUE /\ phase' = "idle"
  BY <1>1, <1>5, DetachKeeps
<1>6. ~(bg_mode /\ RunningEntries = {})
  BY DEF Detached
<1> QED  BY <1>2, <1>3, <1>4, <1>5, <1>6 DEF handle_ctrl_b

\* A digit takes a pipeline back, or is beyond the list.
LEMMA SelectKeeps ==
  ASSUME LimitsAreNumbers, Types, Detached, SelectBackground
  PROVE  /\ Detached' /\ background_entries' \in Seq(EntryType) /\ bg_mode' \in BOOLEAN
         /\ phase' \in {phase, "active"}
<1>1. /\ UNCHANGED <<current, events, outcome>>
      /\ background_entries \in Seq(EntryType) /\ bg_mode \in BOOLEAN
  BY DEF SelectBackground, back, Types
<1> PICK digit \in 1..MaxDetach :
      IF digit <= Len(background_entries) THEN Reattach(digit)
      ELSE UNCHANGED <<background_entries, bg_mode, phase>>
  BY DEF SelectBackground
<1>2. CASE digit <= Len(background_entries)
  <2>1. digit \in 1..Len(background_entries)
    BY <1>2, EntriesByPlace DEF LimitsAreNumbers
  <2> QED  BY <1>1, <1>2, <2>1, ReattachKeeps
<1>3. CASE ~(digit <= Len(background_entries))
  BY <1>1, <1>3, DetachedRests
<1> QED  BY <1>2, <1>3

\* A new task starts in the foreground.
LEMMA AcceptKeeps ==
  ASSUME Types, Detached, AcceptTask
  PROVE  Detached'
<1>1. /\ UNCHANGED <<bg_mode, background_entries, current, outcome, events>> /\ ~Active'
  BY DEF AcceptTask, Active
<1>2. Announced' = Announced
  BY <1>1, EventsRest
<1> QED  BY <1>1, <1>2, FlagsKeep DEF Detached

\* What Detached speaks of, beside events and outcomes.
pipes == <<phase, bg_mode, background_entries, current>>

\* Eight actions touch the pipelines or what is said of them.
LEMMA NextDetached ==
  ASSUME LimitsAreNumbers, Types, InOrder, EventsFollow, Detached, [Next]_vars
  PROVE  /\ Detached' /\ background_entries' \in Seq(EntryType) /\ bg_mode' \in BOOLEAN
         /\ current' \in Nat /\ phase' \in {"idle", "active", "done", "error"}
<1>0. /\ background_entries \in Seq(EntryType) /\ bg_mode \in BOOLEAN /\ current \in Nat
      /\ phase \in {"idle", "active", "done", "error"}
  BY DEF Types, TypeOK
<1>1. CASE HandleLlm
  <2>1. UNCHANGED background_entries
    BY <1>1 DEF HandleLlm
  <2> QED  BY <1>0, <1>1, <2>1, LlmKeeps
<1>13. CASE HandleCancelled
  <2>1. UNCHANGED <<background_entries, current>>
    BY <1>13 DEF HandleCancelled
  <2> QED  BY <1>0, <1>13, <2>1, CancelledKeeps
<1>2. CASE HandleEnd
  <2>1. UNCHANGED current
    BY <1>2 DEF HandleEnd
  <2> QED  BY <1>0, <1>2, <2>1, EndKeeps
<1>3. CASE FinishRun
  <2>1. UNCHANGED pipes
    BY <1>3 DEF FinishRun, ui, pipes
  <2> QED  BY <1>0, <1>3, <2>1, FinishKeeps DEF pipes
<1>4. CASE LlmCall
  <2>1. UNCHANGED pipes /\ UNCHANGED outcome
    BY <1>4 DEF LlmCall, ui, back, pipes
  <2>2. Announced' = Announced
    BY <1>4, CallFollows
  <2>3. (Active' <=> Active) /\ current' = current
    BY <2>1 DEF Active, pipes
  <2>4. Detached'
    BY <2>1, <2>2, <2>3, FlagsKeep DEF Detached, pipes
  <2> QED  BY <1>0, <2>1, <2>4 DEF pipes
<1>5. CASE AcceptTask
  <2>1. UNCHANGED <<bg_mode, background_entries, current>> /\ phase' = "idle"
    BY <1>5 DEF AcceptTask
  <2> QED  BY <1>0, <1>5, <2>1, AcceptKeeps
<1>6. CASE handle_ctrl_b
  <2>1. UNCHANGED current
    BY <1>6 DEF handle_ctrl_b
  <2> QED  BY <1>0, <1>6, <2>1, CtrlBKeeps
<1>7. CASE SelectBackground
  <2>1. UNCHANGED current
    BY <1>7 DEF SelectBackground
  <2> QED  BY <1>0, <1>7, <2>1, SelectKeeps
<1>8. CASE UNCHANGED <<pipes, events, outcome>>
  BY <1>0, <1>8, DetachedRests DEF pipes
<1>9. CASE StartRun \/ StopRuntime \/ StopReader
  BY <1>8, <1>9 DEF StartRun, StopRuntime, StopReader, ui, back, pipes
<1>10. CASE NoTask \/ Tail_ \/ End \/ CtrlCTimeout
  BY <1>8, <1>10 DEF NoTask, Tail_, End, CtrlCTimeout, ui, back, pipes
<1>11. CASE Submit \/ TypeCancel \/ CtrlQ \/ CtrlC
  BY <1>8, <1>11 DEF Submit, TypeCancel, CtrlQ, CtrlC, back, pipes
<1>12. CASE UNCHANGED vars
  BY <1>8, <1>12 DEF vars, ui, back, pipes
<1> QED
  BY <1>1, <1>2, <1>3, <1>4, <1>5, <1>6, <1>7, <1>9, <1>10, <1>11, <1>12, <1>13
  DEF Next, Loop, User

-----------------------------------------------------------------------------
(* Types, and the invariant as a whole *)

\* The types of messages, runs and the way out; the others come with the lemmas above.
Plain ==
  /\ count \in 0..MaxTasks /\ running \in 0..MaxTasks
  /\ outcome \in [Tasks -> {"none", "done", "error"}]
  /\ quit \subseteq {"confirmed", "armed", "should_quit", "ended"}
  /\ requests \in Seq(Nat) /\ typed \in Seq(Nat) /\ label \in Nat

\* Every action keeps the types of messages, runs and the way out.
LEMMA NextPlain ==
  ASSUME LimitsAreNumbers, Types, InOrder, [Next]_vars
  PROVE  Plain'
<1>0. Plain
  BY DEF Plain, Types, TypeOK
<1>1. CASE StartRun
  <2>1. running' \in Tasks
    BY <1>1, StartInOrder
  <2>2. requests # <<>> /\ requests' = Tail(requests)
    BY <1>1 DEF StartRun
  <2>3. requests' \in Seq(Nat)
    BY <1>0, <2>2 DEF Plain
  <2>4. UNCHANGED <<count, outcome, quit, typed, label>>
    BY <1>1 DEF StartRun, ui
  <2> QED  BY <1>0, <2>1, <2>3, <2>4 DEF Plain, Tasks, LimitsAreNumbers
<1>2. CASE FinishRun
  <2>1. PICK result \in {"done", "error"} : outcome' = [outcome EXCEPT ![running] = result]
    BY <1>2 DEF FinishRun
  <2>2. running' = 0 /\ UNCHANGED <<count, quit, requests, typed, label>>
    BY <1>2 DEF FinishRun, ui
  <2>3. outcome' \in [Tasks -> {"none", "done", "error"}]
    BY <1>0, <2>1 DEF Plain
  <2>4. running' \in 0..MaxTasks
    BY <2>2 DEF LimitsAreNumbers
  <2> QED  BY <1>0, <2>2, <2>3, <2>4 DEF Plain
<1>3. CASE AcceptTask
  <2>1. /\ typed # <<>> /\ typed' = Tail(typed) /\ requests' = Append(requests, Head(typed))
        /\ label' = Head(typed) /\ UNCHANGED <<count, running, outcome, quit>>
    BY <1>3 DEF AcceptTask
  <2>2. Head(typed) \in Nat /\ Tail(typed) \in Seq(Nat) /\ requests \in Seq(Nat)
    BY <1>0, <2>1 DEF Plain
  <2>3. requests' \in Seq(Nat)
    BY <2>1, <2>2
  <2> QED  BY <1>0, <2>1, <2>2, <2>3 DEF Plain
<1>4. CASE Submit
  <2>1. /\ count < MaxTasks /\ count' = count + 1 /\ typed' = Append(typed, count + 1)
        /\ label' = count + 1 /\ UNCHANGED <<running, outcome, quit, requests>>
    BY <1>4 DEF Submit, back
  <2>2. count' \in 0..MaxTasks /\ count + 1 \in Nat
    BY <1>0, <2>1 DEF Plain, LimitsAreNumbers
  <2>3. typed' \in Seq(Nat)
    BY <1>0, <2>1, <2>2 DEF Plain
  <2> QED  BY <1>0, <2>1, <2>2, <2>3 DEF Plain
<1>5. CASE UNCHANGED <<count, running, outcome, requests, typed, label>>
           /\ \/ quit' = quit
              \/ \E flag \in {"confirmed", "armed", "should_quit", "ended"} :
                   quit' = quit \cup {flag}
  BY <1>0, <1>5 DEF Plain
<1>6. CASE LlmCall \/ StopRuntime \/ StopReader
  BY <1>5, <1>6 DEF LlmCall, StopRuntime, StopReader, ui, back
<1>7. CASE NoTask \/ HandleLlm \/ HandleCancelled \/ HandleEnd
  BY <1>5, <1>7 DEF NoTask, HandleLlm, HandleCancelled, HandleEnd, ui, back
<1>8. CASE Tail_ \/ End \/ CtrlCTimeout
  BY <1>5, <1>8 DEF Tail_, End, CtrlCTimeout, ui, back
<1>9. CASE handle_ctrl_b
  BY <1>5, <1>9 DEF handle_ctrl_b, back
<1>10. CASE SelectBackground
  BY <1>5, <1>10 DEF SelectBackground, back
<1>11. CASE TypeCancel
  BY <1>5, <1>11 DEF TypeCancel, back
<1>12. CASE CtrlQ
  BY <1>5, <1>12 DEF CtrlQ, back
<1>13. CASE CtrlC
  BY <1>5, <1>13 DEF CtrlC, back
<1>14. CASE UNCHANGED vars
  BY <1>5, <1>14 DEF vars, ui, back
<1> QED
  BY <1>1, <1>2, <1>3, <1>4, <1>6, <1>7, <1>8, <1>9, <1>10, <1>11, <1>12, <1>13, <1>14
  DEF Next, Loop, User

\* Nothing is typed, nothing runs, nothing waits.
LEMMA InitLoopInv ==
  ASSUME LimitsAreNumbers, Init
  PROVE  LoopInv
<1>1. /\ requests = <<>> /\ typed = <<>> /\ events = <<>> /\ background_entries = <<>>
      /\ count = 0 /\ running = 0 /\ outcome = [t \in Tasks |-> "none"]
      /\ phase = "idle" /\ quit = {} /\ label = 0 /\ current = 0 /\ bg_mode = FALSE
  BY DEF Init
<1>2. Types
  <2>1. TypeOK
    BY <1>1 DEF TypeOK, LimitsAreNumbers
  <2>2. /\ requests \in Seq(Nat) /\ typed \in Seq(Nat) /\ events \in Seq(EventType)
        /\ background_entries \in Seq(EntryType)
    BY <1>1, EmptySeq, Zenon
  <2> QED  BY <1>1, <2>1, <2>2 DEF Types
<1>3. Ended = {} /\ Cardinality(Ended) = 0
  <2>1. Ended = {}
    BY <1>1 DEF Ended
  <2> QED  BY <2>1, FS_EmptySet
<1>4. EndsWaiting = {} /\ Cardinality(EndsWaiting) = 0 /\ RunningEntries = {}
  <2>1. EndsWaiting = {} /\ RunningEntries = {}
    BY <1>1 DEF EndsWaiting, RunningEntries
  <2> QED  BY <2>1, FS_EmptySet
<1>5. Started = 0 /\ Announced = 0
  BY <1>1, <1>3, <1>4 DEF Started, Announced
<1>6. InOrder
  BY <1>1, <1>3, <1>5 DEF InOrder
<1>7. EventsFollow
  BY <1>1, <1>3, <1>5 DEF EventsFollow
<1>8. Detached
  BY <1>1, <1>4, <1>5 DEF Detached, Active
<1> QED  BY <1>2, <1>6, <1>7, <1>8 DEF LoopInv

\* The parts of the invariant carry each other.
LEMMA NextLoopInv ==
  ASSUME LimitsAreNumbers, LoopInv, [Next]_vars
  PROVE  LoopInv'
<1>1. Types /\ InOrder /\ EventsFollow /\ Detached
  BY DEF LoopInv
<1>2. InOrder' /\ Plain'
  BY <1>1, NextInOrder, NextPlain
<1>3. EventsFollow' /\ events' \in Seq(EventType)
  BY <1>1, NextFollows
<1>4. /\ Detached' /\ background_entries' \in Seq(EntryType) /\ bg_mode' \in BOOLEAN
      /\ current' \in Nat /\ phase' \in {"idle", "active", "done", "error"}
  BY <1>1, NextDetached
<1>5. Types'
  BY <1>2, <1>3, <1>4 DEF Types, TypeOK, Plain
<1> QED  BY <1>2, <1>3, <1>4, <1>5 DEF LoopInv

\* The invariant holds in every reachable state.
LEMMA LoopInvHolds == ASSUME LimitsAreNumbers PROVE Spec => []LoopInv
<1>1. Init => LoopInv
  BY InitLoopInv
<1>2. LoopInv /\ [Next]_vars => LoopInv'
  BY NextLoopInv
<1> QED  BY <1>1, <1>2, PTL DEF Spec

\* From the places of the messages to the concatenation of the channels.
LEMMA OrderFromPlaces ==
  ASSUME LimitsAreNumbers, LoopInv
  PROVE  TasksKeepOrder
<1> DEFINE n == Started
           q == requests \o typed
           r == requests
           t == typed
<1>1. Types /\ InOrder
  BY DEF LoopInv
<1>2. n \in Nat /\ n <= count /\ r \in Seq(Nat) /\ t \in Seq(Nat) /\ count \in Nat
      /\ Len(r) \in Nat /\ Len(t) \in Nat
  BY <1>1, Numbers DEF Types, TypeOK, LimitsAreNumbers
<1>3. /\ Len(r) + Len(t) = count - n
      /\ \A k \in 1..Len(r) : r[k] = n + k
      /\ \A k \in 1..Len(t) : t[k] = n + Len(r) + k
  BY <1>1 DEF InOrder
<1>4. /\ Ended = 1..Cardinality(Ended) /\ (running # 0 => running = n)
  BY <1>1 DEF InOrder
<1>5. q = r \o t
  OBVIOUS
<1> HIDE DEF n, q, r, t
<1>6. /\ q \in Seq(Nat) /\ Len(q) = Len(r) + Len(t)
      /\ \A k \in 1..Len(q) : q[k] = IF k <= Len(r) THEN r[k] ELSE t[k - Len(r)]
  BY <1>2, <1>5, ConcatProperties
<1>7. ASSUME NEW k \in 1..Len(q) PROVE q[k] = n + k
  <2>1. CASE k <= Len(r)
    <3>1. k \in 1..Len(r) /\ q[k] = r[k]
      BY <1>2, <1>6, <2>1
    <3> QED  BY <1>3, <3>1
  <2>2. CASE k > Len(r)
    <3>1. k - Len(r) \in 1..Len(t) /\ q[k] = t[k - Len(r)]
      BY <1>2, <1>6, <2>2
    <3>2. t[k - Len(r)] = n + Len(r) + (k - Len(r))
      BY <1>3, <3>1
    <3> QED  BY <1>2, <3>1, <3>2
  <2> QED  BY <1>2, <1>6, <2>1, <2>2
<1>8. q = [k \in 1..(count - n) |-> n + k]
  <2>1. Len(q) = count - n
    BY <1>3, <1>6
  <2>2. q = [k \in 1..Len(q) |-> q[k]]
    BY <1>6
  <2> QED  BY <1>7, <2>1, <2>2
<1> QED  BY <1>4, <1>8 DEF TasksKeepOrder, Started, n, q

-----------------------------------------------------------------------------
(* The theorems *)

\* Counts, outcomes, phases and the way out keep their types.
THEOREM TypeCorrect == ASSUME LimitsAreNumbers PROVE Spec => []TypeOK
<1>1. LoopInv => TypeOK
  BY DEF LoopInv, Types
<1> QED  BY <1>1, LoopInvHolds, PTL

\* What the user types reaches the runtime in its order, nothing is lost and nothing
\* runs twice, whatever is detached, cancelled or failed in between.
THEOREM MessagesKeepOrder == ASSUME LimitsAreNumbers PROVE Spec => []TasksKeepOrder
<1>1. LoopInv => TasksKeepOrder
  BY OrderFromPlaces
<1> QED  BY <1>1, LoopInvHolds, PTL

\* The pipeline in the background is the run whose end the loop handles next, so
\* handle_task_complete marks the right entry; a finished entry says how its run ended.
THEOREM EndsMeetTheirEntry ==
  ASSUME LimitsAreNumbers PROVE Spec => []BackgroundIsInFlight
<1>1. LoopInv => BackgroundIsInFlight
  <2> SUFFICES ASSUME LoopInv PROVE BackgroundIsInFlight
    OBVIOUS
  <2>1. Types /\ Detached
    BY DEF LoopInv
  <2>2. DOMAIN background_entries = 1..Len(background_entries)
    BY <2>1, EntriesByPlace
  <2> QED  BY <2>1, <2>2 DEF BackgroundIsInFlight, Detached, Announced
<1> QED  BY <1>1, LoopInvHolds, PTL

-----------------------------------------------------------------------------
(* The confirmation of tool calls, which the loop serves as well: Approvals *)

CONSTANTS Calls, Safe, Early, MayExpire, MayDetach, MaxSkips
VARIABLES tool, gate, announced, pending, focused_idx, record, detached, cancelled, skips

\* Its announcements are events of the same channel.
Gate == INSTANCE Approvals WITH events <- announced

\* A sequence without repetition that grows by a new entry.
LEMMA AppendOnce ==
  ASSUME NEW s \in Seq(Calls), NEW c \in Calls, Gate!Distinct(s), c \notin Gate!Members(s)
  PROVE  /\ Append(s, c) \in Seq(Calls) /\ Gate!Distinct(Append(s, c))
         /\ Gate!Members(Append(s, c)) = Gate!Members(s) \cup {c}
         /\ Append(s, c) # <<>> /\ Len(Append(s, c)) = Len(s) + 1
<1> DEFINE t == Append(s, c)
<1>1. t \in Seq(Calls) /\ Len(t) = Len(s) + 1 /\ t[Len(s) + 1] = c
  OBVIOUS
<1>2. \A k \in 1..Len(s) : t[k] = s[k]
  OBVIOUS
<1>3. Gate!Members(t) = Gate!Members(s) \cup {c}
  BY <1>1, <1>2 DEF Gate!Members
<1>4. Gate!Distinct(t)
  BY <1>1, <1>2 DEF Gate!Distinct, Gate!Members
<1> QED  BY <1>1, <1>3, <1>4

\* The first entry leaves.
LEMMA TailOnce ==
  ASSUME NEW s \in Seq(Calls), s # <<>>, Gate!Distinct(s)
  PROVE  /\ Tail(s) \in Seq(Calls) /\ Gate!Distinct(Tail(s)) /\ Head(s) \in Gate!Members(s)
         /\ Gate!Members(Tail(s)) = Gate!Members(s) \ {Head(s)} /\ Head(s) \in Calls
<1> DEFINE t == Tail(s)
<1>1. t \in Seq(Calls) /\ Len(t) = Len(s) - 1 /\ Len(s) > 0 /\ Head(s) = s[1]
  OBVIOUS
<1>2. \A k \in 1..Len(t) : t[k] = s[k + 1]
  OBVIOUS
<1> HIDE DEF t
<1>3. Gate!Members(s) = {s[k] : k \in 1..Len(s)} /\ Gate!Members(t) = {t[k] : k \in 1..Len(t)}
  BY <1>1 DEF Gate!Members
<1>4. \A k \in 1..Len(t) : t[k] \in Gate!Members(s) /\ t[k] # Head(s)
  <2> SUFFICES ASSUME NEW k \in 1..Len(t) PROVE t[k] \in Gate!Members(s) /\ t[k] # Head(s)
    OBVIOUS
  <2>1. k + 1 \in 1..Len(s) /\ 1 \in 1..Len(s) /\ DOMAIN s = 1..Len(s)
    BY <1>1
  <2> QED  BY <1>1, <1>2, <1>3, <2>1 DEF Gate!Distinct
<1>5. \A k \in 1..Len(s) : s[k] # Head(s) => s[k] \in Gate!Members(t)
  <2> SUFFICES ASSUME NEW k \in 1..Len(s), s[k] # Head(s) PROVE s[k] \in Gate!Members(t)
    OBVIOUS
  <2>1. k - 1 \in 1..Len(t) /\ t[k - 1] = s[k]
    BY <1>1, <1>2
  <2> QED  BY <1>3, <2>1
<1>6. Gate!Distinct(t)
  <2> SUFFICES ASSUME NEW j \in 1..Len(t), NEW k \in 1..Len(t), t[j] = t[k] PROVE j = k
    BY <1>1 DEF Gate!Distinct
  <2>1. /\ j + 1 \in 1..Len(s) /\ k + 1 \in 1..Len(s) /\ DOMAIN s = 1..Len(s)
        /\ s[j + 1] = s[k + 1]
    BY <1>1, <1>2
  <2> QED  BY <2>1 DEF Gate!Distinct
<1>7. Head(s) \in Gate!Members(s) /\ Head(s) \in Calls
  BY <1>1, <1>3
<1>8. Gate!Members(t) = Gate!Members(s) \ {Head(s)}
  BY <1>3, <1>4, <1>5
<1> QED  BY <1>1, <1>6, <1>7, <1>8 DEF t

\* Some entry leaves.
LEMMA WithoutOnce ==
  ASSUME NEW s \in Seq(Calls), NEW i \in 1..Len(s), Gate!Distinct(s)
  PROVE  /\ Gate!Without(s, i) \in Seq(Calls) /\ Gate!Distinct(Gate!Without(s, i))
         /\ Gate!Members(Gate!Without(s, i)) = Gate!Members(s) \ {s[i]}
         /\ Len(Gate!Without(s, i)) = Len(s) - 1 /\ s[i] \in Gate!Members(s) /\ s[i] \in Calls
<1> DEFINE front == SubSeq(s, 1, i - 1)
           rear == SubSeq(s, i + 1, Len(s))
           t == Gate!Without(s, i)
<1>1. front \in Seq(Calls) /\ Len(front) = i - 1 /\ \A k \in 1..i - 1 : front[k] = s[k]
  BY SubSeqProperties
<1>2. /\ rear \in Seq(Calls) /\ Len(rear) = Len(s) - i
      /\ \A k \in 1..Len(s) - i : rear[k] = s[i + k]
  BY SubSeqProperties
<1>3. t = front \o rear
  BY DEF Gate!Without
<1> HIDE DEF front, rear, t
<1>4. t \in Seq(Calls) /\ Len(t) = Len(s) - 1
  <2>1. t \in Seq(Calls) /\ Len(t) = Len(front) + Len(rear)
    BY <1>1, <1>2, <1>3, ConcatProperties, Zenon
  <2> QED  BY <1>1, <1>2, <2>1
<1>5. \A k \in 1..Len(t) : t[k] = IF k < i THEN s[k] ELSE s[k + 1]
  <2> SUFFICES ASSUME NEW k \in 1..Len(t) PROVE t[k] = IF k < i THEN s[k] ELSE s[k + 1]
    OBVIOUS
  <2>1. t[k] = IF k <= i - 1 THEN front[k] ELSE rear[k - (i - 1)]
    BY <1>1, <1>2, <1>3, <1>4, ConcatProperties
  <2>2. CASE k < i
    BY <1>1, <2>1, <2>2
  <2>3. CASE k >= i
    <3>1. k - (i - 1) \in 1..Len(s) - i /\ i + (k - (i - 1)) = k + 1
      BY <1>4, <2>3
    <3> QED  BY <1>2, <2>1, <2>3, <3>1
  <2> QED  BY <2>2, <2>3
<1>6. Gate!Members(s) = {s[k] : k \in 1..Len(s)} /\ Gate!Members(t) = {t[k] : k \in 1..Len(t)}
  BY <1>4 DEF Gate!Members
<1>7. \A k \in 1..Len(t) : t[k] \in Gate!Members(s) /\ t[k] # s[i]
  <2> SUFFICES ASSUME NEW k \in 1..Len(t) PROVE t[k] \in Gate!Members(s) /\ t[k] # s[i]
    OBVIOUS
  <2>1. k \in 1..Len(s) /\ k + 1 \in 1..Len(s) /\ DOMAIN s = 1..Len(s)
    BY <1>4
  <2> QED  BY <1>5, <1>6, <2>1 DEF Gate!Distinct
<1>8. \A k \in 1..Len(s) : s[k] # s[i] => s[k] \in Gate!Members(t)
  <2> SUFFICES ASSUME NEW k \in 1..Len(s), s[k] # s[i] PROVE s[k] \in Gate!Members(t)
    OBVIOUS
  <2>1. CASE k < i
    BY <1>4, <1>5, <1>6, <2>1
  <2>2. CASE k > i
    <3>1. k - 1 \in 1..Len(t) /\ t[k - 1] = s[k]
      BY <1>4, <1>5, <2>2
    <3> QED  BY <1>6, <3>1
  <2> QED  BY <2>1, <2>2
<1>9. Gate!Distinct(t)
  <2> SUFFICES ASSUME NEW j \in 1..Len(t), NEW k \in 1..Len(t), t[j] = t[k] PROVE j = k
    BY <1>4 DEF Gate!Distinct
  <2>1. j \in 1..Len(s) /\ k \in 1..Len(s) /\ j + 1 \in 1..Len(s) /\ k + 1 \in 1..Len(s)
    BY <1>4
  <2>2. \A m, n \in 1..Len(s) : s[m] = s[n] => m = n
    BY DEF Gate!Distinct
  <2> DEFINE from(m) == IF m < i THEN m ELSE m + 1
  <2>3. s[from(j)] = t[j] /\ s[from(k)] = t[k] /\ from(j) \in 1..Len(s) /\ from(k) \in 1..Len(s)
    BY <1>5, <2>1
  <2>4. from(j) = from(k)
    <3> HIDE DEF from
    <3> QED  BY <2>2, <2>3
  <2> QED  BY <2>4
<1>10. s[i] \in Gate!Members(s) /\ s[i] \in Calls
  BY <1>6
<1>11. Gate!Members(t) = Gate!Members(s) \ {s[i]}
  BY <1>6, <1>7, <1>8
<1> QED  BY <1>4, <1>9, <1>10, <1>11 DEF t

\* Distinct and Members say the same of the next state and of its sequences.
LEMMA PrimedQueues ==
  /\ Gate!Distinct(announced)' <=> Gate!Distinct(announced')
  /\ Gate!Distinct(pending)' <=> Gate!Distinct(pending')
  /\ Gate!Members(announced)' = Gate!Members(announced')
  /\ Gate!Members(pending)' = Gate!Members(pending')
BY DEF Gate!Distinct, Gate!Members

-----------------------------------------------------------------------------
(* The invariant of the queue and the gate *)

\* Beside the properties: the focus of an empty queue is 0, a call that waits is at
\* the gate; and where a call waits before it is announced, and nothing is detached.
Held ==
  /\ pending = <<>> => focused_idx = 0
  /\ \A c \in Calls : tool[c] = "waiting" => c \in gate
  /\ ~Early => \A c \in Calls : tool[c] # "announced"
  /\ ~MayDetach => ~detached

Agreement == Gate!TypeOK /\ Held /\ Gate!QueueAgreesWithGate /\ Gate!RunsOnlyApproved

\* No call was made yet.
LEMMA InitAgreement == Gate!Init => Agreement
<1> SUFFICES ASSUME Gate!Init PROVE Agreement
  OBVIOUS
<1>1. Gate!Members(<<>>) = {} /\ Gate!Distinct(<<>>)
  BY DEF Gate!Members, Gate!Distinct
<1>2. Gate!Recorded = {} /\ {c \in Calls : tool[c] # "idle"} = {}
  BY DEF Gate!Init, Gate!Recorded
<1>3. Gate!QueueAgreesWithGate
  BY <1>1, <1>2 DEF Gate!Init, Gate!QueueAgreesWithGate, Gate!QueueIsConsistent,
      Gate!AnswersAreHeard
<1>4. Gate!TypeOK
  <2>1. <<>> \in Seq(Calls)
    BY EmptySeq
  <2> QED  BY <2>1 DEF Gate!Init, Gate!TypeOK
<1>5. Held
  BY DEF Gate!Init, Held
<1>6. Gate!RunsOnlyApproved
  BY DEF Gate!Init, Gate!RunsOnlyApproved
<1> QED  BY <1>3, <1>4, <1>5, <1>6 DEF Agreement

\* An answer to one call that is not on record.
LEMMA RespondStep ==
  ASSUME Agreement, NEW c \in Calls, record[c] = "none", tool[c] # "idle",
         NEW decision \in {"auto", "approved", "rejected"},
         Gate!respond([d \in {c} |-> decision]), record' = [record EXCEPT ![c] = decision]
  PROVE  /\ tool' \in [Calls -> {"idle", "announced", "waiting", "expired", "approved", "rejected"}]
         /\ gate' = gate \ {c}
         /\ \A d \in Calls : d # c => tool'[d] = tool[d] /\ record'[d] = record[d]
         /\ tool'[c] # "idle" /\ tool'[c] # "waiting"
         /\ (tool'[c] = "announced" => tool[c] = "announced")
         /\ record'[c] = decision
         /\ tool'[c] = "approved" => decision \in {"auto", "approved"}
         /\ record' \in [Calls -> {"none", "auto", "approved", "rejected"}]
<1> DEFINE answers == [d \in {c} |-> decision]
<1>1. DOMAIN answers = {c} /\ answers[c] = decision
  OBVIOUS
<1>2. /\ gate' = gate \ {c}
      /\ tool' = [d \in Calls |->
           IF d \in {c} \cap gate /\ tool[d] = "waiting"
           THEN IF answers[d] = "rejected" THEN "rejected" ELSE "approved" ELSE tool[d]]
  BY <1>1 DEF Gate!respond
<1>3. tool[c] # "approved"
  BY DEF Agreement, Gate!RunsOnlyApproved
<1>4. tool[c] = "waiting" => c \in gate
  BY DEF Agreement, Held
<1>5. tool'[c] = IF c \in gate /\ tool[c] = "waiting"
                 THEN IF decision = "rejected" THEN "rejected" ELSE "approved" ELSE tool[c]
  BY <1>1, <1>2
<1>6. \A d \in Calls : d # c => tool'[d] = tool[d]
  BY <1>2
<1>7. tool' \in [Calls -> {"idle", "announced", "waiting", "expired", "approved", "rejected"}]
  BY <1>2 DEF Agreement, Gate!TypeOK
<1> QED  BY <1>2, <1>3, <1>4, <1>5, <1>6, <1>7 DEF Agreement, Gate!TypeOK

\* A step that moves no call between the queue and the record.
LEMMA QuietStep ==
  ASSUME Agreement, UNCHANGED <<announced, pending, record>>,
         tool' \in [Calls -> {"idle", "announced", "waiting", "expired", "approved", "rejected"}],
         gate' \subseteq gate \cup {c \in Calls : tool[c] = "announced"},
         \A c \in Calls : /\ tool'[c] = "idle" <=> tool[c] = "idle"
                          /\ tool'[c] = "announced" => tool[c] = "announced"
                          /\ tool'[c] = "waiting" => c \in gate'
                          /\ tool'[c] = "approved" => tool[c] = "approved"
                          /\ tool[c] \in {"approved", "rejected", "expired"}
                               => tool'[c] \in {"approved", "rejected", "expired"},
         focused_idx' \in Nat, pending # <<>> => focused_idx' < Len(pending),
         pending = <<>> => focused_idx' = 0,
         skips' \in Nat, detached' \in BOOLEAN, cancelled' \in BOOLEAN,
         ~MayDetach => ~detached'
  PROVE  Agreement'
<1>1. Gate!TypeOK'
  BY DEF Agreement, Gate!TypeOK
<1>2. Held'
  BY DEF Agreement, Held
<1>3. Gate!Recorded' = Gate!Recorded /\ Gate!Members(announced)' = Gate!Members(announced)
      /\ Gate!Members(pending)' = Gate!Members(pending)
  BY DEF Gate!Recorded, Gate!Members
<1>4. {c \in Calls : tool'[c] # "idle"} = {c \in Calls : tool[c] # "idle"}
  OBVIOUS
<1>5. Gate!QueueIsConsistent'
  BY <1>3, <1>4 DEF Agreement, Gate!QueueAgreesWithGate, Gate!QueueIsConsistent, Gate!Distinct
<1>6. ASSUME ~Early, ~MayDetach PROVE Gate!AnswersAreHeard'
  <2>1. gate' \subseteq gate
    BY <1>6 DEF Agreement, Held
  <2>2. Gate!AnswersAreHeard /\ \A c \in Gate!Recorded : c \in Calls
    BY <1>6 DEF Agreement, Gate!QueueAgreesWithGate, Gate!Recorded
  <2> QED  BY <1>3, <2>1, <2>2 DEF Gate!AnswersAreHeard
<1>7. Gate!RunsOnlyApproved'
  BY DEF Agreement, Gate!RunsOnlyApproved
<1> QED  BY <1>1, <1>2, <1>5, <1>6, <1>7 DEF Agreement, Gate!QueueAgreesWithGate

\* A decision for a call that leaves the events or the queue.
LEMMA DecisionStep ==
  ASSUME Agreement, NEW c \in Calls, NEW decision \in {"auto", "approved", "rejected"},
         record[c] = "none", tool[c] # "idle",
         record' = [record EXCEPT ![c] = decision],
         \/ Gate!respond([d \in {c} |-> decision])
         \/ detached /\ Gate!NoAnswer,
         announced' \in Seq(Calls) /\ pending' \in Seq(Calls),
         Gate!Distinct(announced)', Gate!Distinct(pending)',
         Gate!Members(announced)' = Gate!Members(announced) \ {c},
         Gate!Members(pending)' = Gate!Members(pending) \ {c},
         c \in Gate!Members(announced) \cup Gate!Members(pending),
         focused_idx' \in Nat, pending' # <<>> => focused_idx' < Len(pending'),
         pending' = <<>> => focused_idx' = 0,
         UNCHANGED <<detached, cancelled, skips>>
  PROVE  Agreement'
<1>1. CASE Gate!respond([d \in {c} |-> decision])
  <2>1. /\ tool' \in [Calls -> {"idle", "announced", "waiting", "expired", "approved", "rejected"}]
        /\ gate' = gate \ {c}
        /\ \A d \in Calls : d # c => tool'[d] = tool[d] /\ record'[d] = record[d]
        /\ tool'[c] # "idle" /\ tool'[c] # "waiting"
        /\ tool'[c] = "announced" => tool[c] = "announced"
        /\ record'[c] = decision
        /\ tool'[c] = "approved" => decision \in {"auto", "approved"}
        /\ record' \in [Calls -> {"none", "auto", "approved", "rejected"}]
    BY <1>1, RespondStep
  <2>2. Gate!TypeOK'
    BY <2>1 DEF Agreement, Gate!TypeOK
  <2>3. Held'
    BY <2>1 DEF Agreement, Held
  <2>4. Gate!Recorded' = Gate!Recorded \cup {c}
    BY <2>1 DEF Gate!Recorded
  <2>5. {d \in Calls : tool'[d] # "idle"} = {d \in Calls : tool[d] # "idle"}
    BY <2>1
  <2>6. Gate!QueueIsConsistent'
    BY <2>4, <2>5 DEF Agreement, Gate!QueueAgreesWithGate, Gate!QueueIsConsistent
  <2>7. ASSUME ~Early, ~MayDetach PROVE Gate!AnswersAreHeard'
    <3>1. Gate!AnswersAreHeard /\ Gate!Recorded \subseteq Calls
      BY <2>7 DEF Agreement, Gate!QueueAgreesWithGate, Gate!Recorded
    <3>2. tool'[c] \in {"approved", "rejected", "expired"}
      BY <2>1, <2>7 DEF Agreement, Held
    <3> QED  BY <2>1, <2>4, <3>1, <3>2 DEF Gate!AnswersAreHeard
  <2>8. Gate!RunsOnlyApproved'
    BY <2>1 DEF Agreement, Gate!RunsOnlyApproved
  <2> QED  BY <2>2, <2>3, <2>6, <2>7, <2>8 DEF Agreement, Gate!QueueAgreesWithGate
<1>2. CASE detached /\ Gate!NoAnswer
  <2>1. UNCHANGED <<gate, tool>> /\ MayDetach
    BY <1>2 DEF Gate!NoAnswer, Agreement, Held
  <2>2. /\ record' \in [Calls -> {"none", "auto", "approved", "rejected"}]
        /\ record'[c] = decision
        /\ \A d \in Calls : d # c => record'[d] = record[d]
    BY DEF Agreement, Gate!TypeOK
  <2>3. Gate!TypeOK' /\ Held'
    BY <2>1, <2>2 DEF Agreement, Gate!TypeOK, Held
  <2>4. Gate!Recorded' = Gate!Recorded \cup {c}
    BY <2>2 DEF Gate!Recorded
  <2>5. Gate!QueueIsConsistent'
    BY <2>1, <2>4 DEF Agreement, Gate!QueueAgreesWithGate, Gate!QueueIsConsistent
  <2>6. tool[c] # "approved"
    BY DEF Agreement, Gate!RunsOnlyApproved
  <2>7. Gate!RunsOnlyApproved'
    BY <2>1, <2>2, <2>6 DEF Agreement, Gate!RunsOnlyApproved
  <2> QED  BY <2>1, <2>3, <2>5, <2>7 DEF Agreement, Gate!QueueAgreesWithGate
<1> QED  BY <1>1, <1>2

\* Every step keeps the agreement.
LEMMA NextAgreement == Agreement /\ [Gate!Next]_(Gate!vars) => Agreement'
<1> SUFFICES ASSUME Agreement, [Gate!Next]_(Gate!vars) PROVE Agreement'
  OBVIOUS
<1>1. ASSUME NEW c \in Calls, Gate!Announce(c) PROVE Agreement'
  <2>1. c \notin Gate!Recorded \cup Gate!Members(announced) \cup Gate!Members(pending)
    BY <1>1 DEF Gate!Announce, Agreement, Gate!QueueAgreesWithGate, Gate!QueueIsConsistent
  <2>2. announced \in Seq(Calls) /\ Gate!Distinct(announced) /\ announced' = Append(announced, c)
    BY <1>1 DEF Gate!Announce, Agreement, Gate!QueueAgreesWithGate, Gate!QueueIsConsistent,
        Gate!TypeOK
  <2>3. announced' \in Seq(Calls) /\ Gate!Distinct(announced)' /\ Gate!Members(announced)'
        = Gate!Members(announced) \cup {c}
    BY <2>1, <2>2, AppendOnce DEF Gate!Members, Gate!Distinct
  <2>4. /\ UNCHANGED <<pending, focused_idx, record, detached, cancelled, skips>>
        /\ \/ Early /\ tool' = [tool EXCEPT ![c] = "announced"] /\ gate' = gate
           \/ ~Early /\ tool' = [tool EXCEPT ![c] = "waiting"] /\ gate' = gate \cup {c}
    BY <1>1 DEF Gate!Announce
  <2>5. Gate!TypeOK' /\ Held'
    BY <2>3, <2>4 DEF Agreement, Gate!TypeOK, Held
  <2>6. {d \in Calls : tool'[d] # "idle"} = {d \in Calls : tool[d] # "idle"} \cup {c}
    BY <2>4 DEF Agreement, Gate!TypeOK
  <2>7. Gate!Recorded' = Gate!Recorded /\ Gate!Members(pending)' = Gate!Members(pending)
        /\ (Gate!Distinct(pending) => Gate!Distinct(pending)')
    BY <2>4 DEF Gate!Recorded, Gate!Members, Gate!Distinct
  <2>8. Gate!QueueIsConsistent'
    BY <2>1, <2>3, <2>4, <2>6, <2>7 DEF Agreement, Gate!QueueAgreesWithGate, Gate!QueueIsConsistent
  <2>9. (~Early /\ ~MayDetach => Gate!AnswersAreHeard') /\ Gate!RunsOnlyApproved'
    BY <2>1, <2>4, <2>7
       DEF Agreement, Gate!QueueAgreesWithGate, Gate!AnswersAreHeard, Gate!RunsOnlyApproved,
           Gate!TypeOK, Gate!Recorded
  <2> QED  BY <2>5, <2>8, <2>9 DEF Agreement, Gate!QueueAgreesWithGate
<1>2. ASSUME NEW c \in Calls, Gate!Wait(c) \/ Gate!Expire(c) \/ Gate!CleanUp(c) PROVE Agreement'
  <2>1. /\ UNCHANGED <<announced, pending, focused_idx, record, detached, cancelled, skips>>
        /\ \/ /\ tool[c] = "announced" /\ tool' = [tool EXCEPT ![c] = "waiting"]
              /\ gate' = gate \cup {c}
           \/ /\ tool[c] = "waiting" /\ tool' = [tool EXCEPT ![c] = "expired"] /\ gate' = gate
           \/ /\ tool[c] = "expired" /\ tool' = [tool EXCEPT ![c] = "rejected"]
              /\ gate' = gate \ {c}
    BY <1>2 DEF Gate!Wait, Gate!Expire, Gate!CleanUp
  <2> QED  BY <2>1, QuietStep DEF Agreement, Gate!TypeOK, Held, Gate!QueueAgreesWithGate,
      Gate!QueueIsConsistent
<1>3. CASE Gate!HandlePending
  <2> DEFINE c == Head(announced)
  <2>1. /\ Tail(announced) \in Seq(Calls) /\ Gate!Distinct(Tail(announced))
        /\ c \in Gate!Members(announced)
        /\ Gate!Members(Tail(announced)) = Gate!Members(announced) \ {c} /\ c \in Calls
    BY <1>3, TailOnce DEF Gate!HandlePending, Agreement, Gate!TypeOK, Gate!QueueAgreesWithGate,
        Gate!QueueIsConsistent
  <2>2. /\ announced' = Tail(announced) /\ UNCHANGED <<focused_idx, detached, cancelled, skips>>
        /\ \/ /\ record' = [record EXCEPT ![c] = "auto"] /\ UNCHANGED pending
              /\ Gate!respond([d \in {c} |-> "auto"]) \/ (detached /\ Gate!NoAnswer)
           \/ pending' = Append(pending, c) /\ UNCHANGED <<record, gate, tool>>
    BY <1>3 DEF Gate!HandlePending, Gate!NoAnswer
  <2>3. c \notin Gate!Members(pending) /\ c \notin Gate!Recorded /\ tool[c] # "idle"
    BY <2>1 DEF Agreement, Gate!QueueAgreesWithGate, Gate!QueueIsConsistent
  <2>4. record[c] = "none"
    BY <2>1, <2>3 DEF Gate!Recorded
  <2>5. /\ pending \in Seq(Calls) /\ Gate!Distinct(pending) /\ focused_idx \in Nat
        /\ pending # <<>> => focused_idx < Len(pending)
        /\ pending = <<>> => focused_idx = 0
    BY DEF Agreement, Gate!QueueAgreesWithGate, Gate!QueueIsConsistent, Gate!TypeOK, Held
  <2> HIDE DEF c
  <2>6. CASE UNCHANGED pending /\ record' = [record EXCEPT ![c] = "auto"]
             /\ (Gate!respond([d \in {c} |-> "auto"]) \/ (detached /\ Gate!NoAnswer))
    <3>1. /\ Gate!Distinct(announced)' /\ Gate!Members(announced)' = Gate!Members(announced) \ {c}
          /\ Gate!Distinct(pending)' /\ Gate!Members(pending)' = Gate!Members(pending) \ {c}
      BY <2>1, <2>2, <2>3, <2>5, <2>6, PrimedQueues
    <3> QED  BY <2>1, <2>2, <2>3, <2>4, <2>5, <2>6, <3>1, DecisionStep
  <2>7. CASE pending' = Append(pending, c) /\ UNCHANGED <<record, gate, tool>>
    <3>1. /\ pending' \in Seq(Calls) /\ Gate!Distinct(pending)'
          /\ Gate!Members(pending)' = Gate!Members(pending) \cup {c}
          /\ pending' # <<>> /\ Len(pending') = Len(pending) + 1
      <4>1. /\ pending' \in Seq(Calls) /\ Gate!Distinct(pending')
            /\ Gate!Members(pending') = Gate!Members(pending) \cup {c}
            /\ pending' # <<>> /\ Len(pending') = Len(pending) + 1
        BY <2>1, <2>3, <2>5, <2>7, AppendOnce
      <4> QED  BY <4>1, PrimedQueues
    <3>2. Gate!Distinct(announced)' /\ Gate!Members(announced)' = Gate!Members(announced) \ {c}
          /\ announced' \in Seq(Calls)
      BY <2>1, <2>2, PrimedQueues
    <3>3. focused_idx' < Len(pending')
      BY <2>2, <2>5, <3>1
    <3>4. Gate!TypeOK' /\ Held' /\ Gate!RunsOnlyApproved'
      BY <2>2, <2>7, <3>1, <3>2 DEF Agreement, Gate!TypeOK, Held, Gate!RunsOnlyApproved
    <3>5. Gate!Recorded' = Gate!Recorded /\ (Gate!AnswersAreHeard => Gate!AnswersAreHeard')
      BY <2>7 DEF Gate!Recorded, Gate!AnswersAreHeard
    <3>6. Gate!QueueIsConsistent'
      BY <2>1, <2>3, <2>7, <3>1, <3>2, <3>3, <3>5 DEF Agreement, Gate!QueueAgreesWithGate,
          Gate!QueueIsConsistent
    <3> QED  BY <3>4, <3>5, <3>6 DEF Agreement, Gate!QueueAgreesWithGate
  <2> QED  BY <2>2, <2>6, <2>7
<1>4. ASSUME NEW decision \in {"approved", "rejected"},
      Gate!resolve_focused(decision) PROVE Agreement'
  <2> DEFINE idx == Gate!Smaller(focused_idx, Len(pending) - 1) + 1
             c == pending[idx]
  <2>1. /\ pending \in Seq(Calls) /\ Gate!Distinct(pending) /\ focused_idx \in Nat
        /\ pending # <<>> /\ focused_idx < Len(pending) /\ announced \in Seq(Calls)
        /\ Gate!Distinct(announced)
    BY <1>4 DEF Gate!resolve_focused, Agreement, Gate!QueueAgreesWithGate, Gate!QueueIsConsistent,
        Gate!TypeOK
  <2>2. idx \in 1..Len(pending)
    BY <2>1 DEF Gate!Smaller
  <2>3. /\ pending' = Gate!Without(pending, idx) /\ record' = [record EXCEPT ![c] = decision]
        /\ focused_idx' = IF focused_idx >= Len(pending) - 1 /\ focused_idx > 0
                          THEN focused_idx - 1 ELSE focused_idx
        /\ Gate!respond([d \in {c} |-> decision])
        /\ UNCHANGED <<announced, detached, cancelled, skips>>
    BY <1>4 DEF Gate!resolve_focused
  <2> HIDE DEF idx
  <2>4. /\ pending' \in Seq(Calls) /\ Gate!Distinct(pending)'
        /\ Gate!Members(pending)' = Gate!Members(pending) \ {c}
        /\ Len(pending') = Len(pending) - 1 /\ c \in Gate!Members(pending) /\ c \in Calls
    <3>1. /\ pending' \in Seq(Calls) /\ Gate!Distinct(pending')
          /\ Gate!Members(pending') = Gate!Members(pending) \ {c}
          /\ Len(pending') = Len(pending) - 1 /\ c \in Gate!Members(pending) /\ c \in Calls
      BY <2>1, <2>2, <2>3, WithoutOnce
    <3> QED  BY <3>1, PrimedQueues
  <2>5. c \notin Gate!Members(announced) /\ c \notin Gate!Recorded /\ tool[c] # "idle"
    BY <2>4 DEF Agreement, Gate!QueueAgreesWithGate, Gate!QueueIsConsistent
  <2>6. record[c] = "none"
    BY <2>4, <2>5 DEF Gate!Recorded
  <2>7. Gate!Distinct(announced)' /\ Gate!Members(announced)' = Gate!Members(announced) \ {c}
    BY <2>1, <2>3, <2>5, PrimedQueues
  <2>8. /\ focused_idx' \in Nat /\ (pending' # <<>> => focused_idx' < Len(pending'))
        /\ pending' = <<>> => focused_idx' = 0
    BY <2>1, <2>3, <2>4
  <2> HIDE DEF c
  <2> QED  BY <2>1, <2>3, <2>4, <2>5, <2>6, <2>7, <2>8, DecisionStep
<1>5. CASE Gate!focus_next
  <2>1. /\ pending # <<>> /\ skips' = skips + 1 /\ focused_idx' = (focused_idx + 1) % Len(pending)
        /\ UNCHANGED <<tool, gate, announced, pending, record, detached, cancelled>>
    BY <1>5 DEF Gate!focus_next
  <2>2. Len(pending) \in Nat /\ Len(pending) > 0 /\ focused_idx + 1 \in Nat
    BY <2>1 DEF Agreement, Gate!TypeOK
  <2>3. focused_idx' \in 0..Len(pending) - 1
    BY <2>1, <2>2
  <2> QED  BY <2>1, <2>2, <2>3, QuietStep DEF Agreement, Gate!TypeOK, Held
<1>6. CASE Gate!Detach
  BY <1>6, QuietStep DEF Gate!Detach, Agreement, Gate!TypeOK, Held, Gate!QueueAgreesWithGate,
      Gate!QueueIsConsistent
<1>7. CASE Gate!cancel_all
  BY <1>7, QuietStep DEF Gate!cancel_all, Agreement, Gate!TypeOK, Held, Gate!QueueAgreesWithGate,
      Gate!QueueIsConsistent
<1>8. CASE UNCHANGED Gate!vars
  BY <1>8, QuietStep DEF Gate!vars, Agreement, Gate!TypeOK, Held, Gate!QueueAgreesWithGate,
      Gate!QueueIsConsistent
<1> QED  BY <1>1, <1>2, <1>3, <1>4, <1>5, <1>6, <1>7, <1>8 DEF Gate!Next

\* TypeOK: every variable keeps its type.
THEOREM GateTypeCorrect == Gate!Spec => []Gate!TypeOK
<1>1. Agreement => Gate!TypeOK
  BY DEF Agreement
<1> QED  BY <1>1, InitAgreement, NextAgreement, PTL DEF Gate!Spec

\* RunsOnlyApproved: no tool runs that was not approved, whatever rules, keys, the
\* timer and the end of the program do to whichever calls.
THEOREM NothingRunsUnapproved == Gate!Spec => []Gate!RunsOnlyApproved
<1>1. Agreement => Gate!RunsOnlyApproved
  BY DEF Agreement
<1> QED  BY <1>1, InitAgreement, NextAgreement, PTL DEF Gate!Spec

\* QueueAgreesWithGate: a call is at one place, the focus on an entry, and a decision
\* on record was heard where calls wait first and stay in the foreground.
THEOREM QueueAndGateAgree == Gate!Spec => []Gate!QueueAgreesWithGate
<1>1. Agreement => Gate!QueueAgreesWithGate
  BY DEF Agreement
<1> QED  BY <1>1, InitAgreement, NextAgreement, PTL DEF Gate!Spec
=============================================================================
