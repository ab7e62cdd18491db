----------------------------- MODULE DependencyGraph -----------------------------
(***************************************************************************)
(* has_cycle of xaft-cli/src/worktrees/model.rs: a depth-first search of   *)
(* the dependency graph of an orchestration.  A call of visit is a frame   *)
(* of the stack; the nodes of the stack are the set `visiting` of the      *)
(* code.  A dependency may name a task that does not exist, which counts   *)
(* as a task without dependencies.                                         *)
(***************************************************************************)
EXTENDS Naturals, Sequences, FiniteSets

CONSTANTS
  Tasks,     \* the tasks of the manifest: the keys of the graph
  Unknown    \* a name that some dependency has and no task

Nodes == Tasks \cup {Unknown}

VARIABLES
  deps,     \* the dependencies of each task
  roots,    \* the keys that `any` has not tried yet
  stack,    \* frames: a node and its dependencies still to visit
  visited,  \* nodes whose visit returned false
  answer    \* "searching", or what has_cycle returns

vars == <<deps, roots, stack, visited, answer>>

Visiting == {stack[k].node : k \in DOMAIN stack}
DepsOf(node) == IF node \in Tasks THEN deps[node] ELSE {}

\* Slip: a call goes into one dependency of its node only.
SlipFrame(node) ==
  [node |-> node, todo |-> IF DepsOf(node) = {} THEN {} ELSE {CHOOSE d \in DepsOf(node) : TRUE}]

\* A call of visit begins.
Frame(node) == [node |-> node, todo |-> DepsOf(node)]

Init ==
  /\ deps \in [Tasks -> SUBSET Nodes]
  /\ roots = Tasks
  /\ stack = <<>>
  /\ visited = {}
  /\ answer = "searching"

\* graph.keys().any: the next key is visited, unless it was before.
Root == \E node \in roots :
  /\ answer = "searching" /\ stack = <<>>
  /\ roots' = roots \ {node}
  /\ stack' = IF node \in visited THEN <<>> ELSE <<Frame(node)>>
  /\ UNCHANGED <<deps, visited, answer>>

NoRootLeft ==
  /\ answer = "searching" /\ stack = <<>> /\ roots = {}
  /\ answer' = "acyclic"
  /\ UNCHANGED <<deps, roots, stack, visited>>

Top == stack[Len(stack)]

\* Slip: a dependency that was visited before is not taken off the list.
SlipStay == \E dep \in Nodes :
  /\ answer = "searching" /\ stack # <<>>
  /\ dep \in Top.todo
  /\ LET rest == [stack EXCEPT ![Len(stack)].todo = @ \ {dep}]
     IN \/ dep \in Visiting /\ answer' = "cyclic" /\ UNCHANGED stack
        \/ dep \in visited /\ UNCHANGED <<stack, answer>>
        \/ dep \notin Visiting \cup visited
           /\ stack' = Append(rest, Frame(dep)) /\ UNCHANGED answer
  /\ UNCHANGED <<deps, roots, visited>>

\* The loop over the dependencies of the node on top: visit the next one.
Visit == \E dep \in Nodes :
  /\ answer = "searching" /\ stack # <<>>
  /\ dep \in Top.todo
  /\ LET rest == [stack EXCEPT ![Len(stack)].todo = @ \ {dep}]
     IN \/ dep \in Visiting
           /\ answer' = "cyclic"
           /\ UNCHANGED stack
        \/ dep \notin Visiting /\ dep \in visited
           /\ stack' = rest
           /\ UNCHANGED answer
        \/ dep \notin Visiting /\ dep \notin visited
           /\ stack' = Append(rest, Frame(dep))
           /\ UNCHANGED answer
  /\ UNCHANGED <<deps, roots, visited>>

\* All dependencies were visited: the call returns false.
Return ==
  /\ answer = "searching" /\ stack # <<>>
  /\ Top.todo = {}
  /\ visited' = visited \cup {Top.node}
  /\ stack' = SubSeq(stack, 1, Len(stack) - 1)
  /\ UNCHANGED <<deps, roots, answer>>

Next == Root \/ NoRootLeft \/ Visit \/ Return

\* The search is a loop of one thread: it goes on while it can.
Spec == Init /\ [][Next]_vars /\ WF_vars(Next)

-----------------------------------------------------------------------------
(* Properties *)

TypeOK ==
  /\ deps \in [Tasks -> SUBSET Nodes]
  /\ roots \subseteq Tasks
  /\ stack \in Seq([node : Nodes, todo : SUBSET Nodes])
  /\ \A k \in DOMAIN stack : stack[k].todo \subseteq DepsOf(stack[k].node)
  /\ visited \subseteq Nodes
  /\ answer \in {"searching", "acyclic", "cyclic"}

\* A set of tasks each of which depends on one of the set: it contains a cycle,
\* and no task of it could ever be ready.
Deadlocked(set) == set # {} /\ \A t \in set : DepsOf(t) \cap set # {}
HasCycle == \E set \in SUBSET Tasks : Deadlocked(set)

\* "True when the task dependency graph contains a cycle" (model.rs:417), in
\* whatever order tasks and dependencies are visited.
AnswerIsRight ==
  /\ answer = "cyclic" => HasCycle
  /\ answer = "acyclic" => ~HasCycle

\* The search ends.
Answers == <>(answer # "searching")
=============================================================================
