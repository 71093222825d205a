------------------------------ MODULE TaskGraph ------------------------------
(***************************************************************************)
(* TaskGraph and DagNode (include/task_graph.hpp) on top of a scheduler:   *)
(* a graph is built by one thread, then every node runs as a task that     *)
(* counts down its successors and submits those that become ready.         *)
(*                                                                         *)
(* The scheduler is any IScheduler, through its abstract specification.    *)
(* What a node wrote reaches another only along the release and acquire    *)
(* halves of the counters' fetch_sub, and with a submission; "known" and   *)
(* "released" follow that.                                                 *)
(***************************************************************************)
EXTENDS Integers, Sequences, FiniteSets

CONSTANTS
  MaxNodes,    \* bound on the nodes of the graph
  MaxEdges     \* bound on the calls of depends_on

ASSUME BoundAssumption == MaxNodes \in Nat /\ MaxEdges \in Nat

Nodes == 1..MaxNodes

VARIABLES
  size,        \* nodes_.size(); nodes are numbered in the order of nodes_
  successors,  \* successors_ of each node
  deps,        \* deps_remaining_ of each node
  remaining,   \* remaining_nodes_
  phase,       \* "build", "seed", "run", "returned": how far execute() is
  seeded,      \* nodes the loop of execute() has passed
  pc,          \* where the task of each node is
  at,          \* the successor it is at
  known,       \* nodes whose writes it sees
  released,    \* nodes whose writes the last fetch_sub of a counter released
  todo, running, done, driver   \* the scheduler

graph == <<size, successors>>
memory == <<known, released>>
sched == <<todo, running, done, driver>>
vars == <<graph, deps, remaining, phase, seeded, pc, at, memory, sched>>

Sched == INSTANCE Scheduler WITH Tasks <- Nodes

Init ==
  /\ size = 0 /\ remaining = 0 /\ seeded = 0
  /\ successors = [x \in Nodes |-> <<>>]
  /\ deps = [x \in Nodes |-> 0]
  /\ phase = "build"
  /\ pc = [x \in Nodes |-> "none"]
  /\ at = [x \in Nodes |-> 1]
  /\ known = [x \in Nodes |-> {}]
  /\ released = [x \in Nodes |-> {}]
  /\ Sched!Init

-----------------------------------------------------------------------------
\* Build phase

Node ==
  /\ phase = "build" /\ size < MaxNodes
  /\ size' = size + 1
  /\ UNCHANGED <<successors, deps, remaining, phase, seeded, pc, at, memory, sched>>

\* An edge is its predecessor and its place among that one's successors.
Edges == {e \in Nodes \X (1..MaxEdges) : e[2] <= Len(successors[e[1]])}
Target(e) == successors[e[1]][e[2]]

\* Variant: an edge is counted once, however often it was added.
CountedOnce(x, pred) ==
  IF \E i \in DOMAIN successors[pred] : successors[pred][i] = x THEN deps[x] ELSE deps[x] + 1

Counted(x, pred) == deps[x] + 1

\* x.depends_on(pred), between any two nodes and also more than once.
DependsOn(x, pred) ==
  /\ phase = "build" /\ Cardinality(Edges) < MaxEdges
  /\ x <= size /\ pred <= size
  /\ successors' = [successors EXCEPT ![pred] = Append(@, x)]
  /\ deps' = [deps EXCEPT ![x] = Counted(x, pred)]
  /\ UNCHANGED <<size, remaining, phase, seeded, pc, at, memory, sched>>

-----------------------------------------------------------------------------
\* execute

Execute ==
  /\ phase = "build"
  /\ phase' = "seed"
  /\ remaining' = size
  /\ UNCHANGED <<graph, deps, seeded, pc, at, memory, sched>>

\* Variant: every node is submitted.
RootAlways(x) == TRUE

Root(x) == deps[x] = 0

\* One turn of the loop that submits the nodes without dependencies.
Seed ==
  /\ phase = "seed" /\ seeded < size
  /\ seeded' = seeded + 1
  /\ IF Root(seeded + 1) THEN Sched!Submit(seeded + 1) ELSE UNCHANGED sched
  /\ UNCHANGED <<graph, deps, remaining, phase, pc, at, memory>>

Run ==
  /\ phase = "seed" /\ seeded = size
  /\ phase' = "run"
  /\ Sched!Run
  /\ UNCHANGED <<graph, deps, remaining, seeded, pc, at, memory>>

\* Variant: execute() also waits until no node remains.
ReturnWhenNoneRemains ==
  /\ phase = "run" /\ remaining = 0
  /\ phase' = "returned"
  /\ Sched!Return
  /\ UNCHANGED <<graph, deps, remaining, seeded, pc, at, memory>>

Return ==
  /\ phase = "run"
  /\ phase' = "returned"
  /\ Sched!Return
  /\ UNCHANGED <<graph, deps, remaining, seeded, pc, at, memory>>

-----------------------------------------------------------------------------
\* The task of submit_node

Goto(x, place) == pc' = [pc EXCEPT ![x] = place]
Advance(x) == at' = [at EXCEPT ![x] = @ + 1]
Succ(x) == successors[x][at[x]]

Start(x) ==
  /\ Sched!Start(x)
  /\ Goto(x, "fn")
  /\ UNCHANGED <<graph, deps, remaining, phase, seeded, at, memory>>

\* The user's code.
Call(x) ==
  /\ pc[x] = "fn"
  /\ known' = [known EXCEPT ![x] = @ \cup {x}]
  /\ Goto(x, "loop")
  /\ UNCHANGED <<graph, deps, remaining, phase, seeded, at, released, sched>>

\* Variants: any predecessor submits the successor; none does; the fetch_sub
\* does not acquire.
LastAny(x) == TRUE
LastPast(x) == deps[x] = 0
AcquireNothing(x) == {}

\* The fetch_sub returned 1, and what it has acquired.
Last(x) == deps[x] = 1
Acquire(x) == released[x]

\* A successor is counted down with an acq_rel fetch_sub.
CountDown(x) ==
  /\ pc[x] = "loop" /\ at[x] <= Len(successors[x])
  /\ deps' = [deps EXCEPT ![Succ(x)] = @ - 1]
  /\ known' = [known EXCEPT ![x] = @ \cup Acquire(Succ(x))]
  /\ released' = [released EXCEPT ![Succ(x)] = @ \cup known[x]]
  /\ IF Last(Succ(x)) THEN Goto(x, "submit") /\ UNCHANGED at
                      ELSE Advance(x) /\ UNCHANGED pc
  /\ UNCHANGED <<graph, remaining, phase, seeded, sched>>

SubmitSuccessor(x) ==
  /\ pc[x] = "submit"
  /\ Sched!Submit(Succ(x))
  /\ known' = [known EXCEPT ![Succ(x)] = known[x]]
  /\ Advance(x)
  /\ Goto(x, "loop")
  /\ UNCHANGED <<graph, deps, remaining, phase, seeded, released>>

MarkDone(x) ==
  /\ pc[x] = "loop" /\ at[x] > Len(successors[x])
  /\ remaining' = remaining - 1
  /\ Goto(x, "end")
  /\ UNCHANGED <<graph, deps, phase, seeded, at, memory, sched>>

Finish(x) ==
  /\ pc[x] = "end"
  /\ Sched!Finish(x)
  /\ Goto(x, "none")
  /\ UNCHANGED <<graph, deps, remaining, phase, seeded, at, memory>>

-----------------------------------------------------------------------------
Driver == Seed \/ Run \/ Return

NodeTask(x) ==
  \/ Start(x)
  \/ Call(x)
  \/ CountDown(x)
  \/ SubmitSuccessor(x)
  \/ MarkDone(x)
  \/ Finish(x)

Next ==
  \/ Node
  \/ \E x, pred \in Nodes : DependsOn(x, pred)
  \/ Execute
  \/ Driver
  \/ \E x \in Nodes : NodeTask(x)

Spec == Init /\ [][Next]_vars

\* execute() goes on, a scheduler in run() starts what is submitted and returns
\* when nothing is left, and the user's code returns.
FairSpec == Spec /\ WF_vars(Driver) /\ \A x \in Nodes : WF_vars(NodeTask(x))

-----------------------------------------------------------------------------
(***************************************************************************)
(* Properties.                                                             *)
(***************************************************************************)

\* The variables have their types.
TypeOK ==
  /\ size \in 0..MaxNodes
  /\ successors \in [Nodes -> Seq(1..size)]
  /\ deps \in [Nodes -> Nat]
  /\ remaining \in 0..size
  /\ phase \in {"build", "seed", "run", "returned"}
  /\ seeded \in 0..size
  /\ pc \in [Nodes -> {"none", "fn", "loop", "submit", "end"}]
  /\ at \in [Nodes -> 1..MaxEdges + 1]
  /\ known \in [Nodes -> SUBSET Nodes] /\ released \in [Nodes -> SUBSET Nodes]

\* A node is submitted once at most, though many predecessors may count it down
\* at the same time, some of them along several edges.
SubmittedOnce == \A x \in Nodes : todo[x] + running[x] + done[x] <= 1

Called(x) == done[x] > 0 \/ pc[x] \in {"loop", "submit", "end"}

\* A node's code runs only after that of all its predecessors has returned.
AfterPredecessors ==
  \A e \in Edges : running[Target(e)] + done[Target(e)] > 0 => Called(e[1])

\* And it sees what they wrote, each of them, not only the last one to finish
\* (the comment at include/task_graph.hpp:36-41).
SeesPredecessors == \A e \in Edges : pc[Target(e)] = "fn" => e[1] \in known[Target(e)]

\* The nodes on a cycle or after one: the largest set in which every node has a
\* predecessor.
Stuck == UNION {S \in SUBSET (1..size) :
                  \A x \in S : \E e \in Edges : e[1] \in S /\ Target(e) = x}

\* When execute() returns exactly the nodes have run that no cycle precedes, and
\* the final assertion holds if and only if the graph has no cycle.
Complete ==
  phase = "returned" =>
    /\ \A x \in 1..size : done[x] = IF x \in Stuck THEN 0 ELSE 1
    /\ remaining = Cardinality(Stuck)

\* On a scheduler whose run() returns (which MutexQueue!OnlyHung excepts) so does
\* execute(), also from a graph with cycles, against what Docs/ENGINEERING.md:233
\* says of them.
ExecuteReturns == phase = "seed" ~> phase = "returned"
=============================================================================
