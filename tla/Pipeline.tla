------------------------------ MODULE Pipeline ------------------------------
(***************************************************************************)
(* The graph of the scaling benchmark (time_dag_workload of                *)
(* bench/scaling.cpp): stages of nodes, each of which depends on all nodes *)
(* of the stage before.  It is built by calls of node and depends_on, and  *)
(* then executed as any TaskGraph.                                         *)
(***************************************************************************)
EXTENDS TaskGraph

CONSTANTS
  Width,    \* kDagWidth
  Depth     \* kDagDepth

ASSUME SizeAssumption == Width \in Nat \ {0} /\ Depth \in Nat \ {0}

VARIABLES
  prev,     \* prev_stage
  cur       \* cur_stage, with the node whose edges are being added

pvars == <<vars, prev, cur>>

PInit == Init /\ prev = <<>> /\ cur = <<>>

\* How many edges into the latest node have been added.
Added == IF cur = <<>> THEN Len(prev) ELSE deps[size]
Wired == Added = Len(prev)

\* The loop over w: another node in this stage.
NextNode ==
  /\ Wired /\ Len(cur) < Width
  /\ Node
  /\ cur' = Append(cur, size + 1)
  /\ UNCHANGED prev

\* The loop over prev_stage: another edge.
NextEdge ==
  /\ ~Wired
  /\ DependsOn(size, prev[Added + 1])
  /\ UNCHANGED <<prev, cur>>

\* Variant: the stages are not swapped.
SwappedNot == prev

Swapped == cur

\* The loop over d: the stage is full, and becomes the one before.
NextStage ==
  /\ phase = "build" /\ Wired /\ Len(cur) = Width /\ size < Width * Depth
  /\ prev' = Swapped /\ cur' = <<>>
  /\ UNCHANGED vars

\* All stages are there.
ExecutePipeline ==
  /\ Wired /\ size = Width * Depth
  /\ Execute
  /\ UNCHANGED <<prev, cur>>

Build == NextNode \/ NextEdge \/ NextStage \/ ExecutePipeline

PNext ==
  \/ Build
  \/ (Driver \/ \E x \in Nodes : NodeTask(x)) /\ UNCHANGED <<prev, cur>>

PSpec == PInit /\ [][PNext]_pvars

PFairSpec ==
  PSpec /\ WF_pvars(Build) /\ WF_vars(Driver) /\ \A x \in Nodes : WF_vars(NodeTask(x))

-----------------------------------------------------------------------------
Stage(x) == (x - 1) \div Width

\* A node runs after all of every earlier stage, not only of the one its edges
\* come from, and sees what all of them wrote.
StagesInOrder ==
  \A x, y \in 1..size :
    Stage(x) < Stage(y) /\ pc[y] = "fn" => Called(x) /\ x \in known[y]

\* No cycle is in the way: when execute() returns every node has run, and its last
\* assertion holds.
AllRun == phase = "returned" => remaining = 0 /\ \A x \in 1..size : done[x] = 1

\* On a scheduler whose run() returns the pipeline comes to its end, every node
\* having run once.
Ends == <>(phase = "returned" /\ \A x \in 1..Width * Depth : done[x] = 1)

\* The nodes that wait in the scheduler at the same time are of one stage: the stages
\* do not overlap in its queues.
OneStageWaits == \A x, y \in 1..size : todo[x] > 0 /\ todo[y] > 0 => Stage(x) = Stage(y)
=============================================================================
