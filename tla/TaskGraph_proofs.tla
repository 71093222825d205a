--------------------------- MODULE TaskGraph_proofs ---------------------------
(***************************************************************************)
(* Proofs about TaskGraph, for graphs of any size and shape: nodes are     *)
(* submitted once, after their predecessors, see what those wrote, and     *)
(* have all run in the end that no cycle precedes.  And about Pipeline,    *)
(* for any width and depth: its stages run one after the other.            *)
(***************************************************************************)
EXTENDS Pipeline, FiniteSetTheorems, TLAPS

-----------------------------------------------------------------------------
(***************************************************************************)
(* The inductive invariant.                                                *)
(***************************************************************************)

Submitted(x) == todo[x] + running[x] + done[x] > 0

\* The task of y has counted x down last and is about to submit it.
Submitting(y, x) == pc[y] = "submit" /\ Succ(y) = x

\* The edge has been counted down, and those into x that have not.
Passed(e) ==
  \/ e[2] < at[e[1]]
  \/ e[2] = at[e[1]] /\ pc[e[1]] = "submit"
Left(x) == {e \in Edges : Target(e) = x /\ ~Passed(e)}

Types ==
  /\ size \in 0..MaxNodes /\ seeded \in 0..size
  /\ phase \in {"build", "seed", "run", "returned"}
  /\ driver \in {"out", "in"}
  /\ remaining \in Int
  /\ successors \in [Nodes -> Seq(1..size)]
  /\ deps \in [Nodes -> Int]
  /\ pc \in [Nodes -> {"none", "fn", "loop", "submit", "end"}]
  /\ at \in [Nodes -> Nat]
  /\ known \in [Nodes -> SUBSET Nodes] /\ released \in [Nodes -> SUBSET Nodes]
  /\ todo \in [Nodes -> Nat] /\ running \in [Nodes -> Nat] /\ done \in [Nodes -> Nat]

\* There are not more edges than allowed, and they are between nodes.
Shape ==
  \A x \in Nodes :
     /\ Len(successors[x]) <= MaxEdges
     /\ x > size => successors[x] = <<>>

\* How far the task of a node is, and what that says about its edges.
Placed(x) ==
  /\ todo[x] + running[x] + done[x] <= 1
  /\ running[x] = 1 <=> pc[x] # "none"
  /\ at[x] \in 1..Len(successors[x])+1
  /\ pc[x] = "submit" => at[x] <= Len(successors[x])
  /\ pc[x] = "end" => at[x] = Len(successors[x]) + 1
  /\ done[x] > 0 => at[x] = Len(successors[x]) + 1
  /\ ~Called(x) => at[x] = 1
  /\ Submitted(x) => x <= size
Placement == \A x \in Nodes : Placed(x)

\* How far execute() is.
Phases ==
  /\ driver = "in" <=> phase = "run"
  /\ phase = "build" => seeded = 0
  /\ phase \in {"build", "seed"} =>
       \A x \in Nodes : running[x] = 0 /\ done[x] = 0 /\ (todo[x] > 0 => x <= seeded)
  /\ phase \in {"run", "returned"} => seeded = size
  /\ phase = "returned" => \A x \in Nodes : todo[x] = 0 /\ running[x] = 0

\* A counter counts the edges that have not been counted down.
Counts == \A x \in Nodes : deps[x] = Cardinality(Left(x))

\* Who counts a node down last submits it, and is the only one to.
Once ==
  /\ \A x \in Nodes : Submitted(x) => deps[x] = 0
  /\ \A x, y \in Nodes : Submitting(y, x) => deps[x] = 0 /\ ~Submitted(x)
  /\ \A x, y, z \in Nodes : Submitting(y, x) /\ Submitting(z, x) => y = z
  /\ \A x \in 1..seeded : deps[x] = 0 => Submitted(x) \/ \E y \in Nodes : Submitting(y, x)

\* What the predecessors of a node wrote is on its way to the node.
Sees ==
  /\ \A x \in Nodes : pc[x] \in {"loop", "submit", "end"} => x \in known[x]
  /\ \A e \in Edges : Passed(e) => e[1] \in released[Target(e)]
  /\ \A e \in Edges, y \in Nodes : Submitting(y, Target(e)) => e[1] \in known[y]
  /\ \A e \in Edges : Submitted(Target(e)) => e[1] \in known[Target(e)]

\* remaining_nodes_ counts the nodes that have not marked their end.
Unmarked == {x \in 1..size : done[x] = 0 /\ pc[x] # "end"}
Remains ==
  /\ phase = "build" => remaining = 0
  /\ phase # "build" => remaining = Cardinality(Unmarked)

\* Nodes that wait for each other are not submitted.
Fed(S) == \A x \in S : \E e \in Edges : e[1] \in S /\ Target(e) = x
Waits == \A S \in SUBSET (1..size) : Fed(S) => \A x \in S : ~Submitted(x)

IInv == Types /\ Shape /\ Placement /\ Phases /\ Counts /\ Once /\ Sees /\ Remains /\ Waits

-----------------------------------------------------------------------------
(***************************************************************************)
(* Edges.                                                                  *)
(***************************************************************************)

LEMMA NodesFacts ==
  ASSUME Types
  PROVE  1..size \subseteq Nodes /\ IsFiniteSet(1..size) /\ size \in Nat
<1>1. size \in Nat /\ MaxNodes \in Nat /\ size <= MaxNodes
  BY BoundAssumption DEF Types
<1>2. IsFiniteSet(1..size)
  BY <1>1, FS_Interval
<1> QED BY <1>1, <1>2 DEF Nodes

LEMMA Element == ASSUME NEW S, NEW q \in Seq(S), NEW i \in 1..Len(q) PROVE q[i] \in S
OBVIOUS

LEMMA Wider == ASSUME NEW S, NEW T, S \subseteq T, NEW q \in Seq(S) PROVE q \in Seq(T)
OBVIOUS

LEMMA EdgeFacts ==
  ASSUME Types, Shape
  PROVE  /\ \A e \in Edges :
              /\ e[1] \in 1..size /\ e[1] \in Nodes
              /\ e[2] \in 1..Len(successors[e[1]]) /\ e[2] \in Nat
              /\ e = <<e[1], e[2]>>
              /\ Target(e) \in 1..size /\ Target(e) \in Nodes
         /\ \A p \in Nodes : \A i \in 1..Len(successors[p]) :
              <<p, i>> \in Edges /\ Target(<<p, i>>) = successors[p][i]
         /\ IsFiniteSet(Edges)
<1>1. ASSUME NEW e \in Edges
      PROVE  /\ e[1] \in 1..size /\ e[1] \in Nodes
             /\ e[2] \in 1..Len(successors[e[1]]) /\ e[2] \in Nat
             /\ e = <<e[1], e[2]>>
             /\ Target(e) \in 1..size /\ Target(e) \in Nodes
  <2>1. e[1] \in Nodes /\ e[2] \in 1..MaxEdges /\ e[2] <= Len(successors[e[1]])
        /\ e = <<e[1], e[2]>>
    BY DEF Edges
  <2>2. successors[e[1]] \in Seq(1..size) /\ e[2] \in 1..Len(successors[e[1]])
    BY <2>1, BoundAssumption DEF Types
  <2>3. successors[e[1]] # <<>>
    BY <2>2
  <2>4. e[1] \in 1..size
    BY <2>1, <2>3, BoundAssumption DEF Shape, Types, Nodes
  <2>5. Target(e) \in 1..size
    BY <2>2, Element DEF Target
  <2> QED BY <2>1, <2>2, <2>4, <2>5, NodesFacts
<1>2. ASSUME NEW p \in Nodes, NEW i \in 1..Len(successors[p])
      PROVE  <<p, i>> \in Edges /\ Target(<<p, i>>) = successors[p][i]
  <2>1. successors[p] \in Seq(1..size) /\ Len(successors[p]) <= MaxEdges
    BY DEF Types, Shape
  <2>2. i \in 1..MaxEdges /\ i <= Len(successors[p])
    BY <2>1, BoundAssumption
  <2> QED BY <2>2 DEF Edges, Target
<1>3. IsFiniteSet(Edges)
  <2>1. IsFiniteSet(Nodes) /\ IsFiniteSet(1..MaxEdges)
    BY BoundAssumption, FS_Interval DEF Nodes
  <2>2. IsFiniteSet(Nodes \X (1..MaxEdges))
    BY <2>1, FS_Product
  <2> QED BY <2>2, FS_Subset DEF Edges
<1> QED BY <1>1, <1>2, <1>3

\* A node without an edge left has none that is not counted down, and the other way
\* round.
LEMMA NoneLeft ==
  ASSUME Types, Shape, Counts, NEW x \in Nodes
  PROVE  /\ deps[x] \in Nat /\ IsFiniteSet(Left(x))
         /\ deps[x] = 0 <=> \A e \in Edges : Target(e) = x => Passed(e)
<1>1. IsFiniteSet(Left(x))
  BY EdgeFacts, FS_Subset DEF Left
<1>2. deps[x] = Cardinality(Left(x)) /\ Cardinality(Left(x)) \in Nat
  BY <1>1, FS_CardinalityType DEF Counts
<1>3. Cardinality(Left(x)) = 0 <=> Left(x) = {}
  BY <1>1, FS_EmptySet
<1> QED BY <1>1, <1>2, <1>3 DEF Left

\* Who has counted an edge down has been called.
LEMMA PassedCalled ==
  ASSUME Types, Shape, Placement, NEW e \in Edges, Passed(e)
  PROVE  Called(e[1]) /\ Submitted(e[1])
<1>1. e[1] \in Nodes /\ e[2] \in 1..Len(successors[e[1]])
  BY EdgeFacts
<1>2. Placed(e[1])
  BY <1>1 DEF Placement
<1>3. e[2] \in Nat \ {0} /\ at[e[1]] \in Nat
  BY <1>1 DEF Types
<1>4. Called(e[1])
  <2>1. CASE pc[e[1]] = "submit"
    BY <2>1 DEF Called
  <2>2. CASE at[e[1]] > 1
    BY <1>2, <2>2 DEF Placed
  <2> QED BY <1>3, <2>1, <2>2 DEF Passed
<1>5. done[e[1]] > 0 \/ running[e[1]] = 1
  BY <1>2, <1>4 DEF Called, Placed
<1> QED BY <1>1, <1>4, <1>5 DEF Submitted, Types

\* Steps that pass no edge.
Still == /\ successors' = successors /\ at' = at
         /\ \A x \in Nodes : pc'[x] = "submit" <=> pc[x] = "submit"

LEMMA StillKeeps ==
  ASSUME Types, Shape, Still
  PROVE  /\ Edges' = Edges
         /\ \A e \in Edges : Target(e)' = Target(e) /\ (Passed(e)' <=> Passed(e))
         /\ \A x \in Nodes : Left(x)' = Left(x)
         /\ \A x, y \in Nodes : Submitting(y, x)' <=> Submitting(y, x)
<1>1. Edges' = Edges
  BY DEF Still, Edges
<1>2. \A e \in Edges : Target(e)' = Target(e) /\ (Passed(e)' <=> Passed(e))
  BY EdgeFacts DEF Still, Target, Passed
<1>3. \A x \in Nodes : Left(x)' = Left(x)
  BY <1>1, <1>2 DEF Left
<1>4. \A x, y \in Nodes : Submitting(y, x)' <=> Submitting(y, x)
  BY DEF Still, Submitting, Succ
<1> QED BY <1>1, <1>2, <1>3, <1>4

\* The edge x is at, which CountDown(x) passes and no other.
At(x) == <<x, at[x]>>

LEMMA CountDownPasses ==
  ASSUME IInv, NEW x \in Nodes, CountDown(x)
  PROVE  /\ At(x) \in Edges /\ Target(At(x)) = Succ(x) /\ ~Passed(At(x))
         /\ Succ(x) \in 1..size /\ Succ(x) \in Nodes
         /\ Edges' = Edges
         /\ \A e \in Edges :
              /\ Target(e)' = Target(e)
              /\ Passed(e)' <=> Passed(e) \/ e = At(x)
         /\ \A y \in Nodes :
              Left(y)' = IF y = Succ(x) THEN Left(y) \ {At(x)} ELSE Left(y)
<1>0. Types /\ Shape /\ Placement
  BY DEF IInv
<1>1. /\ pc[x] = "loop" /\ at[x] \in 1..Len(successors[x])
      /\ successors' = successors
      /\ \A y \in Nodes : y # x => at'[y] = at[y] /\ pc'[y] = pc[y]
      /\ at[x] \in Nat
  <2>1. at[x] \in 1..Len(successors[x])+1 /\ at[x] <= Len(successors[x])
    BY <1>0 DEF CountDown, Placement, Placed
  <2>2. successors[x] \in Seq(1..size)
    BY <1>0 DEF Types
  <2>3. \A y \in Nodes : y # x => at'[y] = at[y] /\ pc'[y] = pc[y]
    BY <1>0 DEF CountDown, Types, Goto, Advance
  <2> QED BY <2>1, <2>2, <2>3 DEF CountDown, graph
<1>2. \/ pc'[x] = "submit" /\ at'[x] = at[x]
      \/ pc'[x] = "loop" /\ at'[x] = at[x] + 1
  BY <1>0, <1>1 DEF CountDown, Types, Goto, Advance
<1>3. At(x) \in Edges /\ Target(At(x)) = Succ(x)
  BY <1>0, <1>1, EdgeFacts DEF At, Succ
<1>4. ~Passed(At(x)) /\ Succ(x) \in 1..size /\ Succ(x) \in Nodes
  BY <1>0, <1>1, <1>3, EdgeFacts DEF Passed, At
<1>5. Edges' = Edges /\ \A e \in Edges : Target(e)' = Target(e)
  BY <1>1 DEF Edges, Target
<1>6. ASSUME NEW e \in Edges PROVE Passed(e)' <=> Passed(e) \/ e = At(x)
  <2>1. e[1] \in Nodes /\ e[2] \in Nat /\ e = <<e[1], e[2]>>
    BY <1>0, EdgeFacts
  <2>2. CASE e[1] # x
    BY <1>1, <2>1, <2>2 DEF Passed, At
  <2>3. CASE e[1] = x
    <3>1. e = At(x) <=> e[2] = at[x]
      BY <2>1, <2>3 DEF At
    <3> QED BY <1>1, <1>2, <2>1, <2>3, <3>1 DEF Passed
  <2> QED BY <2>2, <2>3
<1>7. \A y \in Nodes : Left(y)' = {e \in Edges : Target(e) = y /\ ~Passed(e) /\ e # At(x)}
  BY <1>5, <1>6 DEF Left
<1>8. \A y \in Nodes : y = Succ(x) => Left(y)' = Left(y) \ {At(x)}
  BY <1>7 DEF Left
<1>9. \A y \in Nodes : y # Succ(x) => Left(y)' = Left(y)
  BY <1>3, <1>7 DEF Left
<1> QED BY <1>3, <1>4, <1>5, <1>6, <1>8, <1>9

\* SubmitSuccessor(x) goes on to the next edge and passes none.
LEMMA SubmitSuccessorPasses ==
  ASSUME IInv, NEW x \in Nodes, SubmitSuccessor(x)
  PROVE  /\ Succ(x) \in 1..size /\ Succ(x) \in Nodes
         /\ Edges' = Edges
         /\ \A e \in Edges : Target(e)' = Target(e) /\ (Passed(e)' <=> Passed(e))
         /\ \A y \in Nodes : Left(y)' = Left(y)
         /\ \A y, z \in Nodes : Submitting(y, z)' <=> Submitting(y, z) /\ y # x
<1>0. Types /\ Shape /\ Placement
  BY DEF IInv
<1>1. /\ pc[x] = "submit" /\ at[x] \in 1..Len(successors[x]) /\ at[x] \in Nat
      /\ successors' = successors
      /\ pc'[x] = "loop" /\ at'[x] = at[x] + 1
      /\ \A y \in Nodes : y # x => at'[y] = at[y] /\ pc'[y] = pc[y]
  <2>1. at[x] \in 1..Len(successors[x])+1 /\ at[x] <= Len(successors[x])
    BY <1>0 DEF SubmitSuccessor, Placement, Placed
  <2>2. successors[x] \in Seq(1..size)
    BY <1>0 DEF Types
  <2>3. \A y \in Nodes : y # x => at'[y] = at[y] /\ pc'[y] = pc[y]
    BY <1>0 DEF SubmitSuccessor, Types, Goto, Advance
  <2>4. pc'[x] = "loop" /\ at'[x] = at[x] + 1
    BY <1>0 DEF SubmitSuccessor, Types, Goto, Advance
  <2> QED BY <2>1, <2>2, <2>3, <2>4 DEF SubmitSuccessor, graph
<1>2. Succ(x) \in 1..size /\ Succ(x) \in Nodes
  <2>1. <<x, at[x]>> \in Edges /\ Target(<<x, at[x]>>) = Succ(x)
    BY <1>0, <1>1, EdgeFacts DEF Succ
  <2> QED BY <1>0, <2>1, EdgeFacts
<1>3. Edges' = Edges /\ \A e \in Edges : Target(e)' = Target(e)
  BY <1>1 DEF Edges, Target
<1>4. ASSUME NEW e \in Edges PROVE Passed(e)' <=> Passed(e)
  <2>1. e[1] \in Nodes /\ e[2] \in Nat
    BY <1>0, EdgeFacts
  <2>2. CASE e[1] # x
    BY <1>1, <2>1, <2>2 DEF Passed
  <2>3. CASE e[1] = x
    BY <1>1, <2>1, <2>3 DEF Passed
  <2> QED BY <2>2, <2>3
<1>5. \A y \in Nodes : Left(y)' = Left(y)
  BY <1>3, <1>4 DEF Left
<1>6. \A y, z \in Nodes : Submitting(y, z)' <=> Submitting(y, z) /\ y # x
  BY <1>1 DEF Submitting, Succ
<1> QED BY <1>2, <1>3, <1>4, <1>5, <1>6

\* While the graph is built nobody has begun.
LEMMA Building ==
  ASSUME Types, Shape, Placement, Phases, phase = "build"
  PROVE  /\ seeded = 0
         /\ \A x \in Nodes :
              /\ todo[x] = 0 /\ running[x] = 0 /\ done[x] = 0 /\ ~Submitted(x)
              /\ pc[x] = "none" /\ at[x] = 1
         /\ \A e \in Edges : ~Passed(e)
<1>1. seeded = 0
  BY DEF Phases
<1>2. ASSUME NEW x \in Nodes
      PROVE  /\ todo[x] = 0 /\ running[x] = 0 /\ done[x] = 0 /\ ~Submitted(x)
             /\ pc[x] = "none" /\ at[x] = 1
  <2>1. running[x] = 0 /\ done[x] = 0 /\ todo[x] = 0
    BY <1>1 DEF Phases, Nodes, Types
  <2>2. pc[x] = "none" /\ at[x] = 1
    BY <2>1 DEF Placement, Placed, Called
  <2> QED BY <2>1, <2>2 DEF Submitted
<1>3. ASSUME NEW e \in Edges PROVE ~Passed(e)
  BY <1>2, EdgeFacts DEF Passed
<1> QED BY <1>1, <1>2, <1>3

\* x.depends_on(pred) adds an edge.
LEMMA DependsOnAdds ==
  ASSUME IInv, NEW x \in Nodes, NEW pred \in Nodes, DependsOn(x, pred)
  PROVE  \E new :
           /\ new \notin Edges /\ Edges' = Edges \cup {new}
           /\ \A e \in Edges : Target(e)' = Target(e)
           /\ new[1] = pred /\ Target(new)' = x
           /\ \A y \in Nodes :
                Left(y)' = IF y = x THEN Left(y) \cup {new} ELSE Left(y)
           /\ new \notin Left(x)
           /\ \A e \in Edges' : ~(Passed(e)')
           /\ Len(successors'[pred]) <= MaxEdges
<1>0. Types /\ Shape /\ Placement /\ Phases
  BY DEF IInv
<1> DEFINE n == Len(successors[pred])
           new == <<pred, n + 1>>
<1>1. /\ phase = "build" /\ x \in 1..size /\ pred \in 1..size
      /\ at' = at /\ pc' = pc /\ Cardinality(Edges) < MaxEdges
  BY <1>0 DEF DependsOn, Nodes, Types
<1>2. successors[pred] \in Seq(1..size) /\ n \in Nat /\ n <= MaxEdges
  BY <1>0 DEF Types, Shape
<1>3. /\ successors'[pred] = Append(successors[pred], x)
      /\ \A y \in Nodes : y # pred => successors'[y] = successors[y]
  BY <1>0 DEF DependsOn, Types
<1>4. /\ Len(successors'[pred]) = n + 1 /\ successors'[pred][n + 1] = x
      /\ \A i \in 1..n : successors'[pred][i] = successors[pred][i]
  BY <1>1, <1>2, <1>3
<1>5. n < MaxEdges
  <2> SUFFICES ASSUME n = MaxEdges PROVE FALSE
    BY <1>2, BoundAssumption
  <2>1. {pred} \X (1..MaxEdges) \subseteq Edges
    BY DEF Edges
  <2>2. IsFiniteSet(Edges)
    BY <1>0, EdgeFacts
  <2>3. Cardinality({pred} \X (1..MaxEdges)) = MaxEdges
    <3>1. IsFiniteSet(1..MaxEdges) /\ Cardinality(1..MaxEdges) = MaxEdges
      BY BoundAssumption, FS_Interval
    <3>2. IsFiniteSet({pred}) /\ Cardinality({pred}) = 1
      BY FS_Singleton
    <3> DEFINE S == {pred}
               T == 1..MaxEdges
    <3> HIDE DEF S, T
    <3>3. Cardinality(S \X T) = Cardinality(S) * Cardinality(T)
      BY <3>1, <3>2, FS_Product DEF S, T
    <3>4. Cardinality(S) * Cardinality(T) = 1 * MaxEdges
      BY <3>1, <3>2 DEF S, T
    <3>5. 1 * MaxEdges = MaxEdges
      BY BoundAssumption
    <3> QED BY <3>3, <3>4, <3>5 DEF S, T
  <2>4. MaxEdges <= Cardinality(Edges) /\ Cardinality(Edges) \in Nat
    BY <2>1, <2>2, <2>3, FS_Subset, FS_CardinalityType
  <2> QED BY <1>1, <2>4, BoundAssumption
<1> HIDE DEF n
<1>6. new \notin Edges
  BY <1>2 DEF Edges, n
<1>7. Edges' = Edges \cup {new}
  <2>1. \A e \in Nodes \X (1..MaxEdges) :
          e[2] <= Len(successors'[e[1]]) <=> e[2] <= Len(successors[e[1]]) \/ e = new
    <3> SUFFICES ASSUME NEW p \in Nodes, NEW i \in 1..MaxEdges
                 PROVE  i <= Len(successors'[p]) <=> i <= Len(successors[p]) \/ <<p, i>> = new
      OBVIOUS
    <3>1. CASE p = pred
      BY <1>2, <1>4, <3>1, BoundAssumption DEF n
    <3>2. CASE p # pred
      BY <1>3, <3>2
    <3> QED BY <3>1, <3>2
  <2>2. new \in Nodes \X (1..MaxEdges)
    BY <1>2, <1>5, BoundAssumption
  <2> QED BY <2>1, <2>2 DEF Edges
<1>8. ASSUME NEW e \in Edges PROVE Target(e)' = Target(e)
  <2>1. e[1] \in Nodes /\ e[2] \in 1..Len(successors[e[1]])
    BY <1>0, EdgeFacts
  <2> QED BY <1>3, <1>4, <2>1 DEF Target, n
<1>9. successors'[new[1]][new[2]] = x
  BY <1>4
<1>10. ASSUME NEW e \in Edges' PROVE ~(Passed(e)')
  <2>1. \A p \in Nodes : at'[p] = 1 /\ pc'[p] = "none"
    BY <1>0, <1>1, Building
  <2>2. e[1] \in Nodes /\ e[2] \in 1..MaxEdges
    BY DEF Edges
  <2> QED BY <2>1, <2>2, BoundAssumption DEF Passed
<1>11. ASSUME NEW y \in Nodes
       PROVE  Left(y)' = IF y = x THEN Left(y) \cup {new} ELSE Left(y)
  <2>1. \A e \in Edges : ~Passed(e)
    BY <1>0, <1>1, Building
  <2>2. Left(y) = {e \in Edges : Target(e) = y}
    BY <2>1 DEF Left
  <2>3. Left(y)' = {e \in Edges' : Target(e)' = y}
    BY <1>10 DEF Left
  <2>4. \A e \in Edges' : e = new => Target(e)' = x
    BY <1>9 DEF Target
  <2> HIDE DEF new
  <2> QED BY <1>7, <1>8, <2>2, <2>3, <2>4
<1>12. new \notin Left(x)
  BY <1>6 DEF Left
<1>13. Len(successors'[pred]) <= MaxEdges
  BY <1>2, <1>4, <1>5, BoundAssumption
<1>14. new[1] = pred /\ \A e \in Edges' : e = new => Target(e)' = x
  BY <1>9 DEF Target
<1> HIDE DEF new
<1> QED BY <1>6, <1>7, <1>8, <1>10, <1>11, <1>12, <1>13, <1>14

\* A task that starts was submitted and is in none of its phases yet.
LEMMA Starting ==
  ASSUME IInv, NEW x \in Nodes, Start(x)
  PROVE  todo[x] = 1 /\ running[x] = 0 /\ done[x] = 0 /\ pc[x] = "none" /\ phase = "run"
<1>1. Placed(x) /\ todo[x] \in Nat /\ running[x] \in Nat /\ done[x] \in Nat
  BY DEF IInv, Types, Placement
<1>2. todo[x] > 0 /\ driver = "in"
  BY DEF Start, Sched!Start
<1>3. todo[x] = 1 /\ running[x] = 0 /\ done[x] = 0
  BY <1>1, <1>2 DEF Placed
<1> QED BY <1>1, <1>2, <1>3 DEF Placed, IInv, Phases

\* A task that is anywhere else is running, in execute().
LEMMA Working ==
  ASSUME IInv, NEW x \in Nodes, pc[x] # "none"
  PROVE  todo[x] = 0 /\ running[x] = 1 /\ done[x] = 0 /\ phase = "run"
<1>1. Placed(x) /\ todo[x] \in Nat /\ running[x] \in Nat /\ done[x] \in Nat
  BY DEF IInv, Types, Placement
<1>2. running[x] = 1 /\ todo[x] = 0 /\ done[x] = 0
  BY <1>1 DEF Placed
<1>3. phase \notin {"build", "seed", "returned"} /\ phase \in {"build", "seed", "run", "returned"}
  BY <1>2 DEF IInv, Phases, Types
<1> QED BY <1>2, <1>3

\* The steps that pass no edge.
LEMMA OthersStill ==
  ASSUME IInv,
         \/ Node
         \/ Execute
         \/ Driver
         \/ \E x \in Nodes : Start(x) \/ Call(x) \/ MarkDone(x) \/ Finish(x)
         \/ UNCHANGED vars
  PROVE  Still
<1>0. Types
  BY DEF IInv
<1>1. CASE Node \/ Execute \/ Driver \/ UNCHANGED vars
  BY <1>1 DEF Node, Execute, Driver, Seed, Run, Return, vars, graph, Still
<1>2. ASSUME NEW x \in Nodes, Start(x) \/ Call(x) \/ MarkDone(x) \/ Finish(x)
      PROVE  Still
  <2>1. pc[x] # "submit"
    BY <1>2, Starting DEF Call, MarkDone, Finish
  <2>2. pc'[x] # "submit" /\ \A y \in Nodes : y # x => pc'[y] = pc[y]
    BY <1>0, <1>2 DEF Start, Call, MarkDone, Finish, Goto, Types
  <2>3. successors' = successors /\ at' = at
    BY <1>2 DEF Start, Call, MarkDone, Finish, graph
  <2> QED BY <2>1, <2>2, <2>3 DEF Still
<1> QED BY <1>1, <1>2

-----------------------------------------------------------------------------
(***************************************************************************)
(* The invariant is kept, part by part.                                    *)
(***************************************************************************)

\* Types.
LEMMA TypesStep == IInv /\ [Next]_vars => Types'
<1> SUFFICES ASSUME IInv, [Next]_vars PROVE Types'
  OBVIOUS
<1>0. Types /\ Phases
  BY DEF IInv
<1>1. CASE Node
  <2>1. size' \in 0..MaxNodes /\ seeded' \in 0..size' /\ 1..size \subseteq 1..size'
    BY <1>0, <1>1, BoundAssumption DEF Node, Types
  <2>2. successors' \in [Nodes -> Seq(1..size')]
    <3>1. ASSUME NEW y \in Nodes PROVE successors[y] \in Seq(1..size')
      <4>1. successors[y] \in Seq(1..size)
        BY <1>0 DEF Types
      <4> QED BY <2>1, <4>1, Wider
    <3> QED BY <1>0, <1>1, <3>1 DEF Node, Types
  <2> QED BY <1>0, <1>1, <2>1, <2>2 DEF Node, memory, sched, Types
<1>2. ASSUME NEW x \in Nodes, NEW pred \in Nodes, DependsOn(x, pred) PROVE Types'
  <2>1. x \in 1..size
    BY <1>0, <1>2 DEF DependsOn, Nodes, Types
  <2>2. successors' \in [Nodes -> Seq(1..size)]
    <3>1. Append(successors[pred], x) \in Seq(1..size)
      BY <1>0, <2>1 DEF Types
    <3> QED BY <1>0, <1>2, <3>1 DEF DependsOn, Types
  <2>3. deps' \in [Nodes -> Int]
    BY <1>0, <1>2 DEF DependsOn, Counted, Types
  <2> QED BY <1>0, <1>2, <2>2, <2>3 DEF DependsOn, memory, sched, Types
<1>3. CASE Execute
  BY <1>0, <1>3 DEF Execute, graph, memory, sched, Types
<1>4. CASE Seed
  <2>1. seeded' \in 0..size /\ seeded + 1 \in Nodes
    BY <1>0, <1>4, BoundAssumption DEF Seed, Types, Nodes
  <2>2. /\ todo' \in [Nodes -> Nat] /\ running' = running /\ done' = done
        /\ driver' = driver
    <3>1. CASE Root(seeded + 1)
      <4>1. PICK k \in Nodes : todo' = [todo EXCEPT ![k] = @ + 1]
        BY <1>4, <2>1, <3>1 DEF Seed, Sched!Submit
      <4>2. todo' \in [Nodes -> Nat]
        BY <1>0, <4>1 DEF Types
      <4> QED BY <1>4, <3>1, <4>2 DEF Seed, Sched!Submit
    <3>2. CASE ~Root(seeded + 1)
      BY <1>0, <1>4, <3>2 DEF Seed, sched, Types
    <3> QED BY <3>1, <3>2
  <2> QED BY <1>0, <1>4, <2>1, <2>2 DEF Seed, graph, memory, Types
<1>5. CASE Run
  BY <1>0, <1>5 DEF Run, Sched!Run, graph, memory, Types
<1>6. CASE Return
  BY <1>0, <1>6 DEF Return, Sched!Return, graph, memory, Types
<1>7. ASSUME NEW x \in Nodes, Start(x) PROVE Types'
  <2>1. todo' \in [Nodes -> Nat] /\ running' \in [Nodes -> Nat]
    BY <1>0, <1>7 DEF Start, Sched!Start, Types
  <2>2. pc' \in [Nodes -> {"none", "fn", "loop", "submit", "end"}]
    BY <1>0, <1>7 DEF Start, Goto, Types
  <2> QED BY <1>0, <1>7, <2>1, <2>2 DEF Start, Sched!Start, graph, memory, Types
<1>8. ASSUME NEW x \in Nodes, Call(x) PROVE Types'
  <2>1. pc' \in [Nodes -> {"none", "fn", "loop", "submit", "end"}]
    BY <1>0, <1>8 DEF Call, Goto, Types
  <2>2. known' \in [Nodes -> SUBSET Nodes]
    BY <1>0, <1>8 DEF Call, Types
  <2> QED BY <1>0, <1>8, <2>1, <2>2 DEF Call, graph, sched, Types
<1>9. ASSUME NEW x \in Nodes, CountDown(x) PROVE Types'
  <2>0. Succ(x) \in Nodes
    BY <1>9, CountDownPasses
  <2>1. pc' \in [Nodes -> {"none", "fn", "loop", "submit", "end"}]
    BY <1>0, <1>9 DEF CountDown, Goto, Types
  <2>2. at' \in [Nodes -> Nat]
    <3>1. CASE at' = at
      BY <1>0, <3>1 DEF Types
    <3>2. CASE at' = [at EXCEPT ![x] = @ + 1]
      BY <1>0, <3>2 DEF Types
    <3> QED BY <1>9, <3>1, <3>2 DEF CountDown, Advance
  <2>3. deps' \in [Nodes -> Int]
    <3>1. PICK s \in Nodes : deps' = [deps EXCEPT ![s] = @ - 1]
      BY <1>9, <2>0 DEF CountDown
    <3> QED BY <1>0, <3>1 DEF Types
  <2>4. known' \in [Nodes -> SUBSET Nodes] /\ released' \in [Nodes -> SUBSET Nodes]
    BY <1>0, <1>9, <2>0 DEF CountDown, Acquire, Types
  <2> QED BY <1>0, <1>9, <2>1, <2>2, <2>3, <2>4 DEF CountDown, graph, sched, Types
<1>10. ASSUME NEW x \in Nodes, SubmitSuccessor(x) PROVE Types'
  <2>0. Succ(x) \in Nodes
    BY <1>10, SubmitSuccessorPasses
  <2>1. pc' \in [Nodes -> {"none", "fn", "loop", "submit", "end"}]
    BY <1>0, <1>10 DEF SubmitSuccessor, Goto, Types
  <2>2. at' \in [Nodes -> Nat]
    BY <1>0, <1>10 DEF SubmitSuccessor, Advance, Types
  <2>3. known' \in [Nodes -> SUBSET Nodes]
    BY <1>0, <1>10, <2>0 DEF SubmitSuccessor, Types
  <2>4. todo' \in [Nodes -> Nat]
    BY <1>0, <1>10, <2>0 DEF SubmitSuccessor, Sched!Submit, Types
  <2> QED BY <1>0, <1>10, <2>1, <2>2, <2>3, <2>4
          DEF SubmitSuccessor, Sched!Submit, graph, Types
<1>11. ASSUME NEW x \in Nodes, MarkDone(x) PROVE Types'
  <2>1. pc' \in [Nodes -> {"none", "fn", "loop", "submit", "end"}]
    BY <1>0, <1>11 DEF MarkDone, Goto, Types
  <2> QED BY <1>0, <1>11, <2>1 DEF MarkDone, graph, memory, sched, Types
<1>12. ASSUME NEW x \in Nodes, Finish(x) PROVE Types'
  <2>1. running' \in [Nodes -> Nat] /\ done' \in [Nodes -> Nat]
    BY <1>0, <1>12 DEF Finish, Sched!Finish, Types
  <2>2. pc' \in [Nodes -> {"none", "fn", "loop", "submit", "end"}]
    BY <1>0, <1>12 DEF Finish, Goto, Types
  <2> QED BY <1>0, <1>12, <2>1, <2>2 DEF Finish, Sched!Finish, graph, memory, Types
<1>13. CASE UNCHANGED vars
  BY <1>0, <1>13 DEF vars, graph, memory, sched, Types
<1> QED BY <1>1, <1>2, <1>3, <1>4, <1>5, <1>6, <1>7, <1>8, <1>9, <1>10, <1>11, <1>12, <1>13
        DEF Next, Driver, NodeTask

\* The shape of the graph.
LEMMA ShapeStep == IInv /\ [Next]_vars => Shape'
<1> SUFFICES ASSUME IInv, [Next]_vars PROVE Shape'
  OBVIOUS
<1>0. Types /\ Shape
  BY DEF IInv
<1>1. CASE Node
  BY <1>0, <1>1 DEF Node, Shape, Types, Nodes
<1>2. ASSUME NEW x \in Nodes, NEW pred \in Nodes, DependsOn(x, pred) PROVE Shape'
  <2>1. Len(successors'[pred]) <= MaxEdges
    BY <1>2, DependsOnAdds
  <2>2. \A y \in Nodes : y # pred => successors'[y] = successors[y]
    BY <1>0, <1>2 DEF DependsOn, Types
  <2>3. ~(pred > size) /\ size' = size
    BY <1>0, <1>2 DEF DependsOn, Types, Nodes
  <2> QED BY <1>0, <2>1, <2>2, <2>3 DEF Shape
<1>3. CASE successors' = successors /\ size' = size
  BY <1>0, <1>3 DEF Shape
<1>4. CASE Execute \/ Driver \/ \E x \in Nodes : NodeTask(x)
  <2>1. UNCHANGED graph
    BY <1>4 DEF Execute, Driver, Seed, Run, Return, NodeTask, Start, Call, CountDown,
                SubmitSuccessor, MarkDone, Finish
  <2> QED BY <1>3, <2>1 DEF graph
<1> QED BY <1>1, <1>2, <1>3, <1>4 DEF Next, vars, graph

\* A node about which nothing changes.
Same(y) ==
  /\ todo'[y] = todo[y] /\ running'[y] = running[y] /\ done'[y] = done[y]
  /\ pc'[y] = pc[y] /\ at'[y] = at[y]

LEMMA SamePlacement ==
  ASSUME successors' = successors, size' = size, NEW y \in Nodes, Placed(y), Same(y)
  PROVE  Placed(y)'
BY DEF Same, Placed, Called, Submitted

\* The node that the loop of execute() submits is submitted for the first time.
LEMMA SeedSubmits ==
  ASSUME IInv, Seed
  PROVE  /\ seeded + 1 \in 1..size /\ seeded' = seeded + 1
         /\ \A y \in Nodes : y # seeded + 1 => Same(y)
         /\ running' = running /\ done' = done /\ pc' = pc /\ at' = at
         /\ ~Submitted(seeded + 1)
         /\ deps[seeded + 1] = 0 => todo'[seeded + 1] = 1
         /\ deps[seeded + 1] # 0 => todo' = todo
<1>0. Types /\ Phases
  BY DEF IInv
<1>1. PICK k \in 1..size : k = seeded + 1 /\ seeded' = k /\ k \in Nodes
  <2>1. seeded + 1 \in 1..size /\ seeded' = seeded + 1
    BY <1>0, NodesFacts DEF Seed, Types
  <2> QED BY <1>0, <2>1, NodesFacts
<1>2. todo[k] = 0 /\ running[k] = 0 /\ done[k] = 0
  <2>1. ~(k <= seeded)
    BY <1>0, <1>1, NodesFacts DEF Types
  <2> QED BY <1>0, <1>1, <2>1 DEF Phases, Seed, Types
<1>3. running' = running /\ done' = done /\ pc' = pc /\ at' = at
  BY DEF Seed, Sched!Submit, sched
<1>4. CASE deps[k] = 0
  <2>1. todo' = [todo EXCEPT ![k] = @ + 1]
    BY <1>1, <1>4 DEF Seed, Root, Sched!Submit
  <2>2. todo'[k] = 1 /\ \A y \in Nodes : y # k => todo'[y] = todo[y]
    BY <1>0, <1>1, <1>2, <2>1 DEF Types
  <2> QED BY <1>1, <1>2, <1>3, <1>4, <2>2 DEF Same, Submitted
<1>5. CASE deps[k] # 0
  <2>1. todo' = todo
    BY <1>1, <1>5 DEF Seed, Root, sched
  <2> QED BY <1>1, <1>2, <1>3, <1>5, <2>1 DEF Same, Submitted
<1> QED BY <1>4, <1>5

\* So is the node that its last predecessor submits.
LEMMA SuccessorSubmitted ==
  ASSUME IInv, NEW x \in Nodes, SubmitSuccessor(x)
  PROVE  /\ Succ(x) \in 1..size /\ Succ(x) \in Nodes /\ Succ(x) # x
         /\ Submitting(x, Succ(x)) /\ ~Submitted(Succ(x)) /\ deps[Succ(x)] = 0
         /\ pc[Succ(x)] = "none"
         /\ \A y \in Nodes : y # x => pc'[y] = pc[y] /\ at'[y] = at[y]
         /\ \A y \in Nodes : y # Succ(x) => todo'[y] = todo[y] /\ known'[y] = known[y]
         /\ todo[Succ(x)] = 0 /\ \A y \in Nodes : y = Succ(x) => todo'[y] = 1
         /\ \A y \in Nodes : y = Succ(x) => known'[y] = known[x]
         /\ pc'[x] = "loop" /\ at'[x] = at[x] + 1
         /\ running' = running /\ done' = done
<1>0. Types /\ Placement /\ Once
  BY DEF IInv
<1>1. PICK s \in Nodes : s = Succ(x)
  BY SubmitSuccessorPasses
<1>2. Submitting(x, s)
  BY <1>1 DEF SubmitSuccessor, Submitting
<1>3. ~Submitted(s) /\ deps[s] = 0
  BY <1>0, <1>2 DEF Once
<1>4. todo[s] = 0 /\ running[s] = 0
  BY <1>0, <1>3 DEF Submitted, Types
<1>5. pc[s] = "none" /\ pc[x] = "submit"
  BY <1>0, <1>4 DEF Placement, Placed, SubmitSuccessor
<1>6. todo' = [todo EXCEPT ![s] = @ + 1] /\ known' = [known EXCEPT ![s] = known[x]]
  BY <1>1 DEF SubmitSuccessor, Sched!Submit
<1>7. /\ \A y \in Nodes : y # s => todo'[y] = todo[y] /\ known'[y] = known[y]
      /\ todo'[s] = 1 /\ known'[s] = known[x]
  BY <1>0, <1>4, <1>6 DEF Types
<1>8. /\ \A y \in Nodes : y # x => pc'[y] = pc[y] /\ at'[y] = at[y]
      /\ pc'[x] = "loop" /\ at'[x] = at[x] + 1
  BY <1>0 DEF SubmitSuccessor, Goto, Advance, Types
<1>9. running' = running /\ done' = done
  BY DEF SubmitSuccessor, Sched!Submit
<1>10. s \in 1..size
  BY <1>1, SubmitSuccessorPasses
<1> QED BY <1>1, <1>2, <1>3, <1>4, <1>5, <1>7, <1>8, <1>9, <1>10

\* The other steps of a task move its own node only.
LEMMA TaskMoves ==
  ASSUME IInv, NEW x \in Nodes, Start(x) \/ Call(x) \/ CountDown(x) \/ MarkDone(x) \/ Finish(x)
  PROVE  /\ \A y \in Nodes : y # x => Same(y)
         /\ successors' = successors /\ size' = size /\ seeded' = seeded /\ phase' = phase
         /\ driver' = driver
<1>0. Types
  BY DEF IInv
<1>1. \A y \in Nodes : y # x => pc'[y] = pc[y]
  BY <1>0 DEF Start, Call, CountDown, MarkDone, Finish, Goto, Types
<1>2. \A y \in Nodes : y # x => at'[y] = at[y]
  BY <1>0 DEF Start, Call, CountDown, MarkDone, Finish, Advance, Types
<1>3. \A y \in Nodes : y # x =>
        todo'[y] = todo[y] /\ running'[y] = running[y] /\ done'[y] = done[y]
  BY <1>0 DEF Start, Call, CountDown, MarkDone, Finish, Sched!Start, Sched!Finish, sched, Types
<1>4. /\ successors' = successors /\ size' = size /\ seeded' = seeded /\ phase' = phase
      /\ driver' = driver
  BY DEF Start, Call, CountDown, MarkDone, Finish, Sched!Start, Sched!Finish, sched, graph
<1> QED BY <1>1, <1>2, <1>3, <1>4 DEF Same

\* Each task goes through its phases, and its node's edges, in order.
LEMMA PlacementStep == IInv /\ [Next]_vars => Placement'
<1> SUFFICES ASSUME IInv, [Next]_vars, NEW y \in Nodes PROVE Placed(y)'
  BY DEF Placement
<1>0. Types /\ Shape /\ Placement /\ Phases /\ Placed(y)
  BY DEF IInv, Placement
<1>a. /\ todo[y] \in Nat /\ running[y] \in Nat /\ done[y] \in Nat
      /\ at[y] \in Nat /\ Len(successors[y]) \in Nat /\ size \in Nat /\ y \in Nat
  BY <1>0, NodesFacts DEF Types, Nodes
<1>1. CASE Node
  <2>1. Same(y) /\ successors' = successors /\ size' = size + 1
    BY <1>1 DEF Node, sched, Same
  <2> QED BY <1>0, <1>a, <2>1 DEF Placed, Same, Called, Submitted
<1>2. ASSUME NEW x \in Nodes, NEW pred \in Nodes, DependsOn(x, pred) PROVE Placed(y)'
  <2>1. /\ todo'[y] = 0 /\ running'[y] = 0 /\ done'[y] = 0
        /\ pc'[y] = "none" /\ at'[y] = 1
    BY <1>0, <1>2, Building DEF DependsOn, sched
  <2>2. successors'[y] \in Seq(1..size')
    BY <1>2, TypesStep DEF Next, Types
  <2>3. 1 \in 1..Len(successors'[y])+1
    BY <2>2
  <2> QED BY <2>1, <2>3 DEF Placed, Called, Submitted
<1>3. CASE Execute \/ Run \/ Return \/ UNCHANGED vars
  <2>1. Same(y) /\ successors' = successors /\ size' = size
    BY <1>3 DEF Execute, Run, Return, Sched!Run, Sched!Return, vars, graph, sched, Same
  <2> QED BY <1>0, <2>1, SamePlacement
<1>4. CASE Seed
  <2>1. successors' = successors /\ size' = size
    BY <1>4 DEF Seed, graph
  <2>2. CASE Same(y)
    BY <1>0, <2>1, <2>2, SamePlacement
  <2>3. CASE y = seeded + 1 /\ ~Same(y)
    <3>1. /\ y <= size /\ ~Submitted(y)
          /\ running'[y] = running[y] /\ done'[y] = done[y]
          /\ pc'[y] = pc[y] /\ at'[y] = at[y]
      BY <1>4, <1>a, <2>3, SeedSubmits
    <3>2. todo'[y] = 1
      BY <1>4, <2>3, <3>1, SeedSubmits DEF Same
    <3> QED BY <1>0, <1>a, <2>1, <3>1, <3>2 DEF Placed, Called, Submitted
  <2> QED BY <1>4, <2>2, <2>3, SeedSubmits
<1>5. ASSUME NEW x \in Nodes,
             Start(x) \/ Call(x) \/ CountDown(x) \/ MarkDone(x) \/ Finish(x), y # x
      PROVE  Placed(y)'
  BY <1>0, <1>5, TaskMoves, SamePlacement
<1>6. CASE Start(y)
  <2>1. todo[y] = 1 /\ running[y] = 0 /\ done[y] = 0 /\ pc[y] = "none"
    BY <1>6, Starting
  <2>2. todo'[y] = 0 /\ running'[y] = 1 /\ done'[y] = 0
    BY <1>0, <1>6, <2>1 DEF Start, Sched!Start, Types
  <2>3. pc'[y] = "fn" /\ at' = at /\ successors' = successors /\ size' = size
    BY <1>0, <1>6 DEF Start, Goto, graph, Types
  <2> QED BY <1>0, <1>a, <2>1, <2>2, <2>3 DEF Placed, Called, Submitted
<1>7. CASE Call(y)
  <2>1. /\ todo' = todo /\ running' = running /\ done' = done /\ pc'[y] = "loop"
        /\ at' = at /\ successors' = successors /\ size' = size /\ pc[y] = "fn"
    BY <1>0, <1>7 DEF Call, Goto, graph, sched, Types
  <2> QED BY <1>0, <1>a, <2>1 DEF Placed, Called, Submitted
<1>8. CASE CountDown(y)
  <2>1. /\ todo' = todo /\ running' = running /\ done' = done /\ pc[y] = "loop"
        /\ successors' = successors /\ size' = size /\ at[y] <= Len(successors[y])
    BY <1>8 DEF CountDown, graph, sched
  <2>2. done[y] = 0
    BY <1>8, <2>1, Working
  <2>3. \/ pc'[y] = "submit" /\ at'[y] = at[y]
        \/ pc'[y] = "loop" /\ at'[y] = at[y] + 1
    BY <1>0, <1>8 DEF CountDown, Goto, Advance, Types
  <2> QED BY <1>0, <1>a, <2>1, <2>2, <2>3 DEF Placed, Called, Submitted
<1>9. ASSUME NEW x \in Nodes, SubmitSuccessor(x) PROVE Placed(y)'
  <2>1. successors' = successors /\ size' = size
    BY <1>9 DEF SubmitSuccessor, graph
  <2>2. CASE y = x
    <3>1. /\ todo'[y] = todo[y] /\ running'[y] = running[y] /\ done'[y] = done[y]
          /\ pc[y] = "submit" /\ pc'[y] = "loop" /\ at'[y] = at[y] + 1
      BY <1>9, <2>2, SuccessorSubmitted DEF SubmitSuccessor
    <3>2. done[y] = 0
      BY <3>1, Working
    <3> QED BY <1>0, <1>a, <2>1, <3>1, <3>2 DEF Placed, Called, Submitted
  <2>3. CASE y # x /\ y # Succ(x)
    <3>1. Same(y)
      BY <1>9, <2>3, SuccessorSubmitted DEF Same
    <3> QED BY <1>0, <2>1, <3>1, SamePlacement
  <2>4. CASE y # x /\ y = Succ(x)
    <3>1. /\ todo'[y] = 1 /\ running'[y] = running[y] /\ done'[y] = done[y]
          /\ pc'[y] = pc[y] /\ at'[y] = at[y] /\ ~Submitted(y) /\ y \in 1..size
      BY <1>9, <2>4, SuccessorSubmitted
    <3> QED BY <1>0, <1>a, <2>1, <3>1 DEF Placed, Called, Submitted
  <2> QED BY <2>2, <2>3, <2>4
<1>10. CASE MarkDone(y)
  <2>1. /\ todo' = todo /\ running' = running /\ done' = done /\ pc'[y] = "end"
        /\ at' = at /\ successors' = successors /\ size' = size /\ pc[y] = "loop"
        /\ at[y] > Len(successors[y])
    BY <1>0, <1>10 DEF MarkDone, Goto, graph, memory, sched, Types
  <2> QED BY <1>0, <1>a, <2>1 DEF Placed, Called, Submitted
<1>11. CASE Finish(y)
  <2>1. todo[y] = 0 /\ running[y] = 1 /\ done[y] = 0 /\ pc[y] = "end"
    BY <1>11, Working DEF Finish
  <2>2. /\ todo'[y] = 0 /\ running'[y] = 0 /\ done'[y] = 1 /\ pc'[y] = "none"
        /\ at' = at /\ successors' = successors /\ size' = size
    BY <1>0, <1>11, <2>1 DEF Finish, Sched!Finish, Goto, graph, Types
  <2> QED BY <1>0, <1>a, <2>1, <2>2 DEF Placed, Called, Submitted
<1> QED BY <1>1, <1>2, <1>3, <1>4, <1>5, <1>6, <1>7, <1>8, <1>9, <1>10, <1>11
        DEF Next, Driver, NodeTask

\* The phases of execute().
LEMMA PhasesStep == IInv /\ [Next]_vars => Phases'
<1> SUFFICES ASSUME IInv, [Next]_vars PROVE Phases'
  OBVIOUS
<1>0. Types /\ Shape /\ Placement /\ Phases
  BY DEF IInv
<1>1. CASE Node \/ (\E x, pred \in Nodes : DependsOn(x, pred)) \/ Execute
  <2>1. /\ phase = "build" /\ phase' \in {"build", "seed"} /\ seeded' = seeded
        /\ UNCHANGED sched
    BY <1>1 DEF Node, DependsOn, Execute
  <2>2. seeded = 0 /\ \A y \in Nodes : todo[y] = 0 /\ running[y] = 0 /\ done[y] = 0
    BY <1>0, <2>1, Building
  <2> QED BY <1>0, <2>1, <2>2 DEF Phases, sched
<1>2. CASE Seed
  <2>1. /\ phase = "seed" /\ phase' = "seed" /\ driver' = driver
    BY <1>2 DEF Seed, Sched!Submit, sched
  <2>2. /\ seeded' = seeded + 1 /\ running' = running /\ done' = done
        /\ \A y \in Nodes : y # seeded + 1 => todo'[y] = todo[y]
    BY <1>2, SeedSubmits DEF Same
  <2>3. \A y \in Nodes : todo'[y] > 0 => y <= seeded'
    BY <1>0, <2>1, <2>2, NodesFacts DEF Phases, Types, Nodes
  <2> QED BY <1>0, <2>1, <2>2, <2>3 DEF Phases
<1>3. CASE Run
  BY <1>0, <1>3 DEF Run, Sched!Run, Phases, graph
<1>4. CASE Return
  <2>1. \A y \in Nodes : todo'[y] = 0 /\ running'[y] = 0
    BY <1>4 DEF Return, Sched!Return, Sched!None
  <2> QED BY <1>0, <1>4, <2>1 DEF Return, Sched!Return, Phases, graph
<1>5. ASSUME NEW x \in Nodes, NodeTask(x) PROVE Phases'
  <2>1. phase = "run"
    BY <1>5, Starting, Working DEF NodeTask, Call, CountDown, SubmitSuccessor, MarkDone, Finish
  <2>2. phase' = phase /\ driver' = driver /\ seeded' = seeded /\ size' = size
    BY <1>5, TaskMoves DEF NodeTask, SubmitSuccessor, Sched!Submit, graph
  <2> QED BY <1>0, <2>1, <2>2 DEF Phases
<1>6. CASE UNCHANGED vars
  BY <1>0, <1>6 DEF vars, sched, graph, Phases
<1> QED BY <1>1, <1>2, <1>3, <1>4, <1>5, <1>6 DEF Next, Driver

\* The counters.
LEMMA CountsStep == IInv /\ [Next]_vars => Counts'
<1> SUFFICES ASSUME IInv, [Next]_vars, NEW y \in Nodes PROVE deps'[y] = Cardinality(Left(y)')
  BY DEF Counts
<1>0. /\ Types /\ Shape /\ Counts /\ deps[y] = Cardinality(Left(y))
      /\ deps[y] \in Nat /\ IsFiniteSet(Left(y))
  BY NoneLeft DEF IInv, Counts
<1>1. CASE deps' = deps /\ Left(y)' = Left(y)
  BY <1>0, <1>1
<1>2. ASSUME \/ Node
             \/ Execute
             \/ Driver
             \/ \E x \in Nodes : Start(x) \/ Call(x) \/ MarkDone(x) \/ Finish(x)
             \/ UNCHANGED vars
      PROVE  deps'[y] = Cardinality(Left(y)')
  <2>1. Left(y)' = Left(y)
    BY <1>0, <1>2, OthersStill, StillKeeps
  <2>2. deps' = deps
    BY <1>2 DEF Node, Execute, Driver, Seed, Run, Return, Start, Call, MarkDone, Finish, vars
  <2> QED BY <1>1, <2>1, <2>2
<1>3. ASSUME NEW x \in Nodes, NEW pred \in Nodes, DependsOn(x, pred)
      PROVE  deps'[y] = Cardinality(Left(y)')
  <2>1. PICK new :
          /\ Left(y)' = IF y = x THEN Left(y) \cup {new} ELSE Left(y)
          /\ new \notin Left(x)
    BY <1>3, DependsOnAdds
  <2>2. deps'[y] = IF y = x THEN deps[y] + 1 ELSE deps[y]
    BY <1>0, <1>3 DEF DependsOn, Counted, Types
  <2>3. CASE y = x
    BY <1>0, <2>1, <2>2, <2>3, FS_AddElement
  <2>4. CASE y # x
    BY <1>0, <2>1, <2>2, <2>4
  <2> QED BY <2>3, <2>4
<1>4. ASSUME NEW x \in Nodes, CountDown(x) PROVE deps'[y] = Cardinality(Left(y)')
  <2>1. /\ Left(y)' = IF y = Succ(x) THEN Left(y) \ {At(x)} ELSE Left(y)
        /\ At(x) \in Edges /\ Target(At(x)) = Succ(x) /\ ~Passed(At(x)) /\ Succ(x) \in Nodes
    BY <1>4, CountDownPasses
  <2>2. deps'[y] = IF y = Succ(x) THEN deps[y] - 1 ELSE deps[y]
    BY <1>0, <1>4, <2>1 DEF CountDown, Types
  <2>3. CASE y = Succ(x)
    <3>1. At(x) \in Left(y)
      BY <2>1, <2>3 DEF Left
    <3> QED BY <1>0, <2>1, <2>2, <2>3, <3>1, FS_RemoveElement
  <2>4. CASE y # Succ(x)
    BY <1>0, <2>1, <2>2, <2>4
  <2> QED BY <2>3, <2>4
<1>5. ASSUME NEW x \in Nodes, SubmitSuccessor(x) PROVE deps'[y] = Cardinality(Left(y)')
  BY <1>1, <1>5, SubmitSuccessorPasses DEF SubmitSuccessor
<1> QED BY <1>2, <1>3, <1>4, <1>5 DEF Next, NodeTask

\* The fetch_sub that takes the counter of a node to zero is not the first that finds
\* it there, and the only one that does.
LEMMA CountDownLast ==
  ASSUME IInv, NEW x \in Nodes, CountDown(x)
  PROVE  /\ deps[Succ(x)] \in Nat /\ deps[Succ(x)] > 0
         /\ deps[Succ(x)] = 1 => \A e \in Edges : Target(e) = Succ(x) => Passed(e) \/ e = At(x)
         /\ ~Submitted(Succ(x)) /\ \A y \in Nodes : ~Submitting(y, Succ(x))
         /\ \A y \in Nodes :
              deps'[y] = IF y = Succ(x) THEN deps[y] - 1 ELSE deps[y]
         /\ \A y, z \in Nodes :
              Submitting(y, z)' <=> \/ Submitting(y, z)
                                    \/ y = x /\ z = Succ(x) /\ deps[Succ(x)] = 1
<1>0. Types /\ Shape /\ Counts /\ Once
  BY DEF IInv
<1>1. PICK s \in Nodes : s = Succ(x)
  BY CountDownPasses
<1>2. At(x) \in Left(s) /\ IsFiniteSet(Left(s)) /\ deps[s] = Cardinality(Left(s))
  BY <1>0, <1>1, CountDownPasses, NoneLeft DEF Left, Counts
<1>3. deps[s] \in Nat /\ deps[s] # 0
  <2>1. \E e \in Edges : Target(e) = s /\ ~Passed(e)
    BY <1>1, CountDownPasses
  <2> QED BY <1>0, <2>1, NoneLeft
<1>4. ASSUME deps[s] = 1, NEW e \in Edges, Target(e) = s PROVE Passed(e) \/ e = At(x)
  <2>1. PICK a : Left(s) = {a}
    BY <1>2, <1>4, FS_Singleton
  <2> QED BY <1>2, <1>4, <2>1 DEF Left
<1>5. ~Submitted(s) /\ \A y \in Nodes : ~Submitting(y, s)
  BY <1>0, <1>3 DEF Once
<1>6. \A y \in Nodes : deps'[y] = IF y = s THEN deps[y] - 1 ELSE deps[y]
  BY <1>0, <1>1 DEF CountDown, Types
<1>7. ASSUME NEW y \in Nodes, NEW z \in Nodes
      PROVE  Submitting(y, z)' <=> \/ Submitting(y, z)
                                   \/ y = x /\ z = s /\ deps[s] = 1
  <2>1. successors' = successors /\ \A v \in Nodes : v # x => Same(v)
    BY TaskMoves
  <2>2. CASE y # x
    BY <2>1, <2>2 DEF Submitting, Succ, Same
  <2>3. CASE y = x /\ deps[s] = 1
    <3>1. pc'[x] = "submit" /\ at' = at
      BY <1>0, <1>1, <2>3 DEF CountDown, Last, Goto, Types
    <3>2. pc[x] = "loop"
      BY DEF CountDown
    <3> QED BY <1>1, <2>1, <2>3, <3>1, <3>2 DEF Submitting, Succ
  <2>4. CASE y = x /\ deps[s] # 1
    <3>1. pc'[x] = "loop" /\ pc[x] = "loop"
      BY <1>0, <1>1, <2>4 DEF CountDown, Last
    <3> QED BY <2>4, <3>1 DEF Submitting
  <2> QED BY <2>2, <2>3, <2>4
<1> QED BY <1>1, <1>3, <1>4, <1>5, <1>6, <1>7

\* In the loop of execute() no task has started, so no edge is passed.
LEMMA Seeding ==
  ASSUME IInv, phase \in {"build", "seed"}
  PROVE  /\ \A y \in Nodes : pc[y] = "none"
         /\ \A x, y \in Nodes : ~Submitting(y, x)
         /\ \A e \in Edges : ~Passed(e)
<1>0. Types /\ Shape /\ Placement /\ Phases
  BY DEF IInv
<1>1. \A y \in Nodes : pc[y] = "none" /\ ~Called(y)
  <2> SUFFICES ASSUME NEW y \in Nodes PROVE pc[y] = "none" /\ ~Called(y)
    OBVIOUS
  <2>1. running[y] = 0 /\ done[y] = 0 /\ Placed(y)
    BY <1>0 DEF Phases, Placement
  <2>2. pc[y] = "none"
    BY <2>1 DEF Placed
  <2> QED BY <2>1, <2>2 DEF Called
<1>2. \A e \in Edges : ~Passed(e)
  BY <1>0, <1>1, PassedCalled, EdgeFacts
<1> QED BY <1>1, <1>2 DEF Submitting

\* Which nodes are submitted does not change when their tasks go on.
LEMMA TaskKeepsSubmitted ==
  ASSUME IInv, NEW x \in Nodes,
         Start(x) \/ Call(x) \/ CountDown(x) \/ MarkDone(x) \/ Finish(x)
  PROVE  \A y \in Nodes : Submitted(y)' <=> Submitted(y)
<1>0. Types
  BY DEF IInv
<1>1. \A y \in Nodes : y # x => (Submitted(y)' <=> Submitted(y))
  BY TaskMoves DEF Same, Submitted
<1>2. Submitted(x)' <=> Submitted(x)
  <2>1. CASE Start(x)
    <3>1. todo'[x] = todo[x] - 1 /\ running'[x] = running[x] + 1 /\ done'[x] = done[x]
      BY <1>0, <2>1 DEF Start, Sched!Start, Types
    <3> QED BY <1>0, <2>1, <3>1, Starting DEF Submitted, Types
  <2>2. CASE Finish(x)
    <3>1. todo'[x] = todo[x] /\ running'[x] = running[x] - 1 /\ done'[x] = done[x] + 1
      BY <1>0, <2>2 DEF Finish, Sched!Finish, Types
    <3> QED BY <1>0, <2>2, <3>1, Working DEF Submitted, Types, Finish
  <2>3. CASE Call(x) \/ CountDown(x) \/ MarkDone(x)
    BY <2>3 DEF Call, CountDown, MarkDone, sched, Submitted
  <2> QED BY <2>1, <2>2, <2>3
<1> QED BY <1>1, <1>2

\* Each node is submitted by one thread at most, and when it is ready.
LEMMA OnceStep == IInv /\ [Next]_vars => Once'
<1> SUFFICES ASSUME IInv, [Next]_vars PROVE Once'
  OBVIOUS
<1>0. Types /\ Shape /\ Placement /\ Phases /\ Counts /\ Once
  BY DEF IInv
<1>a. \A x \in Nodes : deps[x] \in Nat
  BY <1>0, NoneLeft
<1>b. 1..seeded \subseteq Nodes /\ 1..seeded' \subseteq Nodes
  <2>1. seeded \in 0..size /\ size \in 0..MaxNodes
    BY <1>0 DEF Types
  <2>2. seeded' \in 0..size' /\ size' \in 0..MaxNodes
    BY TypesStep DEF Types
  <2> QED BY <2>1, <2>2, BoundAssumption DEF Nodes
<1>1. CASE Node \/ (\E x, pred \in Nodes : DependsOn(x, pred)) \/ Execute
  <2>1. phase = "build" /\ seeded' = seeded /\ UNCHANGED sched /\ pc' = pc
    BY <1>1 DEF Node, DependsOn, Execute
  <2>2. seeded = 0 /\ \A y \in Nodes : ~Submitted(y) /\ pc[y] = "none"
    BY <1>0, <2>1, Building
  <2>3. \A x, y \in Nodes : ~Submitted(y)' /\ ~(Submitting(y, x)')
    BY <2>1, <2>2 DEF Submitted, Submitting, sched
  <2> QED BY <2>1, <2>2, <2>3 DEF Once
<1>2. CASE Seed
  <2>1. phase = "seed" /\ deps' = deps /\ Still
    BY <1>2, OthersStill DEF Seed, Driver
  <2>2. \A x, y \in Nodes : ~(Submitting(y, x)')
    BY <1>0, <2>1, Seeding, StillKeeps
  <2>3. PICK k \in 1..size : k = seeded + 1 /\ seeded' = k /\ k \in Nodes
    BY <1>0, <1>2, SeedSubmits, NodesFacts
  <2>4. \A y \in Nodes : y # k => (Submitted(y)' <=> Submitted(y))
    BY <1>2, <2>3, SeedSubmits DEF Same, Submitted
  <2>5. deps[k] # 0 => ~(Submitted(k)')
    BY <1>2, <2>3, SeedSubmits DEF Submitted
  <2>6. deps[k] = 0 => Submitted(k)'
    BY <1>0, <1>2, <2>3, SeedSubmits DEF Submitted, Types
  <2>7. \A x \in 1..seeded' : x = k \/ x \in 1..seeded
    BY <1>0, <2>3 DEF Types
  <2>8. \A x \in Nodes : Submitted(x)' => deps'[x] = 0
    BY <1>0, <2>1, <2>4, <2>5 DEF Once
  <2>9. \A x \in 1..seeded' : deps'[x] = 0 => Submitted(x)'
    BY <1>0, <1>b, <2>1, <2>4, <2>6, <2>7, Seeding DEF Once
  <2> QED BY <2>2, <2>8, <2>9 DEF Once
<1>3. ASSUME deps' = deps, seeded' = seeded, Still,
             \A y \in Nodes : Submitted(y)' <=> Submitted(y)
      PROVE  Once'
  <2>1. \A x, y \in Nodes : Submitting(y, x)' <=> Submitting(y, x)
    BY <1>0, <1>3, StillKeeps
  <2> QED BY <1>0, <1>b, <1>3, <2>1 DEF Once
<1>4. CASE Run \/ Return \/ UNCHANGED vars
  <2>1. deps' = deps /\ seeded' = seeded
    BY <1>4 DEF Run, Return, vars
  <2>2. \A y \in Nodes : Submitted(y)' <=> Submitted(y)
    BY <1>4 DEF Run, Return, Sched!Run, Sched!Return, vars, sched, Submitted
  <2> QED BY <1>3, <1>4, <2>1, <2>2, OthersStill DEF Driver
<1>5. ASSUME NEW x \in Nodes, Start(x) \/ Call(x) \/ MarkDone(x) \/ Finish(x) PROVE Once'
  <2>1. deps' = deps /\ seeded' = seeded
    BY <1>5 DEF Start, Call, MarkDone, Finish
  <2> QED BY <1>3, <1>5, <2>1, OthersStill, TaskKeepsSubmitted
<1>6. ASSUME NEW x \in Nodes, CountDown(x) PROVE Once'
  <2>1. PICK s \in Nodes : s = Succ(x)
    BY <1>6, CountDownPasses
  <2>2. /\ deps[s] > 0 /\ ~Submitted(s) /\ \A y \in Nodes : ~Submitting(y, s)
        /\ \A y \in Nodes : deps'[y] = IF y = s THEN deps[y] - 1 ELSE deps[y]
        /\ \A y, z \in Nodes :
             Submitting(y, z)' <=> \/ Submitting(y, z)
                                   \/ y = x /\ z = s /\ deps[s] = 1
    BY <1>6, <2>1, CountDownLast
  <2>3. \A y \in Nodes : Submitted(y)' <=> Submitted(y)
    BY <1>6, TaskKeepsSubmitted
  <2>4. seeded' = seeded
    BY <1>6, TaskMoves
  <2>5. \A y \in Nodes : Submitted(y)' => deps'[y] = 0
    BY <1>0, <2>2, <2>3 DEF Once
  <2>6. \A y, z \in Nodes : Submitting(y, z)' => deps'[z] = 0 /\ ~(Submitted(z)')
    BY <1>0, <2>2, <2>3 DEF Once
  <2>7. \A u, y, z \in Nodes : Submitting(y, u)' /\ Submitting(z, u)' => y = z
    BY <1>0, <2>2 DEF Once
  <2>8. ASSUME NEW y \in 1..seeded', deps'[y] = 0
        PROVE  Submitted(y)' \/ \E z \in Nodes : Submitting(z, y)'
    <3>1. y \in Nodes /\ y \in 1..seeded
      BY <1>b, <2>4
    <3>2. CASE y = s
      <4>1. deps[s] = 1
        BY <1>a, <2>2, <2>8, <3>2
      <4> QED BY <2>2, <3>2, <4>1
    <3>3. CASE y # s
      BY <1>0, <2>2, <2>3, <2>8, <3>1, <3>3 DEF Once
    <3> QED BY <3>2, <3>3
  <2> QED BY <2>5, <2>6, <2>7, <2>8 DEF Once
<1>7. ASSUME NEW x \in Nodes, SubmitSuccessor(x) PROVE Once'
  <2>1. PICK s \in Nodes : s = Succ(x)
    BY <1>7, SuccessorSubmitted
  <2>2. deps' = deps /\ seeded' = seeded /\ Submitting(x, s) /\ deps[s] = 0
    BY <1>7, <2>1, SuccessorSubmitted DEF SubmitSuccessor
  <2>3. \A y, z \in Nodes : Submitting(y, z)' <=> Submitting(y, z) /\ y # x
    BY <1>7, SubmitSuccessorPasses
  <2>4. \A y \in Nodes : y # s => (Submitted(y)' <=> Submitted(y))
    BY <1>7, <2>1, SuccessorSubmitted DEF Submitted
  <2>5. Submitted(s)'
    <3>1. todo'[s] = 1 /\ running' = running /\ done' = done
      BY <1>7, <2>1, SuccessorSubmitted
    <3> QED BY <1>0, <3>1 DEF Submitted, Types
  <2>6. \A z \in Nodes : Submitting(x, z) => z = s
    BY <2>1 DEF Submitting
  <2>7. \A y \in Nodes : Submitted(y)' => deps'[y] = 0
    BY <1>0, <2>2, <2>4 DEF Once
  <2>8. \A y, z \in Nodes : Submitting(y, z)' => deps'[z] = 0 /\ ~(Submitted(z)')
    BY <1>0, <2>2, <2>3, <2>4 DEF Once
  <2>9. \A u, y, z \in Nodes : Submitting(y, u)' /\ Submitting(z, u)' => y = z
    BY <1>0, <2>3 DEF Once
  <2>10. ASSUME NEW y \in 1..seeded', deps'[y] = 0
         PROVE  Submitted(y)' \/ \E z \in Nodes : Submitting(z, y)'
    <3>1. y \in Nodes /\ y \in 1..seeded
      BY <1>b, <2>2
    <3>2. Submitted(y) \/ \E z \in Nodes : Submitting(z, y)
      BY <1>0, <2>2, <2>10, <3>1 DEF Once
    <3> QED BY <2>3, <2>4, <2>5, <2>6, <3>1, <3>2
  <2> QED BY <2>7, <2>8, <2>9, <2>10 DEF Once
<1> QED BY <1>1, <1>2, <1>4, <1>5, <1>6, <1>7 DEF Next, Driver, NodeTask

\* What the predecessors wrote is handed on.
LEMMA SeesStep == IInv /\ [Next]_vars => Sees'
<1> SUFFICES ASSUME IInv, [Next]_vars PROVE Sees'
  OBVIOUS
<1>0. Types /\ Shape /\ Placement /\ Phases /\ Counts /\ Once /\ Sees
  BY DEF IInv
<1>1. CASE Node \/ (\E x, pred \in Nodes : DependsOn(x, pred)) \/ Execute
  <2>1. phase = "build" /\ UNCHANGED sched /\ pc' = pc /\ at' = at
    BY <1>1 DEF Node, DependsOn, Execute
  <2>2. \A y \in Nodes : ~(Submitted(y)') /\ pc'[y] = "none" /\ at'[y] = 1
    BY <1>0, <2>1, Building DEF Submitted, sched
  <2>3. \A e \in Edges' : e[1] \in Nodes /\ e[2] \in 1..MaxEdges /\ ~(e[2] < 1)
    BY BoundAssumption DEF Edges
  <2>4. \A e \in Edges' : ~(Passed(e)')
    BY <2>2, <2>3 DEF Passed
  <2>5. \A e \in Edges' : Target(e)' \in Nodes
    <3>1. Types' /\ Shape'
      BY TypesStep, ShapeStep
    <3>2. ASSUME NEW e \in Edges' PROVE Target(e)' \in Nodes
      <4>1. e[1] \in Nodes /\ successors'[e[1]] \in Seq(1..size')
        BY <2>3, <3>1 DEF Types
      <4>2. e[2] \in 1..Len(successors'[e[1]])
        BY <2>3, <4>1, BoundAssumption DEF Edges
      <4>3. Target(e)' \in 1..size'
        BY <4>1, <4>2, Element DEF Target
      <4>4. size' \in 0..MaxNodes
        BY <3>1 DEF Types
      <4> QED BY <4>3, <4>4, BoundAssumption DEF Nodes
    <3> QED BY <3>2
  <2> QED BY <2>2, <2>4, <2>5 DEF Sees, Submitting
<1>2. CASE Seed
  <2>1. /\ phase = "seed" /\ pc' = pc /\ known' = known /\ released' = released /\ Still
    BY <1>2, OthersStill DEF Seed, Driver, memory
  <2>2. /\ Edges' = Edges
        /\ \A e \in Edges : Target(e)' = Target(e) /\ Target(e) \in Nodes
        /\ \A e \in Edges : ~(Passed(e)')
        /\ \A x, y \in Nodes : ~(Submitting(y, x)')
    BY <1>0, <2>1, StillKeeps, Seeding, EdgeFacts
  <2>3. ASSUME NEW e \in Edges, Submitted(Target(e))' PROVE e[1] \in known[Target(e)]
    <3>1. PICK y \in Nodes : y = Target(e) /\ Submitted(y)'
      BY <2>2, <2>3 DEF Submitted
    <3>2. CASE Submitted(y)
      BY <1>0, <3>1, <3>2 DEF Sees
    <3>3. CASE ~Submitted(y)
      <4>1. y = seeded + 1
        BY <1>2, <3>1, <3>3, SeedSubmits DEF Same, Submitted
      <4>2. deps[y] = 0
        BY <1>2, <3>1, <3>3, <4>1, SeedSubmits DEF Submitted
      <4>3. Passed(e)
        BY <1>0, <3>1, <4>2, NoneLeft
      <4> QED BY <2>1, <4>3, Seeding
    <3> QED BY <3>2, <3>3
  <2>4. \A y \in Nodes : pc'[y] \in {"loop", "submit", "end"} => y \in known'[y]
    BY <1>0, <2>1 DEF Sees
  <2>5. \A e \in Edges' : Submitted(Target(e))' => e[1] \in known'[Target(e)']
    BY <2>1, <2>2, <2>3
  <2> QED BY <2>2, <2>4, <2>5 DEF Sees
<1>3. ASSUME Still, released' = released,
             \A y \in Nodes : known[y] \subseteq known'[y],
             \A y \in Nodes : pc'[y] \in {"loop", "submit", "end"} =>
               pc[y] \in {"loop", "submit", "end"} \/ y \in known'[y],
             \A y \in Nodes : Submitted(y)' <=> Submitted(y)
      PROVE  Sees'
  <2>1. /\ Edges' = Edges
        /\ \A e \in Edges : Target(e)' = Target(e) /\ (Passed(e)' <=> Passed(e))
        /\ \A e \in Edges : Target(e) \in Nodes
        /\ \A x, y \in Nodes : Submitting(y, x)' <=> Submitting(y, x)
    BY <1>0, <1>3, StillKeeps, EdgeFacts
  <2>2. \A y \in Nodes : pc'[y] \in {"loop", "submit", "end"} => y \in known'[y]
    BY <1>0, <1>3 DEF Sees
  <2>3. \A e \in Edges' : Passed(e)' => e[1] \in released'[Target(e)']
    BY <1>0, <1>3, <2>1 DEF Sees
  <2>4. \A e \in Edges', y \in Nodes : Submitting(y, Target(e))' => e[1] \in known'[y]
    BY <1>0, <1>3, <2>1 DEF Sees
  <2>5. \A e \in Edges' : Submitted(Target(e))' => e[1] \in known'[Target(e)']
    BY <1>0, <1>3, <2>1 DEF Sees
  <2> QED BY <2>2, <2>3, <2>4, <2>5 DEF Sees
<1>4. CASE Run \/ Return \/ UNCHANGED vars
  <2>1. pc' = pc /\ known' = known /\ released' = released
    BY <1>4 DEF Run, Return, vars, memory
  <2>2. \A y \in Nodes : Submitted(y)' <=> Submitted(y)
    BY <1>4 DEF Run, Return, Sched!Run, Sched!Return, vars, sched, Submitted
  <2> QED BY <1>3, <1>4, <2>1, <2>2, OthersStill DEF Driver
<1>5. ASSUME NEW x \in Nodes, Start(x) \/ Call(x) \/ MarkDone(x) \/ Finish(x) PROVE Sees'
  <2>1. released' = released
    BY <1>5 DEF Start, Call, MarkDone, Finish, memory
  <2>2. \A y \in Nodes : known[y] \subseteq known'[y]
    BY <1>0, <1>5 DEF Start, Call, MarkDone, Finish, memory, Types
  <2>3. ASSUME NEW y \in Nodes, pc'[y] \in {"loop", "submit", "end"}
        PROVE  pc[y] \in {"loop", "submit", "end"} \/ y \in known'[y]
    <3>1. CASE y # x
      BY <1>5, <2>3, <3>1, TaskMoves DEF Same
    <3>2. CASE y = x /\ Call(x)
      BY <1>0, <3>2 DEF Call, Types
    <3>3. CASE y = x /\ MarkDone(x)
      BY <3>3 DEF MarkDone
    <3>4. CASE y = x /\ (Start(x) \/ Finish(x))
      BY <1>0, <2>3, <3>4 DEF Start, Finish, Goto, Types
    <3> QED BY <1>5, <3>1, <3>2, <3>3, <3>4
  <2> QED BY <1>3, <1>5, <2>1, <2>2, <2>3, OthersStill, TaskKeepsSubmitted
<1>6. ASSUME NEW x \in Nodes, CountDown(x) PROVE Sees'
  <2>1. PICK s \in Nodes : s = Succ(x)
    BY <1>6, CountDownPasses
  <2>2. /\ Edges' = Edges
        /\ \A e \in Edges : Target(e)' = Target(e) /\ Target(e) \in Nodes
        /\ \A e \in Edges : Passed(e)' <=> Passed(e) \/ e = At(x)
        /\ At(x)[1] = x /\ Target(At(x)) = s
    BY <1>0, <1>6, <2>1, CountDownPasses, EdgeFacts DEF At
  <2>3. x \in known[x]
    BY <1>0, <1>6 DEF CountDown, Sees
  <2>4. /\ \A y \in Nodes : known[y] \subseteq known'[y]
        /\ known'[x] = known[x] \cup released[s]
    BY <1>0, <1>6, <2>1 DEF CountDown, Acquire, Types
  <2>5. /\ \A y \in Nodes : released[y] \subseteq released'[y]
        /\ released'[s] = released[s] \cup known[x]
    BY <1>0, <1>6, <2>1 DEF CountDown, Types
  <2>6. \A y \in Nodes : pc'[y] \in {"loop", "submit", "end"} => y \in known'[y]
    <3>1. \A y \in Nodes : y # x => pc'[y] = pc[y]
      BY <1>6, TaskMoves DEF Same
    <3> QED BY <1>0, <2>3, <2>4, <3>1 DEF Sees
  <2>7. \A e \in Edges' : Passed(e)' => e[1] \in released'[Target(e)']
    BY <1>0, <2>2, <2>3, <2>5 DEF Sees
  <2>8. ASSUME NEW e \in Edges, NEW y \in Nodes, NEW z \in Nodes, z = Target(e),
               Submitting(y, z)'
        PROVE  e[1] \in known'[y]
    <3>1. CASE Submitting(y, z)
      BY <1>0, <2>4, <2>8, <3>1 DEF Sees
    <3>2. CASE y = x /\ z = s /\ deps[s] = 1
      <4>1. Passed(e) \/ e = At(x)
        BY <1>6, <2>1, <2>8, <3>2, CountDownLast
      <4>2. CASE Passed(e)
        BY <1>0, <2>4, <2>8, <3>2, <4>2 DEF Sees
      <4>3. CASE e = At(x)
        BY <2>2, <2>3, <2>4, <3>2, <4>3
      <4> QED BY <4>1, <4>2, <4>3
    <3> QED BY <1>6, <2>1, <2>8, <3>1, <3>2, CountDownLast
  <2>9. \A e \in Edges', y \in Nodes : Submitting(y, Target(e))' => e[1] \in known'[y]
    <3>1. ASSUME NEW e \in Edges, NEW y \in Nodes, Submitting(y, Target(e))'
          PROVE  e[1] \in known'[y]
      <4>1. PICK z \in Nodes : z = Target(e) /\ z = Target(e)'
        BY <2>2
      <4>2. Submitting(y, z)'
        BY <3>1, <4>1 DEF Submitting
      <4> QED BY <2>8, <4>1, <4>2
    <3> QED BY <2>2, <3>1
  <2>10. \A e \in Edges' : Submitted(Target(e))' => e[1] \in known'[Target(e)']
    <3>1. ASSUME NEW e \in Edges, NEW z \in Nodes, z = Target(e), Submitted(z)'
          PROVE  e[1] \in known'[z]
      <4>1. Submitted(z)
        BY <1>6, <3>1, TaskKeepsSubmitted
      <4> QED BY <1>0, <2>4, <3>1, <4>1 DEF Sees
    <3>2. ASSUME NEW e \in Edges, Submitted(Target(e))' PROVE e[1] \in known'[Target(e)']
      <4>1. PICK z \in Nodes : z = Target(e) /\ z = Target(e)'
        BY <2>2
      <4>2. Submitted(z)'
        BY <3>2, <4>1 DEF Submitted
      <4> QED BY <3>1, <4>1, <4>2
    <3> QED BY <2>2, <3>2
  <2> QED BY <2>6, <2>7, <2>9, <2>10 DEF Sees
<1>7. ASSUME NEW x \in Nodes, SubmitSuccessor(x) PROVE Sees'
  <2>1. PICK s \in Nodes : s = Succ(x)
    BY <1>7, SuccessorSubmitted
  <2>2. /\ Edges' = Edges
        /\ \A e \in Edges : Target(e)' = Target(e) /\ Target(e) \in Nodes
        /\ \A e \in Edges : Passed(e)' <=> Passed(e)
        /\ \A y, z \in Nodes : Submitting(y, z)' <=> Submitting(y, z) /\ y # x
    BY <1>0, <1>7, SubmitSuccessorPasses, EdgeFacts
  <2>3. /\ s # x /\ Submitting(x, s) /\ pc[s] = "none"
        /\ \A y \in Nodes : y # s => known'[y] = known[y]
        /\ \A y \in Nodes : y # s => (Submitted(y)' <=> Submitted(y))
        /\ known'[s] = known[x] /\ released' = released
        /\ \A y \in Nodes : y # x => pc'[y] = pc[y]
    BY <1>7, <2>1, SuccessorSubmitted DEF Submitted, SubmitSuccessor
  <2>4. pc[x] = "submit"
    BY <1>7 DEF SubmitSuccessor
  <2>5. \A y \in Nodes : pc'[y] \in {"loop", "submit", "end"} => y \in known'[y]
    BY <1>0, <2>3, <2>4 DEF Sees
  <2>6. \A e \in Edges' : Passed(e)' => e[1] \in released'[Target(e)']
    BY <1>0, <2>2, <2>3 DEF Sees
  <2>7. \A y, z \in Nodes : Submitting(y, z)' => Submitting(y, z) /\ y # s
    BY <2>2, <2>3 DEF Submitting
  <2>8. ASSUME NEW e \in Edges, NEW y \in Nodes, Submitting(y, Target(e))'
        PROVE  e[1] \in known'[y]
    <3>1. PICK z \in Nodes : z = Target(e) /\ z = Target(e)'
      BY <2>2
    <3>2. Submitting(y, z) /\ y # s
      BY <2>7, <2>8, <3>1 DEF Submitting
    <3> QED BY <1>0, <2>3, <3>1, <3>2 DEF Sees
  <2>9. ASSUME NEW e \in Edges, Submitted(Target(e))' PROVE e[1] \in known'[Target(e)']
    <3>1. PICK z \in Nodes : z = Target(e) /\ z = Target(e)'
      BY <2>2
    <3>2. CASE z = s
      <4>1. e[1] \in known[x]
        BY <1>0, <2>3, <3>1, <3>2 DEF Sees
      <4> QED BY <2>3, <3>1, <3>2, <4>1
    <3>3. CASE z # s
      <4>1. Submitted(z)
        BY <2>3, <2>9, <3>1, <3>3 DEF Submitted
      <4> QED BY <1>0, <2>3, <3>1, <3>3, <4>1 DEF Sees
    <3> QED BY <3>2, <3>3
  <2> QED BY <2>2, <2>5, <2>6, <2>8, <2>9 DEF Sees
<1> QED BY <1>1, <1>2, <1>4, <1>5, <1>6, <1>7 DEF Next, Driver, NodeTask

\* remaining_nodes_.
LEMMA RemainsStep == IInv /\ [Next]_vars => Remains'
<1> SUFFICES ASSUME IInv, [Next]_vars PROVE Remains'
  OBVIOUS
<1>0. Types /\ Shape /\ Placement /\ Phases /\ Remains
  BY DEF IInv
<1>a. /\ IsFiniteSet(1..size) /\ Cardinality(1..size) = size /\ 1..size \subseteq Nodes
      /\ Unmarked \subseteq 1..size /\ IsFiniteSet(Unmarked)
  <2>1. Unmarked \subseteq 1..size
    BY DEF Unmarked
  <2>2. IsFiniteSet(1..size) /\ 1..size \subseteq Nodes /\ size \in Nat
    BY <1>0, NodesFacts
  <2>3. Cardinality(1..size) = size
    BY <2>2, FS_Interval
  <2> QED BY <2>1, <2>2, <2>3, FS_Subset
<1>1. CASE Node \/ \E x, pred \in Nodes : DependsOn(x, pred)
  BY <1>0, <1>1 DEF Node, DependsOn, Remains
<1>2. CASE Execute
  <2>1. /\ phase' # "build" /\ remaining' = size /\ size' = size
        /\ done' = done /\ pc' = pc /\ phase = "build"
    BY <1>2 DEF Execute, graph, sched
  <2>2. \A y \in Nodes : done[y] = 0 /\ pc[y] = "none"
    BY <1>0, <2>1, Building
  <2>3. Unmarked' = 1..size
    BY <1>a, <2>1, <2>2 DEF Unmarked
  <2> QED BY <1>a, <2>1, <2>3 DEF Remains
<1>3. ASSUME Unmarked' = Unmarked, remaining' = remaining,
             (phase' = "build") <=> (phase = "build")
      PROVE  Remains'
  BY <1>0, <1>3 DEF Remains
<1>4. CASE Seed
  BY <1>3, <1>4 DEF Seed, Sched!Submit, sched, graph, Unmarked
<1>5. CASE Run \/ Return \/ UNCHANGED vars
  <2>1. size' = size /\ done' = done /\ pc' = pc /\ remaining' = remaining
    BY <1>5 DEF Run, Return, Sched!Run, Sched!Return, vars, sched, graph
  <2>2. Unmarked' = Unmarked
    BY <2>1 DEF Unmarked
  <2>3. phase' = "build" <=> phase = "build"
    BY <1>5 DEF Run, Return, vars
  <2> QED BY <1>3, <2>1, <2>2, <2>3
<1>6. ASSUME NEW x \in Nodes, Start(x) \/ Call(x) \/ CountDown(x) \/ Finish(x) PROVE Remains'
  <2>1. /\ size' = size /\ phase' = phase
        /\ \A y \in Nodes : y # x => done'[y] = done[y] /\ pc'[y] = pc[y]
    BY <1>6, TaskMoves DEF Same
  <2>2. remaining' = remaining
    BY <1>6 DEF Start, Call, CountDown, Finish
  <2>3. done'[x] = 0 /\ pc'[x] # "end" <=> done[x] = 0 /\ pc[x] # "end"
    <3>1. CASE Start(x)
      <4>1. done' = done /\ pc'[x] = "fn" /\ pc[x] = "none"
        BY <1>0, <3>1, Starting DEF Start, Sched!Start, Goto, Types
      <4> QED BY <4>1
    <3>2. CASE Call(x)
      BY <1>0, <3>2 DEF Call, Goto, sched, Types
    <3>3. CASE CountDown(x)
      BY <1>0, <3>3 DEF CountDown, Goto, sched, Types
    <3>4. CASE Finish(x)
      <4>1. done[x] = 0 /\ pc[x] = "end"
        BY <3>4, Working DEF Finish
      <4>2. done'[x] = 1
        BY <1>0, <3>4, <4>1 DEF Finish, Sched!Finish, Types
      <4> QED BY <4>1, <4>2
    <3> QED BY <1>6, <3>1, <3>2, <3>3, <3>4
  <2>4. Unmarked' = Unmarked
    BY <1>a, <2>1, <2>3 DEF Unmarked
  <2> QED BY <1>3, <2>1, <2>2, <2>4
<1>7. ASSUME NEW x \in Nodes, SubmitSuccessor(x) PROVE Remains'
  <2>1. /\ \A y \in Nodes : y # x => pc'[y] = pc[y]
        /\ pc'[x] = "loop" /\ pc[x] = "submit" /\ done' = done
    BY <1>7, SuccessorSubmitted DEF SubmitSuccessor
  <2>2. size' = size /\ phase' = phase /\ remaining' = remaining
    BY <1>7 DEF SubmitSuccessor, graph
  <2>3. \A y \in Nodes : pc'[y] # "end" <=> pc[y] # "end"
    BY <2>1
  <2>4. Unmarked' = Unmarked
    BY <1>a, <2>1, <2>2, <2>3 DEF Unmarked
  <2> QED BY <1>3, <2>2, <2>4
<1>8. ASSUME NEW x \in Nodes, MarkDone(x) PROVE Remains'
  <2>1. done[x] = 0 /\ running[x] = 1 /\ phase = "run" /\ x \in 1..size
    <3>1. done[x] = 0 /\ running[x] = 1 /\ phase = "run"
      BY <1>8, Working DEF MarkDone
    <3>2. Submitted(x) /\ Placed(x)
      BY <1>0, <3>1 DEF Submitted, Placement, Types
    <3> QED BY <1>0, <3>1, <3>2 DEF Placed, Nodes, Types
  <2>2. /\ size' = size /\ phase' = phase /\ remaining' = remaining - 1
        /\ done' = done /\ pc[x] = "loop" /\ pc'[x] = "end"
        /\ \A y \in Nodes : y # x => pc'[y] = pc[y]
    BY <1>0, <1>8 DEF MarkDone, Goto, graph, sched, Types
  <2>3. Unmarked' = Unmarked \ {x} /\ x \in Unmarked
    BY <1>a, <2>1, <2>2 DEF Unmarked
  <2>4. remaining = Cardinality(Unmarked)
    BY <1>0, <2>1 DEF Remains
  <2>5. Cardinality(Unmarked \ {x}) = Cardinality(Unmarked) - 1
    BY <1>a, <2>3, FS_RemoveElement
  <2> QED BY <2>1, <2>2, <2>3, <2>4, <2>5 DEF Remains
<1> QED BY <1>1, <1>2, <1>4, <1>5, <1>6, <1>7, <1>8 DEF Next, Driver, NodeTask

\* A node in a set whose nodes wait for each other is not ready.
LEMMA FedNotReady ==
  ASSUME IInv, NEW S \in SUBSET (1..size), Fed(S), NEW x \in S
  PROVE  deps[x] # 0
<1>0. Types /\ Shape /\ Placement /\ Counts /\ Waits /\ x \in Nodes
  BY NodesFacts DEF IInv
<1>1. PICK e \in Edges : e[1] \in S /\ Target(e) = x
  BY DEF Fed
<1>2. ~Submitted(e[1])
  BY <1>0, <1>1 DEF Waits
<1>3. ~Passed(e)
  BY <1>0, <1>2, PassedCalled
<1> QED BY <1>0, <1>1, <1>3, NoneLeft

\* Nodes that wait for each other go on waiting.
LEMMA WaitsStep == IInv /\ [Next]_vars => Waits'
<1> SUFFICES ASSUME IInv, [Next]_vars PROVE Waits'
  OBVIOUS
<1>0. Types /\ Shape /\ Placement /\ Phases /\ Waits /\ 1..size \subseteq Nodes
  BY NodesFacts DEF IInv
<1>1. CASE Node \/ (\E x, pred \in Nodes : DependsOn(x, pred)) \/ Execute
  <2>1. phase = "build" /\ UNCHANGED sched
    BY <1>1 DEF Node, DependsOn, Execute
  <2>2. \A y \in Nodes : ~(Submitted(y)')
    BY <1>0, <2>1, Building DEF Submitted, sched
  <2>3. 1..size' \subseteq Nodes
    <3>1. size' \in 0..MaxNodes
      BY TypesStep DEF Types
    <3> QED BY <3>1, BoundAssumption DEF Nodes
  <2> QED BY <2>2, <2>3 DEF Waits
<1>2. ASSUME Edges' = Edges, \A e \in Edges : Target(e)' = Target(e), size' = size,
             \A y \in Nodes : Submitted(y)' => Submitted(y) \/ deps[y] = 0
      PROVE  Waits'
  <2> SUFFICES ASSUME NEW S \in SUBSET (1..size), Fed(S)', NEW y \in S
               PROVE  ~(Submitted(y)')
    BY <1>2 DEF Waits
  <2>1. Fed(S)
    BY <1>2 DEF Fed
  <2>2. ~Submitted(y) /\ deps[y] # 0
    BY <1>0, <2>1, FedNotReady DEF Waits
  <2> QED BY <1>0, <1>2, <2>2
<1>3. CASE Seed
  <2>1. Edges' = Edges /\ \A e \in Edges : Target(e)' = Target(e)
    BY <1>0, <1>3, OthersStill, StillKeeps DEF Driver
  <2>2. \A y \in Nodes : Submitted(y)' => Submitted(y) \/ deps[y] = 0
    BY <1>3, SeedSubmits DEF Same, Submitted
  <2> QED BY <1>2, <1>3, <2>1, <2>2 DEF Seed, graph
<1>4. CASE Run \/ Return \/ UNCHANGED vars
  <2>1. Edges' = Edges /\ \A e \in Edges : Target(e)' = Target(e)
    BY <1>0, <1>4, OthersStill, StillKeeps DEF Driver
  <2>2. size' = size /\ \A y \in Nodes : Submitted(y)' => Submitted(y)
    BY <1>4 DEF Run, Return, Sched!Run, Sched!Return, vars, sched, graph, Submitted
  <2> QED BY <1>2, <2>1, <2>2
<1>5. ASSUME NEW x \in Nodes,
             Start(x) \/ Call(x) \/ CountDown(x) \/ MarkDone(x) \/ Finish(x)
      PROVE  Waits'
  <2>1. size' = size /\ successors' = successors
    BY <1>5, TaskMoves
  <2>2. Edges' = Edges /\ \A e \in Edges : Target(e)' = Target(e)
    BY <2>1 DEF Edges, Target
  <2> QED BY <1>2, <1>5, <2>1, <2>2, TaskKeepsSubmitted
<1>6. ASSUME NEW x \in Nodes, SubmitSuccessor(x) PROVE Waits'
  <2>1. Edges' = Edges /\ \A e \in Edges : Target(e)' = Target(e)
    BY <1>6, SubmitSuccessorPasses
  <2>2. \A y \in Nodes : Submitted(y)' => Submitted(y) \/ deps[y] = 0
    BY <1>6, SuccessorSubmitted DEF Submitted
  <2> QED BY <1>2, <1>6, <2>1, <2>2 DEF SubmitSuccessor, graph
<1> QED BY <1>1, <1>3, <1>4, <1>5, <1>6 DEF Next, Driver, NodeTask

-----------------------------------------------------------------------------
(***************************************************************************)
(* The invariant holds, and what follows from it.                          *)
(***************************************************************************)

\* At first there is nothing.
LEMMA IInvInit == Init => IInv
<1> SUFFICES ASSUME Init PROVE IInv
  OBVIOUS
<1>1. /\ size = 0 /\ seeded = 0 /\ remaining = 0 /\ phase = "build" /\ driver = "out"
      /\ \A y \in Nodes :
           /\ successors[y] = <<>> /\ deps[y] = 0 /\ pc[y] = "none" /\ at[y] = 1
           /\ todo[y] = 0 /\ running[y] = 0 /\ done[y] = 0
           /\ known[y] = {} /\ released[y] = {}
  BY DEF Init, Sched!Init, Sched!None
<1>2. Types
  <2>1. size \in 0..MaxNodes /\ seeded \in 0..size /\ remaining \in Int
    BY <1>1, BoundAssumption
  <2>2. successors \in [Nodes -> Seq(1..size)]
    <3>1. <<>> \in Seq(1..size)
      OBVIOUS
    <3> QED BY <3>1 DEF Init
  <2>3. /\ deps \in [Nodes -> Int] /\ at \in [Nodes -> Nat]
        /\ pc \in [Nodes -> {"none", "fn", "loop", "submit", "end"}]
    BY DEF Init
  <2>4. known \in [Nodes -> SUBSET Nodes] /\ released \in [Nodes -> SUBSET Nodes]
    BY DEF Init
  <2>5. todo \in [Nodes -> Nat] /\ running \in [Nodes -> Nat] /\ done \in [Nodes -> Nat]
    BY DEF Init, Sched!Init, Sched!None
  <2> QED BY <1>1, <2>1, <2>2, <2>3, <2>4, <2>5 DEF Types
<1>3. Edges = {}
  BY <1>1, BoundAssumption DEF Edges
<1>4. \A y \in Nodes : ~Submitted(y) /\ \A x \in Nodes : ~Submitting(x, y)
  BY <1>1 DEF Submitted, Submitting
<1>5. Shape
  BY <1>1, BoundAssumption DEF Shape
<1>6. Placement
  <2>1. \A y \in Nodes : 1 \in 1..Len(successors[y])+1
    BY <1>1
  <2> QED BY <1>1, <1>4, <2>1 DEF Placement, Placed, Called
<1>7. Phases
  BY <1>1 DEF Phases
<1>8. Counts
  <2>1. \A y \in Nodes : Left(y) = {}
    BY <1>3 DEF Left
  <2> QED BY <1>1, <2>1, FS_EmptySet DEF Counts
<1>9. Once
  BY <1>1, <1>4 DEF Once
<1>10. Sees
  BY <1>1, <1>3 DEF Sees
<1>11. Remains
  BY <1>1 DEF Remains
<1>12. Waits
  BY <1>1 DEF Waits
<1> QED BY <1>2, <1>5, <1>6, <1>7, <1>8, <1>9, <1>10, <1>11, <1>12 DEF IInv

\* Every step keeps the invariant.
LEMMA IInvStep == IInv /\ [Next]_vars => IInv'
BY TypesStep, ShapeStep, PlacementStep, PhasesStep, CountsStep, OnceStep, SeesStep,
   RemainsStep, WaitsStep DEF IInv

\* The invariant holds, for graphs of any size and shape.
THEOREM Invariance == Spec => []IInv
BY IInvInit, IInvStep, PTL DEF Spec

\* The variables have their types; neither counter becomes negative.
THEOREM TypeCorrect == Spec => []TypeOK
<1>1. IInv => TypeOK
  <2> SUFFICES ASSUME IInv PROVE TypeOK
    OBVIOUS
  <2>1. Types /\ Shape /\ Placement /\ Counts /\ Remains
    BY DEF IInv
  <2>2. deps \in [Nodes -> Nat]
    BY <2>1, NoneLeft DEF Types
  <2>3. at \in [Nodes -> 1..MaxEdges + 1]
    <3>1. ASSUME NEW y \in Nodes PROVE at[y] \in 1..MaxEdges + 1
      <4>1. /\ successors[y] \in Seq(1..size) /\ Len(successors[y]) <= MaxEdges
            /\ at[y] \in 1..Len(successors[y]) + 1
        BY <2>1 DEF Types, Shape, Placement, Placed
      <4> QED BY <4>1, BoundAssumption
    <3> QED BY <2>1, <3>1 DEF Types
  <2>4. remaining \in 0..size
    <3>1. size \in Nat /\ IsFiniteSet(1..size) /\ Cardinality(1..size) = size
      BY <2>1, NodesFacts, FS_Interval
    <3>2. Unmarked \in SUBSET (1..size)
      BY DEF Unmarked
    <3>3. Cardinality(Unmarked) \in Nat /\ Cardinality(Unmarked) <= size
      BY <3>1, <3>2, FS_Subset, FS_CardinalityType
    <3> QED BY <2>1, <3>1, <3>3 DEF Remains
  <2> QED BY <2>1, <2>2, <2>3, <2>4 DEF TypeOK, Types
<1> QED BY <1>1, Invariance, PTL

\* A node is submitted once at most, however many predecessors count it down at the
\* same time, along however many edges.
THEOREM SubmittedOnceCorrect == Spec => []SubmittedOnce
<1>1. IInv => SubmittedOnce
  BY DEF IInv, Placement, Placed, SubmittedOnce
<1> QED BY <1>1, Invariance, PTL

\* A node that has been submitted has had all its edges counted down.
LEMMA SubmittedPassed ==
  ASSUME IInv, NEW e \in Edges, Submitted(Target(e))
  PROVE  Passed(e)
<1>0. Types /\ Shape /\ Counts /\ Once
  BY DEF IInv
<1>1. Target(e) \in Nodes
  BY <1>0, EdgeFacts
<1>2. deps[Target(e)] = 0
  BY <1>0, <1>1 DEF Once
<1> QED BY <1>0, <1>1, <1>2, NoneLeft

\* A node runs after its predecessors.
THEOREM AfterPredecessorsCorrect == Spec => []AfterPredecessors
<1>1. IInv => AfterPredecessors
  <2> SUFFICES ASSUME IInv, NEW e \in Edges, running[Target(e)] + done[Target(e)] > 0
               PROVE  Called(e[1])
    BY DEF AfterPredecessors
  <2>0. Types /\ Shape /\ Placement
    BY DEF IInv
  <2>1. Target(e) \in Nodes
    BY <2>0, EdgeFacts
  <2>2. Submitted(Target(e))
    BY <2>0, <2>1 DEF Types, Submitted
  <2> QED BY <2>0, <2>2, SubmittedPassed, PassedCalled
<1> QED BY <1>1, Invariance, PTL

\* And sees what they wrote.
THEOREM SeesPredecessorsCorrect == Spec => []SeesPredecessors
<1>1. IInv => SeesPredecessors
  <2> SUFFICES ASSUME IInv, NEW e \in Edges, pc[Target(e)] = "fn"
               PROVE  e[1] \in known[Target(e)]
    BY DEF SeesPredecessors
  <2>0. Types /\ Shape /\ Sees
    BY DEF IInv
  <2>1. Target(e) \in Nodes
    BY <2>0, EdgeFacts
  <2>2. running[Target(e)] = 1
    BY <2>1, Working
  <2>3. Submitted(Target(e))
    BY <2>0, <2>1, <2>2 DEF Types, Submitted
  <2> QED BY <2>0, <2>3 DEF Sees
<1> QED BY <1>1, Invariance, PTL

\* When execute() returns all nodes have run that no cycle precedes, and no others: the
\* ones that have not run wait for each other, and nodes that wait for each other do not
\* run.
THEOREM CompleteCorrect == Spec => []Complete
<1>1. IInv => Complete
  <2> SUFFICES ASSUME IInv, phase = "returned"
               PROVE  /\ \A x \in 1..size : done[x] = IF x \in Stuck THEN 0 ELSE 1
                      /\ remaining = Cardinality(Stuck)
    BY DEF Complete
  <2>0. Types /\ Shape /\ Placement /\ Phases /\ Counts /\ Once /\ Remains /\ Waits
    BY DEF IInv
  <2>a. 1..size \subseteq Nodes
    BY <2>0, NodesFacts
  <2>1. \A x \in Nodes : todo[x] = 0 /\ running[x] = 0 /\ pc[x] = "none"
    BY <2>0 DEF Phases, Placement, Placed
  <2>2. \A x \in Nodes : done[x] \in {0, 1} /\ (Submitted(x) <=> done[x] = 1)
    <3>1. ASSUME NEW x \in Nodes PROVE done[x] \in {0, 1} /\ (Submitted(x) <=> done[x] = 1)
      <4>1. todo[x] + running[x] + done[x] <= 1 /\ done[x] \in Nat
        BY <2>0 DEF Placement, Placed, Types
      <4> QED BY <2>1, <4>1 DEF Submitted
    <3> QED BY <3>1
  <2>3. Stuck \subseteq 1..size
    BY DEF Stuck
  <2>4. ASSUME NEW x \in Stuck PROVE done[x] = 0
    <3>1. PICK S \in SUBSET (1..size) :
            x \in S /\ \A y \in S : \E e \in Edges : e[1] \in S /\ Target(e) = y
      BY DEF Stuck
    <3>2. ~Submitted(x)
      BY <2>0, <3>1 DEF Waits, Fed
    <3> QED BY <2>2, <2>3, <2>a, <3>2
  <2>5. ASSUME NEW x \in 1..size, done[x] = 0 PROVE x \in Stuck
    <3> DEFINE S == {y \in 1..size : done[y] = 0}
    <3>1. ASSUME NEW y \in S PROVE \E e \in Edges : e[1] \in S /\ Target(e) = y
      <4>1. y \in Nodes /\ y \in 1..seeded /\ ~Submitted(y)
        BY <2>0, <2>2, <2>a DEF Phases
      <4>2. \A z \in Nodes : ~Submitting(z, y)
        BY <2>1 DEF Submitting
      <4>3. deps[y] # 0
        BY <2>0, <4>1, <4>2 DEF Once
      <4>4. PICK e \in Edges : Target(e) = y /\ ~Passed(e)
        BY <2>0, <4>1, <4>3, NoneLeft
      <4>5. /\ e[1] \in 1..size /\ e[1] \in Nodes
            /\ e[2] \in 1..Len(successors[e[1]]) /\ e[2] \in Nat
        BY <2>0, EdgeFacts
      <4>6. done[e[1]] = 0
        <5> SUFFICES ASSUME done[e[1]] = 1 PROVE FALSE
          BY <2>2, <4>5
        <5>0. Placed(e[1]) /\ successors[e[1]] \in Seq(1..size)
          BY <2>0, <4>5 DEF Placement, Types
        <5>1. at[e[1]] = Len(successors[e[1]]) + 1
          BY <5>0 DEF Placed
        <5>2. e[2] < at[e[1]]
          BY <4>5, <5>0, <5>1
        <5> QED BY <4>4, <5>2 DEF Passed
      <4> QED BY <4>4, <4>5, <4>6
    <3>2. x \in S /\ S \in SUBSET (1..size)
      BY <2>5
    <3> HIDE DEF S
    <3> QED BY <3>1, <3>2 DEF Stuck
  <2>6. \A x \in 1..size : done[x] = IF x \in Stuck THEN 0 ELSE 1
    BY <2>2, <2>4, <2>5, <2>a
  <2>7. Unmarked = Stuck
    BY <2>1, <2>3, <2>4, <2>5, <2>a DEF Unmarked
  <2> QED BY <2>0, <2>6, <2>7 DEF Remains
<1> QED BY <1>1, Invariance, PTL

-----------------------------------------------------------------------------
(***************************************************************************)
(* Pipelines, of any width and depth: a node of one stage is submitted     *)
(* only when every node of all earlier stages has been called.             *)
(***************************************************************************)

\* There is an edge from one node to the other.
Linked(p, x) == \E e \in Edges : e[1] = p /\ Target(e) = x

\* The stage before the one that is being built is there, after q - 1 others.
Layered(q) ==
  /\ size = Width * q + Len(cur) /\ Len(cur) <= Width
  /\ \A i \in 1..Len(cur) : cur[i] = Width * q + i
  /\ Len(prev) = IF q = 0 THEN 0 ELSE Width
  /\ \A i \in 1..Len(prev) : prev[i] = Width * (q - 1) + i
Layers == prev \in Seq(Nat) /\ cur \in Seq(Nat) /\ \E q \in Nat : Layered(q)

\* Edges lead to the next stage, and all of these are there, but for the latest node.
Wiring ==
  /\ \A e \in Edges : Stage(Target(e)) = Stage(e[1]) + 1
  /\ \A p, x \in 1..size :
       Stage(x) = Stage(p) + 1 =>
         \/ Linked(p, x)
         \/ phase = "build" /\ cur # <<>> /\ x = size
  /\ phase = "build" /\ cur # <<>> =>
       /\ deps[size] <= Len(prev)
       /\ \A i \in 1..deps[size] : Linked(prev[i], size)

\* Who is submitted comes after all the earlier stages, and sees what they wrote.
Staged ==
  \A x, y \in 1..size : Submitted(y) /\ Stage(x) < Stage(y) => Called(x) /\ x \in known[y]

PIInv == IInv /\ Layers /\ Wiring /\ Staged

\* The numbers of a stage's nodes.
LEMMA StageNumbers ==
  /\ \A x \in Nat \ {0} : /\ Stage(x) \in Nat
                          /\ Width * Stage(x) < x /\ x <= Width * Stage(x) + Width
  /\ \A q \in Nat, x \in Nat \ {0} : Width * q < x /\ x <= Width * q + Width => Stage(x) = q
  /\ \A x, y \in Nat \ {0} : x <= y => Stage(x) <= Stage(y)
<1>0. ASSUME NEW a \in Nat, NEW b \in Nat, Width * a < Width * b + Width PROVE a <= b
  <2> SUFFICES ASSUME a >= b + 1 PROVE FALSE
    OBVIOUS
  <2>1. Width * a >= Width * (b + 1)
    BY SizeAssumption
  <2>2. Width * (b + 1) = Width * b + Width
    BY SizeAssumption
  <2>3. Width * a \in Nat /\ Width * b \in Nat
    BY SizeAssumption
  <2> QED BY <1>0, <2>1, <2>2, <2>3, SizeAssumption
<1>1. ASSUME NEW x \in Nat \ {0}
      PROVE  /\ Stage(x) \in Nat
             /\ Width * Stage(x) < x /\ x <= Width * Stage(x) + Width
  <2> DEFINE d == (x - 1) \div Width
             r == (x - 1) % Width
  <2>1. d \in Int /\ x - 1 = Width * d + r /\ r \in 0..Width-1
    BY SizeAssumption
  <2> HIDE DEF d, r
  <2>2. d >= 0
    <3> SUFFICES ASSUME d <= -1 PROVE FALSE
      BY <2>1
    <3>1. Width * d <= -Width
      BY <2>1, SizeAssumption
    <3> QED BY <2>1, <3>1, SizeAssumption
  <2>3. Width * d \in Int
    BY <2>1, SizeAssumption
  <2> QED BY <2>1, <2>2, <2>3, SizeAssumption DEF Stage, d
<1>2. ASSUME NEW q \in Nat, NEW x \in Nat \ {0}, Width * q < x, x <= Width * q + Width
      PROVE  Stage(x) = q
  <2>1. PICK s \in Nat : s = Stage(x) /\ Width * s < x /\ x <= Width * s + Width
    BY <1>1
  <2>2. Width * s < Width * q + Width /\ Width * q < Width * s + Width
    <3>1. Width * s \in Nat /\ Width * q \in Nat
      BY SizeAssumption
    <3> QED BY <1>2, <2>1, <3>1, SizeAssumption
  <2>3. s <= q /\ q <= s
    BY <1>0, <2>2
  <2> QED BY <2>1, <2>3
<1>3. ASSUME NEW x \in Nat \ {0}, NEW y \in Nat \ {0}, x <= y PROVE Stage(x) <= Stage(y)
  <2>1. PICK s \in Nat : s = Stage(x) /\ Width * s < x
    BY <1>1
  <2>2. PICK t \in Nat : t = Stage(y) /\ y <= Width * t + Width
    BY <1>1
  <2>3. Width * s < Width * t + Width
    <3>1. Width * s \in Nat /\ Width * t \in Nat
      BY SizeAssumption
    <3> QED BY <1>3, <2>1, <2>2, <3>1, SizeAssumption
  <2> QED BY <1>0, <2>1, <2>2, <2>3
<1> QED BY <1>1, <1>2, <1>3

\* The stage being built, and the one before.
LEMMA LayerFacts ==
  ASSUME prev \in Seq(Nat), cur \in Seq(Nat), NEW q \in Nat, Layered(q)
  PROVE  /\ Len(cur) \in 0..Width /\ size \in Nat /\ (cur = <<>> <=> Len(cur) = 0)
         /\ size > Width * q => Stage(size) = q
         /\ Len(cur) < Width => Stage(size + 1) = q
         /\ Len(prev) \in Nat
         /\ \A i \in 1..Len(prev) : prev[i] \in 1..size /\ Stage(prev[i]) = q - 1
         /\ \A p \in 1..size : Stage(p) = q - 1 => \E i \in 1..Len(prev) : p = prev[i]
<1> DEFINE b == Width * q
<1>1. b \in Nat /\ Len(cur) \in Nat /\ Len(prev) \in Nat
  BY SizeAssumption
<1>2. Len(cur) \in 0..Width /\ size \in Nat /\ (cur = <<>> <=> Len(cur) = 0)
  BY <1>1 DEF Layered
<1>3. size > b => Stage(size) = q
  BY <1>1, <1>2, StageNumbers, SizeAssumption DEF Layered
<1>4. Len(cur) < Width => Stage(size + 1) = q
  <2> SUFFICES ASSUME Len(cur) < Width PROVE Stage(size + 1) = q
    OBVIOUS
  <2>1. size + 1 \in Nat \ {0} /\ b < size + 1 /\ size + 1 <= b + Width
    BY <1>1, <1>2, SizeAssumption DEF Layered
  <2> QED BY <2>1, StageNumbers
<1>5. CASE q = 0
  <2>1. Len(prev) = 0
    BY <1>5 DEF Layered
  <2>2. \A p \in 1..size : Stage(p) # q - 1
    BY <1>2, <1>5, StageNumbers
  <2> QED BY <1>2, <1>3, <1>4, <2>1, <2>2
<1>6. CASE q # 0
  <2>1. PICK r \in Nat : r = q - 1 /\ b = Width * r + Width /\ Width * r \in Nat
    <3>1. q - 1 \in Nat /\ q = (q - 1) + 1
      BY <1>6
    <3>2. \A r \in Nat : Width * (r + 1) = Width * r + Width /\ Width * r \in Nat
      BY SizeAssumption
    <3> QED BY <3>1, <3>2
  <2>2. Len(prev) = Width /\ \A i \in 1..Width : prev[i] = Width * r + i
    BY <1>6, <2>1 DEF Layered
  <2>3. ASSUME NEW i \in 1..Len(prev) PROVE prev[i] \in 1..size /\ Stage(prev[i]) = q - 1
    <3>1. /\ prev[i] \in Nat \ {0} /\ Width * r < prev[i] /\ prev[i] <= Width * r + Width
          /\ prev[i] <= size
      BY <1>1, <1>2, <2>1, <2>2, SizeAssumption DEF Layered
    <3> QED BY <1>2, <2>1, <3>1, StageNumbers
  <2>4. ASSUME NEW p \in 1..size, Stage(p) = q - 1
        PROVE  \E i \in 1..Len(prev) : p = prev[i]
    <3>1. p \in Nat \ {0} /\ Width * r < p /\ p <= Width * r + Width
      BY <1>2, <2>1, <2>4, StageNumbers
    <3> DEFINE i == p - Width * r
    <3>2. i \in 1..Width /\ p = Width * r + i
      BY <2>1, <3>1, SizeAssumption
    <3> QED BY <2>2, <3>2
  <2> QED BY <1>1, <1>2, <1>3, <1>4, <2>3, <2>4
<1> QED BY <1>5, <1>6

\* When the loop over prev_stage has ended no edge is missing.
LEMMA WiredLinks ==
  ASSUME IInv, Layers, Wiring, Wired, NEW p \in 1..size, NEW x \in 1..size,
         Stage(x) = Stage(p) + 1
  PROVE  Linked(p, x)
<1>1. PICK q \in Nat : Layered(q)
  BY DEF Layers
<1>2. CASE phase = "build" /\ cur # <<>> /\ x = size
  <2>1. size > Width * q
    BY <1>1, <1>2, LayerFacts, SizeAssumption DEF Layers, Layered
  <2>2. Stage(x) = q
    BY <1>1, <1>2, <2>1, LayerFacts DEF Layers
  <2>3. size \in Nat /\ Stage(p) \in Nat
    BY <1>1, LayerFacts, StageNumbers DEF Layers
  <2>4. PICK i \in 1..Len(prev) : p = prev[i]
    BY <1>1, <2>2, <2>3, LayerFacts DEF Layers
  <2>5. i \in 1..deps[size]
    BY <1>2 DEF Wired, Added
  <2> QED BY <1>2, <2>4, <2>5 DEF Wiring
<1> QED BY <1>2 DEF Wiring

\* The edge that the loop over prev_stage adds leads from one stage to the next.
LEMMA NextEdgeAdds ==
  ASSUME PIInv, NextEdge
  PROVE  \E p \in 1..size :
           /\ cur # <<>> /\ Added = deps[size] /\ deps[size] \in Nat
           /\ deps[size] + 1 \in 1..Len(prev) /\ prev[deps[size] + 1] = p
           /\ p \in Nodes /\ size \in Nodes /\ size \in 1..size
           /\ Stage(size) = Stage(p) + 1
           /\ DependsOn(size, p)
<1>0. Types /\ Shape /\ Counts /\ Layers /\ Wiring /\ phase = "build"
  BY DEF PIInv, IInv, NextEdge, DependsOn
<1>1. cur # <<>> /\ Added = deps[size] /\ deps[size] # Len(prev)
  BY DEF NextEdge, Wired, Added
<1>2. PICK q \in Nat : Layered(q)
  BY <1>0 DEF Layers
<1>3. Len(prev) \in Nat /\ size \in Nat /\ size > Width * q
  BY <1>0, <1>1, <1>2, LayerFacts, SizeAssumption DEF Layers, Layered
<1>4. size \in 1..size /\ size \in Nodes
  <2>1. Width * q \in Nat
    BY SizeAssumption
  <2>2. size \in 1..size
    BY <1>3, <2>1
  <2> QED BY <1>0, <2>2, NodesFacts
<1>5. deps[size] \in Nat
  BY <1>0, <1>4, NoneLeft
<1>6. deps[size] + 1 \in 1..Len(prev)
  BY <1>0, <1>1, <1>3, <1>5 DEF Wiring
<1>7. PICK p \in 1..size : p = prev[deps[size] + 1] /\ Stage(p) = q - 1
  BY <1>0, <1>2, <1>6, LayerFacts DEF Layers
<1>8. p \in Nodes
  BY <1>0, NodesFacts
<1>9. Stage(size) = q
  BY <1>0, <1>2, <1>3, LayerFacts DEF Layers
<1>10. Stage(size) = Stage(p) + 1
  BY <1>7, <1>9
<1>11. DependsOn(size, p)
  BY <1>1, <1>7 DEF NextEdge
<1> QED BY <1>1, <1>4, <1>5, <1>6, <1>7, <1>8, <1>10, <1>11

\* A pipeline is a graph.
LEMMA PipelineStep == PIInv /\ [PNext]_pvars => [Next]_vars
<1> SUFFICES ASSUME PIInv, [PNext]_pvars PROVE [Next]_vars
  OBVIOUS
<1>1. CASE NextEdge
  <2>1. PICK p \in 1..size : p \in Nodes /\ size \in Nodes /\ DependsOn(size, p)
    BY <1>1, NextEdgeAdds
  <2> QED BY <2>1 DEF Next
<1>2. CASE NextNode \/ NextStage \/ ExecutePipeline
  BY <1>2 DEF NextNode, NextStage, ExecutePipeline, Next
<1>3. CASE Driver \/ (\E x \in Nodes : NodeTask(x)) \/ UNCHANGED pvars
  BY <1>3 DEF Next, pvars
<1> QED BY <1>1, <1>2, <1>3 DEF PNext, Build

\* Stages are full when the next one begins.
LEMMA LayersStep == PIInv /\ [PNext]_pvars => Layers'
<1> SUFFICES ASSUME PIInv, [PNext]_pvars PROVE Layers'
  OBVIOUS
<1>0. Layers
  BY DEF PIInv
<1>1. PICK q \in Nat : Layered(q)
  BY <1>0 DEF Layers
<1>2. Len(cur) \in 0..Width /\ size \in Nat /\ Width * q \in Nat
  BY <1>0, <1>1, LayerFacts, SizeAssumption DEF Layers
<1>3. CASE NextNode
  <2>1. size' = size + 1 /\ cur' = Append(cur, size + 1) /\ prev' = prev /\ Len(cur) < Width
    BY <1>3 DEF NextNode, Node
  <2>2. /\ cur' \in Seq(Nat) /\ Len(cur') = Len(cur) + 1
        /\ cur'[Len(cur) + 1] = size + 1 /\ \A i \in 1..Len(cur) : cur'[i] = cur[i]
    BY <1>0, <1>2, <2>1 DEF Layers
  <2>3. \A i \in 1..Len(cur') : cur'[i] = Width * q + i
    BY <1>1, <1>2, <2>1, <2>2 DEF Layered
  <2>4. size' = Width * q + Len(cur') /\ Len(cur') <= Width
    BY <1>1, <1>2, <2>1, <2>2, SizeAssumption DEF Layered
  <2> QED BY <1>0, <1>1, <2>1, <2>2, <2>3, <2>4 DEF Layers, Layered
<1>4. CASE NextStage
  <2>1. /\ prev' = cur /\ cur' = <<>> /\ size' = size /\ Len(cur) = Width
        /\ Len(cur') = 0 /\ cur' \in Seq(Nat)
    BY <1>4 DEF NextStage, Swapped, vars, graph
  <2>2. q + 1 \in Nat /\ q + 1 # 0 /\ (q + 1) - 1 = q /\ Width * (q + 1) = Width * q + Width
    BY SizeAssumption
  <2>3. size' = Width * (q + 1) + Len(cur')
    BY <1>1, <1>2, <2>1, <2>2, SizeAssumption DEF Layered
  <2>4. \A i \in 1..Len(prev') : prev'[i] = Width * q + i
    BY <1>1, <2>1 DEF Layered
  <2>5. Layered(q + 1)'
    BY <2>1, <2>2, <2>3, <2>4, SizeAssumption DEF Layered
  <2> QED BY <1>0, <2>1, <2>2, <2>5 DEF Layers
<1>5. CASE size' = size /\ cur' = cur /\ prev' = prev
  BY <1>0, <1>1, <1>5 DEF Layers, Layered
<1>6. CASE NextEdge \/ ExecutePipeline \/ UNCHANGED pvars
  BY <1>5, <1>6 DEF NextEdge, DependsOn, ExecutePipeline, Execute, pvars, vars, graph
<1>7. CASE (Driver \/ \E x \in Nodes : NodeTask(x)) /\ UNCHANGED <<prev, cur>>
  BY <1>5, <1>7 DEF Driver, Seed, Run, Return, NodeTask, Start, Call, CountDown,
     SubmitSuccessor, MarkDone, Finish, graph
<1> QED BY <1>3, <1>4, <1>6, <1>7 DEF PNext, Build

\* Once execute() has begun the edges stay.
LEMMA EdgesStay ==
  ASSUME IInv, Driver \/ \E x \in Nodes : NodeTask(x)
  PROVE  /\ Edges' = Edges /\ \A e \in Edges : Target(e)' = Target(e)
         /\ size' = size /\ phase # "build" /\ phase' # "build"
<1>0. Types /\ Shape
  BY DEF IInv
<1>1. CASE Driver
  <2>1. Still
    BY <1>1, OthersStill
  <2>2. size' = size /\ phase # "build" /\ phase' # "build"
    BY <1>1 DEF Driver, Seed, Run, Return, graph
  <2> QED BY <1>0, <2>1, <2>2, StillKeeps
<1>2. ASSUME NEW x \in Nodes, Start(x) \/ Call(x) \/ MarkDone(x) \/ Finish(x)
      PROVE  /\ Edges' = Edges /\ \A e \in Edges : Target(e)' = Target(e)
             /\ size' = size /\ phase # "build" /\ phase' # "build"
  <2>1. Still
    BY <1>2, OthersStill
  <2>2. phase = "run"
    BY <1>2, Starting, Working DEF Call, MarkDone, Finish
  <2>3. phase' = phase /\ size' = size
    BY <1>2, TaskMoves
  <2> QED BY <1>0, <2>1, <2>2, <2>3, StillKeeps
<1>3. ASSUME NEW x \in Nodes, CountDown(x)
      PROVE  /\ Edges' = Edges /\ \A e \in Edges : Target(e)' = Target(e)
             /\ size' = size /\ phase # "build" /\ phase' # "build"
  <2>1. phase = "run"
    BY <1>3, Working DEF CountDown
  <2> QED BY <1>3, <2>1, TaskMoves, CountDownPasses
<1>4. ASSUME NEW x \in Nodes, SubmitSuccessor(x)
      PROVE  /\ Edges' = Edges /\ \A e \in Edges : Target(e)' = Target(e)
             /\ size' = size /\ phase # "build" /\ phase' # "build"
  <2>1. phase = "run" /\ phase' = phase /\ size' = size
    BY <1>4, Working DEF SubmitSuccessor, graph
  <2> QED BY <1>4, <2>1, SubmitSuccessorPasses
<1> QED BY <1>1, <1>2, <1>3, <1>4 DEF NodeTask

\* Edges lead to the next stage only, and none is forgotten.
LEMMA WiringStep == PIInv /\ [PNext]_pvars => Wiring'
<1> SUFFICES ASSUME PIInv, [PNext]_pvars PROVE Wiring'
  OBVIOUS
<1>0. IInv /\ Types /\ Shape /\ Counts /\ Layers /\ Wiring
  BY DEF PIInv, IInv
<1>1. PICK q \in Nat : Layered(q)
  BY <1>0 DEF Layers
<1>2. size \in Nat /\ Len(prev) \in Nat
  BY <1>0, <1>1, LayerFacts DEF Layers
<1>3. CASE NextNode
  <2>1. /\ Node /\ Wired /\ Len(cur) < Width /\ prev' = prev
        /\ cur' = Append(cur, size + 1) /\ size' = size + 1 /\ size < MaxNodes
        /\ phase = "build" /\ phase' = "build" /\ deps' = deps
    BY <1>3 DEF NextNode, Node
  <2>2. Edges' = Edges /\ \A e \in Edges : Target(e)' = Target(e)
    BY <1>0, <2>1, OthersStill, StillKeeps
  <2>3. cur' # <<>>
    BY <1>0, <2>1 DEF Layers
  <2>4. ASSUME NEW p \in 1..size', NEW x \in 1..size', Stage(x) = Stage(p) + 1, x # size'
        PROVE  Linked(p, x)'
    <3>1. x \in 1..size
      BY <1>2, <2>1, <2>4
    <3>2. p # size'
      <4> SUFFICES ASSUME p = size' PROVE FALSE
        OBVIOUS
      <4>1. Stage(x) <= Stage(p) /\ Stage(x) \in Nat /\ Stage(p) \in Nat
        BY <1>2, <2>1, <3>1, StageNumbers
      <4> QED BY <2>4, <4>1
    <3>3. p \in 1..size
      BY <1>2, <2>1, <3>2
    <3>4. Linked(p, x)
      BY <1>0, <2>1, <2>4, <3>1, <3>3, WiredLinks
    <3> QED BY <2>2, <3>4 DEF Linked
  <2>5. deps'[size'] = 0
    <3>1. size + 1 \in Nodes
      BY <1>2, <2>1, BoundAssumption DEF Nodes
    <3>2. \A e \in Edges : Target(e) # size + 1
      BY <1>0, <1>2, EdgeFacts
    <3>3. deps[size + 1] = 0
      BY <1>0, <3>1, <3>2, NoneLeft
    <3> QED BY <2>1, <3>3
  <2>6. \A e \in Edges' : (Stage(Target(e)) = Stage(e[1]) + 1)'
    BY <1>0, <2>2 DEF Wiring, Stage
  <2>7. deps'[size'] <= Len(prev') /\ \A i \in 1..deps'[size'] : FALSE
    BY <1>2, <2>1, <2>5
  <2>8. \A p, x \in 1..size' : Stage(x) = Stage(p) + 1 => x = size' \/ Linked(p, x)'
    BY <2>4
  <2> QED BY <2>1, <2>3, <2>6, <2>7, <2>8 DEF Wiring, Stage
<1>4. CASE NextEdge
  <2>1. PICK p \in 1..size :
           /\ cur # <<>> /\ deps[size] \in Nat
           /\ deps[size] + 1 \in 1..Len(prev) /\ prev[deps[size] + 1] = p
           /\ p \in Nodes /\ size \in Nodes /\ Stage(size) = Stage(p) + 1
           /\ DependsOn(size, p)
    BY <1>4, NextEdgeAdds DEF PIInv
  <2>2. PICK new :
           /\ Edges' = Edges \cup {new}
           /\ \A e \in Edges : Target(e)' = Target(e)
           /\ new[1] = p /\ Target(new)' = size
    BY <1>0, <2>1, DependsOnAdds
  <2>3. /\ size' = size /\ cur' = cur /\ prev' = prev /\ phase = "build" /\ phase' = "build"
        /\ deps'[size] = deps[size] + 1
    BY <1>0, <1>4, <2>1 DEF NextEdge, DependsOn, Counted, Types
  <2>4. \A y, x : Linked(y, x) => Linked(y, x)'
    BY <2>2 DEF Linked
  <2>5. Linked(p, size)'
    <3>1. PICK e \in Edges' : e[1] = p /\ Target(e)' = size
      BY <2>2
    <3>2. \A x : x = size => Linked(p, x)'
      BY <3>1 DEF Linked
    <3> QED BY <2>3, <3>2 DEF Linked
  <2>6. \A e \in Edges' : Stage(Target(e))' = Stage(e[1]) + 1
    BY <1>0, <2>1, <2>2 DEF Wiring, Stage
  <2>7. ASSUME NEW i \in 1..deps'[size] PROVE Linked(prev[i], size)'
    <3>1. CASE i \in 1..deps[size]
      <4>1. Linked(prev[i], size)
        BY <1>0, <2>1, <2>3, <3>1 DEF Wiring
      <4> QED BY <2>3, <2>4, <4>1 DEF Linked
    <3>2. CASE i = deps[size] + 1
      BY <2>1, <2>3, <2>5, <3>2 DEF Linked
    <3> QED BY <2>1, <2>3, <2>7, <3>1, <3>2
  <2>8. deps'[size'] <= Len(prev') /\ \A i \in 1..deps'[size'] : Linked(prev[i], size)'
    BY <1>2, <2>1, <2>3, <2>7
  <2>9. \A y, x \in 1..size' :
          Stage(x) = Stage(y) + 1 => Linked(y, x)' \/ (phase' = "build" /\ cur' # <<>> /\ x = size')
    BY <1>0, <2>3, <2>4 DEF Wiring
  <2> QED BY <2>3, <2>6, <2>8, <2>9 DEF Wiring, Stage, Linked
<1>5. ASSUME Wired, Edges' = Edges, \A e \in Edges : Target(e)' = Target(e), size' = size,
             cur' = <<>> \/ phase' # "build"
      PROVE  Wiring'
  <2>1. ASSUME NEW p \in 1..size', NEW x \in 1..size', Stage(x) = Stage(p) + 1
        PROVE  Linked(p, x)'
    <3>1. Linked(p, x)
      BY <1>0, <1>5, <2>1, WiredLinks
    <3> QED BY <1>5, <3>1 DEF Linked
  <2>2. \A e \in Edges' : Stage(Target(e))' = Stage(e[1]) + 1
    BY <1>0, <1>5 DEF Wiring, Stage
  <2> QED BY <1>5, <2>1, <2>2 DEF Wiring, Stage
<1>6. CASE NextStage
  <2>1. Wired /\ cur' = <<>> /\ Edges' = Edges /\ size' = size
        /\ \A e \in Edges : Target(e)' = Target(e)
    BY <1>6 DEF NextStage, vars, graph, Edges, Target
  <2> QED BY <1>5, <2>1
<1>7. CASE ExecutePipeline
  <2>1. Wired /\ phase' # "build" /\ Edges' = Edges /\ size' = size
        /\ \A e \in Edges : Target(e)' = Target(e)
    BY <1>7 DEF ExecutePipeline, Execute, graph, Edges, Target
  <2> QED BY <1>5, <2>1
<1>8. ASSUME Edges' = Edges, \A e \in Edges : Target(e)' = Target(e), size' = size,
             phase # "build", phase' # "build"
      PROVE  Wiring'
  <2>1. \A p, x : Linked(p, x) => Linked(p, x)'
    BY <1>8 DEF Linked
  <2>2. \A e \in Edges' : Stage(Target(e))' = Stage(e[1]) + 1
    BY <1>0, <1>8 DEF Wiring, Stage
  <2>3. \A p, x \in 1..size' : Stage(x) = Stage(p) + 1 => Linked(p, x)'
    BY <1>0, <1>8, <2>1 DEF Wiring
  <2> QED BY <1>8, <2>2, <2>3 DEF Wiring, Stage
<1>9. CASE (Driver \/ \E x \in Nodes : NodeTask(x)) /\ UNCHANGED <<prev, cur>>
  BY <1>0, <1>8, <1>9, EdgesStay
<1>10. CASE UNCHANGED pvars
  BY <1>0, <1>10 DEF pvars, vars, graph, Wiring, Edges, Target, Linked, Stage
<1> QED BY <1>3, <1>4, <1>6, <1>7, <1>9, <1>10 DEF PNext, Build

\* What has been called stays so, and what a submitted node sees it goes on seeing.
LEMMA CalledStays ==
  ASSUME IInv, Driver \/ \E x \in Nodes : NodeTask(x)
  PROVE  \A y \in Nodes : /\ Called(y) => Called(y)'
                          /\ Submitted(y) => known[y] \subseteq known'[y]
<1>0. Types
  BY DEF IInv
<1>1. CASE Driver
  <2>1. pc' = pc /\ known' = known /\ done' = done
    BY <1>1 DEF Driver, Seed, Run, Return, memory, Sched!Submit, Sched!Run, Sched!Return, sched
  <2> QED BY <2>1 DEF Called
<1>2. ASSUME NEW x \in Nodes, NodeTask(x), NEW y \in Nodes
      PROVE  /\ Called(y) => Called(y)'
             /\ Submitted(y) => known[y] \subseteq known'[y]
  <2>1. CASE y # x
    <3>1. CASE SubmitSuccessor(x)
      <4>1. pc'[y] = pc[y] /\ done' = done
        BY <2>1, <3>1, SuccessorSubmitted
      <4>2. Submitted(y) => known'[y] = known[y]
        BY <3>1, SuccessorSubmitted
      <4> QED BY <4>1, <4>2 DEF Called
    <3>2. CASE Start(x) \/ Call(x) \/ CountDown(x) \/ MarkDone(x) \/ Finish(x)
      <4>1. Same(y)
        BY <2>1, <3>2, TaskMoves
      <4>2. known'[y] = known[y]
        BY <1>0, <2>1, <3>2 DEF Start, Call, CountDown, MarkDone, Finish, memory, Types
      <4> QED BY <4>1, <4>2 DEF Same, Called
    <3> QED BY <1>2, <3>1, <3>2 DEF NodeTask
  <2>2. CASE y = x
    <3>1. CASE SubmitSuccessor(x)
      <4>1. pc'[x] = "loop" /\ Succ(x) # x /\ known'[x] = known[x]
        BY <3>1, SuccessorSubmitted
      <4> QED BY <2>2, <4>1 DEF Called
    <3>2. CASE Start(x)
      <4>1. ~Called(x) /\ known' = known
        BY <3>2, Starting DEF Called, Start, memory
      <4> QED BY <2>2, <4>1
    <3>3. CASE Call(x)
      <4>1. pc'[x] = "loop" /\ known[x] \subseteq known'[x]
        BY <1>0, <3>3 DEF Call, Goto, Types
      <4> QED BY <2>2, <4>1 DEF Called
    <3>4. CASE CountDown(x)
      <4>1. pc'[x] \in {"loop", "submit"} /\ known[x] \subseteq known'[x]
        BY <1>0, <3>4 DEF CountDown, Goto, Types
      <4> QED BY <2>2, <4>1 DEF Called
    <3>5. CASE MarkDone(x)
      <4>1. pc'[x] = "end" /\ known' = known
        BY <1>0, <3>5 DEF MarkDone, Goto, Types, memory
      <4> QED BY <2>2, <4>1 DEF Called
    <3>6. CASE Finish(x)
      <4>1. done'[x] = done[x] + 1 /\ known' = known
        BY <1>0, <3>6 DEF Finish, Sched!Finish, Types, memory
      <4>2. done'[x] > 0
        BY <1>0, <4>1 DEF Types
      <4> QED BY <2>2, <4>1, <4>2 DEF Called
    <3> QED BY <1>2, <3>1, <3>2, <3>3, <3>4, <3>5, <3>6 DEF NodeTask
  <2> QED BY <2>1, <2>2
<1> QED BY <1>1, <1>2

\* A node without predecessors is of the first stage.
LEMMA RootStage ==
  ASSUME PIInv, phase # "build", NEW y \in 1..size, Stage(y) # 0
  PROVE  \E p \in 1..size : Linked(p, y)
<1>0. Types /\ Wiring
  BY DEF PIInv, IInv
<1>1. PICK s \in Nat : Stage(y) = s + 1 /\ y \in Nat \ {0} /\ size \in Nat
                       /\ Width * (s + 1) < y /\ y <= Width * (s + 1) + Width
  <2>1. y \in Nat \ {0} /\ size \in Nat
    BY <1>0, NodesFacts
  <2>2. PICK t \in Nat : Stage(y) = t /\ Width * t < y /\ y <= Width * t + Width
    BY <2>1, StageNumbers
  <2>3. t - 1 \in Nat /\ t = (t - 1) + 1
    BY <2>2
  <2> QED BY <2>1, <2>2, <2>3
<1>2. Width * (s + 1) = Width * s + Width /\ Width * s \in Nat
  BY SizeAssumption
<1>3. y - Width \in 1..size /\ y - Width \in Nat \ {0}
      /\ Width * s < y - Width /\ y - Width <= Width * s + Width
  BY <1>1, <1>2, SizeAssumption
<1>4. Stage(y - Width) = s
  BY <1>3, StageNumbers
<1>5. Linked(y - Width, y)
  BY <1>0, <1>1, <1>3, <1>4 DEF Wiring
<1> QED BY <1>3, <1>5

\* A node is submitted after all earlier stages: by its last predecessor, which came
\* itself after the stages before its own.
LEMMA StagedStep == PIInv /\ [PNext]_pvars => Staged'
<1> SUFFICES ASSUME PIInv, [PNext]_pvars PROVE Staged'
  OBVIOUS
<1>0. /\ IInv /\ Types /\ Shape /\ Placement /\ Phases /\ Counts /\ Once /\ Sees
      /\ Layers /\ Wiring /\ Staged
  BY DEF PIInv, IInv
<1>a. 1..size \subseteq Nodes /\ 1..size' \subseteq Nodes
  <2>1. Types'
    BY <1>0, PipelineStep, TypesStep
  <2>2. size' \in 0..MaxNodes
    BY <2>1 DEF Types
  <2> QED BY <1>0, <2>2, NodesFacts, BoundAssumption DEF Nodes
<1>1. CASE Build
  <2>1. phase = "build" /\ UNCHANGED sched
    BY <1>1 DEF Build, NextNode, NextEdge, NextStage, ExecutePipeline, Node, DependsOn,
       Execute, vars
  <2>2. \A y \in Nodes : ~(Submitted(y)')
    BY <1>0, <2>1, Building DEF Submitted, sched
  <2> QED BY <1>a, <2>2 DEF Staged
<1>2. ASSUME Driver \/ \E x \in Nodes : NodeTask(x),
             \A y \in 1..size : Submitted(y)' /\ ~Submitted(y) =>
               \A x \in 1..size : Stage(x) < Stage(y) => Called(x)' /\ x \in known'[y]
      PROVE  Staged'
  <2>1. size' = size
    BY <1>0, <1>2, EdgesStay
  <2>2. ASSUME NEW x \in 1..size, NEW y \in 1..size, Submitted(y)', Stage(x) < Stage(y)
        PROVE  Called(x)' /\ x \in known'[y]
    <3>1. CASE Submitted(y)
      BY <1>0, <1>2, <1>a, <2>2, <3>1, CalledStays DEF Staged
    <3>2. CASE ~Submitted(y)
      BY <1>2, <2>2, <3>2
    <3> QED BY <3>1, <3>2
  <2> QED BY <2>1, <2>2 DEF Staged, Stage
<1>3. CASE Seed
  <2>1. phase = "seed"
    BY <1>3 DEF Seed
  <2>2. ASSUME NEW y \in 1..size, Submitted(y)', ~Submitted(y) PROVE Stage(y) = 0
    <3>1. y \in Nodes /\ deps[y] = 0
      <4>1. y = seeded + 1
        BY <1>0, <1>3, <1>a, <2>2, SeedSubmits DEF Same, Submitted
      <4>2. deps[seeded + 1] = 0
        BY <1>0, <1>3, <2>2, <4>1, SeedSubmits DEF Submitted
      <4> QED BY <1>a, <4>1, <4>2
    <3>2. \A e \in Edges : Target(e) # y
      BY <1>0, <2>1, <3>1, NoneLeft, Seeding
    <3> QED BY <2>1, <3>2, RootStage DEF Linked
  <2>3. \A x \in 1..size : Stage(x) \in Nat
    BY <1>0, NodesFacts, StageNumbers
  <2>4. ASSUME NEW y \in 1..size, Submitted(y)', ~Submitted(y), NEW x \in 1..size,
               Stage(x) < Stage(y)
        PROVE  FALSE
    BY <2>2, <2>3, <2>4
  <2> QED BY <1>2, <1>3, <2>4 DEF Driver
<1>4. CASE Run \/ Return
  <2>1. \A y \in Nodes : Submitted(y)' <=> Submitted(y)
    BY <1>4 DEF Run, Return, Sched!Run, Sched!Return, Submitted
  <2> QED BY <1>2, <1>4, <1>a, <2>1 DEF Driver
<1>5. ASSUME NEW x \in Nodes, Start(x) \/ Call(x) \/ CountDown(x) \/ MarkDone(x) \/ Finish(x)
      PROVE  Staged'
  <2>1. \A y \in Nodes : Submitted(y)' <=> Submitted(y)
    BY <1>0, <1>5, TaskKeepsSubmitted
  <2>2. NodeTask(x)
    BY <1>5 DEF NodeTask
  <2> QED BY <1>2, <1>a, <2>1, <2>2
<1>6. ASSUME NEW z \in Nodes, SubmitSuccessor(z) PROVE Staged'
  <2>1. PICK s \in Nodes :
          /\ s = Succ(z) /\ s \in 1..size /\ Submitting(z, s) /\ deps[s] = 0
          /\ known'[s] = known[z]
          /\ \A y \in Nodes : y # s => (Submitted(y)' <=> Submitted(y))
    BY <1>0, <1>6, SuccessorSubmitted DEF Submitted
  <2>2. NodeTask(z)
    BY <1>6 DEF NodeTask
  <2>3. PICK a \in Edges : a[1] = z /\ Target(a) = s
    <3>1. at[z] \in 1..Len(successors[z])
      <4>1. Placed(z) /\ pc[z] = "submit" /\ successors[z] \in Seq(1..size)
        BY <1>0, <1>6 DEF Placement, SubmitSuccessor, Types
      <4> QED BY <4>1 DEF Placed
    <3> QED BY <1>0, <2>1, <3>1, EdgeFacts DEF Succ
  <2>4. z \in 1..size /\ Stage(s) = Stage(z) + 1 /\ Submitted(z)
    <3>1. running[z] = 1
      BY <1>0, <1>6, Working DEF SubmitSuccessor
    <3>2. Submitted(z)
      BY <1>0, <3>1 DEF Submitted, Types
    <3> QED BY <1>0, <2>3, <3>2, EdgeFacts DEF Wiring
  <2>5. ASSUME NEW x \in 1..size, Stage(x) < Stage(s) PROVE Called(x)' /\ x \in known'[s]
    <3>0. Stage(x) \in Nat /\ Stage(z) \in Nat
      BY <1>0, <2>4, NodesFacts, StageNumbers
    <3>1. CASE Stage(x) = Stage(z)
      <4>1. phase = "run"
        BY <1>0, <1>6, Working DEF SubmitSuccessor
      <4>2. PICK e \in Edges : e[1] = x /\ Target(e) = s
        BY <1>0, <2>1, <2>4, <3>1, <4>1 DEF Wiring, Linked
      <4>3. Passed(e)
        BY <1>0, <2>1, <4>2, NoneLeft
      <4>4. Called(x)
        BY <1>0, <4>2, <4>3, PassedCalled
      <4>5. x \in known[z]
        BY <1>0, <2>1, <4>2 DEF Sees
      <4> QED BY <1>0, <1>a, <2>1, <2>2, <4>4, <4>5, CalledStays
    <3>2. CASE Stage(x) # Stage(z)
      <4>1. Stage(x) < Stage(z)
        BY <2>4, <2>5, <3>0, <3>2
      <4>2. Called(x) /\ x \in known[z]
        BY <1>0, <2>4, <4>1 DEF Staged
      <4> QED BY <1>0, <1>a, <2>1, <2>2, <4>2, CalledStays
    <3> QED BY <3>1, <3>2
  <2> QED BY <1>2, <1>a, <2>1, <2>2, <2>5
<1>7. CASE UNCHANGED pvars
  BY <1>0, <1>7 DEF pvars, vars, graph, memory, sched, Staged, Submitted, Stage, Called
<1> QED BY <1>1, <1>3, <1>4, <1>5, <1>6, <1>7 DEF PNext, Driver, NodeTask

\* At first there is nothing.
LEMMA PIInvInit == PInit => PIInv
<1> SUFFICES ASSUME PInit PROVE PIInv
  OBVIOUS
<1>1. IInv /\ size = 0 /\ prev = <<>> /\ cur = <<>>
  BY IInvInit DEF PInit, Init
<1>2. Layers
  <2>1. prev \in Seq(Nat) /\ cur \in Seq(Nat) /\ Len(prev) = 0 /\ Len(cur) = 0
    BY <1>1
  <2>2. Layered(0)
    BY <1>1, <2>1, SizeAssumption DEF Layered
  <2> QED BY <2>1, <2>2 DEF Layers
<1>3. 1..size = {}
  BY <1>1
<1>4. Edges = {}
  BY <1>1, <1>3, EdgeFacts DEF IInv
<1> QED BY <1>1, <1>2, <1>3, <1>4 DEF PIInv, Wiring, Staged

LEMMA PipelineInvariance == PSpec => []PIInv
<1>1. PIInv /\ [PNext]_pvars => PIInv'
  BY PipelineStep, IInvStep, LayersStep, WiringStep, StagedStep DEF PIInv
<1> QED BY PIInvInit, <1>1, PTL DEF PSpec

\* The pipeline of the scaling benchmark, of any width and depth: a node runs after
\* all earlier stages and sees what they wrote, along the edges from the stage before
\* its own alone.
THEOREM StagesInOrderCorrect == PSpec => []StagesInOrder
<1>1. PIInv => StagesInOrder
  <2> SUFFICES ASSUME PIInv, NEW x \in 1..size, NEW y \in 1..size,
                      Stage(x) < Stage(y), pc[y] = "fn"
               PROVE  Called(x) /\ x \in known[y]
    BY DEF StagesInOrder
  <2>0. IInv /\ Types /\ Staged
    BY DEF PIInv, IInv
  <2>1. y \in Nodes
    BY <2>0, NodesFacts
  <2>2. running[y] = 1
    BY <2>0, <2>1, Working
  <2>3. Submitted(y)
    BY <2>0, <2>1, <2>2 DEF Submitted, Types
  <2> QED BY <2>0, <2>3 DEF Staged
<1> QED BY <1>1, PipelineInvariance, PTL

\* The nodes that wait in the scheduler are of one stage.
THEOREM OneStageWaitsCorrect == PSpec => []OneStageWaits
<1>1. PIInv => OneStageWaits
  <2> SUFFICES ASSUME PIInv, NEW x \in 1..size, NEW y \in 1..size,
                      todo[x] > 0, todo[y] > 0
               PROVE  Stage(x) = Stage(y)
    BY DEF OneStageWaits
  <2>0. IInv /\ Types /\ Placement /\ Staged
    BY DEF PIInv, IInv
  <2>1. ASSUME NEW u \in 1..size, NEW v \in 1..size, todo[u] > 0, todo[v] > 0
        PROVE  ~(Stage(u) < Stage(v))
    <3>1. u \in Nodes /\ v \in Nodes
      BY <2>0, NodesFacts
    <3>2. Submitted(v)
      BY <2>0, <2>1, <3>1 DEF Submitted, Types
    <3>3. ~Called(u)
      <4>1. /\ Placed(u) /\ todo[u] \in Nat /\ running[u] \in Nat /\ done[u] \in Nat
        BY <2>0, <3>1 DEF Placement, Types
      <4>2. running[u] = 0 /\ done[u] = 0
        BY <2>1, <4>1 DEF Placed
      <4> QED BY <4>1, <4>2 DEF Placed, Called
    <3> QED BY <2>0, <3>2, <3>3 DEF Staged
  <2>2. Stage(x) \in Nat /\ Stage(y) \in Nat
    BY <2>0, NodesFacts, StageNumbers
  <2> QED BY <2>1, <2>2
<1> QED BY <1>1, PipelineInvariance, PTL

\* Every behaviour of the pipeline is one of the task graph, so that all that is shown
\* of graphs holds for it.
THEOREM PipelineIsGraph == PSpec => Spec
<1>1. PInit => Init
  BY DEF PInit
<1> QED BY <1>1, PipelineStep, PipelineInvariance, PTL DEF PSpec, Spec

\* The least number of a set.
LEMMA LeastNumber ==
  ASSUME NEW S \in SUBSET Nat, S # {}
  PROVE  \E x \in S : \A y \in S : x <= y
<1> DEFINE R == OpToRel(<, Nat)
<1>1. IsWellFoundedOn(R, Nat)
  BY NatLessThanWellFounded
<1>2. \A x, y \in Nat : y < x => <<y, x>> \in R
  BY DEF OpToRel
<1> HIDE DEF R
<1>3. PICK x \in S : \A y \in S : ~(<<y, x>> \in R)
  BY <1>1, WFMin
<1>4. ASSUME NEW y \in S PROVE x <= y
  <2>1. x \in Nat /\ y \in Nat /\ ~(y < x)
    BY <1>2, <1>3
  <2> QED BY <2>1
<1> QED BY <1>4

\* Edges lead from smaller numbers to larger ones, so that no nodes wait for each other.
LEMMA NoneStuck == PIInv => Stuck = {}
<1> SUFFICES ASSUME PIInv, NEW S \in SUBSET (1..size), S # {},
                    \A x \in S : \E e \in Edges : e[1] \in S /\ Target(e) = x
             PROVE  FALSE
  BY DEF Stuck
<1>1. Types /\ Wiring /\ size \in Nat
  BY NodesFacts DEF PIInv, IInv
<1>2. S \in SUBSET Nat /\ S \subseteq Nat \ {0}
  BY <1>1
<1>3. PICK x \in S : \A y \in S : x <= y
  BY <1>2, LeastNumber
<1>4. PICK e \in Edges : e[1] \in S /\ Target(e) = x
  OBVIOUS
<1>5. Stage(x) = Stage(e[1]) + 1
  BY <1>1, <1>4 DEF Wiring
<1>6. x \in Nat \ {0} /\ e[1] \in Nat \ {0} /\ x <= e[1]
  BY <1>2, <1>3, <1>4
<1>7. Stage(x) <= Stage(e[1]) /\ Stage(x) \in Nat /\ Stage(e[1]) \in Nat
  BY <1>6, StageNumbers
<1> QED BY <1>5, <1>7

\* All nodes of a pipeline have run when execute() returns, as all nodes of a graph
\* have that no cycle precedes, and the assertion at its end holds.
THEOREM AllRunCorrect == PSpec => []AllRun
<1>1. PIInv /\ Complete => AllRun
  <2> SUFFICES ASSUME PIInv, Complete, phase = "returned"
               PROVE  remaining = 0 /\ \A x \in 1..size : done[x] = 1
    BY DEF AllRun
  <2>1. /\ \A x \in 1..size : done[x] = IF x \in Stuck THEN 0 ELSE 1
        /\ remaining = Cardinality(Stuck)
    BY DEF Complete
  <2>2. Stuck = {} /\ Cardinality(Stuck) = 0
    BY NoneStuck, FS_EmptySet
  <2> QED BY <2>1, <2>2
<1> QED BY <1>1, PipelineInvariance, PipelineIsGraph, CompleteCorrect, PTL
=============================================================================
