------------------------- MODULE StealSweep_proofs -------------------------
(***************************************************************************)
(* Proofs about a sweep, for any number of workers.                        *)
(***************************************************************************)
EXTENDS StealSweep, CommonFacts, FiniteSetTheorems, TLAPS

\* In a full sweep every worker comes up, except the one just before the start.
LEMMA SweepReaches ==
  ASSUME NEW m \in Nat, m >= 2, NEW i \in 0..m-1, NEW s \in 0..m-1,
         NEW v \in Others(m, i), v # s - 1, v # s + m - 1
  PROVE  \E a \in 0..m-2 : Victim(m, i, s, a) = v
<1>0. v \in 0..m-1 /\ v # i
  BY DEF Others
<1>1. CASE v >= s
  <2>1. v - s \in 0..m-2 /\ s + (v - s) = v
    BY <1>0, <1>1
  <2>2. v % m = v
    BY <1>0, ModSmall
  <2> QED BY <1>0, <2>1, <2>2 DEF Victim
<1>2. CASE v < s
  <2>1. v - s + m \in 0..m-2 /\ s + (v - s + m) = v + m
    BY <1>0, <1>2
  <2>2. (v + m) % m = v
    BY <1>0, ModSmall
  <2> QED BY <1>0, <2>1, <2>2 DEF Victim
<1> QED BY <1>0, <1>1, <1>2

-----------------------------------------------------------------------------
\* What a sweep has visited is what its attempts so far have chosen.
IInv ==
  /\ n \in Nat /\ n >= 2
  /\ id \in 0..n-1
  /\ start \in Starts(n, id)
  /\ attempt \in 0..n-1
  /\ visited = {Victim(n, id, start, a) : a \in 0..attempt-1}

\* The invariant holds throughout a sweep.
THEOREM SweepInvariance == Spec => []IInv
<1>1. Init => IInv
  BY MaxWorkersAssumption DEF Init, IInv
<1>2. IInv /\ [Next]_vars => IInv'
  <2> SUFFICES ASSUME IInv, [Next]_vars PROVE IInv'
    OBVIOUS
  <2>1. CASE Attempt
    <3>1. attempt' \in 0..n-1 /\ 0..attempt'-1 = (0..attempt-1) \cup {attempt}
      BY <2>1 DEF Attempt, IInv
    <3> QED BY <2>1, <3>1 DEF Attempt, IInv
  <2>2. CASE UNCHANGED vars
    BY <2>2 DEF vars, IInv
  <2> QED BY <2>1, <2>2 DEF Next
<1> QED BY <1>1, <1>2, PTL DEF Spec

\* However many workers there are, no thief ever calls steal on its own deque.
THEOREM NeverSelfCorrect == Spec => []NeverSelf
<1>1. IInv => NeverSelf
  BY VictimOther, StartIsWorker DEF IInv, NeverSelf
<1> QED BY <1>1, SweepInvariance, PTL

\* However many workers there are, each of the others may come first.
THEOREM AnyoneFirstCorrect == Spec => []AnyoneFirst
<1>1. IInv => AnyoneFirst
  <2> SUFFICES ASSUME IInv PROVE AnyoneFirst
    OBVIOUS
  <2>1. Starts(n, id) = Others(n, id)
    <3>1. Starts(n, id) \subseteq Others(n, id)
      BY DEF IInv, Starts, Others
    <3>2. ASSUME NEW v \in Others(n, id) PROVE v \in Starts(n, id)
      <4>1. CASE v < id
        BY <4>1 DEF IInv, Starts, Others
      <4>2. CASE v > id
        <5>1. v - 1 \in 0..n-2 /\ v - 1 >= id /\ v = (v - 1) + 1
          BY <4>2 DEF IInv, Others
        <5> QED BY <5>1 DEF Starts
      <4> QED BY <4>1, <4>2 DEF IInv, Others
    <3> QED BY <3>1, <3>2
  <2>2. \A s \in Others(n, id) : Victim(n, id, s, 0) = s
    <3> SUFFICES ASSUME NEW s \in Others(n, id) PROVE Victim(n, id, s, 0) = s
      OBVIOUS
    <3>1. s + 0 = s /\ s % n = s /\ s # id
      BY ModSmall DEF IInv, Others
    <3> QED BY <3>1 DEF Victim
  <2> QED BY <2>1, <2>2 DEF AnyoneFirst
<1> QED BY <1>1, SweepInvariance, PTL

\* However many workers there are, a sweep that found nothing has tried all of
\* them but one at most.
THEOREM OverlooksOneAtMostCorrect == Spec => []OverlooksOneAtMost
<1>1. IInv => OverlooksOneAtMost
  <2> SUFFICES ASSUME IInv, attempt = n - 1
               PROVE  Cardinality(Others(n, id) \ visited) <= 1
    BY DEF OverlooksOneAtMost
  <2>1. start \in 0..n-1
    BY StartIsWorker DEF IInv
  <2> DEFINE missed == Others(n, id) \ visited
             last == IF start = 0 THEN n - 1 ELSE start - 1
  <2>2. \A v \in missed : v = last
    <3> SUFFICES ASSUME NEW v \in missed, v # last PROVE FALSE
      OBVIOUS
    <3>1. v # start - 1 /\ v # start + n - 1
      BY <2>1 DEF IInv, Others
    <3>2. \E a \in 0..n-2 : Victim(n, id, start, a) = v
      BY <2>1, <3>1, SweepReaches DEF IInv
    <3> QED BY <3>2 DEF IInv
  <2>3. missed \subseteq {last}
    BY <2>2
  <2>4. IsFiniteSet({last}) /\ Cardinality({last}) = 1
    BY FS_Singleton
  <2> QED BY <2>3, <2>4, FS_Subset
<1> QED BY <1>1, SweepInvariance, PTL
=============================================================================
