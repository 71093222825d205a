---------------------------- MODULE CommonFacts ----------------------------
(***************************************************************************)
(* What several proofs rest on: remainders, as the slots of the ring and   *)
(* of the deque (index & mask_) and the victims of a sweep (% n) use them, *)
(* the choice of one victim, for any number of workers, and sequences      *)
(* without repetitions, as queues of tasks are.                            *)
(***************************************************************************)
EXTENDS Victims, Integers, Sequences, TLAPS

\* Index i of a ring of c slots falls into one of them.
LEMMA ModRange ==
  ASSUME NEW c \in Nat \ {0}, NEW i \in Int
  PROVE  i % c \in 0 .. c-1 /\ (i % c) + 1 \in 1 .. c
OBVIOUS

\* Division and remainder.
LEMMA DivMod ==
  ASSUME NEW c \in Nat \ {0}, NEW i \in Int
  PROVE  i \div c \in Int /\ i = c * (i \div c) + (i % c)
OBVIOUS

\* Two indices less than a ring's length apart fall into different slots.
LEMMA ModDistinct ==
  ASSUME NEW c \in Nat \ {0}, NEW i \in Int, NEW j \in Int, i < j, j - i < c
  PROVE  i % c # j % c /\ (i % c) + 1 # (j % c) + 1
<1> DEFINE p == i \div c
           q == j \div c
<1>1. p \in Int /\ q \in Int /\ i = c * p + (i % c) /\ j = c * q + (j % c)
  BY DivMod
<1>2. i % c \in 0 .. c-1 /\ j % c \in 0 .. c-1
  BY ModRange
<1> SUFFICES ASSUME i % c = j % c PROVE FALSE
  BY <1>2
<1> HIDE DEF p, q
<1>3. j - i = c * (q - p)
  BY <1>1, <1>2
<1>4. q - p > 0
  <2> SUFFICES ASSUME q - p <= 0 PROVE FALSE
    BY <1>1
  <2>1. c * (q - p) <= 0
    BY <1>1
  <2> QED BY <1>3, <2>1
<1>5. c * (q - p) >= c
  <2>1. \A n \in Nat \ {0} : c * n >= c
    OBVIOUS
  <2> QED BY <2>1, <1>4, <1>1
<1> QED BY <1>3, <1>5

\* A number less than c is its own remainder, and so it is one round later.
LEMMA ModSmall ==
  ASSUME NEW c \in Nat \ {0}, NEW x \in 0 .. c-1
  PROVE  x % c = x /\ (x + c) % c = x
OBVIOUS

\* An index one round later falls into the same slot.
LEMMA ModRound ==
  ASSUME NEW c \in Nat \ {0}, NEW i \in Int
  PROVE  (i + c) % c = i % c
<1> DEFINE r == i % c
           s == (i + c) % c
           m == i \div c
           n == (i + c) \div c
<1>1. m \in Int /\ i = c * m + r /\ r \in 0 .. c-1
  BY DivMod, ModRange
<1>2. n \in Int /\ i + c = c * n + s /\ s \in 0 .. c-1
  <2>1. i + c \in Int
    OBVIOUS
  <2> HIDE DEF m, r
  <2> QED BY <2>1, DivMod, ModRange
<1> HIDE DEF r, s, m, n
<1>3. s - r = c * (m + 1 - n)
  BY <1>1, <1>2
<1>4. ASSUME NEW d \in Int, c * d < c, c * d > -c PROVE d = 0
  <2>1. d > 0 => c * d >= c
    OBVIOUS
  <2>2. d < 0 => c * d <= -c
    OBVIOUS
  <2> QED BY <1>4, <2>1, <2>2
<1>5. m + 1 - n \in Int /\ c * (m + 1 - n) < c /\ c * (m + 1 - n) > -c
  BY <1>1, <1>2, <1>3
<1>6. m + 1 - n = 0
  BY <1>4, <1>5
<1>7. s = r
  BY <1>1, <1>2, <1>3, <1>6
<1> QED BY <1>7 DEF r, s

\* A victim is an existing worker other than the thief.
LEMMA VictimOther ==
  ASSUME NEW m \in Nat, m >= 2, NEW i \in 0..m-1, NEW s \in Nat, NEW a \in Nat
  PROVE  Victim(m, i, s, a) \in Others(m, i)
<1> DEFINE v == (s + a) % m
<1>1. v \in 0..m-1
  BY ModRange
<1> HIDE DEF v
<1>2. CASE v # i
  BY <1>1, <1>2 DEF Victim, Others, v
<1>3. CASE v = i
  <2>1. (v + 1) % m \in 0..m-1
    BY <1>1, ModRange
  <2>2. v % m # (v + 1) % m
    BY <1>1, ModDistinct
  <2>3. v % m = v
    BY <1>1, ModSmall
  <2> QED BY <1>3, <2>1, <2>2, <2>3 DEF Victim, Others, v
<1> QED BY <1>2, <1>3

\* The random start is a worker.
LEMMA StartIsWorker ==
  ASSUME NEW m \in Nat, m >= 2, NEW i \in 0..m-1, NEW s \in Starts(m, i)
  PROVE  s \in 0..m-1
BY DEF Starts

-----------------------------------------------------------------------------
(***************************************************************************)
(* Sequences without repetitions.                                          *)
(***************************************************************************)

Occurs(q, k) == \E i \in DOMAIN q : q[i] = k
Distinct(q)  == \A i, j \in DOMAIN q : q[i] = q[j] => i = j

\* What is in a sequence after Append.
LEMMA AppendOccurs ==
  ASSUME NEW S, NEW q \in Seq(S), NEW k \in S
  PROVE  /\ Append(q, k) \in Seq(S)
         /\ \A j \in S : Occurs(Append(q, k), j) <=> Occurs(q, j) \/ j = k
         /\ Distinct(q) /\ ~Occurs(q, k) => Distinct(Append(q, k))
<1> DEFINE r == Append(q, k)
<1>1. /\ r \in Seq(S) /\ Len(r) = Len(q) + 1 /\ Len(q) \in Nat
      /\ DOMAIN q = 1..Len(q) /\ DOMAIN r = 1..Len(q)+1
      /\ r[Len(q) + 1] = k /\ \A i \in 1..Len(q) : r[i] = q[i]
  OBVIOUS
<1> HIDE DEF r
<1>2. ASSUME NEW j \in S PROVE Occurs(r, j) <=> Occurs(q, j) \/ j = k
  <2>1. 1..Len(q)+1 = (1..Len(q)) \cup {Len(q) + 1}
    BY <1>1
  <2> QED BY <1>1, <2>1 DEF Occurs
<1>3. ASSUME Distinct(q), ~Occurs(q, k) PROVE Distinct(r)
  BY <1>1, <1>3 DEF Distinct, Occurs
<1> QED BY <1>1, <1>2, <1>3 DEF r

\* And without its last element.
LEMMA FrontOccurs ==
  ASSUME NEW S, NEW q \in Seq(S), q # <<>>, Distinct(q)
  PROVE  LET k == q[Len(q)]
             r == SubSeq(q, 1, Len(q) - 1)
         IN  /\ k \in S /\ Occurs(q, k)
             /\ r \in Seq(S) /\ Distinct(r)
             /\ \A j \in S : Occurs(r, j) <=> Occurs(q, j) /\ j # k
<1> DEFINE k == q[Len(q)]
           r == SubSeq(q, 1, Len(q) - 1)
<1>1. Len(q) \in Nat \ {0} /\ DOMAIN q = 1..Len(q) /\ \A i \in 1..Len(q) : q[i] \in S
  OBVIOUS
<1>2. /\ r \in Seq(S) /\ DOMAIN r = 1..Len(q)-1
      /\ \A i \in 1..Len(q)-1 : r[i] = q[i]
  BY <1>1
<1>3. k \in S /\ Occurs(q, k)
  BY <1>1 DEF Occurs
<1> HIDE DEF r
<1>4. Distinct(r)
  BY <1>1, <1>2 DEF Distinct
<1>5. ASSUME NEW j \in S PROVE Occurs(r, j) <=> Occurs(q, j) /\ j # k
  <2>1. ASSUME Occurs(r, j) PROVE Occurs(q, j) /\ j # k
    BY <1>1, <1>2, <2>1 DEF Occurs, Distinct
  <2>2. ASSUME Occurs(q, j), j # k PROVE Occurs(r, j)
    BY <1>1, <1>2, <2>2 DEF Occurs
  <2> QED BY <2>1, <2>2
<1> QED BY <1>2, <1>3, <1>4, <1>5 DEF r

\* And without its first element.
LEMMA TailOccurs ==
  ASSUME NEW S, NEW q \in Seq(S), q # <<>>, Distinct(q)
  PROVE  /\ Head(q) \in S /\ Occurs(q, Head(q))
         /\ Tail(q) \in Seq(S) /\ Distinct(Tail(q))
         /\ \A j \in S : Occurs(Tail(q), j) <=> Occurs(q, j) /\ j # Head(q)
<1> DEFINE k == q[1]
           r == Tail(q)
<1>1. Len(q) \in Nat \ {0} /\ DOMAIN q = 1..Len(q) /\ \A i \in 1..Len(q) : q[i] \in S
  OBVIOUS
<1>2. /\ r \in Seq(S) /\ DOMAIN r = 1..Len(q)-1
      /\ \A i \in 1..Len(q)-1 : r[i] = q[i + 1]
  BY <1>1
<1>3. k \in S /\ Occurs(q, k) /\ Head(q) = k
  BY <1>1 DEF Occurs
<1> HIDE DEF r
<1>4. Distinct(r)
  <2> SUFFICES ASSUME NEW i \in 1..Len(q)-1, NEW j \in 1..Len(q)-1, r[i] = r[j]
               PROVE  i = j
    BY <1>2 DEF Distinct
  <2>1. i + 1 \in 1..Len(q) /\ j + 1 \in 1..Len(q) /\ q[i + 1] = q[j + 1]
    BY <1>1, <1>2
  <2>2. i + 1 = j + 1
    BY <1>1, <2>1 DEF Distinct
  <2> QED BY <2>2
<1>5. ASSUME NEW j \in S PROVE Occurs(r, j) <=> Occurs(q, j) /\ j # k
  <2>1. ASSUME Occurs(r, j) PROVE Occurs(q, j) /\ j # k
    BY <1>1, <1>2, <2>1 DEF Occurs, Distinct
  <2>2. ASSUME Occurs(q, j), j # k PROVE Occurs(r, j)
    <3>1. PICK i \in 1..Len(q) : q[i] = j
      BY <1>1, <2>2 DEF Occurs
    <3>2. i - 1 \in 1..Len(q)-1 /\ (i - 1) + 1 = i
      BY <1>1, <2>2, <3>1
    <3> QED BY <1>2, <3>1, <3>2 DEF Occurs
  <2> QED BY <2>1, <2>2
<1> QED BY <1>2, <1>3, <1>4, <1>5 DEF r

\* Nothing is in an empty sequence.
LEMMA EmptyOccurs == (\A S : <<>> \in Seq(S)) /\ Distinct(<<>>) /\ \A j : ~Occurs(<<>>, j)
BY DEF Occurs, Distinct
=============================================================================
