---------------------------- MODULE ChaseLevDeque ----------------------------
(***************************************************************************)
(* The work-stealing deque of include/chase_lev_deque.hpp: one owner that  *)
(* calls push_bottom and pop_bottom, and thieves that call steal.          *)
(*                                                                         *)
(* Memory.  Only the owner stores to bot_, array_ and the array slots, and *)
(* those stores are plain (relaxed) ones, so other threads may see them    *)
(* late.  "views" is the owner's store buffer, kept as the sequence of     *)
(* memory images that its pending stores will produce, in order: the first *)
(* is what memory holds and thieves read, the last is what the owner       *)
(* itself reads.  Drain makes one more store visible; the seq_cst fence of *)
(* pop_bottom waits until nothing is pending.  top_ changes only by        *)
(* compare-and-swap, which is never buffered.                              *)
(***************************************************************************)
EXTENDS Integers, Sequences

CONSTANTS
  Tasks,            \* task pointers the owner may push, each once
  Thieves,          \* threads that call steal
  NULL,             \* the null pointer, in slots never written
  InitialCap,       \* 1 << kInitialLog2Cap
  InstallReleases   \* TRUE: a grown array's contents are visible before array_
                    \* (any order-preserving machine); FALSE: the orders that
                    \* array_.store(relaxed) permits in the C++ memory model

ASSUME NullAssumption == NULL \notin Tasks
ASSUME CapAssumption == InitialCap \in Nat \ {0}
ASSUME InstallAssumption == InstallReleases \in BOOLEAN

VARIABLES
  top,      \* top_
  views,    \* pending images of [bot_, all arrays]; the last array is array_,
            \* the others are old_arrays_
  opc,      \* where the owner is: between calls, in pop_bottom, or gone
  thief,    \* where each thief is in steal(), and its locals
  pushed,   \* history: tasks handed to push_bottom
  handed    \* history: how often each task pointer was returned or freed

vars == <<top, views, opc, thief, pushed, handed>>

Memory == views[1]
Own    == views[Len(views)]

-----------------------------------------------------------------------------
\* CircularArray: a ring of slots, one past the mask being the first again.

NewArray(c) == [j \in 1..c |-> NULL]
Get(a, i) == a[(i % Len(a)) + 1]
Put(a, i, p) == [a EXCEPT ![(i % Len(a)) + 1] = p]

\* A new array twice as large holding the live entries t..b-1 of a.
Grow(a, b, t) ==
  LET c == 2 * Len(a)
      live(j) == {i \in t..b-1 : (i % c) + 1 = j}
  IN [j \in 1..c |-> IF live(j) = {} THEN NULL
                     ELSE Get(a, CHOOSE i \in live(j) : TRUE)]

Current(v) == v.arrays[Len(v.arrays)]

Idle == [pc |-> "idle", t |-> 0, arr |-> 1, raw |-> NULL]

Init ==
  /\ top = 0
  /\ views = << [bot |-> 0, arrays |-> <<NewArray(InitialCap)>>] >>
  /\ opc = "idle"
  /\ thief = [s \in Thieves |-> Idle]
  /\ pushed = {}
  /\ handed = [k \in Tasks |-> 0]

\* A task pointer leaves the deque; handing out the null pointer hands out nothing.
HandOut(p) ==
  handed' = IF p \in Tasks THEN [handed EXCEPT ![p] = @ + 1] ELSE handed

-----------------------------------------------------------------------------
\* Owner

Image(b, arrays) == [bot |-> b, arrays |-> arrays]

\* Variant: growth when no slot at all is free.
FullWithoutSpare == Own.bot - top >= Len(Current(Own))

\* push_bottom grows the ring when one free slot is left.
Full == Own.bot - top >= Len(Current(Own)) - 1
Arrays == IF Full THEN Append(Own.arrays, Grow(Current(Own), Own.bot, top))
                  ELSE Own.arrays

\* The images that a growth may pass through, ending in the full copy.
Installs ==
  LET bare == Append(Own.arrays, NewArray(2 * Len(Current(Own))))
  IN IF ~Full THEN {<<>>}
     ELSE {<<Image(Own.bot, Arrays)>>} \cup
          (IF InstallReleases THEN {}
           ELSE {<<Image(Own.bot, bare), Image(Own.bot, Arrays)>>})

Stored(k) == [Arrays EXCEPT ![Len(Arrays)] = Put(Arrays[Len(Arrays)], Own.bot, k)]

\* push_bottom.  Its one shared read is top_; all its stores enter the buffer,
\* the slot ahead of bot_ because of the release fence between them.
PushBottom(k) ==
  /\ opc = "idle"
  /\ k \notin pushed
  /\ \E install \in Installs :
       views' = views \o (install \o << Image(Own.bot, Stored(k)),
                                        Image(Own.bot + 1, Stored(k)) >>)
  /\ pushed' = pushed \cup {k}
  /\ UNCHANGED <<top, opc, thief, handed>>

\* Variant: pop_bottom also frees the old arrays.
StoreBotFreeing(b) == views' = views \o << Image(b, <<Current(Own)>>) >>

StoreBot(b) == views' = views \o << Image(b, Own.arrays) >>

\* pop_bottom up to its fence: claim the bottom index.
PopDecrement ==
  /\ opc = "idle"
  /\ StoreBot(Own.bot - 1)
  /\ opc' = "fence"
  /\ UNCHANGED <<top, thief, pushed, handed>>

\* Variant: no fence between the store to bot_ and the load of top_.
FenceMissing == TRUE

\* The fence has drained the buffer; the relaxed load of top_ decides.
FenceDone == Len(views) = 1

\* Variants: an answer that the last element is too few; bot_ left decremented.
EmptyEarly == top >= Own.bot
Unrestored == Own.bot

Empty == top > Own.bot
Restored == Own.bot + 1

PopEmpty ==
  /\ opc = "fence" /\ FenceDone
  /\ Empty
  /\ StoreBot(Restored)
  /\ opc' = "idle"
  /\ UNCHANGED <<top, thief, pushed, handed>>

PopInner ==
  /\ opc = "fence" /\ FenceDone
  /\ top < Own.bot
  /\ HandOut(Get(Current(Own), Own.bot))
  /\ opc' = "idle"
  /\ UNCHANGED <<top, views, thief, pushed>>

PopLast ==
  /\ opc = "fence" /\ FenceDone
  /\ top = Own.bot
  /\ opc' = "cas"
  /\ UNCHANGED <<top, views, thief, pushed, handed>>

\* The compare-and-swap for the last element, then bot_ is restored either way.
PopCas ==
  LET b == Own.bot
  IN /\ opc = "cas"
     /\ IF top = b
        THEN top' = b + 1 /\ HandOut(Get(Current(Own), b))
        ELSE UNCHANGED <<top, handed>>
     /\ StoreBot(b + 1)
     /\ opc' = "idle"
     /\ UNCHANGED <<thief, pushed>>

\* The destructor, once every thief has been joined.
Destroy ==
  /\ opc = "idle" /\ FenceDone
  /\ \A s \in Thieves : thief[s].pc = "idle"
  /\ handed' = [k \in Tasks |-> handed[k] +
                  IF \E i \in top..Own.bot-1 : Get(Current(Own), i) = k THEN 1 ELSE 0]
  /\ opc' = "destroyed"
  /\ UNCHANGED <<top, views, thief, pushed>>

-----------------------------------------------------------------------------
\* Thieves

StealLoadTop(s) ==
  /\ thief[s].pc = "idle" /\ opc # "destroyed"
  /\ thief' = [thief EXCEPT ![s].pc = "bot", ![s].t = top]
  /\ UNCHANGED <<top, views, opc, pushed, handed>>

StealLoadBot(s) ==
  /\ thief[s].pc = "bot"
  /\ thief' = [thief EXCEPT ![s] =
                 IF @.t >= Memory.bot THEN Idle ELSE [@ EXCEPT !.pc = "array"]]
  /\ UNCHANGED <<top, views, opc, pushed, handed>>

StealLoadArray(s) ==
  /\ thief[s].pc = "array"
  /\ thief' = [thief EXCEPT ![s].pc = "slot", ![s].arr = Len(Memory.arrays)]
  /\ UNCHANGED <<top, views, opc, pushed, handed>>

StealLoadSlot(s) ==
  /\ thief[s].pc = "slot"
  /\ LET p == Get(Memory.arrays[thief[s].arr], thief[s].t)
     IN thief' = [thief EXCEPT ![s].pc = "cas", ![s].raw = p]
  /\ UNCHANGED <<top, views, opc, pushed, handed>>

\* Variant: a store to top_ in place of the compare-and-swap.
Unopposed(s) == TRUE

Unmoved(s) == top = thief[s].t

StealCas(s) ==
  /\ thief[s].pc = "cas"
  /\ IF Unmoved(s)
     THEN top' = top + 1 /\ HandOut(thief[s].raw)
     ELSE UNCHANGED <<top, handed>>
  /\ thief' = [thief EXCEPT ![s] = Idle]
  /\ UNCHANGED <<views, opc, pushed>>

Steal(s) ==
  \/ StealLoadTop(s)
  \/ StealLoadBot(s)
  \/ StealLoadArray(s)
  \/ StealLoadSlot(s)
  \/ StealCas(s)

-----------------------------------------------------------------------------
\* The machine makes the owner's oldest pending store visible.
Drain ==
  /\ Len(views) > 1
  /\ views' = Tail(views)
  /\ UNCHANGED <<top, opc, thief, pushed, handed>>

Next ==
  \/ \E k \in Tasks : PushBottom(k)
  \/ PopDecrement
  \/ PopEmpty
  \/ PopInner
  \/ PopLast
  \/ PopCas
  \/ Destroy
  \/ \E s \in Thieves : Steal(s)
  \/ Drain

Spec == Init /\ [][Next]_vars

\* The hardware drains buffers, a call of pop_bottom that began ends, and the
\* thieves keep calling steal; the owner may stop between calls for ever.
Fairness ==
  /\ WF_vars(Drain)
  /\ WF_vars(PopEmpty \/ PopInner \/ PopLast)
  /\ WF_vars(PopCas)
  /\ \A s \in Thieves : WF_vars(Steal(s))

FairSpec == Spec /\ Fairness

-----------------------------------------------------------------------------
(***************************************************************************)
(* Properties.                                                             *)
(***************************************************************************)

\* The bottom index as callers see it: inside pop_bottom the decremented index
\* is still in the deque until the owner knows that it has won it.
Bottom == IF opc \in {"fence", "cas"} THEN Own.bot + 1 ELSE Own.bot

Item(i) == Get(Current(Own), i)

\* The tasks in the deque, oldest first.
Items == IF opc = "destroyed" THEN <<>>
         ELSE [j \in 1 .. Bottom - top |-> Item(top + j - 1)]

Array == Seq(Tasks \cup {NULL}) \ {<<>>}
View  == [bot : Int, arrays : Seq(Array) \ {<<>>}]
ThiefState == [pc  : {"idle", "bot", "array", "slot", "cas"}, t : Nat,
               arr : Nat \ {0}, raw : Tasks \cup {NULL}]

\* The variables have their types; in particular every array index a thief
\* holds names an array that exists.
TypeOK ==
  /\ top \in Nat
  /\ views \in Seq(View) \ {<<>>}
  /\ opc \in {"idle", "fence", "cas", "destroyed"}
  /\ thief \in [Thieves -> ThiefState]
  /\ \A s \in Thieves : thief[s].arr <= Len(Memory.arrays)
  /\ pushed \in SUBSET Tasks
  /\ handed \in [Tasks -> Nat]

\* Every pushed task is in the deque or has left it exactly once, whatever the
\* owner and the thieves race for: none is lost, none is run or freed twice.
ExactlyOnce ==
  \A k \in pushed :
    handed[k] = IF \E j \in DOMAIN Items : Items[j] = k THEN 0 ELSE 1

\* pop_bottom answers nullptr only when the deque is empty, be it because
\* top_ had passed bot_ or because a thief won the last element.
NullMeansEmpty ==
  [][opc # "idle" /\ opc' = "idle" /\ handed' = handed => Items = <<>>]_vars

\* The deque behaves as if each call were one step: owner calls work at the
\* bottom, steals take the oldest task, and nothing leaves out of order.
Abstract == INSTANCE WorkDeque WITH items <- Items
Linearizable == Abstract!Spec

\* While one thief keeps calling steal, every pushed task leaves the deque,
\* even if the owner has gone off to run a task and never returns.
EveryTaskLeaves == \A k \in Tasks : k \in pushed ~> handed[k] = 1

-----------------------------------------------------------------------------
(***************************************************************************)
(* The inductive invariant behind ExactlyOnce and Linearizable, for        *)
(* machines that keep the order of the owner's stores (InstallReleases).   *)
(***************************************************************************)

Images == 1..Len(views)
Live   == IF opc = "destroyed" THEN {} ELSE top..Bottom-1

\* The live indices fit the owner's array with a slot to spare.
Room == top <= Bottom /\ Bottom - top < Len(Current(Own))

\* No image, however old, shows a bottom beyond the real one ...
BottomsKept == \A n \in Images : views[n].bot <= Bottom

\* ... or an array that a later image lacks.
ArraysKept ==
  \A n \in Images : \A m \in 1..n :
    Len(views[m].arrays) <= Len(views[n].arrays)

\* An index that image v shows as pushed has its task in the array of v, and
\* in all later arrays, in the memory image w.
Shows(v, w) ==
  \A i \in top .. v.bot - 1 : \A a \in Len(v.arrays) .. Len(w.arrays) :
    Get(w.arrays[a], i) = Item(i)

\* That holds in the image itself and in all later ones.
Published == \A n \in Images : \A m \in 1..n : Shows(views[m], views[n])

\* A thief whose compare-and-swap can still succeed ...
Engaged(s) == thief[s].pc \in {"array", "slot", "cas"} /\ thief[s].t = top

\* ... is after an index still in the deque, and what it has read or will read
\* there is the task of that index, whatever is stored meanwhile.
ThiefReads ==
  \A s \in Thieves :
    /\ thief[s].t <= top
    /\ Engaged(s) =>
         /\ top < Bottom
         /\ thief[s].pc = "cas" => thief[s].raw = Item(top)
         /\ thief[s].pc # "cas" =>
              LET from == IF thief[s].pc = "array" THEN Len(Memory.arrays)
                                                   ELSE thief[s].arr
              IN \A n \in Images : \A a \in from .. Len(views[n].arrays) :
                   Get(views[n].arrays[a], top) = Item(top)

\* Live indices hold different tasks; a pushed task is live or was handed out
\* once; a task never pushed was never handed out.
Accounted ==
  /\ \A i, j \in Live : i # j => Item(i) # Item(j)
  /\ \A i \in Live : Item(i) \in pushed
  /\ \A k \in pushed : handed[k] = IF \E i \in Live : Item(i) = k THEN 0 ELSE 1
  /\ \A k \in Tasks \ pushed : handed[k] = 0

\* The owner goes for the last element only when no other is left, and once the
\* destructor has run nobody is inside the deque.
OwnerPlace ==
  /\ opc = "cas" => Own.bot <= top
  /\ opc = "destroyed" => \A s \in Thieves : thief[s].pc = "idle"

IInv ==
  /\ TypeOK
  /\ Room
  /\ BottomsKept
  /\ ArraysKept
  /\ Published
  /\ ThiefReads
  /\ Accounted
  /\ OwnerPlace
=============================================================================
