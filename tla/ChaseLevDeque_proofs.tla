------------------------ MODULE ChaseLevDeque_proofs ------------------------
(***************************************************************************)
(* Proofs about ChaseLevDeque, for any tasks, thieves and initial array.   *)
(***************************************************************************)
EXTENDS ChaseLevDeque, CommonFacts, SequenceTheorems, TLAPS

Slot == Tasks \cup {NULL}

-----------------------------------------------------------------------------
(***************************************************************************)
(* CircularArray.                                                          *)
(***************************************************************************)

\* An array has slots.
LEMMA ArrayLen ==
  ASSUME NEW a \in Array
  PROVE  /\ a \in Seq(Slot) /\ a \in [1..Len(a) -> Slot]
         /\ Len(a) \in Nat \ {0}
BY EmptySeq, LenProperties DEF Array, Slot

\* A function on the slot numbers is an array.
LEMMA ArrayFromFunction ==
  ASSUME NEW c \in Nat \ {0}, NEW f \in [1..c -> Slot]
  PROVE  f \in Array /\ Len(f) = c
<1>1. f \in Seq(Slot) /\ Len(f) = c
  BY SeqDef
<1> QED BY <1>1 DEF Array, Slot

\* What the constructor of CircularArray makes is an array.
LEMMA NewArrayType ==
  ASSUME NEW c \in Nat \ {0}
  PROVE  NewArray(c) \in Array /\ Len(NewArray(c)) = c
<1>1. NewArray(c) \in [1..c -> Slot]
  BY DEF NewArray, Slot
<1> QED BY <1>1, ArrayFromFunction

\* What an array holds is a task pointer or null.
LEMMA GetType ==
  ASSUME NEW a \in Array, NEW i \in Int
  PROVE  Get(a, i) \in Slot
<1>1. (i % Len(a)) + 1 \in 1 .. Len(a)
  BY ArrayLen, ModRange
<1> QED BY <1>1, ArrayLen DEF Get

\* A store changes its own slot only.
LEMMA PutFacts ==
  ASSUME NEW a \in Array, NEW i \in Int, NEW p \in Slot
  PROVE  /\ Put(a, i, p) \in Array
         /\ Len(Put(a, i, p)) = Len(a)
         /\ Get(Put(a, i, p), i) = p
         /\ \A j \in Int : j < i /\ i - j < Len(a) => Get(Put(a, i, p), j) = Get(a, j)
<1> DEFINE c == Len(a)
<1>0. c \in Nat \ {0} /\ a \in [1..c -> Slot]
  BY ArrayLen
<1> HIDE DEF c
<1>a. Put(a, i, p) = [a EXCEPT ![(i % c) + 1] = p]
  BY DEF Put, c
<1>b. (i % c) + 1 \in 1..c
  BY <1>0, ModRange
<1>1. Put(a, i, p) \in [1..c -> Slot]
  BY <1>0, <1>a, <1>b
<1>2. Put(a, i, p) \in Array /\ Len(Put(a, i, p)) = c
  BY <1>0, <1>1, ArrayFromFunction
<1>3. Get(Put(a, i, p), i) = p
  BY <1>0, <1>2, <1>a, <1>b DEF Get
<1>4. ASSUME NEW j \in Int, j < i, i - j < c
      PROVE  Get(Put(a, i, p), j) = Get(a, j)
  <2>1. (j % c) + 1 # (i % c) + 1
    BY <1>0, <1>4, ModDistinct
  <2>2. (j % c) + 1 \in 1..c
    BY <1>0, ModRange
  <2>3. Put(a, i, p)[(j % c) + 1] = a[(j % c) + 1]
    BY <1>0, <1>a, <2>1, <2>2
  <2> QED BY <1>2, <2>3 DEF Get, c
<1> QED BY <1>2, <1>3, <1>4 DEF c

\* A growth keeps every live entry at its index.
LEMMA GrowFacts ==
  ASSUME NEW a \in Array, NEW b \in Int, NEW t \in Int
  PROVE  /\ Grow(a, b, t) \in Array
         /\ Len(Grow(a, b, t)) = 2 * Len(a)
         /\ b - t <= 2 * Len(a) => \A i \in t .. b-1 : Get(Grow(a, b, t), i) = Get(a, i)
<1> DEFINE c == 2 * Len(a)
           live(j) == {i \in t..b-1 : (i % c) + 1 = j}
           g == Grow(a, b, t)
<1>1. c \in Nat \ {0}
  BY ArrayLen
<1>2. g = [j \in 1..c |-> IF live(j) = {} THEN NULL
                          ELSE Get(a, CHOOSE i \in live(j) : TRUE)]
  BY DEF Grow
<1> HIDE DEF c, g
<1>3. ASSUME NEW j \in 1..c, live(j) # {}
      PROVE  (CHOOSE i \in live(j) : TRUE) \in live(j)
  BY <1>3
<1>4. g \in [1..c -> Slot]
  <2> SUFFICES ASSUME NEW j \in 1..c, live(j) # {}
               PROVE  Get(a, CHOOSE i \in live(j) : TRUE) \in Slot
    BY <1>2 DEF Slot
  <2> QED BY <1>3, GetType
<1>5. g \in Array /\ Len(g) = c
  BY <1>1, <1>4, ArrayFromFunction
<1>6. ASSUME b - t <= c, NEW i \in t .. b-1
      PROVE  Get(g, i) = Get(a, i)
  <2> DEFINE j == (i % c) + 1
             h == CHOOSE x \in live(j) : TRUE
  <2>1. j \in 1..c /\ i \in live(j)
    BY <1>1, ModRange
  <2>2. h \in live(j)
    BY <2>1
  <2>3. h = i
    <3>1. h \in t .. b-1 /\ (h % c) + 1 = (i % c) + 1
      BY <2>2
    <3> HIDE DEF h, live
    <3>2. i \in Int /\ h \in Int /\ h - i < c /\ i - h < c
      BY <3>1, <1>1, <1>6
    <3>3. ASSUME h < i PROVE FALSE
      BY <3>1, <3>2, <3>3, <1>1, ModDistinct
    <3>4. ASSUME i < h PROVE FALSE
      BY <3>1, <3>2, <3>4, <1>1, ModDistinct
    <3> QED BY <3>2, <3>3, <3>4
  <2>4. g[j] = Get(a, i)
    BY <1>2, <2>1, <2>3
  <2> QED BY <1>5, <2>4 DEF Get
<1> QED BY <1>5, <1>6 DEF c, g

-----------------------------------------------------------------------------
(***************************************************************************)
(* Memory images.                                                          *)
(***************************************************************************)

\* The parts of a memory image have their types.
LEMMA ViewFacts ==
  ASSUME NEW v \in View
  PROVE  /\ v.bot \in Int
         /\ v.arrays \in Seq(Array) /\ Len(v.arrays) \in Nat \ {0}
         /\ \A a \in 1 .. Len(v.arrays) : v.arrays[a] \in Array
         /\ Current(v) \in Array
<1>1. v.bot \in Int /\ v.arrays \in Seq(Array) \ {<<>>}
  BY DEF View
<1>2. Len(v.arrays) \in Nat \ {0}
  BY <1>1, EmptySeq
<1>3. \A a \in 1 .. Len(v.arrays) : v.arrays[a] \in Array
  BY <1>1, ElementOfSeq
<1> QED BY <1>1, <1>2, <1>3 DEF Current

\* An image put together from a bottom and arrays is an image.
LEMMA ImageType ==
  ASSUME NEW b \in Int, NEW as \in Seq(Array), Len(as) # 0
  PROVE  Image(b, as) \in View /\ Image(b, as).bot = b /\ Image(b, as).arrays = as
<1>1. as # <<>>
  BY EmptySeq
<1> QED BY <1>1 DEF Image, View

Buffers == Seq(View) \ {<<>>}

\* The first and the last image of a buffer are images.
LEMMA ViewsFacts ==
  ASSUME NEW vs \in Buffers
  PROVE  /\ Len(vs) \in Nat \ {0}
         /\ \A n \in 1 .. Len(vs) : vs[n] \in View
         /\ vs[1] \in View /\ vs[Len(vs)] \in View
<1>1. Len(vs) \in Nat \ {0}
  BY EmptySeq DEF Buffers
<1>2. \A n \in 1 .. Len(vs) : vs[n] \in View
  BY ElementOfSeq DEF Buffers
<1> QED BY <1>1, <1>2

\* Appending images to the buffer changes what the owner reads, not memory.
LEMMA ExtendFacts ==
  ASSUME NEW vs \in Buffers, NEW new \in Seq(View)
  PROVE  /\ vs \o new \in Buffers
         /\ Len(vs \o new) = Len(vs) + Len(new)
         /\ \A n \in 1 .. Len(vs) : (vs \o new)[n] = vs[n]
         /\ \A n \in Len(vs)+1 .. Len(vs) + Len(new) :
              (vs \o new)[n] = new[n - Len(vs)] /\ n - Len(vs) \in 1 .. Len(new)
<1>1. Len(vs) \in Nat \ {0} /\ Len(new) \in Nat
  BY ViewsFacts, LenProperties
<1>2. /\ vs \o new \in Seq(View)
      /\ Len(vs \o new) = Len(vs) + Len(new)
      /\ \A n \in 1 .. Len(vs) + Len(new) :
           (vs \o new)[n] = IF n <= Len(vs) THEN vs[n] ELSE new[n - Len(vs)]
  BY ConcatProperties DEF Buffers
<1>3. vs \o new # <<>>
  BY <1>1, <1>2, EmptySeq
<1> QED BY <1>1, <1>2, <1>3 DEF Buffers

\* A buffer extended by one store.
LEMMA OneImage ==
  ASSUME NEW v \in View
  PROVE  <<v>> \in Seq(View) /\ Len(<<v>>) = 1 /\ <<v>>[1] = v
OBVIOUS

\* A buffer extended by two stores.
LEMMA TwoImages ==
  ASSUME NEW v \in View, NEW w \in View
  PROVE  /\ <<v, w>> \in Seq(View) /\ Len(<<v, w>>) = 2
         /\ <<v, w>>[1] = v /\ <<v, w>>[2] = w
OBVIOUS

\* Draining makes the second image memory and leaves the others in order.
LEMMA DrainFacts ==
  ASSUME NEW vs \in Buffers, Len(vs) > 1
  PROVE  /\ Tail(vs) \in Buffers
         /\ Len(Tail(vs)) = Len(vs) - 1
         /\ \A n \in 1 .. Len(Tail(vs)) : Tail(vs)[n] = vs[n+1]
<1>1. Len(vs) \in Nat \ {0}
  BY ViewsFacts
<1>2. /\ Tail(vs) \in Seq(View)
      /\ Len(Tail(vs)) = Len(vs) - 1
      /\ \A n \in 1 .. Len(Tail(vs)) : Tail(vs)[n] = vs[n+1]
  BY HeadTailProperties DEF Buffers
<1>3. Len(Tail(vs)) # 0
  BY <1>1, <1>2
<1>4. Tail(vs) # <<>>
  BY <1>3, EmptySeq
<1> QED BY <1>2, <1>4 DEF Buffers

-----------------------------------------------------------------------------
(***************************************************************************)
(* What push_bottom stores.                                                *)
(***************************************************************************)

\* After the growth, if there is one, the owner has at least the arrays it had.
LEMMA ArraysFacts ==
  ASSUME TypeOK
  PROVE  /\ Arrays \in Seq(Array) /\ Len(Arrays) \in Nat \ {0}
         /\ Full => /\ Len(Arrays) = Len(Own.arrays) + 1
                    /\ Arrays[Len(Arrays)] = Grow(Current(Own), Own.bot, top)
                    /\ \A a \in 1 .. Len(Own.arrays) : Arrays[a] = Own.arrays[a]
         /\ ~Full => Arrays = Own.arrays
<1>1. Own \in View
  BY ViewsFacts DEF TypeOK, Own, Buffers
<1>2. /\ Own.arrays \in Seq(Array) /\ Len(Own.arrays) \in Nat \ {0}
      /\ Current(Own) \in Array /\ Own.bot \in Int /\ top \in Int
  BY <1>1, ViewFacts DEF TypeOK
<1>3. Grow(Current(Own), Own.bot, top) \in Array
  BY <1>2, GrowFacts
<1>4. CASE Full
  <2>1. Arrays = Append(Own.arrays, Grow(Current(Own), Own.bot, top))
    BY <1>4 DEF Arrays
  <2> QED BY <1>2, <1>3, <1>4, <2>1
<1>5. CASE ~Full
  BY <1>2, <1>5 DEF Arrays
<1> QED BY <1>4, <1>5

\* Storing the slot changes the last array only.
LEMMA StoredFacts ==
  ASSUME TypeOK, NEW k \in Tasks
  PROVE  /\ Stored(k) \in Seq(Array) /\ Len(Stored(k)) = Len(Arrays)
         /\ Stored(k)[Len(Arrays)] = Put(Arrays[Len(Arrays)], Own.bot, k)
         /\ \A a \in 1 .. Len(Arrays) - 1 : Stored(k)[a] = Arrays[a]
<1>1. Own.bot \in Int
  BY ViewsFacts, ViewFacts DEF TypeOK, Own, Buffers
<1>2. Arrays \in Seq(Array) /\ Len(Arrays) \in Nat \ {0}
  BY ArraysFacts
<1>3. Arrays[Len(Arrays)] \in Array
  BY <1>2, ElementOfSeq
<1>4. Put(Arrays[Len(Arrays)], Own.bot, k) \in Array
  BY <1>1, <1>3, PutFacts DEF Slot
<1> QED BY <1>2, <1>4, ExceptSeq DEF Stored

\* The images that a push appends.
LEMMA PushViews ==
  ASSUME TypeOK, NEW k \in Tasks, PushBottom(k)
  PROVE  \E new \in Seq(View) :
           /\ views' = views \o new
           /\ Len(new) \in Nat \ {0}
           /\ new[Len(new)] = Image(Own.bot + 1, Stored(k))
           /\ \A j \in 1 .. Len(new) : Len(new[j].arrays) = Len(Arrays)
           /\ InstallReleases => \A j \in 1 .. Len(new) :
                \/ j = Len(new)
                \/ new[j] = Image(Own.bot, Stored(k))
                \/ new[j] = Image(Own.bot, Arrays) /\ Full
<1> DEFINE last == << Image(Own.bot, Stored(k)), Image(Own.bot + 1, Stored(k)) >>
<1>0. PICK install \in Installs : views' = views \o (install \o last)
  BY DEF PushBottom
<1>1. /\ Own \in View /\ Own.bot \in Int /\ Own.bot + 1 \in Int
      /\ Own.arrays \in Seq(Array) /\ Len(Own.arrays) \in Nat \ {0}
      /\ Current(Own) \in Array
  BY ViewsFacts, ViewFacts DEF TypeOK, Own, Buffers
<1>2. Arrays \in Seq(Array) /\ Len(Arrays) \in Nat \ {0}
  BY ArraysFacts
<1>3. Stored(k) \in Seq(Array) /\ Len(Stored(k)) = Len(Arrays)
  BY StoredFacts
<1>4. /\ Image(Own.bot, Stored(k)) \in View
      /\ Image(Own.bot + 1, Stored(k)) \in View
      /\ Image(Own.bot, Arrays) \in View
      /\ Image(Own.bot, Stored(k)).arrays = Stored(k)
      /\ Image(Own.bot + 1, Stored(k)).arrays = Stored(k)
      /\ Image(Own.bot, Arrays).arrays = Arrays
  BY <1>1, <1>2, <1>3, ImageType
<1>5. /\ last \in Seq(View) /\ Len(last) = 2
      /\ last[1] = Image(Own.bot, Stored(k))
      /\ last[2] = Image(Own.bot + 1, Stored(k))
  BY <1>4, TwoImages
<1> DEFINE bare == Append(Own.arrays, NewArray(2 * Len(Current(Own))))
<1>6. ASSUME Full
      PROVE  /\ Image(Own.bot, bare) \in View
             /\ Image(Own.bot, bare).arrays = bare /\ Len(bare) = Len(Arrays)
  <2>1. NewArray(2 * Len(Current(Own))) \in Array
    BY <1>1, ArrayLen, NewArrayType
  <2>2. bare \in Seq(Array) /\ Len(bare) = Len(Own.arrays) + 1
    BY <1>1, <2>1
  <2>3. Len(bare) # 0 /\ Len(bare) = Len(Arrays)
    BY <1>6, <1>1, <2>2, ArraysFacts
  <2> QED BY <1>1, <2>2, <2>3, ImageType
<1>7. /\ install \in Seq(View)
      /\ \A j \in 1 .. Len(install) : Len(install[j].arrays) = Len(Arrays)
      /\ InstallReleases => \A j \in 1 .. Len(install) :
           install[j] = Image(Own.bot, Arrays) /\ Full
  <2>1. CASE ~Full
    <3>1. install = <<>>
      BY <2>1 DEF Installs
    <3> QED BY <3>1
  <2>2. CASE Full /\ install = << Image(Own.bot, Arrays) >>
    BY <2>2, <1>4, OneImage
  <2>3. CASE Full /\ ~InstallReleases
             /\ install = << Image(Own.bot, bare), Image(Own.bot, Arrays) >>
    BY <2>3, <1>4, <1>6, TwoImages
  <2>4. install \in (IF ~Full THEN {<<>>}
     ELSE {<<Image(Own.bot, Arrays)>>} \cup
          (IF InstallReleases THEN {}
           ELSE {<<Image(Own.bot, bare), Image(Own.bot, Arrays)>>}))
    BY <1>0 DEF Installs
  <2> HIDE DEF bare
  <2> QED BY <2>1, <2>2, <2>3, <2>4
<1> HIDE DEF last
<1> DEFINE new == install \o last
<1>a. Len(install) \in Nat
  BY <1>7, LenProperties
<1>8. /\ new \in Seq(View) /\ Len(new) = Len(install) + Len(last)
      /\ \A j \in 1 .. Len(install) + Len(last) :
           new[j] = IF j <= Len(install) THEN install[j] ELSE last[j - Len(install)]
  <2>1. install \in Seq(View) /\ last \in Seq(View)
    BY <1>5, <1>7
  <2> HIDE DEF last
  <2> QED BY <2>1, ConcatProperties
<1> HIDE DEF new
<1>9. \A j \in 1 .. Len(new) :
        \/ j \in 1 .. Len(install) /\ new[j] = install[j]
        \/ j = Len(new) - 1 /\ new[j] = Image(Own.bot, Stored(k))
        \/ j = Len(new) /\ new[j] = Image(Own.bot + 1, Stored(k))
  BY <1>5, <1>a, <1>8
<1>10. \A j \in 1 .. Len(new) : Len(new[j].arrays) = Len(Arrays)
  BY <1>3, <1>4, <1>7, <1>9
<1>11. new[Len(new)] = Image(Own.bot + 1, Stored(k)) /\ Len(new) \in Nat \ {0}
  BY <1>5, <1>a, <1>8
<1>12. InstallReleases => \A j \in 1 .. Len(new) :
                \/ j = Len(new)
                \/ new[j] = Image(Own.bot, Stored(k))
                \/ new[j] = Image(Own.bot, Arrays) /\ Full
  <2>1. SUFFICES ASSUME InstallReleases, NEW j \in 1 .. Len(new), j \in 1 .. Len(install),
                        new[j] = install[j]
                 PROVE  new[j] = Image(Own.bot, Arrays) /\ Full
    BY <1>9
  <2> QED BY <1>7, <2>1
<1>13. views' = views \o new
  BY <1>0 DEF new
<1> QED BY <1>8, <1>10, <1>11, <1>12, <1>13

-----------------------------------------------------------------------------
(***************************************************************************)
(* Type correctness.  It needs ArraysKept, because a thief's array index   *)
(* must still name an array when the image it was read from has gone.      *)
(***************************************************************************)

TypeInv == TypeOK /\ ArraysKept

\* Transitivity, apart from the facts about sequences around its use.
LEMMA AtMost == \A a, b, c \in Nat : a <= b /\ c >= b => a <= c
  OBVIOUS

\* Extending the buffer with images that lack no array.
LEMMA ExtendKeeps ==
  ASSUME TypeInv, NEW new \in Seq(View), views' = views \o new,
         \A j \in 1 .. Len(new) : /\ Len(new[j].arrays) >= Len(Own.arrays)
                                  /\ \A i \in 1 .. j : Len(new[i].arrays) <= Len(new[j].arrays)
  PROVE  views' \in Buffers /\ ArraysKept' /\ Memory' = Memory
<1>1. views \in Buffers /\ Len(views) \in Nat \ {0}
  BY ViewsFacts DEF TypeInv, TypeOK, Buffers
<1>2. /\ views' \in Buffers
      /\ Len(views') = Len(views) + Len(new)
      /\ \A n \in 1 .. Len(views) : views'[n] = views[n]
      /\ \A n \in Len(views)+1 .. Len(views) + Len(new) :
           views'[n] = new[n - Len(views)] /\ n - Len(views) \in 1 .. Len(new)
  BY <1>1, ExtendFacts
<1>3. Len(new) \in Nat
  BY LenProperties
<1>4. ASSUME NEW n \in 1 .. Len(views'), NEW m \in 1 .. n
      PROVE  Len(views'[m].arrays) <= Len(views'[n].arrays)
  <2>1. CASE n <= Len(views)
    <3>1. n \in Images /\ m \in Images /\ views'[n] = views[n] /\ views'[m] = views[m]
      BY <2>1, <1>1, <1>2, <1>3 DEF Images
    <3> QED BY <3>1 DEF TypeInv, ArraysKept
  <2>2. CASE n > Len(views) /\ m <= Len(views)
    <3>a. Len(views) \in Images /\ m \in 1 .. Len(views)
      BY <2>2, <1>1 DEF Images
    <3>b. \A a \in Images : \A b \in 1 .. a : Len(views[b].arrays) <= Len(views[a].arrays)
      BY DEF TypeInv, ArraysKept
    <3>1. Len(views[m].arrays) <= Len(Own.arrays)
      BY <3>a, <3>b DEF Own
    <3>2. views'[m] = views[m] /\ views'[n] = new[n - Len(views)] /\ n - Len(views) \in 1 .. Len(new)
      BY <2>2, <1>1, <1>2, <1>3
    <3>3. views[m] \in View /\ Own \in View /\ new[n - Len(views)] \in View
      BY <1>1, <2>2, <3>2, ViewsFacts, ElementOfSeq DEF Own
    <3>4. /\ Len(views[m].arrays) \in Nat /\ Len(Own.arrays) \in Nat
          /\ Len(new[n - Len(views)].arrays) \in Nat
      BY <3>3, ViewFacts
    <3>5. Len(new[n - Len(views)].arrays) >= Len(Own.arrays)
      BY <3>2
    <3>6. Len(views[m].arrays) <= Len(new[n - Len(views)].arrays)
      BY <3>1, <3>4, <3>5, AtMost
    <3> QED BY <3>2, <3>6
  <2>3. CASE m > Len(views)
    <3>1. /\ views'[m] = new[m - Len(views)] /\ m - Len(views) \in 1 .. n - Len(views)
          /\ views'[n] = new[n - Len(views)] /\ n - Len(views) \in 1 .. Len(new)
      BY <2>3, <1>1, <1>2, <1>3
    <3>2. \A j \in 1 .. Len(new) : \A i \in 1 .. j : Len(new[i].arrays) <= Len(new[j].arrays)
      OBVIOUS
    <3>3. Len(new[m - Len(views)].arrays) <= Len(new[n - Len(views)].arrays)
      BY <3>1, <3>2
    <3> QED BY <3>1, <3>3
  <2>4. m \in Int /\ n \in Int /\ m <= n /\ Len(views) \in Int
    BY <1>1, <1>2, <1>3
  <2> QED BY <2>1, <2>2, <2>3, <2>4
<1>5. ArraysKept'
  BY <1>4 DEF ArraysKept, Images
<1> QED BY <1>1, <1>2, <1>5 DEF Memory

\* A store to bot_ appends one image with the same arrays.
LEMMA StoreBotFacts ==
  ASSUME TypeInv, NEW x \in Int, StoreBot(x)
  PROVE  /\ views' \in Buffers /\ ArraysKept' /\ Memory' = Memory
         /\ Own' = Image(x, Own.arrays)
         /\ Len(views') = Len(views) + 1
         /\ \A n \in Images : views'[n] = views[n]
<1>1. /\ views \in Buffers /\ Len(views) \in Nat \ {0} /\ Own \in View
      /\ Own.arrays \in Seq(Array) /\ Len(Own.arrays) \in Nat \ {0}
  BY ViewsFacts, ViewFacts DEF TypeInv, TypeOK, Buffers, Own
<1> DEFINE v == Image(x, Own.arrays)
<1>2. v \in View /\ v.arrays = Own.arrays
  BY <1>1, ImageType
<1> HIDE DEF v
<1>3. <<v>> \in Seq(View) /\ Len(<<v>>) = 1 /\ <<v>>[1] = v
  BY <1>2, OneImage
<1>4. views' = views \o <<v>>
  BY DEF StoreBot, v
<1>a. \A j \in 1 .. Len(<<v>>) :
        /\ Len(<<v>>[j].arrays) >= Len(Own.arrays)
        /\ \A i \in 1 .. j : Len(<<v>>[i].arrays) <= Len(<<v>>[j].arrays)
  BY <1>1, <1>2, <1>3
<1>5. views' \in Buffers /\ ArraysKept' /\ Memory' = Memory
  BY <1>3, <1>4, <1>a, ExtendKeeps
<1>6. /\ Len(views') = Len(views) + 1
      /\ \A n \in Images : views'[n] = views[n]
      /\ views'[Len(views) + 1] = v
  BY <1>1, <1>3, <1>4, ExtendFacts DEF Images
<1> QED BY <1>5, <1>6 DEF Own, v

\* The constructor establishes the types, and a buffer with its arrays in order.
THEOREM TypeInit == Init => TypeInv
<1> SUFFICES ASSUME Init PROVE TypeInv
  OBVIOUS
<1> DEFINE v == Image(0, <<NewArray(InitialCap)>>)
<1>1. NewArray(InitialCap) \in Array
  BY CapAssumption, NewArrayType
<1>2. <<NewArray(InitialCap)>> \in Seq(Array) /\ Len(<<NewArray(InitialCap)>>) = 1
  BY <1>1
<1>3. v \in View /\ v.arrays = <<NewArray(InitialCap)>>
  <2>1. Len(<<NewArray(InitialCap)>>) # 0 /\ 0 \in Int
    BY <1>2
  <2> QED BY <1>2, <2>1, ImageType
<1>4. views = <<v>>
  BY DEF Init, Image
<1> HIDE DEF v
<1>5. views \in Seq(View) /\ Len(views) = 1 /\ views[1] = v
  BY <1>3, <1>4, OneImage
<1>6. views # <<>>
  BY <1>5, EmptySeq
<1>7. \A s \in Thieves : thief[s] = Idle
  BY DEF Init
<1>8. thief \in [Thieves -> ThiefState]
  BY DEF Init, Idle, ThiefState
<1>9. \A s \in Thieves : thief[s].arr <= Len(Memory.arrays)
  BY <1>2, <1>3, <1>5, <1>7 DEF Idle, Memory
<1>10. ArraysKept
  BY <1>2, <1>3, <1>5 DEF ArraysKept, Images
<1> QED BY <1>5, <1>6, <1>8, <1>9, <1>10 DEF TypeInv, TypeOK, Init

\* Every step of the owner, of a thief and of the machine keeps the types.
THEOREM TypeStep == TypeInv /\ [Next]_vars => TypeInv'
<1> SUFFICES ASSUME TypeInv, [Next]_vars PROVE TypeInv'
  OBVIOUS
<1>0. /\ views \in Buffers /\ Len(views) \in Nat \ {0}
      /\ Own \in View /\ Memory \in View /\ Own.bot \in Int
      /\ Current(Own) \in Array /\ Memory.bot \in Int
      /\ Len(Memory.arrays) \in Nat \ {0}
      /\ Len(Own.arrays) \in Nat \ {0}
  BY ViewsFacts, ViewFacts DEF TypeInv, TypeOK, Buffers, Own, Memory
<1>a. TypeOK /\ ArraysKept
  BY DEF TypeInv
\* What the owner stores keeps Memory, where the thieves' arrays are.
<1>b. ASSUME views' \in Buffers, ArraysKept', Memory' = Memory, UNCHANGED thief,
             top' \in Nat, opc' \in {"idle", "fence", "cas", "destroyed"},
             pushed' \in SUBSET Tasks, handed' \in [Tasks -> Nat]
      PROVE  TypeInv'
  BY <1>b, <1>a DEF TypeInv, TypeOK, Buffers
<1>c. ASSUME NEW p \in Slot, HandOut(p)
      PROVE  handed' \in [Tasks -> Nat]
  BY <1>c, <1>a DEF HandOut, TypeOK
<1>d. ASSUME UNCHANGED views
      PROVE  views' \in Buffers /\ ArraysKept' /\ Memory' = Memory
  BY <1>d, <1>0, <1>a DEF ArraysKept, Images, Memory
<1>1. ASSUME NEW k \in Tasks, PushBottom(k) PROVE TypeInv'
  <2>1. PICK new \in Seq(View) :
           /\ views' = views \o new
           /\ \A j \in 1 .. Len(new) : Len(new[j].arrays) = Len(Arrays)
    BY <1>1, <1>a, PushViews
  <2>2. Len(Arrays) \in Nat /\ Len(Arrays) >= Len(Own.arrays)
    BY <1>a, <1>0, ArraysFacts
  <2>3. Len(new) \in Nat
    BY LenProperties
  <2>a. \A j \in 1 .. Len(new) :
          /\ Len(new[j].arrays) >= Len(Own.arrays)
          /\ \A i \in 1 .. j : Len(new[i].arrays) <= Len(new[j].arrays)
    BY <2>1, <2>2, <2>3
  <2>4. views' \in Buffers /\ ArraysKept' /\ Memory' = Memory
    BY <2>1, <2>a, ExtendKeeps
  <2> QED BY <1>1, <1>a, <1>b, <2>4 DEF PushBottom, TypeOK
<1>2. CASE PopDecrement
  <2>1. StoreBot(Own.bot - 1) /\ Own.bot - 1 \in Int
    BY <1>2, <1>0 DEF PopDecrement
  <2>2. views' \in Buffers /\ ArraysKept' /\ Memory' = Memory
    BY <2>1, StoreBotFacts
  <2> QED BY <1>2, <1>a, <1>b, <2>2 DEF PopDecrement, TypeOK
<1>3. CASE PopEmpty
  <2>1. StoreBot(Own.bot + 1) /\ Own.bot + 1 \in Int
    BY <1>3, <1>0 DEF PopEmpty, Empty, Restored
  <2>2. views' \in Buffers /\ ArraysKept' /\ Memory' = Memory
    BY <2>1, StoreBotFacts
  <2> QED BY <1>3, <1>a, <1>b, <2>2 DEF PopEmpty, Empty, Restored, TypeOK
<1>4. CASE PopInner
  <2>1. handed' \in [Tasks -> Nat]
    BY <1>4, <1>0, <1>c, GetType DEF PopInner
  <2> QED BY <1>4, <1>a, <1>b, <1>d, <2>1 DEF PopInner, TypeOK
<1>5. CASE PopLast
  BY <1>5, <1>a, <1>b, <1>d DEF PopLast, TypeOK
<1>6. CASE PopCas
  <2>1. StoreBot(Own.bot + 1) /\ Own.bot + 1 \in Int
    BY <1>6, <1>0 DEF PopCas
  <2>2. views' \in Buffers /\ ArraysKept' /\ Memory' = Memory
    BY <2>1, StoreBotFacts
  <2>3. handed' \in [Tasks -> Nat]
    BY <1>6, <1>0, <1>a, <1>c, GetType DEF PopCas, TypeOK
  <2>4. top' \in Nat
    BY <1>6, <1>a DEF PopCas, TypeOK
  <2> QED BY <1>6, <1>a, <1>b, <2>2, <2>3, <2>4 DEF PopCas, TypeOK
<1>7. CASE Destroy
  <2>1. handed' \in [Tasks -> Nat]
    BY <1>7, <1>a DEF Destroy, TypeOK
  <2> QED BY <1>7, <1>a, <1>b, <1>d, <2>1 DEF Destroy, TypeOK
<1>8. ASSUME NEW s \in Thieves, Steal(s) PROVE TypeInv'
  <2>1. UNCHANGED <<views, opc, pushed>>
    BY <1>8 DEF Steal, StealLoadTop, StealLoadBot, StealLoadArray, StealLoadSlot, StealCas, Unmoved
  <2>2. ArraysKept'
    BY <1>d, <2>1
  <2>3. SUFFICES /\ top' \in Nat /\ handed' \in [Tasks -> Nat]
                 /\ thief' \in [Thieves -> ThiefState]
                 /\ \A r \in Thieves : thief'[r].arr <= Len(Memory.arrays)
    BY <1>a, <1>d, <2>1, <2>2 DEF TypeInv, TypeOK
  <2>4. /\ thief \in [Thieves -> ThiefState] /\ top \in Nat
        /\ \A r \in Thieves : thief[r].arr <= Len(Memory.arrays)
        /\ handed \in [Tasks -> Nat]
    BY <1>a DEF TypeOK
  <2>5. Idle \in ThiefState /\ Idle.arr <= Len(Memory.arrays)
    BY <1>0 DEF Idle, ThiefState
  <2>6. CASE StealLoadTop(s)
    <3>1. thief' = [thief EXCEPT ![s].pc = "bot", ![s].t = top]
      BY <2>6 DEF StealLoadTop
    <3>2. thief' \in [Thieves -> ThiefState]
      BY <2>4, <3>1 DEF ThiefState
    <3>3. \A r \in Thieves : thief'[r].arr = thief[r].arr
      BY <2>4, <3>1 DEF ThiefState
    <3>4. top' = top /\ handed' = handed
      BY <2>6 DEF StealLoadTop
    <3>5. \A r \in Thieves : thief'[r].arr <= Len(Memory.arrays)
      BY <2>4, <3>3
    <3> QED BY <2>4, <3>2, <3>4, <3>5
  <2>7. CASE StealLoadBot(s)
    BY <2>7, <2>4, <2>5 DEF StealLoadBot, ThiefState
  <2>8. CASE StealLoadArray(s)
    <3>1. thief' = [thief EXCEPT ![s].pc = "slot", ![s].arr = Len(Memory.arrays)]
      BY <2>8 DEF StealLoadArray
    <3>2. thief' \in [Thieves -> ThiefState]
      BY <1>0, <2>4, <3>1 DEF ThiefState
    <3>3. \A r \in Thieves : thief'[r].arr = IF r = s THEN Len(Memory.arrays) ELSE thief[r].arr
      BY <2>4, <3>1 DEF ThiefState
    <3> QED BY <1>0, <2>4, <2>8, <3>2, <3>3 DEF StealLoadArray
  <2>9. CASE StealLoadSlot(s)
    <3> DEFINE p == Get(Memory.arrays[thief[s].arr], thief[s].t)
    <3>1. thief[s].arr \in 1 .. Len(Memory.arrays) /\ thief[s].t \in Int
      BY <2>4, <1>0 DEF ThiefState
    <3>2. p \in Slot
      BY <3>1, <1>0, ViewFacts, GetType
    <3> HIDE DEF p
    <3>3. thief' = [thief EXCEPT ![s].pc = "cas", ![s].raw = p]
      BY <2>9 DEF StealLoadSlot, p
    <3>4. thief' \in [Thieves -> ThiefState]
      BY <2>4, <3>2, <3>3 DEF ThiefState, Slot
    <3>5. \A r \in Thieves : thief'[r].arr = thief[r].arr
      BY <2>4, <3>3 DEF ThiefState
    <3>6. top' = top /\ handed' = handed
      BY <2>9 DEF StealLoadSlot
    <3>7. \A r \in Thieves : thief'[r].arr <= Len(Memory.arrays)
      BY <2>4, <3>5
    <3> QED BY <2>4, <3>4, <3>6, <3>7
  <2>10. CASE StealCas(s)
    <3>1. handed' \in [Tasks -> Nat]
      BY <2>10, <2>4, <1>c DEF StealCas, Unmoved, ThiefState, Slot
    <3> QED BY <2>10, <2>4, <2>5, <3>1 DEF StealCas, Unmoved
  <2> QED BY <1>8, <2>6, <2>7, <2>8, <2>9, <2>10 DEF Steal
<1>9. CASE Drain
  <2>1. /\ views' \in Buffers /\ Len(views') = Len(views) - 1
        /\ \A n \in 1 .. Len(views') : views'[n] = views[n+1]
    BY <1>9, <1>0, DrainFacts DEF Drain
  <2>2. ArraysKept'
    <3>1. SUFFICES ASSUME NEW n \in 1 .. Len(views'), NEW m \in 1 .. n
                   PROVE  Len(views'[m].arrays) <= Len(views'[n].arrays)
      BY DEF ArraysKept, Images
    <3>2. /\ n + 1 \in Images /\ m + 1 \in 1 .. n + 1
          /\ views'[n] = views[n+1] /\ views'[m] = views[m+1]
      BY <2>1, <1>0 DEF Images
    <3> QED BY <3>2, <1>a DEF ArraysKept
  <2>3. Memory' = views[2] /\ 2 \in Images /\ views[2] \in View
    BY <1>9, <1>0, <2>1, ViewsFacts DEF Memory, Drain, Images
  <2>4. Len(Memory.arrays) <= Len(Memory'.arrays) /\ Len(Memory'.arrays) \in Nat
    BY <2>3, <1>a, ViewFacts DEF ArraysKept, Memory
  <2>5. \A r \in Thieves : thief[r].arr \in Nat
    BY <1>a DEF TypeOK, ThiefState
  <2>6. \A r \in Thieves : thief[r].arr <= Len(Memory'.arrays)
    BY <1>0, <1>a, <2>4, <2>5 DEF TypeOK
  <2> QED BY <1>9, <1>a, <2>1, <2>2, <2>6 DEF Drain, TypeInv, TypeOK, Buffers
<1>10. CASE UNCHANGED vars
  <2>1. views' \in Buffers /\ ArraysKept' /\ Memory' = Memory
    BY <1>10, <1>d DEF vars
  <2> QED BY <1>10, <1>a, <1>b, <2>1 DEF vars, TypeOK
<1> QED BY <1>1, <1>2, <1>3, <1>4, <1>5, <1>6, <1>7, <1>8, <1>9, <1>10 DEF Next

\* The variables always have their types, whatever the machine does to the
\* order in which a grown array becomes visible.
THEOREM TypeCorrect == Spec => []TypeOK
<1>1. TypeInv => TypeOK
  BY DEF TypeInv
<1> QED BY <1>1, TypeInit, TypeStep, PTL DEF Spec

-----------------------------------------------------------------------------
(***************************************************************************)
(* The inductive invariant, on machines that keep the order of the stores. *)
(***************************************************************************)

\* What the invariant says of the indices and of the current array.
LEMMA Basics ==
  ASSUME IInv
  PROVE  /\ TypeInv /\ TypeOK
         /\ views \in Buffers /\ Len(views) \in Nat \ {0}
         /\ Own \in View /\ Memory \in View /\ Own.bot \in Int
         /\ Own.arrays \in Seq(Array) /\ Len(Own.arrays) \in Nat \ {0}
         /\ Current(Own) \in Array /\ Len(Current(Own)) \in Nat \ {0}
         /\ top \in Nat /\ Bottom \in Int
         /\ thief \in [Thieves -> ThiefState]
         /\ \A n \in Images : /\ views[n].bot \in Int
                             /\ Len(views[n].arrays) \in Nat \ {0}
<1>1. TypeInv /\ TypeOK
  BY DEF IInv, TypeInv
<1>2. views \in Buffers
  BY <1>1 DEF TypeOK, Buffers
<1>3. /\ Len(views) \in Nat \ {0} /\ Own \in View /\ Memory \in View
      /\ \A n \in Images : views[n] \in View
  BY <1>2, ViewsFacts DEF Own, Memory, Images
<1>4. /\ Own.bot \in Int
      /\ Own.arrays \in Seq(Array) /\ Len(Own.arrays) \in Nat \ {0}
      /\ Current(Own) \in Array
      /\ \A n \in Images : /\ views[n].bot \in Int
                          /\ Len(views[n].arrays) \in Nat \ {0}
  BY <1>3, ViewFacts
<1>5. Bottom \in Int
  BY <1>4 DEF Bottom
<1>6. Len(Current(Own)) \in Nat \ {0}
  BY <1>4, ArrayLen
<1> QED BY <1>1, <1>2, <1>3, <1>4, <1>5, <1>6 DEF TypeOK

\* The owner's last array, after the growth if there is one, holds the live
\* entries and has room for one more.
LEMMA GrownArray ==
  ASSUME IInv, opc = "idle"
  PROVE  /\ Arrays[Len(Arrays)] \in Array
         /\ Own.bot - top < Len(Arrays[Len(Arrays)]) - 1
         /\ \A i \in top .. Own.bot - 1 : Get(Arrays[Len(Arrays)], i) = Item(i)
<1>1. /\ Current(Own) \in Array /\ Len(Current(Own)) \in Nat \ {0}
      /\ Own.bot \in Int /\ top \in Int /\ TypeOK
  BY Basics
<1>2. Own.bot - top < Len(Current(Own))
  BY DEF IInv, Room, Bottom
<1>3. CASE Full
  <2>1. Arrays[Len(Arrays)] = Grow(Current(Own), Own.bot, top)
    BY <1>1, <1>3, ArraysFacts
  <2>2. Own.bot - top <= 2 * Len(Current(Own))
    BY <1>1, <1>2
  <2>3. /\ Grow(Current(Own), Own.bot, top) \in Array
        /\ Len(Grow(Current(Own), Own.bot, top)) = 2 * Len(Current(Own))
        /\ \A i \in top .. Own.bot - 1 :
             Get(Grow(Current(Own), Own.bot, top), i) = Get(Current(Own), i)
    BY <1>1, <2>2, GrowFacts
  <2> QED BY <1>1, <1>2, <2>1, <2>3 DEF Item
<1>4. CASE ~Full
  <2>1. Arrays[Len(Arrays)] = Current(Own)
    BY <1>1, <1>4, ArraysFacts DEF Current
  <2> QED BY <1>1, <1>4, <2>1 DEF Full, Item
<1> QED BY <1>3, <1>4

\* What the new images of a push show at the indices that were live before.
LEMMA PushShows ==
  ASSUME IInv, NEW k \in Tasks, PushBottom(k),
         NEW as \in {Arrays, Stored(k)}, NEW i \in top .. Own.bot - 1
  PROVE  /\ \A a \in 1 .. Len(Own.arrays) : Get(as[a], i) = Get(Own.arrays[a], i)
         /\ \A a \in Len(Own.arrays) .. Len(Arrays) : Get(as[a], i) = Item(i)
<1>1. /\ TypeOK /\ opc = "idle" /\ Own.bot \in Int /\ top \in Int /\ i \in Int
      /\ Len(Own.arrays) \in Nat \ {0}
  BY Basics DEF PushBottom
<1> DEFINE A == Arrays[Len(Arrays)]
<1>2. A \in Array /\ Own.bot - top < Len(A) - 1 /\ Get(A, i) = Item(i)
  BY <1>1, GrownArray
<1>3. Get(Put(A, Own.bot, k), i) = Item(i)
  <2>1. i < Own.bot /\ Own.bot - i < Len(A)
    BY <1>1, <1>2, ArrayLen
  <2>2. k \in Slot
    BY DEF Slot
  <2> QED BY <1>1, <1>2, <2>1, <2>2, PutFacts
<1>4. Len(Arrays) \in Nat \ {0}
  BY <1>1, ArraysFacts
<1>5. Get(as[Len(Arrays)], i) = Item(i)
  BY <1>1, <1>2, <1>3, StoredFacts
<1>6. \A a \in 1 .. Len(Arrays) - 1 : as[a] = Arrays[a]
  BY <1>1, StoredFacts
<1>7. Get(Own.arrays[Len(Own.arrays)], i) = Item(i)
  BY DEF Item, Current
<1>8. CASE Full
  <2>1. /\ Len(Arrays) = Len(Own.arrays) + 1
        /\ \A a \in 1 .. Len(Own.arrays) : Arrays[a] = Own.arrays[a]
    BY <1>1, <1>8, ArraysFacts
  <2>2. ASSUME NEW a \in 1 .. Len(Own.arrays) PROVE as[a] = Own.arrays[a]
    <3>1. a \in 1 .. Len(Arrays) - 1
      BY <1>1, <2>1
    <3> QED BY <1>6, <2>1, <3>1
  <2>3. ASSUME NEW a \in Len(Own.arrays) .. Len(Arrays) PROVE Get(as[a], i) = Item(i)
    <3>1. a = Len(Arrays) \/ a = Len(Own.arrays)
      BY <1>1, <2>1
    <3>2. Len(Own.arrays) \in 1 .. Len(Own.arrays)
      BY <1>1
    <3>3. as[Len(Own.arrays)] = Own.arrays[Len(Own.arrays)]
      BY <2>2, <3>2
    <3> QED BY <1>5, <1>7, <3>1, <3>3
  <2> QED BY <2>2, <2>3
<1>9. CASE ~Full
  <2>1. Arrays = Own.arrays
    BY <1>1, <1>9, ArraysFacts
  <2>2. ASSUME NEW a \in 1 .. Len(Own.arrays)
        PROVE  Get(as[a], i) = Get(Own.arrays[a], i)
    <3>1. a = Len(Arrays) \/ a \in 1 .. Len(Arrays) - 1
      BY <1>1, <2>1
    <3> QED BY <1>5, <1>6, <1>7, <2>1, <3>1
  <2>3. ASSUME NEW a \in Len(Own.arrays) .. Len(Arrays) PROVE Get(as[a], i) = Item(i)
    <3>1. a = Len(Arrays)
      BY <1>1, <2>1
    <3> QED BY <1>5, <3>1
  <2> QED BY <2>2, <2>3
<1> QED BY <1>8, <1>9

\* After a push the owner sees the old entries, and the new task below them.
LEMMA PushOwn ==
  ASSUME IInv, NEW k \in Tasks, PushBottom(k), Own' = Image(Own.bot + 1, Stored(k))
  PROVE  /\ \A i \in top .. Own.bot - 1 : Item(i)' = Item(i)
         /\ \A i \in {Own.bot} : Item(i)' = k
         /\ Own.bot + 1 - top < Len(Current(Own)')
         /\ Own'.bot = Own.bot + 1
<1>1. /\ TypeOK /\ opc = "idle" /\ Own.bot \in Int /\ top \in Int
      /\ Len(Own.arrays) \in Nat \ {0} /\ k \in Slot
  BY Basics DEF PushBottom, Slot
<1> DEFINE A == Arrays[Len(Arrays)]
<1>2. A \in Array /\ Own.bot - top < Len(A) - 1
  BY <1>1, GrownArray
<1>3. Len(Arrays) \in Nat \ {0}
  BY <1>1, ArraysFacts
<1>4. /\ Stored(k) \in Seq(Array) /\ Len(Stored(k)) = Len(Arrays)
      /\ Stored(k)[Len(Arrays)] = Put(A, Own.bot, k)
  BY <1>1, StoredFacts
<1>5. Own'.arrays = Stored(k) /\ Own'.bot = Own.bot + 1
  BY DEF Image
<1>6. Current(Own') = Put(A, Own.bot, k)
  BY <1>4, <1>5 DEF Current
<1>7. Len(Put(A, Own.bot, k)) = Len(A) /\ Get(Put(A, Own.bot, k), Own.bot) = k
  BY <1>1, <1>2, PutFacts
<1>8. \A i \in top .. Own.bot - 1 : Get(Stored(k)[Len(Arrays)], i) = Item(i)
  <2> TAKE i \in top .. Own.bot - 1
  <2>1. Len(Arrays) \in Len(Own.arrays) .. Len(Arrays)
    BY <1>1, <1>3, ArraysFacts
  <2> QED BY <2>1, PushShows
<1>9. Own.bot + 1 - top < Len(A)
  BY <1>1, <1>2, ArrayLen
<1>10. \A i \in Int : Item(i)' = Get(Put(A, Own.bot, k), i)
  BY <1>6 DEF Item
<1>11. \A i \in top .. Own.bot - 1 : Item(i)' = Item(i)
  <2> TAKE i \in top .. Own.bot - 1
  <2>1. i \in Int
    BY <1>1
  <2> QED BY <1>4, <1>8, <1>10, <2>1
<1>12. \A i \in {Own.bot} : Item(i)' = k
  BY <1>1, <1>7, <1>10
<1> QED BY <1>5, <1>6, <1>7, <1>9, <1>11, <1>12

-----------------------------------------------------------------------------
(***************************************************************************)
(* One lemma per kind of owner step.                                       *)
(***************************************************************************)

\* push_bottom preserves the invariant, growing or not.
LEMMA PushPreserves ==
  ASSUME IInv, InstallReleases, TypeInv', NEW k \in Tasks, PushBottom(k)
  PROVE  IInv'
<1> DEFINE b == Own.bot
           L == Len(views)
<1>0. /\ TypeOK /\ views \in Buffers /\ L \in Nat \ {0} /\ b \in Int /\ top \in Nat
      /\ Own \in View /\ Len(Own.arrays) \in Nat \ {0}
      /\ thief \in [Thieves -> ThiefState]
      /\ \A n \in Images : views[n].bot \in Int /\ Len(views[n].arrays) \in Nat \ {0}
  BY Basics
<1>1. /\ opc = "idle" /\ opc' = "idle" /\ top' = top /\ thief' = thief
      /\ k \notin pushed /\ pushed' = pushed \cup {k} /\ handed' = handed
  BY DEF PushBottom
<1>2. PICK new \in Seq(View) :
        /\ views' = views \o new
        /\ Len(new) \in Nat \ {0}
        /\ new[Len(new)] = Image(b + 1, Stored(k))
        /\ \A j \in 1 .. Len(new) : Len(new[j].arrays) = Len(Arrays)
        /\ \A j \in 1 .. Len(new) :
             \/ j = Len(new)
             \/ new[j] = Image(b, Stored(k))
             \/ new[j] = Image(b, Arrays) /\ Full
  BY <1>0, PushViews
<1> DEFINE E == Len(views')
<1>3. /\ E = L + Len(new) /\ E \in Nat /\ L < E
      /\ \A n \in 1..L : views'[n] = views[n]
      /\ \A n \in L+1..E : views'[n] = new[n - L] /\ n - L \in 1 .. Len(new)
  BY <1>0, <1>2, ExtendFacts
<1>4. Own' = Image(b + 1, Stored(k)) /\ Memory' = Memory
  BY <1>0, <1>2, <1>3 DEF Own, Memory
<1>5. /\ \A i \in top .. b - 1 : Item(i)' = Item(i)
      /\ \A i \in {b} : Item(i)' = k
      /\ b + 1 - top < Len(Current(Own)')
      /\ Own'.bot = b + 1
  BY <1>4, PushOwn
<1>6. Bottom = b /\ Bottom' = b + 1 /\ top <= b
  BY <1>1, <1>5 DEF Bottom, IInv, Room
<1>7. Len(Arrays) \in Nat /\ Len(Own.arrays) <= Len(Arrays) /\ Len(Stored(k)) = Len(Arrays)
  BY <1>0, ArraysFacts, StoredFacts
\* The new images.
<1>8. ASSUME NEW n \in L+1..E
      PROVE  /\ views'[n].bot = IF n = E THEN b + 1 ELSE b
             /\ Len(views'[n].arrays) = Len(Arrays)
             /\ views'[n].arrays \in {Arrays, Stored(k)}
  <2>1. /\ n - L \in 1 .. Len(new) /\ views'[n] = new[n - L]
        /\ n - L = Len(new) <=> n = E
    BY <1>0, <1>2, <1>3
  <2>2. \/ n = E /\ views'[n] = Image(b + 1, Stored(k))
        \/ n # E /\ views'[n] \in {Image(b, Stored(k)), Image(b, Arrays)}
    BY <1>2, <2>1
  <2> QED BY <1>2, <2>1, <2>2 DEF Image
<1>9. ASSUME NEW n \in L+1..E, NEW i \in top .. b - 1
      PROVE  /\ \A a \in 1 .. Len(Own.arrays) :
                  Get(views'[n].arrays[a], i) = Get(Own.arrays[a], i)
             /\ \A a \in Len(Own.arrays) .. Len(Arrays) :
                  Get(views'[n].arrays[a], i) = Item(i)
  BY <1>8, PushShows
<1> HIDE DEF b, L, E
<1>10. Room'
  BY <1>1, <1>5, <1>6, <1>0 DEF Room
<1>11. BottomsKept'
  <2> SUFFICES ASSUME NEW n \in 1..E PROVE views'[n].bot <= b + 1
    BY <1>6 DEF BottomsKept, Images, E
  <2>1. CASE n \in 1..L
    BY <1>0, <1>3, <1>6, <2>1 DEF IInv, BottomsKept, Images, L
  <2>2. CASE n \in L+1..E
    BY <1>0, <1>8, <2>2
  <2> QED BY <1>0, <1>3, <2>1, <2>2
<1>12. Published'
  <2> SUFFICES ASSUME NEW n \in 1..E, NEW m \in 1..n, NEW i \in top .. views'[m].bot - 1,
                      NEW a \in Len(views'[m].arrays) .. Len(views'[n].arrays)
               PROVE  Get(views'[n].arrays[a], i) = Item(i)'
    BY <1>1 DEF Published, Shows, Images, E
  <2>0. /\ n \in 1..L \/ n \in L+1..E
        /\ m \in 1..L \/ m \in L+1..E
    BY <1>0, <1>3
  <2>1. ASSUME m \in 1..L
        PROVE  /\ views'[m] = views[m] /\ i \in top .. views[m].bot - 1 /\ i \in top .. b - 1
               /\ Item(i)' = Item(i) /\ m \in Images
    <3>1. views'[m] = views[m] /\ m \in Images
      BY <2>1, <1>3 DEF Images, L
    <3>2. views[m].bot <= b /\ views[m].bot \in Int
      BY <3>1, <1>0, <1>6 DEF IInv, BottomsKept
    <3> QED BY <3>1, <3>2, <1>0, <1>5
  <2>2. CASE n \in 1..L
    <3>1. m \in 1..L /\ n \in Images /\ views'[n] = views[n]
      BY <2>2, <1>0, <1>3 DEF Images, L
    <3>2. Shows(views[m], views[n])
      BY <3>1 DEF IInv, Published
    <3> QED BY <2>1, <3>1, <3>2 DEF Shows
  <2>3. CASE n \in L+1..E /\ m \in 1..L
    <3>1. /\ a \in Len(views[m].arrays) .. Len(Arrays) /\ Len(views[m].arrays) \in Nat \ {0}
      BY <2>1, <2>3, <1>0, <1>8
    <3>2. CASE a <= Len(Own.arrays)
      <4>1. L \in Images /\ m \in 1..L
        BY <1>0, <2>3 DEF Images, L
      <4>2. Shows(views[m], Own)
        BY <4>1 DEF IInv, Published, Own, L
      <4>3. Get(Own.arrays[a], i) = Item(i)
        BY <2>1, <2>3, <3>1, <3>2, <4>2, <1>0 DEF Shows
      <4>4. a \in 1 .. Len(Own.arrays)
        BY <3>1, <3>2, <1>0
      <4> QED BY <1>9, <2>1, <2>3, <4>3, <4>4
    <3>3. CASE a > Len(Own.arrays)
      <4>1. a \in Len(Own.arrays) .. Len(Arrays)
        BY <3>1, <3>3, <1>0, <1>7
      <4> QED BY <1>9, <2>1, <2>3, <4>1
    <3> QED BY <3>1, <3>2, <3>3, <1>0
  <2>4. CASE n \in L+1..E /\ m \in L+1..E
    <3>1. a = Len(Arrays) /\ a \in Len(Own.arrays) .. Len(Arrays)
      BY <2>4, <1>8, <1>7, <1>0
    <3>2. CASE i \in top .. b - 1
      BY <3>1, <3>2, <1>5, <1>9, <2>4
    <3>3. CASE i \notin top .. b - 1
      <4>1. m = E /\ i = b
        BY <3>3, <2>4, <1>8, <1>0
      <4>2. n = E
        BY <4>1, <1>3, <1>0
      <4>3. views'[n] = Own' /\ Len(Own'.arrays) = Len(Arrays)
        BY <4>2, <1>4, <1>7 DEF Own, E, Image
      <4> QED BY <3>1, <4>3 DEF Item, Current
    <3> QED BY <3>2, <3>3
  <2>5. n \in 1..L => m \in 1..L
    BY <1>0
  <2> QED BY <2>0, <2>2, <2>3, <2>4
<1>13. ThiefReads'
  <2> SUFFICES ASSUME NEW s \in Thieves
               PROVE /\ thief[s].t <= top
                     /\ Engaged(s) =>
                          /\ top < b + 1
                          /\ thief[s].pc = "cas" => thief[s].raw = Item(top)'
                          /\ thief[s].pc # "cas" =>
                               LET from == IF thief[s].pc = "array" THEN Len(Memory.arrays)
                                                                    ELSE thief[s].arr
                               IN \A n \in 1..E : \A a \in from .. Len(views'[n].arrays) :
                                    Get(views'[n].arrays[a], top) = Item(top)'
    BY <1>1, <1>4, <1>6 DEF ThiefReads, Engaged, Images, E
  <2>1. thief[s].t <= top
    BY DEF IInv, ThiefReads
  <2> SUFFICES ASSUME Engaged(s)
               PROVE  /\ top < b + 1
                      /\ thief[s].pc = "cas" => thief[s].raw = Item(top)'
                      /\ thief[s].pc # "cas" =>
                               LET from == IF thief[s].pc = "array" THEN Len(Memory.arrays)
                                                                    ELSE thief[s].arr
                               IN \A n \in 1..E : \A a \in from .. Len(views'[n].arrays) :
                                    Get(views'[n].arrays[a], top) = Item(top)'
    BY <2>1
  <2>2. top < b /\ top \in top .. b - 1
    BY <1>0, <1>6 DEF IInv, ThiefReads
  <2>3. Item(top)' = Item(top)
    BY <2>2, <1>1, <1>5
  <2>4. thief[s].pc = "cas" => thief[s].raw = Item(top)
    BY DEF IInv, ThiefReads
  <2> DEFINE from == IF thief[s].pc = "array" THEN Len(Memory.arrays) ELSE thief[s].arr
  <2>5. ASSUME thief[s].pc # "cas"
        PROVE  \A n \in Images : \A a \in from .. Len(views[n].arrays) :
                 Get(views[n].arrays[a], top) = Item(top)
    BY <2>5 DEF IInv, ThiefReads
  <2>6. from \in Nat \ {0}
    BY <1>0, ViewsFacts, ViewFacts DEF ThiefState, Memory
  <2>7. ASSUME thief[s].pc # "cas", NEW n \in 1..E, NEW a \in from .. Len(views'[n].arrays)
        PROVE  Get(views'[n].arrays[a], top) = Item(top)
    <3>1. CASE n \in 1..L
      BY <3>1, <2>5, <2>7, <1>3 DEF Images, L
    <3>2. CASE n \in L+1..E /\ a <= Len(Own.arrays)
      <4>1. L \in Images /\ a \in from .. Len(Own.arrays) /\ a \in 1 .. Len(Own.arrays)
        BY <1>0, <3>2, <2>6 DEF Images, L
      <4>2. Get(Own.arrays[a], top) = Item(top)
        BY <4>1, <2>5, <2>7 DEF Own, L
      <4> QED BY <1>9, <2>2, <3>2, <4>1, <4>2
    <3>3. CASE n \in L+1..E /\ a > Len(Own.arrays)
      <4>1. a \in Len(Own.arrays) .. Len(Arrays)
        BY <3>3, <1>0, <1>7, <1>8, <2>6
      <4> QED BY <1>9, <2>2, <3>3, <4>1
    <3>4. a \in Int
      BY <2>6
    <3> QED BY <3>1, <3>2, <3>3, <3>4, <1>0, <1>3
  <2> HIDE DEF from
  <2>8. top < b + 1
    BY <2>2, <1>0
  <2> QED BY <2>3, <2>4, <2>7, <2>8 DEF from
<1>14. Accounted'
  <2>1. Live = top .. b - 1 /\ Live' = top .. b
    BY <1>1, <1>6, <1>0 DEF Live
  <2>2. /\ \A i \in Live : Item(i)' = Item(i) /\ Item(i) \in pushed
        /\ \A i, j \in Live : i # j => Item(i) # Item(j)
        /\ \A i \in {b} : Item(i)' = k
        /\ Live' = Live \cup {b}
    BY <2>1, <1>0, <1>5, <1>6 DEF IInv, Accounted
  <2>3. \A i, j \in Live' : i # j => Item(i)' # Item(j)'
    BY <2>2, <1>1
  <2>4. \A i \in Live' : Item(i)' \in pushed'
    BY <2>2, <1>1
  <2>5. /\ \A x \in pushed : handed[x] = IF \E i \in Live : Item(i) = x THEN 0 ELSE 1
        /\ \A x \in Tasks \ pushed : handed[x] = 0
    BY DEF IInv, Accounted
  <2>6. \A x \in pushed' : handed'[x] = IF \E i \in Live' : Item(i)' = x THEN 0 ELSE 1
    <3> TAKE x \in pushed'
    <3>1. CASE x = k
      BY <3>1, <2>2, <2>5, <1>1
    <3>2. CASE x # k
      <4>1. x \in pushed /\ ((\E i \in Live' : Item(i)' = x) <=> (\E i \in Live : Item(i) = x))
        BY <3>2, <2>2, <1>1
      <4> QED BY <4>1, <2>5, <1>1
    <3> QED BY <3>1, <3>2
  <2>7. \A x \in Tasks \ pushed' : handed'[x] = 0
    BY <2>5, <1>1
  <2> QED BY <2>3, <2>4, <2>6, <2>7 DEF Accounted
<1>15. OwnerPlace'
  BY <1>1 DEF OwnerPlace
<1> QED BY <1>10, <1>11, <1>12, <1>13, <1>14, <1>15 DEF IInv, TypeInv

\* A store to bot_ alone shows thieves nothing new.
LEMMA StoreBotKeeps ==
  ASSUME IInv, NEW x \in Int, StoreBot(x), x <= Bottom, Bottom' = Bottom,
         UNCHANGED thief, top' \in {top, top + 1}
  PROVE  /\ BottomsKept' /\ Published' /\ ThiefReads'
         /\ \A i \in Int : Item(i)' = Item(i)
         /\ Current(Own)' = Current(Own) /\ Own'.bot = x
<1> DEFINE L == Len(views)
<1>0. /\ TypeInv /\ L \in Nat \ {0} /\ top \in Nat /\ Bottom \in Int
      /\ Len(Own.arrays) \in Nat \ {0} /\ thief \in [Thieves -> ThiefState]
      /\ Len(Memory.arrays) \in Nat \ {0}
      /\ \A n \in Images : views[n].bot \in Int /\ Len(views[n].arrays) \in Nat \ {0}
  BY Basics, ViewFacts
<1>1. /\ Own' = Image(x, Own.arrays) /\ Memory' = Memory
      /\ Len(views') = L + 1
      /\ \A n \in 1..L : views'[n] = views[n]
  BY <1>0, StoreBotFacts DEF Images
<1>2. views'[L + 1].bot = x /\ views'[L + 1].arrays = Own.arrays
  BY <1>1 DEF Own, Image
<1>3. Current(Own)' = Current(Own) /\ Own'.bot = x
  BY <1>1 DEF Current, Image
<1>4. \A i \in Int : Item(i)' = Item(i)
  BY <1>3 DEF Item
<1>5. views[L] = Own /\ L \in Images /\ Images = 1..L /\ Images' = 1 .. L+1
  BY <1>0, <1>1 DEF Own, Images
<1> HIDE DEF L
<1>6. BottomsKept'
  <2> SUFFICES ASSUME NEW n \in 1 .. L+1 PROVE views'[n].bot <= Bottom
    BY <1>5 DEF BottomsKept
  <2>1. CASE n \in 1..L
    BY <2>1, <1>1, <1>5 DEF IInv, BottomsKept
  <2>2. CASE n = L + 1
    BY <2>2, <1>2
  <2> QED BY <1>0, <2>1, <2>2
<1>7. Published'
  <2> SUFFICES ASSUME NEW n \in 1 .. L+1, NEW m \in 1..n, NEW i \in top' .. views'[m].bot - 1,
                      NEW a \in Len(views'[m].arrays) .. Len(views'[n].arrays)
               PROVE  Get(views'[n].arrays[a], i) = Item(i)'
    BY <1>5 DEF Published, Shows
  <2>1. CASE m \in 1..L
    <3>1. /\ i \in top .. views[m].bot - 1 /\ i \in Int /\ views'[m] = views[m]
      BY <2>1, <1>0, <1>1, <1>5
    <3>2. PICK o \in 1..L : m \in 1..o /\ views'[n].arrays = views[o].arrays
      <4>1. CASE n \in 1..L
        BY <4>1, <1>1
      <4>2. CASE n = L + 1
        BY <4>2, <1>0, <1>2, <1>5, <2>1
      <4> QED BY <4>1, <4>2, <1>0
    <3>3. Shows(views[m], views[o])
      BY <3>2, <1>5 DEF IInv, Published
    <3>4. Get(views[o].arrays[a], i) = Item(i)
      BY <3>1, <3>2, <3>3 DEF Shows
    <3> QED BY <3>1, <3>2, <3>4, <1>4
  <2>2. CASE m = L + 1
    <3>1. n = L + 1 /\ a = Len(Own.arrays) /\ i \in Int
      BY <2>2, <1>0, <1>2
    <3> QED BY <3>1, <1>2, <1>4 DEF Item, Current
  <2> QED BY <2>1, <2>2, <1>0
<1>8. ThiefReads'
  <2>1. \A s \in Thieves : thief[s].t <= top /\ thief[s].t \in Nat
    BY <1>0 DEF IInv, ThiefReads, ThiefState
  <2>2. CASE top' = top + 1
    <3>1. \A s \in Thieves : thief'[s].t <= top' /\ ~(thief'[s].t = top')
      BY <2>1, <2>2, <1>0
    <3> QED BY <3>1 DEF ThiefReads, Engaged
  <2>3. CASE top' = top
    <3> SUFFICES ASSUME NEW s \in Thieves, Engaged(s)
                 PROVE  /\ top < Bottom
                        /\ thief[s].pc = "cas" => thief[s].raw = Item(top)
                        /\ thief[s].pc # "cas" =>
                             LET from == IF thief[s].pc = "array" THEN Len(Memory.arrays)
                                                                  ELSE thief[s].arr
                             IN \A n \in 1 .. L+1 : \A a \in from .. Len(views'[n].arrays) :
                                  Get(views'[n].arrays[a], top) = Item(top)
      BY <2>1, <2>3, <1>0, <1>1, <1>4, <1>5 DEF ThiefReads, Engaged
    <3> DEFINE from == IF thief[s].pc = "array" THEN Len(Memory.arrays) ELSE thief[s].arr
    <3>1. /\ top < Bottom
          /\ thief[s].pc = "cas" => thief[s].raw = Item(top)
          /\ thief[s].pc # "cas" =>
               \A n \in 1..L : \A a \in from .. Len(views[n].arrays) :
                 Get(views[n].arrays[a], top) = Item(top)
      BY <1>5 DEF IInv, ThiefReads
    <3>2. \A n \in 1 .. L+1 : \E o \in 1..L : views'[n].arrays = views[o].arrays
      <4> TAKE n \in 1 .. L+1
      <4>1. CASE n \in 1..L
        BY <4>1, <1>1
      <4>2. CASE n = L + 1
        BY <4>2, <1>0, <1>2, <1>5
      <4> QED BY <4>1, <4>2, <1>0
    <3> HIDE DEF from
    <3>3. thief[s].pc # "cas" =>
            \A n \in 1 .. L+1 : \A a \in from .. Len(views'[n].arrays) :
              Get(views'[n].arrays[a], top) = Item(top)
      BY <3>1, <3>2
    <3> QED BY <3>1, <3>3 DEF from
  <2> QED BY <2>2, <2>3
<1> QED BY <1>3, <1>4, <1>6, <1>7, <1>8

\* The account after a step that hands out nothing, ...
LEMMA AccountKept ==
  ASSUME Accounted, Live' = Live, Live \subseteq Int, UNCHANGED <<pushed, handed>>,
         \A i \in Int : Item(i)' = Item(i)
  PROVE  Accounted'
<1>1. \A i \in Live : Item(i)' = Item(i)
  OBVIOUS
<1> QED BY <1>1 DEF Accounted

\* ... and after one that hands out the task of one live index.
LEMMA AccountHandOut ==
  ASSUME TypeOK, Accounted, NEW h \in Live, HandOut(Item(h)), Live' = Live \ {h},
         Live \subseteq Int, UNCHANGED pushed,
         \A i \in Int : Item(i)' = Item(i)
  PROVE  Accounted'
<1>1. \A i \in Live : Item(i)' = Item(i)
  OBVIOUS
<1>2. Item(h) \in pushed /\ Item(h) \in Tasks
  BY DEF Accounted, TypeOK
<1>3. handed' = [handed EXCEPT ![Item(h)] = @ + 1] /\ handed \in [Tasks -> Nat]
  BY <1>2 DEF HandOut, TypeOK
<1>4. \A i, j \in Live : i # j => Item(i) # Item(j)
  BY DEF Accounted
<1>5. \A k \in pushed : handed[k] = IF \E i \in Live : Item(i) = k THEN 0 ELSE 1
  BY DEF Accounted
<1>6. \A k \in pushed : handed'[k] = IF \E i \in Live' : Item(i)' = k THEN 0 ELSE 1
  <2> TAKE k \in pushed
  <2>0. k \in Tasks
    BY DEF TypeOK
  <2>1. CASE k = Item(h)
    <3>1. ~ \E i \in Live' : Item(i)' = k
      BY <2>1, <1>1, <1>4
    <3>2. handed[k] = 0
      BY <2>1, <1>5
    <3> QED BY <2>0, <2>1, <3>1, <3>2, <1>3
  <2>2. CASE k # Item(h)
    <3>1. (\E i \in Live' : Item(i)' = k) <=> (\E i \in Live : Item(i) = k)
      BY <2>2, <1>1
    <3>2. handed'[k] = handed[k]
      BY <2>0, <2>2, <1>3
    <3> QED BY <3>1, <3>2, <1>5
  <2> QED BY <2>1, <2>2
<1>7. \A k \in Tasks \ pushed : handed'[k] = 0
  BY <1>2, <1>3 DEF Accounted
<1>8. /\ \A i, j \in Live' : i # j => Item(i)' # Item(j)'
      /\ \A i \in Live' : Item(i)' \in pushed'
  BY <1>1, <1>4 DEF Accounted
<1> QED BY <1>6, <1>7, <1>8 DEF Accounted

\* The claim of the bottom index by pop_bottom preserves the invariant.
LEMMA PopDecrementPreserves ==
  ASSUME IInv, TypeInv', PopDecrement PROVE IInv'
<1>0. /\ Own.bot \in Int /\ top \in Nat /\ Bottom \in Int /\ TypeInv
  BY Basics
<1>1. /\ StoreBot(Own.bot - 1) /\ opc = "idle" /\ opc' = "fence"
      /\ UNCHANGED <<top, thief, pushed, handed>>
  BY DEF PopDecrement
<1>2. Own'.bot = Own.bot - 1
  BY <1>0, <1>1, StoreBotFacts DEF Image
<1>3. Bottom' = Bottom /\ Bottom = Own.bot
  BY <1>0, <1>1, <1>2 DEF Bottom
<1>4. /\ BottomsKept' /\ Published' /\ ThiefReads' /\ Current(Own)' = Current(Own)
      /\ \A i \in Int : Item(i)' = Item(i)
  BY <1>0, <1>1, <1>3, StoreBotKeeps
<1>5. Room'
  BY <1>1, <1>3, <1>4 DEF IInv, Room
<1>6. Live' = Live /\ Live \subseteq Int
  BY <1>0, <1>1, <1>3 DEF Live
<1>7. Accounted'
  BY <1>1, <1>4, <1>6, AccountKept DEF IInv
<1>8. OwnerPlace'
  BY <1>1 DEF OwnerPlace
<1> QED BY <1>4, <1>5, <1>7, <1>8 DEF IInv, TypeInv

\* Restoring bot_ on an empty deque preserves the invariant.
LEMMA PopEmptyPreserves ==
  ASSUME IInv, TypeInv', PopEmpty PROVE IInv'
<1>0. /\ Own.bot \in Int /\ top \in Nat /\ Bottom \in Int /\ TypeInv
  BY Basics
<1>1. /\ StoreBot(Own.bot + 1) /\ opc = "fence" /\ opc' = "idle"
      /\ UNCHANGED <<top, thief, pushed, handed>>
  BY DEF PopEmpty, Empty, Restored
<1>2. Own'.bot = Own.bot + 1
  BY <1>0, <1>1, StoreBotFacts DEF Image
<1>3. Bottom' = Bottom /\ Bottom = Own.bot + 1
  BY <1>0, <1>1, <1>2 DEF Bottom
<1>4. /\ BottomsKept' /\ Published' /\ ThiefReads' /\ Current(Own)' = Current(Own)
      /\ \A i \in Int : Item(i)' = Item(i)
  BY <1>0, <1>1, <1>3, StoreBotKeeps
<1>5. Room'
  BY <1>1, <1>3, <1>4 DEF IInv, Room
<1>6. Live' = Live /\ Live \subseteq Int
  BY <1>0, <1>1, <1>3 DEF Live
<1>7. Accounted'
  BY <1>1, <1>4, <1>6, AccountKept DEF IInv
<1>8. OwnerPlace'
  BY <1>1 DEF OwnerPlace
<1> QED BY <1>4, <1>5, <1>7, <1>8 DEF IInv, TypeInv

\* The race for the last task preserves the invariant, won or lost.
LEMMA PopCasPreserves ==
  ASSUME IInv, TypeInv', PopCas PROVE IInv'
<1>0. /\ Own.bot \in Int /\ top \in Nat /\ Bottom \in Int /\ TypeInv /\ TypeOK
  BY Basics
<1>1. /\ StoreBot(Own.bot + 1) /\ opc = "cas" /\ opc' = "idle"
      /\ UNCHANGED <<thief, pushed>>
      /\ IF top = Own.bot THEN top' = Own.bot + 1 /\ HandOut(Item(Own.bot))
                          ELSE UNCHANGED <<top, handed>>
  BY DEF PopCas, Item
<1>2. Own'.bot = Own.bot + 1
  BY <1>0, <1>1, StoreBotFacts DEF Image
<1>3. Bottom' = Bottom /\ Bottom = Own.bot + 1
  BY <1>0, <1>1, <1>2 DEF Bottom
<1>4. /\ BottomsKept' /\ Published' /\ ThiefReads' /\ Current(Own)' = Current(Own)
      /\ \A i \in Int : Item(i)' = Item(i)
  <2>1. top' \in {top, top + 1}
    BY <1>1
  <2> QED BY <1>0, <1>1, <1>3, <2>1, StoreBotKeeps
<1>5. Room'
  <2>1. Len(Current(Own)) \in Nat \ {0}
    BY Basics
  <2> QED BY <1>0, <1>1, <1>3, <1>4, <2>1 DEF IInv, Room
<1>6. Live \subseteq Int
  BY <1>0 DEF Live
<1>7. Accounted'
  <2>1. CASE top = Own.bot
    <3>1. Own.bot \in Live /\ Live' = Live \ {Own.bot}
      BY <2>1, <1>0, <1>1, <1>3 DEF Live
    <3> QED BY <2>1, <3>1, <1>0, <1>1, <1>4, <1>6, AccountHandOut DEF IInv
  <2>2. CASE top # Own.bot
    <3>1. Live' = Live
      BY <2>2, <1>0, <1>1, <1>3 DEF Live
    <3> QED BY <2>2, <3>1, <1>1, <1>4, <1>6, AccountKept DEF IInv
  <2> QED BY <2>1, <2>2
<1>8. OwnerPlace'
  BY <1>1 DEF OwnerPlace
<1> QED BY <1>4, <1>5, <1>7, <1>8 DEF IInv, TypeInv

\* Steps that store nothing.
LEMMA NoStore ==
  ASSUME UNCHANGED views
  PROVE  /\ Own' = Own /\ Memory' = Memory /\ Images' = Images /\ Own.bot' = Own.bot
         /\ Current(Own)' = Current(Own) /\ ArraysKept' = ArraysKept
         /\ \A i \in Int : Item(i)' = Item(i)
BY DEF Own, Memory, Images, Current, Item, ArraysKept

\* What old images show stays true when nothing is stored and top_ stays.
LEMMA PublishedKept ==
  ASSUME IInv, UNCHANGED views, top' \in Nat, top <= top'
  PROVE  Published'
<1>0. /\ top \in Nat /\ Images \subseteq Nat
      /\ \A n \in Images : views[n].bot \in Int /\ Len(views[n].arrays) \in Nat \ {0}
      /\ \A n \in Images : \A m \in 1..n : m \in Images
  BY Basics DEF Images
<1> SUFFICES ASSUME NEW n \in Images, NEW m \in 1..n, NEW i \in top' .. views[m].bot - 1,
                    NEW a \in Len(views[m].arrays) .. Len(views[n].arrays)
             PROVE  Get(views[n].arrays[a], i) = Item(i)'
  BY NoStore DEF Published, Shows
<1>1. m \in Images /\ i \in top .. views[m].bot - 1 /\ i \in Int
  BY <1>0
<1>2. Shows(views[m], views[n])
  BY DEF IInv, Published
<1> QED BY <1>1, <1>2, NoStore DEF Shows

\* Taking a task that is not the last one preserves the invariant.
LEMMA PopInnerPreserves ==
  ASSUME IInv, TypeInv', PopInner PROVE IInv'
<1>0. /\ Own.bot \in Int /\ top \in Nat /\ Bottom \in Int /\ TypeOK
      /\ Len(Current(Own)) \in Nat \ {0}
  BY Basics
<1>1. /\ opc = "fence" /\ opc' = "idle" /\ top < Own.bot /\ Len(views) = 1
      /\ UNCHANGED <<top, views, thief, pushed>> /\ HandOut(Item(Own.bot))
  BY DEF PopInner, FenceDone, Item
<1>2. /\ Own' = Own /\ Memory' = Memory /\ Images' = Images /\ Own.bot' = Own.bot
      /\ Current(Own)' = Current(Own)
      /\ \A i \in Int : Item(i)' = Item(i)
  BY <1>1, NoStore
<1>3. Bottom = Own.bot + 1 /\ Bottom' = Own.bot
  BY <1>1, <1>2 DEF Bottom
<1>4. Room'
  BY <1>0, <1>1, <1>2, <1>3 DEF IInv, Room
<1>5. BottomsKept'
  BY <1>0, <1>1, <1>2, <1>3 DEF BottomsKept, Images, Own
<1>6. Published'
  BY <1>0, <1>1, PublishedKept
<1>7. ThiefReads'
  <2>1. Item(top)' = Item(top)
    BY <1>0, <1>1, <1>2
  <2>2. \A s \in Thieves : Engaged(s)' <=> Engaged(s)
    BY <1>1 DEF Engaged
  <2> QED BY <2>1, <2>2, <1>1, <1>2, <1>3 DEF IInv, ThiefReads
<1>8. Accounted'
  <2>1. Own.bot \in Live /\ Live' = Live \ {Own.bot} /\ Live \subseteq Int
    BY <1>0, <1>1, <1>3 DEF Live
  <2> QED BY <2>1, <1>0, <1>1, <1>2, AccountHandOut DEF IInv
<1>9. OwnerPlace'
  BY <1>1 DEF OwnerPlace
<1> QED BY <1>4, <1>5, <1>6, <1>7, <1>8, <1>9 DEF IInv, TypeInv

\* Finding that one task is left preserves the invariant.
LEMMA PopLastPreserves ==
  ASSUME IInv, TypeInv', PopLast PROVE IInv'
<1>0. /\ Own.bot \in Int /\ top \in Nat
  BY Basics
<1>1. /\ opc = "fence" /\ opc' = "cas" /\ top = Own.bot
      /\ UNCHANGED <<top, views, thief, pushed, handed>>
  BY DEF PopLast
<1>2. /\ Own' = Own /\ Memory' = Memory /\ Images' = Images
      /\ Current(Own)' = Current(Own)
      /\ \A i \in Int : Item(i)' = Item(i)
  BY <1>1, NoStore
<1>3. Bottom' = Bottom
  BY <1>1, <1>2 DEF Bottom
<1>4. Room' /\ BottomsKept'
  BY <1>1, <1>2, <1>3 DEF IInv, Room, BottomsKept
<1>5. Published'
  BY <1>0, <1>1, PublishedKept
<1>6. ThiefReads'
  <2>1. Item(top)' = Item(top)
    BY <1>0, <1>1, <1>2
  <2>2. \A s \in Thieves : Engaged(s)' <=> Engaged(s)
    BY <1>1 DEF Engaged
  <2> QED BY <2>1, <2>2, <1>1, <1>2, <1>3 DEF IInv, ThiefReads
<1>7. Accounted'
  <2>1. Live' = Live /\ Live \subseteq Int
    BY <1>0, <1>1, <1>3, Basics DEF Live
  <2> QED BY <2>1, <1>1, <1>2, AccountKept DEF IInv
<1>8. OwnerPlace'
  BY <1>0, <1>1, <1>2 DEF OwnerPlace
<1> QED BY <1>4, <1>5, <1>6, <1>7, <1>8 DEF IInv, TypeInv

\* The destructor preserves the invariant.
LEMMA DestroyPreserves ==
  ASSUME IInv, TypeInv', Destroy PROVE IInv'
<1>0. /\ Own.bot \in Int /\ top \in Nat /\ TypeOK
  BY Basics
<1>1. /\ opc = "idle" /\ opc' = "destroyed"
      /\ \A s \in Thieves : thief[s].pc = "idle"
      /\ UNCHANGED <<top, views, thief, pushed>>
      /\ handed' = [k \in Tasks |-> handed[k] +
                      IF \E i \in top..Own.bot-1 : Item(i) = k THEN 1 ELSE 0]
  BY DEF Destroy, Item
<1>2. /\ Own' = Own /\ Memory' = Memory /\ Images' = Images
      /\ Current(Own)' = Current(Own)
      /\ \A i \in Int : Item(i)' = Item(i)
  BY <1>1, NoStore
<1>3. Bottom' = Bottom
  BY <1>1, <1>2 DEF Bottom
<1>4. Room' /\ BottomsKept'
  BY <1>1, <1>2, <1>3 DEF IInv, Room, BottomsKept
<1>5. Published'
  BY <1>0, <1>1, PublishedKept
<1>6. ThiefReads'
  BY <1>1 DEF IInv, ThiefReads, Engaged
<1>7. Accounted'
  <2>1. Live' = {} /\ Live = top .. Own.bot - 1
    BY <1>1 DEF Live, Bottom
  <2>2. \A i \in Live : Item(i) \in pushed
    BY DEF IInv, Accounted
  <2>3. \A k \in pushed : k \in Tasks /\ handed[k] = IF \E i \in Live : Item(i) = k THEN 0 ELSE 1
    BY <1>0 DEF IInv, Accounted, TypeOK
  <2>4. \A k \in Tasks : handed'[k] = handed[k] + IF \E i \in Live : Item(i) = k THEN 1 ELSE 0
    BY <1>1, <2>1
  <2>5. \A k \in pushed : handed'[k] = 1
    BY <2>3, <2>4
  <2>6. \A k \in Tasks \ pushed : handed'[k] = 0
    BY <2>2, <2>4 DEF IInv, Accounted
  <2> QED BY <2>1, <2>5, <2>6, <1>1 DEF Accounted
<1>8. OwnerPlace'
  BY <1>1 DEF OwnerPlace
<1> QED BY <1>4, <1>5, <1>6, <1>7, <1>8 DEF IInv, TypeInv

\* A thief's move: what it holds afterwards is what ThiefReads asks for, and
\* top_ has moved past the index only if the thief itself has taken it.
LEMMA StealPreserves ==
  ASSUME IInv, TypeInv', NEW s \in Thieves, Steal(s) PROVE IInv'
<1>0. /\ Own.bot \in Int /\ top \in Nat /\ Bottom \in Int /\ TypeOK
      /\ thief \in [Thieves -> ThiefState] /\ Memory.bot \in Int
      /\ Len(views) \in Nat \ {0} /\ 1 \in Images /\ Memory = views[1]
      /\ Len(Memory.arrays) \in Nat \ {0}
      /\ \A n \in Images : n \in Nat /\ 1 \in 1..n
  BY Basics, ViewFacts DEF Images, Memory
<1>1. UNCHANGED <<views, opc, pushed>>
  BY DEF Steal, StealLoadTop, StealLoadBot, StealLoadArray, StealLoadSlot, StealCas, Unmoved
<1>2. /\ Own' = Own /\ Memory' = Memory /\ Images' = Images
      /\ Current(Own)' = Current(Own)
      /\ \A i \in Int : Item(i)' = Item(i)
  BY <1>1, NoStore
<1>3. Bottom' = Bottom
  BY <1>1, <1>2 DEF Bottom
<1>4. BottomsKept'
  BY <1>1, <1>2, <1>3 DEF IInv, BottomsKept
<1>5. opc # "destroyed" /\ opc' # "destroyed"
  BY <1>1 DEF Steal, StealLoadTop, StealLoadBot, StealLoadArray, StealLoadSlot, StealCas,
         Unmoved, IInv, OwnerPlace
<1>6. \A r \in Thieves : r # s => thief'[r] = thief[r]
  BY <1>0 DEF Steal, StealLoadTop, StealLoadBot, StealLoadArray, StealLoadSlot, StealCas, Unmoved
\* Any step that keeps top_.
<1>7. ASSUME UNCHANGED <<top, handed>>, thief'[s].t <= top,
             thief'[s].pc \in {"array", "slot", "cas"} /\ thief'[s].t = top =>
               /\ top < Bottom
               /\ thief'[s].pc = "cas" => thief'[s].raw = Item(top)
               /\ thief'[s].pc # "cas" =>
                    LET from == IF thief'[s].pc = "array" THEN Len(Memory.arrays)
                                                          ELSE thief'[s].arr
                    IN \A n \in Images : \A a \in from .. Len(views[n].arrays) :
                         Get(views[n].arrays[a], top) = Item(top)
      PROVE  IInv'
  <2>1. Room' /\ OwnerPlace'
    BY <1>7, <1>1, <1>2, <1>3, <1>5 DEF IInv, Room, OwnerPlace
  <2>2. Published'
    BY <1>7, <1>0, <1>1, PublishedKept
  <2>3. Item(top)' = Item(top)
    BY <1>7, <1>0, <1>2
  <2>4. ThiefReads'
    <3> SUFFICES ASSUME NEW r \in Thieves
                 PROVE  /\ thief'[r].t <= top
                        /\ thief'[r].pc \in {"array", "slot", "cas"} /\ thief'[r].t = top =>
                             /\ top < Bottom
                             /\ thief'[r].pc = "cas" => thief'[r].raw = Item(top)
                             /\ thief'[r].pc # "cas" =>
                                  LET from == IF thief'[r].pc = "array" THEN Len(Memory.arrays)
                                                                        ELSE thief'[r].arr
                                  IN \A n \in Images : \A a \in from .. Len(views[n].arrays) :
                                       Get(views[n].arrays[a], top) = Item(top)
      BY <1>7, <1>1, <1>2, <1>3, <2>3 DEF ThiefReads, Engaged
    <3>1. CASE r = s
      BY <3>1, <1>7
    <3>2. CASE r # s
      BY <3>2, <1>6 DEF IInv, ThiefReads, Engaged
    <3> QED BY <3>1, <3>2
  <2>5. Accounted'
    <3>1. Live' = Live /\ Live \subseteq Int
      BY <1>7, <1>0, <1>1, <1>3 DEF Live
    <3> QED BY <3>1, <1>7, <1>1, <1>2, AccountKept DEF IInv
  <2> QED BY <2>1, <2>2, <2>4, <2>5, <1>4 DEF IInv, TypeInv
<1>8. CASE StealLoadTop(s)
  <2>1. thief'[s].pc = "bot" /\ thief'[s].t = top /\ UNCHANGED <<top, handed>>
    BY <1>8, <1>0 DEF StealLoadTop, ThiefState
  <2> QED BY <2>1, <1>0, <1>7
<1>9. CASE StealLoadBot(s)
  <2>1. CASE thief[s].t >= Memory.bot
    <3>1. thief'[s].pc = "idle" /\ thief'[s].t = 0 /\ UNCHANGED <<top, handed>>
      BY <1>9, <2>1, <1>0 DEF StealLoadBot, Idle
    <3> QED BY <3>1, <1>0, <1>7
  <2>2. CASE ~(thief[s].t >= Memory.bot)
    <3>1. /\ thief'[s].pc = "array" /\ thief'[s].t = thief[s].t /\ UNCHANGED <<top, handed>>
      BY <1>9, <2>2, <1>0 DEF StealLoadBot, ThiefState
    <3>2. thief[s].t <= top /\ thief[s].t \in Nat
      BY <1>0 DEF IInv, ThiefReads, ThiefState
    <3>3. ASSUME thief[s].t = top
          PROVE  /\ top < Bottom
                 /\ \A n \in Images : \A a \in Len(Memory.arrays) .. Len(views[n].arrays) :
                      Get(views[n].arrays[a], top) = Item(top)
      <4>1. top \in top .. Memory.bot - 1
        BY <3>3, <2>2, <1>0
      <4>2. top < Bottom
        BY <3>3, <2>2, <1>0 DEF IInv, BottomsKept
      <4>3. \A n \in Images : Shows(Memory, views[n])
        BY <1>0 DEF IInv, Published
      <4> QED BY <4>1, <4>2, <4>3 DEF Shows
    <3> QED BY <3>1, <3>2, <3>3, <1>7
  <2> QED BY <2>1, <2>2
<1>10. CASE StealLoadArray(s)
  <2>1. /\ thief[s].pc = "array" /\ thief'[s].pc = "slot" /\ thief'[s].t = thief[s].t
        /\ thief'[s].arr = Len(Memory.arrays) /\ UNCHANGED <<top, handed>>
    BY <1>10, <1>0 DEF StealLoadArray, ThiefState
  <2>2. thief[s].t <= top
    BY DEF IInv, ThiefReads
  <2>3. ASSUME thief[s].t = top
        PROVE  /\ top < Bottom
               /\ \A n \in Images : \A a \in Len(Memory.arrays) .. Len(views[n].arrays) :
                    Get(views[n].arrays[a], top) = Item(top)
    BY <2>1, <2>3 DEF IInv, ThiefReads, Engaged
  <2> QED BY <2>1, <2>2, <2>3, <1>7
<1>11. CASE StealLoadSlot(s)
  <2> DEFINE p == Get(Memory.arrays[thief[s].arr], thief[s].t)
  <2>1. /\ thief[s].pc = "slot" /\ thief'[s].pc = "cas" /\ thief'[s].t = thief[s].t
        /\ thief'[s].raw = p /\ UNCHANGED <<top, handed>>
    <3> HIDE DEF p
    <3>1. thief' = [thief EXCEPT ![s].pc = "cas", ![s].raw = p]
      BY <1>11 DEF StealLoadSlot, p
    <3> QED BY <3>1, <1>11, <1>0 DEF StealLoadSlot, ThiefState
  <2>2. thief[s].t <= top
    BY DEF IInv, ThiefReads
  <2>3. thief[s].arr \in Nat /\ thief[s].arr <= Len(Memory.arrays)
    BY <1>0 DEF TypeOK, ThiefState
  <2>4. ASSUME thief[s].t = top
        PROVE  top < Bottom /\ p = Item(top)
    <3>1. /\ top < Bottom
          /\ \A n \in Images : \A a \in thief[s].arr .. Len(views[n].arrays) :
               Get(views[n].arrays[a], top) = Item(top)
      BY <2>1, <2>4 DEF IInv, ThiefReads, Engaged
    <3>2. thief[s].arr \in thief[s].arr .. Len(views[1].arrays)
      BY <2>3, <1>0
    <3> QED BY <3>1, <3>2, <2>4, <1>0
  <2> QED BY <2>1, <2>2, <2>4, <1>7
<1>12. CASE StealCas(s)
  <2>1. /\ thief[s].pc = "cas" /\ thief'[s].pc = "idle" /\ thief'[s].t = 0
        /\ IF top = thief[s].t THEN top' = top + 1 /\ HandOut(thief[s].raw)
                               ELSE UNCHANGED <<top, handed>>
    BY <1>12, <1>0 DEF StealCas, Unmoved, Idle
  <2>2. CASE top # thief[s].t
    BY <2>1, <2>2, <1>0, <1>7
  <2>3. CASE top = thief[s].t
    <3>1. top < Bottom /\ HandOut(Item(top)) /\ top' = top + 1 /\ top' \in Nat
      BY <2>1, <2>3, <1>0 DEF IInv, ThiefReads, Engaged
    <3>2. Room' /\ OwnerPlace'
      <4>1. Len(Current(Own)) \in Nat \ {0}
        BY Basics
      <4> QED BY <3>1, <4>1, <1>0, <1>1, <1>2, <1>3, <1>5 DEF IInv, Room, OwnerPlace
    <3>3. Published'
      BY <3>1, <1>0, <1>1, PublishedKept
    <3>4. ThiefReads'
      <4>1. \A r \in Thieves : thief'[r].t <= top /\ thief'[r].t \in Nat
        <5> TAKE r \in Thieves
        <5>1. thief[r].t <= top /\ thief[r].t \in Nat
          BY <1>0 DEF IInv, ThiefReads, ThiefState
        <5>2. CASE r = s
          BY <5>2, <2>1, <1>0
        <5>3. CASE r # s
          BY <5>1, <5>3, <1>6
        <5> QED BY <5>2, <5>3
      <4>2. \A r \in Thieves : thief'[r].t <= top' /\ thief'[r].t # top'
        BY <4>1, <3>1, <1>0
      <4> QED BY <4>2 DEF ThiefReads, Engaged
    <3>5. Accounted'
      <4>1. top \in Live /\ Live' = Live \ {top} /\ Live \subseteq Int
        BY <3>1, <1>0, <1>3, <1>5 DEF Live
      <4> QED BY <4>1, <3>1, <1>0, <1>1, <1>2, AccountHandOut DEF IInv
    <3> QED BY <3>2, <3>3, <3>4, <3>5, <1>4 DEF IInv, TypeInv
  <2> QED BY <2>2, <2>3
<1> QED BY <1>8, <1>9, <1>10, <1>11, <1>12 DEF Steal

\* A store that becomes visible preserves the invariant.
LEMMA DrainPreserves ==
  ASSUME IInv, TypeInv', Drain PROVE IInv'
<1>0. /\ TypeOK /\ views \in Buffers /\ Len(views) \in Nat \ {0}
      /\ thief \in [Thieves -> ThiefState]
      /\ top \in Nat /\ Bottom \in Int
  BY Basics
<1>1. Len(views) > 1 /\ UNCHANGED <<top, opc, thief, pushed, handed>>
  BY DEF Drain
<1>2. /\ Len(views') = Len(views) - 1
      /\ \A n \in 1 .. Len(views') : views'[n] = views[n+1]
  BY <1>0, DrainFacts DEF Drain
<1>3. /\ \A n \in Images' : views'[n] = views[n+1] /\ n + 1 \in Images
      /\ \A n \in Images' : \A m \in 1..n : m \in Images' /\ m + 1 \in 1 .. n+1
  BY <1>0, <1>2 DEF Images
<1>4. Own' = Own
  BY <1>0, <1>1, <1>2 DEF Own
<1>5. /\ Current(Own)' = Current(Own) /\ Bottom' = Bottom
      /\ \A i \in Int : Item(i)' = Item(i)
  BY <1>1, <1>4 DEF Current, Item, Bottom
<1>6. Room' /\ OwnerPlace'
  BY <1>1, <1>4, <1>5 DEF IInv, Room, OwnerPlace
<1>7. BottomsKept'
  BY <1>3, <1>5 DEF IInv, BottomsKept
<1>8. Published'
  <2> SUFFICES ASSUME NEW n \in Images', NEW m \in 1..n,
                      NEW i \in top .. views'[m].bot - 1,
                      NEW a \in Len(views'[m].arrays) .. Len(views'[n].arrays)
               PROVE  Get(views'[n].arrays[a], i) = Item(i)'
    BY <1>1 DEF Published, Shows
  <2>1. views'[n] = views[n+1] /\ views'[m] = views[m+1] /\ i \in Int
    BY <1>3, <1>0
  <2>2. Shows(views[m+1], views[n+1])
    BY <1>3 DEF IInv, Published
  <2> QED BY <2>1, <2>2, <1>5 DEF Shows
<1>9. ThiefReads'
  <2>1. Len(Memory.arrays) <= Len(Memory'.arrays) /\ Len(Memory.arrays) \in Nat \ {0}
        /\ Len(Memory'.arrays) \in Nat \ {0}
    <3>1. Memory = views[1] /\ Memory' = views[2] /\ 2 \in Images /\ 1 \in Images
      BY <1>0, <1>1, <1>2 DEF Memory, Images
    <3> QED BY <3>1, Basics DEF IInv, ArraysKept
  <2> SUFFICES ASSUME NEW s \in Thieves
               PROVE  /\ thief[s].t <= top
                      /\ Engaged(s) =>
                           /\ top < Bottom
                           /\ thief[s].pc = "cas" => thief[s].raw = Item(top)
                           /\ thief[s].pc # "cas" =>
                                LET from == IF thief[s].pc = "array" THEN Len(Memory'.arrays)
                                                                     ELSE thief[s].arr
                                IN \A n \in Images' : \A a \in from .. Len(views'[n].arrays) :
                                     Get(views'[n].arrays[a], top) = Item(top)
    <3>1. Item(top)' = Item(top)
      BY <1>0, <1>1, <1>5
    <3> QED BY <3>1, <1>1, <1>5 DEF ThiefReads, Engaged
  <2>2. /\ thief[s].t <= top
        /\ Engaged(s) =>
             /\ top < Bottom
             /\ thief[s].pc = "cas" => thief[s].raw = Item(top)
    BY DEF IInv, ThiefReads
  <2> DEFINE old == IF thief[s].pc = "array" THEN Len(Memory.arrays) ELSE thief[s].arr
             from == IF thief[s].pc = "array" THEN Len(Memory'.arrays) ELSE thief[s].arr
  <2>3. old \in Nat /\ from \in Nat /\ old <= from
    BY <2>1, <1>0 DEF ThiefState
  <2>4. Engaged(s) /\ thief[s].pc # "cas" =>
          \A n \in Images : \A a \in old .. Len(views[n].arrays) :
            Get(views[n].arrays[a], top) = Item(top)
    BY DEF IInv, ThiefReads
  <2> HIDE DEF old, from
  <2>5. Engaged(s) /\ thief[s].pc # "cas" =>
          \A n \in Images' : \A a \in from .. Len(views'[n].arrays) :
            Get(views'[n].arrays[a], top) = Item(top)
    <3> SUFFICES ASSUME Engaged(s), thief[s].pc # "cas",
                        NEW n \in Images', NEW a \in from .. Len(views'[n].arrays)
                 PROVE  Get(views'[n].arrays[a], top) = Item(top)
      OBVIOUS
    <3>1. n + 1 \in Images /\ views'[n] = views[n+1]
      BY <1>3
    <3>2. Len(views[n+1].arrays) \in Nat
      BY <3>1, Basics
    <3>3. a \in old .. Len(views[n+1].arrays)
      BY <3>1, <3>2, <2>3
    <3> QED BY <3>1, <3>3, <2>4
  <2> QED BY <2>2, <2>5 DEF from
<1>10. Accounted'
  <2>1. Live' = Live /\ Live \subseteq Int
    BY <1>0, <1>1, <1>5 DEF Live
  <2> QED BY <2>1, <1>1, <1>5, AccountKept DEF IInv
<1> QED BY <1>6, <1>7, <1>8, <1>9, <1>10 DEF IInv, TypeInv

-----------------------------------------------------------------------------
(***************************************************************************)
(* The theorems.                                                           *)
(***************************************************************************)

\* The constructor establishes the inductive invariant.
THEOREM InvInit == Init => IInv
<1> SUFFICES ASSUME Init PROVE IInv
  OBVIOUS
<1>1. TypeInv
  BY TypeInit
<1>2. Len(views) = 1 /\ views[1].bot = 0 /\ top = 0 /\ opc = "idle" /\ pushed = {}
  BY DEF Init
<1>3. Own = views[1] /\ Bottom = 0 /\ Images = {1} /\ Live = {}
  BY <1>2 DEF Own, Bottom, Images, Live
<1>4. Len(Current(Own)) \in Nat \ {0}
  <2>1. Own \in View
    BY <1>1, ViewsFacts DEF TypeInv, TypeOK, Own, Buffers
  <2> QED BY <2>1, ViewFacts, ArrayLen
<1>5. Room /\ BottomsKept
  BY <1>2, <1>3, <1>4 DEF Room, BottomsKept
<1>6. Published
  BY <1>2, <1>3 DEF Published, Shows
<1>7. ThiefReads
  BY <1>2 DEF Init, Idle, ThiefReads, Engaged
<1>8. Accounted
  BY <1>2, <1>3 DEF Init, Accounted
<1>9. OwnerPlace
  BY <1>2 DEF OwnerPlace
<1> QED BY <1>1, <1>5, <1>6, <1>7, <1>8, <1>9 DEF IInv, TypeInv

\* Every step of the owner, of a thief or of the machine preserves the
\* invariant, provided that no growth is visible before its contents.
THEOREM InvStep ==
  ASSUME InstallReleases
  PROVE  IInv /\ [Next]_vars => IInv'
<1> SUFFICES ASSUME IInv, [Next]_vars PROVE IInv'
  OBVIOUS
<1>0. TypeInv'
  BY TypeStep DEF IInv, TypeInv
<1>1. ASSUME NEW k \in Tasks, PushBottom(k) PROVE IInv'
  BY <1>0, <1>1, PushPreserves
<1>2. CASE PopDecrement
  BY <1>0, <1>2, PopDecrementPreserves
<1>3. CASE PopEmpty
  BY <1>0, <1>3, PopEmptyPreserves
<1>4. CASE PopInner
  BY <1>0, <1>4, PopInnerPreserves
<1>5. CASE PopLast
  BY <1>0, <1>5, PopLastPreserves
<1>6. CASE PopCas
  BY <1>0, <1>6, PopCasPreserves
<1>7. CASE Destroy
  BY <1>0, <1>7, DestroyPreserves
<1>8. ASSUME NEW s \in Thieves, Steal(s) PROVE IInv'
  BY <1>0, <1>8, StealPreserves
<1>9. CASE Drain
  BY <1>0, <1>9, DrainPreserves
<1>10. CASE UNCHANGED vars
  <2>1. /\ UNCHANGED <<top, views, opc, thief, pushed, handed>> /\ Own' = Own /\ Memory' = Memory
        /\ Images' = Images /\ Current(Own)' = Current(Own) /\ ArraysKept' = ArraysKept
        /\ \A i \in Int : Item(i)' = Item(i)
    BY <1>10, NoStore DEF vars
  <2>2. top \in Nat /\ Item(top)' = Item(top) /\ Bottom' = Bottom
    BY <2>1, Basics DEF Bottom
  <2>3. Room' /\ BottomsKept' /\ OwnerPlace' /\ ThiefReads'
    BY <2>1, <2>2 DEF IInv, Room, BottomsKept, OwnerPlace, ThiefReads, Engaged
  <2>4. Published'
    BY <2>1, <2>2, PublishedKept
  <2>5. Accounted'
    <3>1. Live' = Live /\ Live \subseteq Int
      BY <2>1, <2>2, Basics DEF Live
    <3> QED BY <3>1, <2>1, AccountKept DEF IInv
  <2> QED BY <1>0, <2>3, <2>4, <2>5 DEF IInv, TypeInv
<1> QED BY <1>1, <1>2, <1>3, <1>4, <1>5, <1>6, <1>7, <1>8, <1>9, <1>10 DEF Next

\* The inductive invariant holds in every reachable state.
THEOREM Invariance ==
  ASSUME InstallReleases
  PROVE  Spec => []IInv
BY InvInit, InvStep, PTL DEF Spec

\* The items a caller would find are the tasks at the live indices.
LEMMA ItemsAreLive ==
  ASSUME IInv, NEW k
  PROVE  (\E j \in DOMAIN Items : Items[j] = k) <=> (\E i \in Live : Item(i) = k)
<1>0. top \in Nat /\ Bottom \in Int
  BY Basics
<1>1. CASE opc = "destroyed"
  BY <1>1 DEF Items, Live
<1>2. CASE opc # "destroyed"
  <2>1. /\ DOMAIN Items = 1 .. Bottom - top
        /\ \A j \in 1 .. Bottom - top : Items[j] = Item(top + j - 1)
        /\ Live = top .. Bottom - 1
    BY <1>2 DEF Items, Live
  <2>2. ASSUME NEW j \in DOMAIN Items, Items[j] = k
        PROVE  \E i \in Live : Item(i) = k
    <3>1. top + j - 1 \in Live /\ Item(top + j - 1) = k
      BY <2>1, <2>2, <1>0
    <3> QED BY <3>1
  <2>3. ASSUME NEW i \in Live, Item(i) = k
        PROVE  \E j \in DOMAIN Items : Items[j] = k
    <3>1. i - top + 1 \in 1 .. Bottom - top /\ top + (i - top + 1) - 1 = i
      BY <2>1, <1>0
    <3>2. Items[i - top + 1] = Item(i)
      BY <2>1, <3>1
    <3> QED BY <2>1, <2>3, <3>1, <3>2
  <2> QED BY <2>2, <2>3
<1> QED BY <1>1, <1>2

\* Every task pushed is in the deque or has left it exactly once, for any number
\* of tasks and thieves: no task is lost, none is handed to two threads.
THEOREM ExactlyOnceCorrect ==
  ASSUME InstallReleases
  PROVE  Spec => []ExactlyOnce
<1>1. IInv => ExactlyOnce
  BY ItemsAreLive DEF IInv, Accounted, ExactlyOnce
<1> QED BY <1>1, Invariance, PTL

ItemsOK == opc # "destroyed" =>
  /\ Items \in Seq(Tasks) /\ Len(Items) = Bottom - top /\ Bottom - top \in Nat
  /\ Items = [j \in 1 .. Bottom - top |-> Get(Current(Own), top + j - 1)]

\* Under the invariant the abstract items are a sequence of tasks.
LEMMA ItemsFacts == IInv => ItemsOK
<1> SUFFICES ASSUME IInv, opc # "destroyed" PROVE ItemsOK
  BY DEF ItemsOK
<1>1. top \in Nat /\ Bottom \in Int /\ top <= Bottom /\ pushed \subseteq Tasks
  BY Basics DEF IInv, Room, TypeOK
<1>2. Items = [j \in 1 .. Bottom - top |-> Get(Current(Own), top + j - 1)]
  BY DEF Items, Item
<1>3. ASSUME NEW j \in 1 .. Bottom - top PROVE Get(Current(Own), top + j - 1) \in Tasks
  <2>1. top + j - 1 \in Live
    BY <1>1 DEF Live
  <2> QED BY <2>1, <1>1 DEF IInv, Accounted, Item
<1> DEFINE n == Bottom - top
<1>4. n \in Nat
  BY <1>1
<1> HIDE DEF n
<1>5. Items \in [1 .. n -> Tasks]
  BY <1>2, <1>3 DEF n
<1>6. Items \in Seq(Tasks) /\ Len(Items) = n
  BY <1>4, <1>5, SeqDef
<1> QED BY <1>2, <1>4, <1>6 DEF ItemsOK, n

\* The same of the next state.
LEMMA ItemsFactsNext == IInv' => ItemsOK'
BY ItemsFacts, PTL

\* Steps that move no index and change no live entry.
LEMMA ItemsKept ==
  ASSUME IInv, opc # "destroyed", opc' # "destroyed", UNCHANGED top,
         Bottom' = Bottom, Current(Own)' = Current(Own)
  PROVE  Items' = Items
BY DEF Items, Item

\* push_bottom is the abstract push.
LEMMA AbstractPush ==
  ASSUME IInv, IInv', NEW k \in Tasks, PushBottom(k)
  PROVE  Abstract!PushBottom(k)
<1> DEFINE b == Own.bot
           C == Current(Own')
<1>0. /\ TypeOK /\ b \in Int /\ top \in Nat /\ opc = "idle" /\ opc' = "idle"
      /\ UNCHANGED <<top, handed>> /\ k \notin pushed
  BY Basics DEF PushBottom
<1>1. Own' = Image(b + 1, Stored(k))
  <2>1. PICK new \in Seq(View) :
          /\ views' = views \o new /\ Len(new) \in Nat \ {0}
          /\ new[Len(new)] = Image(b + 1, Stored(k))
    BY <1>0, PushViews
  <2>2. /\ views \in Buffers /\ Len(views) \in Nat
    BY Basics
  <2>3. Len(views') = Len(views) + Len(new) /\ views'[Len(views) + Len(new)] = new[Len(new)]
    BY <2>1, <2>2, ExtendFacts
  <2> QED BY <2>1, <2>3 DEF Own
<1>2. /\ \A i \in top .. b - 1 : Get(C, i) = Get(Current(Own), i)
      /\ \A i \in {b} : Get(C, i) = k
      /\ Own'.bot = b + 1
  BY <1>1, PushOwn DEF Item
<1>3. Bottom = b /\ Bottom' = b + 1
  BY <1>0, <1>2 DEF Bottom
<1> HIDE DEF b, C
<1>4. /\ Items \in Seq(Tasks) /\ Len(Items) = b - top /\ b - top \in Nat
      /\ Items = [j \in 1 .. b - top |-> Get(Current(Own), top + j - 1)]
  BY <1>0, <1>3, ItemsFacts DEF ItemsOK
<1>5. /\ Items' \in Seq(Tasks) /\ Len(Items') = b + 1 - top
      /\ Items' = [j \in 1 .. b + 1 - top |-> Get(C, top + j - 1)]
  BY <1>0, <1>3, ItemsFactsNext DEF ItemsOK, C
<1>6. Items' = Append(Items, k)
  <2>1. /\ Append(Items, k) \in Seq(Tasks) /\ Len(Append(Items, k)) = Len(Items) + 1
        /\ \A j \in 1 .. Len(Items) : Append(Items, k)[j] = Items[j]
        /\ Append(Items, k)[Len(Items) + 1] = k
    BY <1>4
  <2>2. ASSUME NEW j \in 1 .. Len(Items') PROVE Items'[j] = Append(Items, k)[j]
    <3>0. Items'[j] = Get(C, top + j - 1)
      BY <1>0, <1>5
    <3>1. CASE j \in 1 .. Len(Items)
      <4>1. top + j - 1 \in top .. b - 1 /\ j \in 1 .. b - top
        BY <3>1, <1>0, <1>4
      <4>2. Items[j] = Get(Current(Own), top + j - 1)
        BY <4>1, <1>4
      <4> QED BY <3>0, <3>1, <4>1, <4>2, <1>2, <2>1
    <3>2. CASE j = Len(Items) + 1
      <4>1. top + j - 1 = b
        BY <3>2, <1>0, <1>4
      <4> QED BY <3>0, <3>2, <4>1, <1>2, <2>1
    <3>3. j \in Int /\ Len(Items) \in Int /\ 1 <= j /\ j <= Len(Items) + 1
      BY <1>0, <1>4, <1>5
    <3> QED BY <3>1, <3>2, <3>3
  <2>3. Len(Items') = Len(Append(Items, k))
    BY <1>0, <1>4, <1>5, <2>1
  <2> QED BY <1>5, <2>1, <2>2, <2>3, SeqEqual
<1>7. \A j \in DOMAIN Items : Items[j] # k
  BY <1>0, ItemsAreLive DEF IInv, Accounted
<1>8. handed[k] = 0
  BY <1>0 DEF IInv, Accounted
<1> QED BY <1>0, <1>6, <1>7, <1>8 DEF Abstract!PushBottom

\* The owner takes the youngest task.
LEMMA AbstractPop ==
  ASSUME IInv, IInv', opc # "destroyed", opc' # "destroyed", top < Bottom,
         HandOut(Item(Bottom - 1)), Current(Own)' = Current(Own),
         \/ top' = top /\ Bottom' = Bottom - 1
         \/ top' = top + 1 /\ Bottom' = Bottom /\ Bottom = top + 1
  PROVE  Abstract!PopBottom
<1>0. top \in Nat /\ Bottom \in Int /\ TypeOK
  BY Basics
<1> DEFINE n == Bottom - top
<1>1. /\ Items \in Seq(Tasks) /\ Len(Items) = n /\ n \in Nat
      /\ Items = [j \in 1 .. n |-> Get(Current(Own), top + j - 1)]
  BY ItemsFacts DEF ItemsOK
<1>2. /\ Items' \in Seq(Tasks) /\ Len(Items') = n - 1
      /\ Items' = [j \in 1 .. n - 1 |-> Get(Current(Own), top' + j - 1)]
  <2>1. Bottom' - top' = n - 1
    BY <1>0
  <2> QED BY <2>1, ItemsFactsNext DEF ItemsOK
<1>3. n >= 1 /\ top + n - 1 = Bottom - 1 /\ (top' = top \/ n = 1)
  BY <1>0
<1> HIDE DEF n
<1>4. Items[n] = Item(Bottom - 1) /\ Items[n] \in Tasks
  BY <1>1, <1>3, ElementOfSeq DEF Item
<1>5. handed' = [handed EXCEPT ![Items[Len(Items)]] = @ + 1]
  BY <1>1, <1>4 DEF HandOut
<1>6. Items' = SubSeq(Items, 1, Len(Items) - 1)
  <2>1. \A i \in 1 .. n - 1 : Items[i] \in Tasks
    BY <1>1, <1>3, ElementOfSeq
  <2>2. /\ SubSeq(Items, 1, n - 1) \in Seq(Tasks)
        /\ Len(SubSeq(Items, 1, n - 1)) = n - 1
        /\ \A i \in 1 .. n - 1 : SubSeq(Items, 1, n - 1)[i] = Items[i]
    BY <1>1, <1>3, <2>1
  <2>3. \A i \in 1 .. n - 1 : Items'[i] = Items[i]
    BY <1>0, <1>1, <1>2, <1>3
  <2>4. Items' = SubSeq(Items, 1, n - 1)
    BY <1>2, <2>2, <2>3, SeqEqual
  <2> QED BY <1>1, <2>4
<1>7. Items # <<>>
  BY <1>1, <1>3, EmptySeq
<1> QED BY <1>5, <1>6, <1>7 DEF Abstract!PopBottom, Abstract!HandOut

\* A thief takes the oldest task.
LEMMA AbstractSteal ==
  ASSUME IInv, IInv', opc # "destroyed", opc' # "destroyed", top < Bottom,
         HandOut(Item(top)), Current(Own)' = Current(Own),
         top' = top + 1, Bottom' = Bottom
  PROVE  Abstract!Steal
<1>0. top \in Nat /\ Bottom \in Int /\ TypeOK
  BY Basics
<1> DEFINE n == Bottom - top
<1>1. /\ Items \in Seq(Tasks) /\ Len(Items) = n /\ n \in Nat
      /\ Items = [j \in 1 .. n |-> Get(Current(Own), top + j - 1)]
  BY ItemsFacts DEF ItemsOK
<1>2. /\ Items' \in Seq(Tasks) /\ Len(Items') = n - 1
      /\ Items' = [j \in 1 .. n - 1 |-> Get(Current(Own), top + 1 + j - 1)]
  <2>1. Bottom' - top' = n - 1
    BY <1>0
  <2> QED BY <2>1, ItemsFactsNext DEF ItemsOK
<1>3. n >= 1
  BY <1>0
<1> HIDE DEF n
<1>4. Items[1] = Item(top) /\ Items[1] \in Tasks
  <2>1. top + 1 - 1 = top
    BY <1>0
  <2> QED BY <1>1, <1>3, <2>1, ElementOfSeq DEF Item
<1>5. handed' = [handed EXCEPT ![Items[1]] = @ + 1]
  BY <1>4 DEF HandOut
<1>6. Items # <<>>
  BY <1>1, <1>3, EmptySeq
<1>7. Items' = Tail(Items)
  <2>1. /\ Tail(Items) \in Seq(Tasks) /\ Len(Tail(Items)) = n - 1
        /\ \A i \in 1 .. n - 1 : Tail(Items)[i] = Items[i + 1]
    BY <1>1, <1>6, HeadTailProperties
  <2>2. ASSUME NEW i \in 1 .. n - 1 PROVE Items'[i] = Items[i + 1]
    <3>1. i + 1 \in 1 .. n /\ top + 1 + i - 1 = top + (i + 1) - 1
      BY <1>0, <1>1
    <3> QED BY <1>1, <1>2, <3>1
  <2> QED BY <1>2, <2>1, <2>2, SeqEqual
<1> QED BY <1>5, <1>6, <1>7 DEF Abstract!Steal, Abstract!HandOut

\* The destructor is the abstract one.
LEMMA AbstractDestroy ==
  ASSUME IInv, Destroy
  PROVE  Abstract!Destroy
<1>1. Items' = <<>>
  BY DEF Destroy, Items
<1>2. Live = top .. Own.bot - 1
  BY DEF Destroy, Live, Bottom
<1>3. handed' = [k \in Tasks |-> handed[k] +
                  IF \E i \in Live : Item(i) = k THEN 1 ELSE 0]
  BY <1>2 DEF Destroy, Item
<1>4. \A k \in Tasks : (\E i \in Live : Item(i) = k) <=> (\E i \in DOMAIN Items : Items[i] = k)
  BY ItemsAreLive
<1> QED BY <1>1, <1>3, <1>4 DEF Abstract!Destroy

\* The constructor makes an empty abstract deque.
LEMMA AbstractInit == Init => Abstract!Init
<1> SUFFICES ASSUME Init PROVE Abstract!Init
  OBVIOUS
<1>1. Len(views) = 1 /\ views[1].bot = 0 /\ top = 0 /\ opc = "idle"
  BY DEF Init
<1>2. Items = [j \in 1 .. 0 |-> Item(top + j - 1)]
  BY <1>1 DEF Items, Bottom, Own
<1>3. Items = <<>>
  BY <1>2
<1> QED BY <1>3 DEF Init, Abstract!Init

\* Which abstract step each step of the deque is.
LEMMA AbstractStep ==
  ASSUME InstallReleases, IInv, IInv', [Next]_vars
  PROVE  [Abstract!Next]_(Abstract!vars)
<1>0. /\ top \in Nat /\ Bottom \in Int /\ Own.bot \in Int /\ top <= Bottom
      /\ TypeInv
  BY Basics DEF IInv, Room
<1>a. ASSUME UNCHANGED <<Items, handed>> PROVE [Abstract!Next]_(Abstract!vars)
  BY <1>a DEF Abstract!vars
<1>b. ASSUME NEW x \in Int, StoreBot(x)
      PROVE  Own'.bot = x /\ Current(Own)' = Current(Own)
  <2>1. Own' = Image(x, Own.arrays)
    BY <1>0, <1>b, StoreBotFacts
  <2> QED BY <2>1 DEF Image, Current
<1>1. ASSUME NEW k \in Tasks, PushBottom(k) PROVE [Abstract!Next]_(Abstract!vars)
  BY <1>1, AbstractPush DEF Abstract!Next
<1>2. CASE PopDecrement
  <2>1. /\ opc = "idle" /\ opc' = "fence" /\ UNCHANGED <<top, handed>>
        /\ StoreBot(Own.bot - 1) /\ Own.bot - 1 \in Int
    BY <1>2, <1>0 DEF PopDecrement
  <2>2. Own'.bot = Own.bot - 1 /\ Current(Own)' = Current(Own)
    BY <2>1, <1>b
  <2>3. Bottom' = Bottom
    BY <2>1, <2>2, <1>0 DEF Bottom
  <2> QED BY <2>1, <2>2, <2>3, <1>a, ItemsKept
<1>3. CASE PopEmpty
  <2>1. /\ opc = "fence" /\ opc' = "idle" /\ UNCHANGED <<top, handed>>
        /\ StoreBot(Own.bot + 1) /\ Own.bot + 1 \in Int
    BY <1>3, <1>0 DEF PopEmpty, Empty, Restored
  <2>2. Own'.bot = Own.bot + 1 /\ Current(Own)' = Current(Own)
    BY <2>1, <1>b
  <2>3. Bottom' = Bottom
    BY <2>1, <2>2, <1>0 DEF Bottom
  <2> QED BY <2>1, <2>2, <2>3, <1>a, ItemsKept
<1>4. CASE PopInner
  <2>1. /\ opc = "fence" /\ opc' = "idle" /\ top < Own.bot /\ UNCHANGED <<top, views>>
        /\ HandOut(Item(Own.bot))
    BY <1>4 DEF PopInner, Item
  <2>2. Own' = Own /\ Current(Own)' = Current(Own)
    BY <2>1, NoStore
  <2>3. Bottom = Own.bot + 1 /\ Bottom' = Bottom - 1 /\ Bottom - 1 = Own.bot
    BY <2>1, <2>2, <1>0 DEF Bottom
  <2>4. Abstract!PopBottom
    BY <2>1, <2>2, <2>3, <1>0, AbstractPop
  <2> QED BY <2>4 DEF Abstract!Next
<1>5. CASE PopLast
  <2>1. opc = "fence" /\ opc' = "cas" /\ UNCHANGED <<top, views, handed>>
    BY <1>5 DEF PopLast
  <2>2. Own' = Own /\ Current(Own)' = Current(Own)
    BY <2>1, NoStore
  <2>3. Bottom' = Bottom
    BY <2>1, <2>2 DEF Bottom
  <2> QED BY <2>1, <2>2, <2>3, <1>a, ItemsKept
<1>6. CASE PopCas
  <2>1. /\ opc = "cas" /\ opc' = "idle" /\ StoreBot(Own.bot + 1) /\ Own.bot + 1 \in Int
        /\ IF top = Own.bot THEN top' = Own.bot + 1 /\ HandOut(Item(Own.bot))
                            ELSE UNCHANGED <<top, handed>>
    BY <1>6, <1>0 DEF PopCas, Item
  <2>2. Own'.bot = Own.bot + 1 /\ Current(Own)' = Current(Own)
    BY <2>1, <1>b
  <2>3. Bottom = Own.bot + 1 /\ Bottom' = Bottom /\ Bottom - 1 = Own.bot
    BY <2>1, <2>2, <1>0 DEF Bottom
  <2>4. CASE top = Own.bot
    <3>1. Abstract!PopBottom
      BY <2>1, <2>2, <2>3, <2>4, <1>0, AbstractPop
    <3> QED BY <3>1 DEF Abstract!Next
  <2>5. CASE top # Own.bot
    BY <2>1, <2>2, <2>3, <2>5, <1>a, ItemsKept
  <2> QED BY <2>4, <2>5
<1>7. CASE Destroy
  BY <1>7, AbstractDestroy DEF Abstract!Next
<1>8. ASSUME NEW s \in Thieves, Steal(s) PROVE [Abstract!Next]_(Abstract!vars)
  <2>1. UNCHANGED <<views, opc>> /\ opc # "destroyed"
    BY <1>8 DEF Steal, StealLoadTop, StealLoadBot, StealLoadArray, StealLoadSlot, StealCas, Unmoved,
                IInv, OwnerPlace
  <2>2. Own' = Own /\ Current(Own)' = Current(Own) /\ Bottom' = Bottom
    BY <2>1, NoStore DEF Bottom
  <2>3. CASE UNCHANGED <<top, handed>>
    BY <2>1, <2>2, <2>3, <1>a, ItemsKept
  <2>4. CASE StealCas(s) /\ top = thief[s].t
    <3>1. Engaged(s) /\ thief[s].pc = "cas" /\ top' = top + 1 /\ HandOut(thief[s].raw)
      BY <2>4 DEF StealCas, Unmoved, Engaged
    <3>2. top < Bottom /\ thief[s].raw = Item(top)
      BY <3>1 DEF IInv, ThiefReads
    <3>3. Abstract!Steal
      BY <2>1, <2>2, <3>1, <3>2, AbstractSteal
    <3> QED BY <3>3 DEF Abstract!Next
  <2> QED BY <1>8, <2>3, <2>4 DEF Steal, StealLoadTop, StealLoadBot, StealLoadArray,
             StealLoadSlot, StealCas, Unmoved
<1>9. CASE Drain
  <2>1. /\ views \in Buffers /\ Len(views) \in Nat \ {0} /\ Len(views) > 1
        /\ UNCHANGED <<top, opc, handed>> /\ views' = Tail(views)
    BY <1>9, Basics DEF Drain
  <2>2. Own' = Own
    BY <2>1, DrainFacts DEF Own
  <2>3. Current(Own)' = Current(Own) /\ Bottom' = Bottom
    BY <2>1, <2>2 DEF Bottom, Current
  <2>4. CASE opc = "destroyed"
    BY <2>1, <2>4, <1>a DEF Items
  <2>5. CASE opc # "destroyed"
    BY <2>1, <2>3, <2>5, <1>a, ItemsKept
  <2> QED BY <2>4, <2>5
<1>10. CASE UNCHANGED vars
  BY <1>10, <1>a DEF vars, Items, Item, Bottom, Own, Current
<1> QED BY <1>1, <1>2, <1>3, <1>4, <1>5, <1>6, <1>7, <1>8, <1>9, <1>10 DEF Next

\* The detailed deque implements the abstract one: calls take effect one at a
\* time, the owner at the bottom and thieves at the top.
THEOREM Refinement ==
  ASSUME InstallReleases
  PROVE  Spec => Linearizable
<1>1. IInv /\ IInv' /\ [Next]_vars => [Abstract!Next]_(Abstract!vars)
  BY AbstractStep
<1> QED BY <1>1, AbstractInit, Invariance, PTL DEF Spec, Linearizable, Abstract!Spec

\* pop_bottom never answers nullptr while the deque holds a task.
THEOREM NullMeansEmptyCorrect ==
  ASSUME InstallReleases
  PROVE  Spec => NullMeansEmpty
<1>1. ASSUME IInv, [Next]_vars, opc # "idle", opc' = "idle", handed' = handed
      PROVE  Items = <<>>
  <2>0. top \in Nat /\ Bottom \in Int /\ Own.bot \in Int /\ top <= Bottom /\ TypeOK
    BY <1>1, Basics DEF IInv, Room
  <2>1. SUFFICES opc # "destroyed" /\ Bottom <= top
    BY <2>0 DEF Items
  <2>2. PopEmpty \/ PopInner \/ PopCas
    BY <1>1 DEF Next, vars, PushBottom, PopDecrement, PopLast, Destroy, Drain, Steal,
                StealLoadTop, StealLoadBot, StealLoadArray, StealLoadSlot, StealCas, Unmoved
  <2>3. CASE PopEmpty
    BY <2>0, <2>3 DEF PopEmpty, Empty, Restored, Bottom
  <2>4. CASE PopInner
    <3>1. Own.bot \in Live /\ HandOut(Item(Own.bot))
      BY <2>0, <2>4 DEF PopInner, Live, Bottom, Item
    <3>2. Item(Own.bot) \in Tasks
      BY <1>1, <2>0, <3>1 DEF IInv, Accounted, TypeOK
    <3>3. handed'[Item(Own.bot)] = handed[Item(Own.bot)] + 1
      BY <2>0, <3>1, <3>2 DEF HandOut, TypeOK
    <3>4. handed[Item(Own.bot)] \in Nat
      BY <2>0, <3>2 DEF TypeOK
    <3> QED BY <1>1, <3>3, <3>4
  <2>5. CASE PopCas
    <3>1. CASE top = Own.bot
      <4>1. Own.bot \in Live /\ HandOut(Item(Own.bot))
        BY <2>0, <2>5, <3>1 DEF PopCas, Live, Bottom, Item
      <4>2. Item(Own.bot) \in Tasks
        BY <1>1, <2>0, <4>1 DEF IInv, Accounted, TypeOK
      <4>3. handed'[Item(Own.bot)] = handed[Item(Own.bot)] + 1
        BY <2>0, <4>1, <4>2 DEF HandOut, TypeOK
      <4>4. handed[Item(Own.bot)] \in Nat
        BY <2>0, <4>2 DEF TypeOK
      <4> QED BY <1>1, <4>3, <4>4
    <3>2. CASE top # Own.bot
      BY <1>1, <2>0, <2>5, <3>2 DEF PopCas, IInv, OwnerPlace, Bottom
    <3> QED BY <3>1, <3>2
  <2> QED BY <2>2, <2>3, <2>4, <2>5
<1>2. IInv /\ [Next]_vars => [opc # "idle" /\ opc' = "idle" /\ handed' = handed => Items = <<>>]_vars
  BY <1>1
<1> QED BY <1>2, Invariance, PTL DEF Spec, NullMeansEmpty
=============================================================================
