-------------------------- MODULE PlaybackProofs --------------------------
(* What holds of Playback, and of its queue planner (queue.ts), for any    *)
(* tracks, lists and shuffles of them, and any number of gestures.         *)
EXTENDS Playback, SequenceTheorems, WellFoundedInduction, TLAPS

-----------------------------------------------------------------------------
(* The queue planner.                                                      *)

\* The entry order[pos] of a shuffle is at pos.
LEMMA PlaceIs ==
  ASSUME NEW n \in Nat, NEW o \in Seq(Nat), Len(o) = n,
         \A i, j \in 1 .. n : o[i] = o[j] => i = j,
         NEW p \in 1 .. n
  PROVE  Place(o, o[p]) = p
<1> DEFINE I == {k \in 1 .. Len(o) : o[k] = o[p]}
<1>1. I = {p}
  OBVIOUS
<1>2. Place(o, o[p]) = IF I # {} THEN Min(I) ELSE 0
  BY DEF Place, SelectInSeq
<1>3. Min({p}) = p
  BY DEF Min
<1> QED
  BY <1>1, <1>2, <1>3

\* Where the next entry of a shuffle is, and the one before that is where it began.
LEMMA RoundAndBack ==
  ASSUME NEW n \in Nat, NEW p \in 1 .. n
  PROVE  LET r == (p % n) + 1 IN
         /\ r \in 1 .. n
         /\ (IF r > 1 THEN r - 1 ELSE n) = p
<1>1. CASE p = n
  <2>1. p % n = 0
    BY <1>1, SMT
  <2> QED
    BY <1>1, <2>1
<1>2. CASE p < n
  <2>1. p % n = p
    BY <1>2, SMT
  <2> QED
    BY <1>2, <2>1
<1> QED
  BY <1>1, <1>2

\* Previous undoes next: from an entry of the queue, in order or shuffled, the entry
\* planned next is one of the queue, and playPrev from there goes back to where it
\* was, also around the end of a shuffle (plannedNext, plannedPrev).
THEOREM PrevUndoesNext ==
  ASSUME NEW S, NEW q \in Seq(S), NEW i \in DOMAIN q,
         NEW random \in BOOLEAN, NEW o \in Seq(Nat),
         random => /\ Len(o) = Len(q)
                   /\ \A j, k \in DOMAIN o : o[j] = o[k] => j = k
                   /\ \A j \in DOMAIN q : \E p \in DOMAIN o : o[p] = j
                   /\ \A p \in DOMAIN o : o[p] \in DOMAIN q,
         NextOf(q, i, random, o) # 0
  PROVE  /\ NextOf(q, i, random, o) \in DOMAIN q
         /\ PrevOf(q, NextOf(q, i, random, o), random, o) = i
<1> DEFINE n == Len(q)
<1>0. n \in Nat /\ DOMAIN q = 1 .. n /\ q # <<>> /\ i # 0
  OBVIOUS
<1>1. CASE random /\ n > 1
  <2>1. PICK p \in DOMAIN o : o[p] = i
    BY <1>1
  <2>2. p \in 1 .. n /\ DOMAIN o = 1 .. n /\ o # <<>>
    BY <1>0, <1>1
  <2> DEFINE r == (p % n) + 1
  <2>3. r \in 1 .. n /\ (IF r > 1 THEN r - 1 ELSE n) = p
    BY <1>0, <2>2, RoundAndBack
  <2>4. Place(o, i) = p
    BY <1>0, <1>1, <2>1, <2>2, PlaceIs
  <2>5. NextOf(q, i, random, o) = o[r]
    BY <1>0, <1>1, <2>4 DEF NextOf
  <2>6. Place(o, o[r]) = r
    BY <1>0, <1>1, <2>2, <2>3, PlaceIs
  <2>7. o[r] \in DOMAIN q
    BY <1>1, <2>2, <2>3
  <2>8. PrevOf(q, o[r], random, o) = o[IF r > 1 THEN r - 1 ELSE n]
    <3>1. o[r] # 0
      BY <1>0, <2>7
    <3> HIDE DEF r
    <3> QED
      BY <1>0, <1>1, <2>2, <2>6, <3>1, Zenon DEF PrevOf
  <2> HIDE DEF r
  <2> QED
    BY <2>1, <2>3, <2>5, <2>7, <2>8
<1>2. CASE ~(random /\ n > 1)
  <2>1. NextOf(q, i, random, o) = i + 1 /\ i < n
    BY <1>0, <1>2 DEF NextOf
  <2>2. PrevOf(q, i + 1, random, o) = i
    BY <1>0, <1>2, <2>1 DEF PrevOf
  <2> QED
    BY <1>0, <2>1, <2>2
<1> QED
  BY <1>1, <1>2

\* A set of numbers has a least one: how a fact is carried along the naturals here.
LEMMA LowestIs ==
  ASSUME NEW S \in SUBSET Nat, S # {}
  PROVE  \E p \in S : \A q \in S : p <= q
<1> DEFINE R == {ss \in Nat \X Nat : ss[1] < ss[2]}
<1>1. IsWellFoundedOn(R, Nat)
  BY NatLessThanWellFounded, Zenon DEF OpToRel
<1>2. PICK x \in S : \A y \in S : <<y, x>> \notin R
  <2> HIDE DEF R
  <2> QED  BY <1>1, WFMin
<1>3. ASSUME NEW y \in S  PROVE x <= y
  <2>1. x \in Nat /\ y \in Nat
    OBVIOUS
  <2>2. y < x => <<y, x>> \in R
    <3>1. <<y, x>> \in Nat \X Nat /\ <<y, x>>[1] = y /\ <<y, x>>[2] = x
      BY <2>1
    <3> QED  BY <3>1
  <2> HIDE DEF R
  <2> QED  BY <1>2, <2>1, <2>2
<1> QED  BY <1>3

\* An order that has every place exactly once.
Permutation(o, n) ==
  /\ o \in [1 .. n -> 1 .. n]
  /\ \A j, k \in 1 .. n : o[j] = o[k] => j = k
  /\ \A v \in 1 .. n : \E k \in 1 .. n : o[k] = v

LEMMA SwapPermutes ==
  ASSUME NEW n \in Nat, NEW o, Permutation(o, n), NEW i \in 1 .. n, NEW j \in 1 .. n
  PROVE  Permutation(Swap(o, i, j), n)
<1> DEFINE s == Swap(o, i, j)
<1>1. /\ s \in [1 .. n -> 1 .. n] /\ s[i] = o[j] /\ s[j] = o[i]
      /\ \A k \in (1 .. n) \ {i, j} : s[k] = o[k]
  BY DEF Swap, Permutation
<1> HIDE DEF s
<1>2. ASSUME NEW k \in 1 .. n, NEW l \in 1 .. n, s[k] = s[l]  PROVE k = l
  <2>1. \A x, y \in 1 .. n : o[x] = o[y] => x = y
    BY DEF Permutation
  <2>2. CASE k \in {i, j} /\ l \in {i, j}  BY <1>1, <1>2, <2>1, <2>2
  <2>3. CASE k \in {i, j} /\ l \notin {i, j}
    <3>1. \E x \in {i, j} : s[k] = o[x]
      BY <1>1, <2>3
    <3> QED  BY <1>1, <1>2, <2>1, <2>3, <3>1
  <2>4. CASE k \notin {i, j} /\ l \in {i, j}
    <3>1. \E x \in {i, j} : s[l] = o[x]
      BY <1>1, <2>4
    <3> QED  BY <1>1, <1>2, <2>1, <2>4, <3>1
  <2>5. CASE k \notin {i, j} /\ l \notin {i, j}  BY <1>1, <1>2, <2>1, <2>5
  <2> QED  BY <2>2, <2>3, <2>4, <2>5
<1>3. ASSUME NEW v \in 1 .. n  PROVE \E k \in 1 .. n : s[k] = v
  <2>1. PICK k \in 1 .. n : o[k] = v
    BY DEF Permutation
  <2>2. CASE k = i  BY <1>1, <2>1, <2>2
  <2>3. CASE k = j  BY <1>1, <2>1, <2>3
  <2>4. CASE k \notin {i, j}  BY <1>1, <2>1, <2>4
  <2> QED  BY <2>2, <2>3, <2>4
<1>4. Permutation(s, n)
  BY <1>1, <1>2, <1>3 DEF Permutation
<1> QED  BY <1>4 DEF s

\* What shuffledOrder makes, whatever its generator draws, has every place of the list
\* exactly once (queue.ts:18, "a deterministic shuffled permutation").
THEOREM ShuffleIsPermutation ==
  ASSUME NEW n \in Nat \ {0}, NEW o \in ShuffledOrder(n)
  PROVE  Permutation(o, n)
<1>1. PICK run \in [1 .. n -> [1 .. n -> 1 .. n]] : ShufflesTo(run, n) /\ o = run[1]
  BY DEF ShuffledOrder
<1> DEFINE Off == {d \in 0 .. n - 1 : ~Permutation(run[n - d], n)}
<1>2. Off = {}
  <2>1. SUFFICES ASSUME Off # {}  PROVE FALSE
    OBVIOUS
  <2>2. PICK d \in Off : \A e \in Off : d <= e
    <3>1. Off \in SUBSET Nat
      OBVIOUS
    <3> HIDE DEF Off
    <3> QED  BY <2>1, <3>1, LowestIs
  <2>3. d # 0
    <3>1. n - 0 = n
      OBVIOUS
    <3>2. Permutation(run[n], n)
      BY <1>1 DEF ShufflesTo, Permutation
    <3>3. ~Permutation(run[n - d], n)
      OBVIOUS
    <3> HIDE DEF Off
    <3> QED  BY <3>1, <3>2, <3>3
  <2> DEFINE i == n - (d - 1)
  <2>4. d - 1 \in 0 .. n - 1 /\ i \in 2 .. n /\ i - 1 = n - d /\ ~(d <= d - 1)
    BY <2>3
  <2>5. Permutation(run[i], n)
    <3>1. d - 1 \notin Off
      <4> HIDE DEF Off
      <4> QED  BY <2>2, <2>4
    <3> QED  BY <2>4, <3>1
  <2>6. ~Permutation(run[i - 1], n)
    BY <2>4
  <2> HIDE DEF i, Off
  <2>7. PICK j \in 1 .. i : run[i - 1] = Swap(run[i], i, j)
    BY <1>1, <2>4 DEF ShufflesTo
  <2>8. i \in 1 .. n /\ j \in 1 .. n
    BY <2>4
  <2> QED  BY <2>5, <2>6, <2>7, <2>8, SwapPermutes
<1>3. n - 1 \in 0 .. n - 1 /\ n - (n - 1) = 1
  OBVIOUS
<1> QED  BY <1>1, <1>2, <1>3

LEMMA OrderIsPermutation ==
  ASSUME NEW o \in Orders
  PROVE  o \in Seq(Nat) /\ IsInjective(o) /\ Range(o) = DOMAIN o
<1>1. o \in Seq(Nat) \ {<<>>} /\ o \in ShuffledOrder(Len(o))
  BY PlaybackConstants
<1>2. Len(o) \in Nat \ {0} /\ DOMAIN o = 1 .. Len(o)
  BY <1>1, LenProperties, EmptySeq
<1>3. Permutation(o, Len(o))
  BY <1>1, <1>2, ShuffleIsPermutation
<1>4. IsInjective(o)
  BY <1>2, <1>3 DEF Permutation, IsInjective
<1>5. Range(o) = DOMAIN o
  <2>1. ASSUME NEW p \in DOMAIN o  PROVE o[p] \in DOMAIN o
    BY <1>2, <1>3 DEF Permutation
  <2>2. ASSUME NEW v \in DOMAIN o  PROVE \E p \in DOMAIN o : o[p] = v
    BY <1>2, <1>3, Zenon DEF Permutation
  <2> QED  BY <2>1, <2>2, Zenon DEF Range
<1> QED  BY <1>1, <1>4, <1>5

\* An entry of a shuffle is one of the list, and nothing is found outside of it.
LEMMA PlaceTyped ==
  ASSUME NEW q, NEW o \in OrdersOf(q), NEW i
  PROVE  /\ o \in Seq(Nat) /\ Len(o) = Len(q) /\ DOMAIN o = 1 .. Len(o) /\ Len(o) \in Nat
         /\ Place(o, i) \in 0 .. Len(o)
         /\ \A p \in 1 .. Len(o) : o[p] \in 1 .. Len(o)
<1>1. o \in Seq(Nat) /\ Len(o) = Len(q) /\ IsInjective(o) /\ Range(o) = DOMAIN o
  BY OrderIsPermutation DEF OrdersOf
<1>2. Len(o) \in Nat /\ DOMAIN o = 1 .. Len(o)
  BY <1>1, LenProperties
<1>3. \A p \in 1 .. Len(o) : o[p] \in 1 .. Len(o)
  BY <1>1, <1>2 DEF Range
<1>4. Place(o, i) \in 0 .. Len(o)
  <2>1. CASE \E p \in 1 .. Len(o) : o[p] = i
    <3>1. PICK p \in 1 .. Len(o) : o[p] = i
      BY <2>1
    <3>2. Place(o, o[p]) = p
      BY <1>1, <1>2, PlaceIs DEF IsInjective
    <3> QED  BY <1>2, <3>1, <3>2
  <2>2. CASE ~\E p \in 1 .. Len(o) : o[p] = i
    <3>1. {p \in 1 .. Len(o) : o[p] = i} = {}
      BY <2>2
    <3>2. Place(o, i) = 0
      BY <3>1 DEF Place, SelectInSeq
    <3> QED  BY <1>2, <3>2
  <2> QED  BY <2>1, <2>2
<1> QED  BY <1>1, <1>2, <1>3, <1>4

\* The place d further on in a shuffle of n, from p on.
Along(n, p, d) == IF p + d <= n THEN p + d ELSE p + d - n

LEMMA AlongIs ==
  ASSUME NEW n \in Nat, NEW p \in 1 .. n
  PROVE  /\ \A d \in 0 .. n - 1 : Along(n, p, d) \in 1 .. n
         /\ Along(n, p, 0) = p
         /\ \A d \in 1 .. n : Along(n, p, d) = (Along(n, p, d - 1) % n) + 1
         /\ Along(n, p, n) = p
         /\ \A t \in 1 .. n : \E d \in 0 .. n - 1 :
              Along(n, p, d) = t /\ \A e \in 0 .. n - 1 : Along(n, p, e) = t => e = d
<1>1. \A d \in 0 .. n - 1 : Along(n, p, d) \in 1 .. n
  BY DEF Along
<1>2. Along(n, p, 0) = p /\ Along(n, p, n) = p
  BY DEF Along
<1>3. ASSUME NEW d \in 1 .. n  PROVE Along(n, p, d) = (Along(n, p, d - 1) % n) + 1
  <2> DEFINE a == Along(n, p, d - 1)
  <2>1. a \in 1 .. n
    BY <1>1
  <2>2. CASE a = n
    <3>1. a % n = 0
      BY <2>2, SMT
    <3>2. Along(n, p, d) = 1
      BY <2>2 DEF Along
    <3> QED  BY <3>1, <3>2
  <2>3. CASE a < n
    <3>1. a % n = a
      <4> HIDE DEF a
      <4> QED  BY <2>1, <2>3, SMT
    <3>2. Along(n, p, d) = a + 1
      BY <2>3 DEF Along
    <3> QED  BY <3>1, <3>2
  <2> QED  BY <2>1, <2>2, <2>3
<1>4. ASSUME NEW t \in 1 .. n
      PROVE  \E d \in 0 .. n - 1 :
               Along(n, p, d) = t /\ \A e \in 0 .. n - 1 : Along(n, p, e) = t => e = d
  <2> DEFINE d == IF t >= p THEN t - p ELSE t - p + n
  <2>1. d \in 0 .. n - 1 /\ Along(n, p, d) = t
    BY DEF Along
  <2>2. \A e \in 0 .. n - 1 : Along(n, p, e) = t => e = d
    BY DEF Along
  <2> QED  BY <2>1, <2>2
<1> QED  BY <1>1, <1>2, <1>3, <1>4

\* An entry of a list is somewhere in its shuffle, and what is next there is the
\* entry one place on.
LEMMA EntryIsPlaced ==
  ASSUME NEW S, NEW q \in Seq(S), Len(q) > 1, NEW o \in OrdersOf(q), NEW i \in DOMAIN q
  PROVE  \E p \in 1 .. Len(q) : o[p] = i
<1>1. o \in Seq(Nat) /\ Len(o) = Len(q) /\ Range(o) = DOMAIN o
  BY OrderIsPermutation DEF OrdersOf
<1>2. DOMAIN o = 1 .. Len(q) /\ DOMAIN q = 1 .. Len(q)
  BY <1>1, LenProperties
<1> QED  BY <1>1, <1>2 DEF Range

LEMMA NextIsAlong ==
  ASSUME NEW S, NEW q \in Seq(S), Len(q) > 1, NEW o \in OrdersOf(q), NEW p \in 1 .. Len(q)
  PROVE  NextOf(q, o[p], TRUE, o) = o[(p % Len(q)) + 1] /\ o[p] \in DOMAIN q
<1>1. o \in Seq(Nat) /\ Len(o) = Len(q) /\ IsInjective(o) /\ Len(q) \in Nat
  BY OrderIsPermutation, LenProperties DEF OrdersOf
<1>2. o[p] \in 1 .. Len(q) /\ DOMAIN q = 1 .. Len(q) /\ q # <<>>
  BY <1>1, PlaceTyped, LenProperties
<1>3. Place(o, o[p]) = p
  BY <1>1, PlaceIs DEF IsInjective
<1> QED  BY <1>2, <1>3 DEF NextOf

\* A stretch of the walk is a stretch of the shuffle, up to its whole length.
LEMMA WalkIsAlong ==
  ASSUME NEW S, NEW q \in Seq(S), Len(q) > 1, NEW o \in OrdersOf(q), NEW walk,
         \A k \in Nat : walk[k + 1] = NextOf(q, walk[k], TRUE, o),
         NEW k \in Nat, NEW p \in 1 .. Len(q), walk[k] = o[p]
  PROVE  \A d \in 0 .. Len(q) : walk[k + d] = o[Along(Len(q), p, d)]
<1> DEFINE n == Len(q)
           Off == {d \in 0 .. n : walk[k + d] # o[Along(n, p, d)]}
<1>1. n \in Nat
  BY LenProperties
<1>2. SUFFICES ASSUME Off # {}  PROVE FALSE
  OBVIOUS
<1>3. PICK d \in Off : \A e \in Off : d <= e
  <2>1. Off \in SUBSET Nat
    OBVIOUS
  <2> HIDE DEF Off
  <2> QED  BY <1>2, <2>1, LowestIs
<1>4. d # 0
  <2>1. k + 0 = k /\ Along(n, p, 0) = p
    BY <1>1, AlongIs
  <2>2. walk[k + 0] = o[Along(n, p, 0)]
    BY <2>1
  <2>3. walk[k + d] # o[Along(n, p, d)]
    OBVIOUS
  <2> QED  BY <2>2, <2>3
<1> DEFINE a == Along(n, p, d - 1)
<1>5. d \in 1 .. n /\ d - 1 \in 0 .. n - 1 /\ k + (d - 1) \in Nat /\ (k + (d - 1)) + 1 = k + d
  BY <1>1, <1>4
<1>6. walk[k + (d - 1)] = o[a]
  <2>1. d - 1 \notin Off
    <3> HIDE DEF Off
    <3>1. ~(d <= d - 1)
      BY <1>5
    <3> QED  BY <1>3, <3>1
  <2>2. d - 1 \in 0 .. n
    BY <1>1, <1>5
  <2> QED  BY <2>1, <2>2
<1>7. a \in 1 .. n /\ Along(n, p, d) = (a % n) + 1
  BY <1>1, <1>5, AlongIs
<1>8. walk[k + d] = NextOf(q, o[a], TRUE, o)
  BY <1>5, <1>6
<1> HIDE DEF a
<1>9. walk[k + d] = o[(a % n) + 1]
  BY <1>7, <1>8, NextIsAlong
<1> QED  BY <1>3, <1>7, <1>9

\* However often next is asked of a shuffle, what plays is an entry of the list.
LEMMA WalkStays ==
  ASSUME NEW S, NEW q \in Seq(S), Len(q) > 1, NEW o \in OrdersOf(q), NEW walk,
         walk[0] \in DOMAIN q, \A k \in Nat : walk[k + 1] = NextOf(q, walk[k], TRUE, o)
  PROVE  \A k \in Nat : walk[k] \in DOMAIN q
<1> DEFINE Off == {k \in Nat : walk[k] \notin DOMAIN q}
<1>1. SUFFICES ASSUME Off # {}  PROVE FALSE
  OBVIOUS
<1>2. PICK k \in Off : \A e \in Off : k <= e
  <2>1. Off \in SUBSET Nat
    OBVIOUS
  <2> HIDE DEF Off
  <2> QED  BY <1>1, <2>1, LowestIs
<1>3. k - 1 \in Nat /\ (k - 1) + 1 = k
  <2>1. k \in Nat /\ k # 0
    OBVIOUS
  <2> QED  BY <2>1
<1>4. walk[k - 1] \in DOMAIN q
  BY <1>2, <1>3
<1>5. PICK p \in 1 .. Len(q) : o[p] = walk[k - 1]
  BY <1>4, EntryIsPlaced
<1>6. Len(q) \in Nat
  BY LenProperties
<1>7. (p % Len(q)) + 1 \in 1 .. Len(q)
  BY <1>6, RoundAndBack
<1>8. walk[k] = o[(p % Len(q)) + 1]
  BY <1>3, <1>5, NextIsAlong
<1>9. walk[k] \in DOMAIN q
  BY <1>7, <1>8, NextIsAlong
<1> QED  BY <1>2, <1>9

\* A shuffle never repeats until the queue cycles (queue.ts:4), and never ends: from
\* any entry, next after next plays every entry of the list exactly once before it is
\* back, and goes on the same way for ever.
THEOREM ShuffleVisitsAll ==
  ASSUME NEW S, NEW q \in Seq(S), Len(q) > 1, NEW o \in OrdersOf(q), NEW walk,
         walk[0] \in DOMAIN q, \A k \in Nat : walk[k + 1] = NextOf(q, walk[k], TRUE, o)
  PROVE  \A k \in Nat :
           /\ walk[k + Len(q)] = walk[k]
           /\ \A i \in DOMAIN q : \E d \in 0 .. Len(q) - 1 :
                walk[k + d] = i /\ \A e \in 0 .. Len(q) - 1 : walk[k + e] = i => e = d
<1> DEFINE n == Len(q)
<1>1. n \in Nat /\ n \in 0 .. n /\ 0 .. n - 1 \subseteq 0 .. n
  BY LenProperties
<1>2. SUFFICES ASSUME NEW k \in Nat
               PROVE  /\ walk[k + n] = walk[k]
                      /\ \A i \in DOMAIN q : \E d \in 0 .. n - 1 :
                           walk[k + d] = i /\ \A e \in 0 .. n - 1 : walk[k + e] = i => e = d
  OBVIOUS
<1>3. walk[k] \in DOMAIN q
  BY WalkStays
<1>4. PICK p \in 1 .. n : o[p] = walk[k]
  BY <1>3, EntryIsPlaced
<1>5. \A d \in 0 .. n : walk[k + d] = o[Along(n, p, d)]
  BY <1>4, WalkIsAlong
<1>6. walk[k + n] = walk[k]
  <2>1. Along(n, p, n) = p
    BY <1>1, AlongIs
  <2>2. walk[k + n] = o[Along(n, p, n)]
    <3> HIDE DEF n
    <3> QED  BY <1>1, <1>5
  <2> QED  BY <1>4, <2>1, <2>2
<1>7. ASSUME NEW i \in DOMAIN q
      PROVE  \E d \in 0 .. n - 1 :
               walk[k + d] = i /\ \A e \in 0 .. n - 1 : walk[k + e] = i => e = d
  <2>1. PICK t \in 1 .. n : o[t] = i
    BY EntryIsPlaced
  <2>2. PICK d \in 0 .. n - 1 : /\ Along(n, p, d) = t
                                /\ \A e \in 0 .. n - 1 : Along(n, p, e) = t => e = d
    <3>1. \A u \in 1 .. n : \E d \in 0 .. n - 1 :
            Along(n, p, d) = u /\ \A e \in 0 .. n - 1 : Along(n, p, e) = u => e = d
      <4> HIDE DEF n
      <4> QED  BY <1>1, AlongIs, Zenon
    <3> QED  BY <3>1, Zenon
  <2>3. walk[k + d] = i
    BY <1>1, <1>5, <2>1, <2>2
  <2>4. ASSUME NEW e \in 0 .. n - 1, walk[k + e] = i  PROVE e = d
    <3>1. Along(n, p, e) \in 1 .. n
      BY <1>1, AlongIs
    <3>2. o[Along(n, p, e)] = o[t]
      BY <1>1, <1>5, <2>1, <2>4
    <3>3. IsInjective(o) /\ DOMAIN o = 1 .. n
      BY OrderIsPermutation, PlaceTyped DEF OrdersOf
    <3>4. Along(n, p, e) = t
      BY <3>1, <3>2, <3>3 DEF IsInjective
    <3> QED  BY <2>2, <3>4
  <2> QED  BY <2>3, <2>4
<1> QED  BY <1>6, <1>7

\* What is planned is an entry of the queue, wherever the index is.
LEMMA NextTyped ==
  ASSUME NEW S, NEW q \in Seq(S), NEW i \in Nat, NEW random, NEW o \in OrdersOf(q) \cup {<<>>},
         random /\ q # <<>> => o \in OrdersOf(q)
  PROVE  NextOf(q, i, random, o) \in 0 .. Len(q)
<1>1. Len(q) \in Nat
  BY LenProperties
<1>2. CASE q = <<>> \/ i = 0
  BY <1>1, <1>2 DEF NextOf
<1>3. CASE ~(q = <<>> \/ i = 0) /\ random /\ Len(q) > 1
  <2>1. o \in OrdersOf(q)
    BY <1>3
  <2>2. PICK p \in 0 .. Len(q) : p = Place(o, i)
    BY <2>1, PlaceTyped
  <2>3. (p % Len(q)) + 1 \in 1 .. Len(q)
    <3>1. p % Len(q) \in 0 .. Len(q) - 1
      BY <1>1, <1>3, SMT
    <3> QED  BY <1>1, <3>1
  <2>4. NextOf(q, i, random, o) = o[(p % Len(q)) + 1]
    BY <1>3, <2>2 DEF NextOf
  <2> QED  BY <1>1, <2>1, <2>3, <2>4, PlaceTyped
<1>4. CASE ~(q = <<>> \/ i = 0) /\ ~(random /\ Len(q) > 1)
  <2>1. NextOf(q, i, random, o) = IF i < Len(q) THEN i + 1 ELSE 0
    BY <1>4, Zenon DEF NextOf
  <2> QED  BY <1>1, <2>1
<1> QED  BY <1>2, <1>3, <1>4

LEMMA PrevTyped ==
  ASSUME NEW S, NEW q \in Seq(S), NEW i \in 0 .. MaxLen, NEW random,
         NEW o \in OrdersOf(q) \cup {<<>>}, Len(q) <= MaxLen
  PROVE  /\ PrevOf(q, i, random, o) \in 0 .. MaxLen
         /\ i <= Len(q) => PrevOf(q, i, random, o) <= Len(q)
<1>1. Len(q) \in Nat /\ MaxLen \in Nat
  BY LenProperties, PlaybackConstants
<1>2. CASE q = <<>> \/ i = 0
  BY <1>1, <1>2 DEF PrevOf
<1>3. CASE ~(q = <<>> \/ i = 0) /\ random /\ Len(q) > 1 /\ o # <<>>
  <2>1. o \in OrdersOf(q)
    BY <1>3
  <2>2. PICK p \in 0 .. Len(q) : p = Place(o, i)
    BY <2>1, PlaceTyped
  <2>3. PICK r \in 1 .. Len(q) : r = IF p > 1 THEN p - 1 ELSE Len(q)
    BY <1>1, <1>3
  <2>4. PrevOf(q, i, random, o) = o[r]
    BY <1>3, <2>2, <2>3, Zenon DEF PrevOf
  <2>5. o[r] \in 1 .. Len(q)
    BY <2>1, PlaceTyped
  <2> QED  BY <1>1, <2>4, <2>5
<1>4. CASE ~(q = <<>> \/ i = 0) /\ ~(random /\ Len(q) > 1 /\ o # <<>>)
  <2>1. PrevOf(q, i, random, o) = i - 1
    BY <1>4, Zenon DEF PrevOf
  <2> QED  BY <1>1, <1>4, <2>1
<1> QED  BY <1>2, <1>3, <1>4

-----------------------------------------------------------------------------
(* Type correctness, one part of the state at a time.                      *)

PlaceOK  == world \in Worlds /\ file \in [Tracks -> world.files] /\ calls \in 0 .. MaxCalls
ListOK   == /\ queue \in world.lists \cup {<<>>} /\ index \in 0 .. MaxLen /\ planned \in 0 .. MaxLen
            /\ shuffle \in BOOLEAN /\ order \in OrdersOf(queue) \cup {<<>>}
ShownOK  == /\ {track, pending, meta} \subseteq Tracks \cup {None}
            /\ transport \in States /\ {error, far} \subseteq BOOLEAN
GuardsOK == failures \in Nat /\ skips \in Nat
JobsOK   == jobs \in Seq(Job)
BuiltOK  == kind \in {"none", "module", "sid"} /\ resume \in Tracks \cup {None} /\ tidy \in BOOLEAN
EngineOK == song \in Tracks \cup {None} /\ {over, silent, loaded} \subseteq BOOLEAN
PortsOK  == fromWorker \in Seq(WorkerEvent) /\ fromNode \in Seq(NodeEvent)

Parts ==
  /\ PlaceOK /\ ListOK /\ ShownOK /\ GuardsOK
  /\ JobsOK /\ BuiltOK /\ EngineOK /\ PortsOK /\ astray \subseteq Tracks

LEMMA PartsType == (TypeOK <=> Parts) /\ (TypeOK' <=> Parts')
  BY DEF TypeOK, Parts, PlaceOK, ListOK, ShownOK, GuardsOK, JobsOK, BuiltOK, EngineOK, PortsOK

LEMMA TypeParts ==
  /\ TypeOK => /\ PlaceOK /\ ListOK /\ ShownOK /\ GuardsOK
               /\ JobsOK /\ BuiltOK /\ EngineOK /\ PortsOK /\ astray \subseteq Tracks
  /\ PlaceOK' /\ ListOK' /\ ShownOK' /\ GuardsOK' /\ JobsOK' /\ BuiltOK' /\ EngineOK'
       /\ PortsOK' /\ astray' \subseteq Tracks => TypeOK'
  BY PartsType DEF Parts

LEMMA PartsStay ==
  /\ PlaceOK /\ UNCHANGED <<place, calls>> => PlaceOK'
  /\ ListOK /\ UNCHANGED <<place, list>> => ListOK'
  /\ ShownOK /\ UNCHANGED shown => ShownOK'
  /\ GuardsOK /\ UNCHANGED guards => GuardsOK'
  /\ JobsOK /\ UNCHANGED jobs => JobsOK'
  /\ BuiltOK /\ UNCHANGED built => BuiltOK'
  /\ EngineOK /\ UNCHANGED engine => EngineOK'
  /\ PortsOK /\ UNCHANGED ports => PortsOK'
  BY DEF PlaceOK, ListOK, ShownOK, GuardsOK, JobsOK, BuiltOK, EngineOK, PortsOK,
         place, list, shown, guards, built, engine, ports

\* A list the user may play from, and its entries.
LEMMA ListsAre ==
  ASSUME world \in Worlds, NEW q \in world.lists
  PROVE  /\ q \in Seq(Tracks) /\ q # <<>> /\ Len(q) \in Nat \ {0} /\ Len(q) <= MaxLen
         /\ DOMAIN q = 1 .. Len(q) /\ DOMAIN q \subseteq 0 .. MaxLen
         /\ \A i \in DOMAIN q : q[i] \in Tracks
         /\ Orders = {} \/ OrdersOf(q) # {}
<1>1. q \in Lists
  BY DEF Lists
<1>2. q \in Seq(Tracks) /\ q # <<>> /\ Len(q) <= MaxLen /\ MaxLen \in Nat
        /\ (Orders = {} \/ OrdersOf(q) # {})
  BY <1>1, PlaybackConstants
<1>3. Len(q) \in Nat \ {0} /\ DOMAIN q = 1 .. Len(q)
  BY <1>2, LenProperties, EmptySeq
<1>4. \A i \in DOMAIN q : q[i] \in Tracks
  BY <1>2, <1>3, ElementOfSeq
<1>5. DOMAIN q \subseteq 0 .. MaxLen
  BY <1>2, <1>3
<1> QED  BY <1>2, <1>3, <1>4, <1>5

LEMMA QueueIs ==
  ASSUME PlaceOK, ListOK
  PROVE  /\ queue \in Seq(Tracks) /\ Len(queue) \in Nat /\ Len(queue) <= MaxLen
         /\ DOMAIN queue = 1 .. Len(queue)
         /\ \A i \in DOMAIN queue : queue[i] \in Tracks
         /\ queue = <<>> <=> Len(queue) = 0
<1>1. CASE queue \in world.lists
  BY <1>1, ListsAre DEF PlaceOK
<1>2. CASE queue = <<>>
  <2>1. queue \in Seq(Tracks) /\ Len(queue) = 0 /\ DOMAIN queue = 1 .. 0
    BY <1>2, EmptySeq, LenProperties
  <2> QED  BY <1>2, <2>1, PlaybackConstants
<1> QED  BY <1>1, <1>2 DEF ListOK

\* rollNext leaves a plan for the queue it was made for.
LEMMA RollTyped ==
  ASSUME NEW S, NEW q \in Seq(S), NEW i \in Nat, NEW random, NEW o \in OrdersOf(q) \cup {<<>>},
         Len(q) <= MaxLen, RollNext(q, i, random, o)
  PROVE  /\ order' \in OrdersOf(q) \cup {<<>>}
         /\ planned' \in 0 .. MaxLen /\ planned' <= Len(q)
<1>1. order' \in OrdersOf(q) \cup {<<>>} /\ (random /\ q # <<>> => order' \in OrdersOf(q))
  <2>1. CASE random /\ q # <<>> /\ o = <<>>
    BY <2>1 DEF RollNext
  <2>2. CASE ~(random /\ q # <<>> /\ o = <<>>)
    <3>1. order' = o
      BY <2>2, Zenon DEF RollNext
    <3> QED  BY <2>2, <3>1
  <2> QED  BY <2>1, <2>2
<1>2. planned' = NextOf(q, i, random, order')
  BY DEF RollNext
<1>3. planned' \in 0 .. Len(q)
  BY <1>1, <1>2, NextTyped
<1> QED  BY <1>1, <1>3, LenProperties, PlaybackConstants

-----------------------------------------------------------------------------
(* Jobs.                                                                   *)

LEMMA RemoveAtProperties ==
  ASSUME NEW S, NEW s \in Seq(S), NEW i \in DOMAIN s
  PROVE  /\ RemoveAt(s, i) \in Seq(S)
         /\ Len(RemoveAt(s, i)) = Len(s) - 1
         /\ \A j \in 1 .. Len(s) - 1 :
              RemoveAt(s, i)[j] = IF j < i THEN s[j] ELSE s[j + 1]
<1> DEFINE a == SubSeq(s, 1, i - 1)
           b == SubSeq(s, i + 1, Len(s))
<1>1. i \in 1 .. Len(s) /\ Len(s) \in Nat
  BY LenProperties
<1>2. /\ a \in Seq(S) /\ Len(a) = i - 1 /\ \A j \in 1 .. i - 1 : a[j] = s[j]
      /\ b \in Seq(S) /\ Len(b) = Len(s) - i
      /\ \A j \in 1 .. Len(s) - i : b[j] = s[i + j]
  BY <1>1
<1>3. RemoveAt(s, i) = a \o b
  BY DEF RemoveAt
<1> HIDE DEF a, b
<1>4. /\ a \o b \in Seq(S) /\ Len(a \o b) = Len(s) - 1
      /\ \A j \in 1 .. Len(s) - 1 : (a \o b)[j] = IF j < i THEN a[j] ELSE b[j - (i - 1)]
  <2>1. Len(a) + Len(b) = Len(s) - 1
    BY <1>1, <1>2
  <2>2. a \o b \in Seq(S) /\ Len(a \o b) = Len(a) + Len(b)
        /\ \A j \in 1 .. Len(a) + Len(b) :
             (a \o b)[j] = IF j <= Len(a) THEN a[j] ELSE b[j - Len(a)]
    BY <1>2, ConcatProperties
  <2>3. ASSUME NEW j \in 1 .. Len(s) - 1
        PROVE  (a \o b)[j] = IF j < i THEN a[j] ELSE b[j - (i - 1)]
    <3>1. Len(a) = i - 1 /\ j \in 1 .. Len(a) + Len(b) /\ (j <= i - 1 <=> j < i)
      BY <1>1, <1>2, <2>1, SMTT(30)
    <3>2. (a \o b)[j] = IF j <= i - 1 THEN a[j] ELSE b[j - (i - 1)]
      BY <2>2, <3>1, Zenon
    <3> QED  BY <3>1, <3>2, Zenon
  <2>4. a \o b \in Seq(S) /\ Len(a \o b) = Len(s) - 1
    BY <2>1, <2>2, Zenon
  <2> QED  BY <2>3, <2>4
<1>5. ASSUME NEW j \in 1 .. Len(s) - 1, ~(j < i)  PROVE b[j - (i - 1)] = s[j + 1]
  <2>1. j - (i - 1) \in 1 .. Len(s) - i /\ i + (j - (i - 1)) = j + 1
    BY <1>1, <1>5
  <2> QED  BY <1>2, <2>1
<1> QED  BY <1>1, <1>2, <1>3, <1>4, <1>5

LEMMA JobsAre ==
  ASSUME JobsOK
  PROVE  /\ Len(jobs) \in Nat /\ DOMAIN jobs = 1 .. Len(jobs)
         /\ \A i \in DOMAIN jobs : /\ jobs[i] \in Job /\ jobs[i].track \in Tracks
                                   /\ jobs[i].kind \in {"resolve", "wake", "fetch", "decode"}
                                   /\ jobs[i].own \in BOOLEAN /\ jobs[i].fits \in BOOLEAN
                                   /\ Without(i) \in Seq(Job)
<1>1. jobs \in Seq(Job)
  BY DEF JobsOK
<1>2. Len(jobs) \in Nat /\ DOMAIN jobs = 1 .. Len(jobs)
  BY <1>1, LenProperties
<1>3. ASSUME NEW i \in DOMAIN jobs  PROVE jobs[i] \in Job /\ Without(i) \in Seq(Job)
  BY <1>1, <1>2, ElementOfSeq, RemoveAtProperties DEF Without
<1> QED  BY <1>2, <1>3 DEF Job

LEMMA JobForTyped ==
  ASSUME NEW k \in {"resolve", "wake", "fetch", "decode"}, NEW t \in Tracks
  PROVE  JobFor(k, t) \in Job
  BY DEF JobFor, Job

\* A new engine takes nothing away from those that wait, nor their order.
LEMMA OrphanedIs ==
  ASSUME NEW waiting \in Seq(Job)
  PROVE  /\ Orphaned(waiting) \in Seq(Job) /\ Len(Orphaned(waiting)) = Len(waiting)
         /\ DOMAIN Orphaned(waiting) = 1 .. Len(waiting)
         /\ \A i \in 1 .. Len(waiting) :
              /\ Orphaned(waiting)[i].kind = waiting[i].kind
              /\ Orphaned(waiting)[i].track = waiting[i].track
              /\ Orphaned(waiting)[i].fits = waiting[i].fits
<1>1. Len(waiting) \in Nat /\ DOMAIN waiting = 1 .. Len(waiting)
        /\ \A i \in 1 .. Len(waiting) : waiting[i] \in Job
  BY LenProperties, ElementOfSeq
<1>2. Orphaned(waiting) = [i \in 1 .. Len(waiting) |->
        [waiting[i] EXCEPT !.own = @ /\ waiting[i].kind \notin {"wake", "fetch"}]]
  BY <1>1, Zenon DEF Orphaned
<1>3. ASSUME NEW i \in 1 .. Len(waiting)
      PROVE  /\ Orphaned(waiting)[i] \in Job
             /\ Orphaned(waiting)[i].kind = waiting[i].kind
             /\ Orphaned(waiting)[i].track = waiting[i].track
             /\ Orphaned(waiting)[i].fits = waiting[i].fits
  <2>1. waiting[i] \in Job
    BY <1>1
  <2>2. PICK b \in BOOLEAN : b = (waiting[i].own /\ waiting[i].kind \notin {"wake", "fetch"})
    OBVIOUS
  <2>3. Orphaned(waiting)[i] = [waiting[i] EXCEPT !.own = b]
    BY <1>2, <2>2, Zenon
  <2> QED  BY <2>1, <2>3 DEF Job
<1>4. Orphaned(waiting) \in [1 .. Len(waiting) -> Job]
  BY <1>2, <1>3, Zenon
<1>5. Orphaned(waiting) \in Seq(Job)
  BY <1>1, <1>4, SeqDef
<1>6. Len(Orphaned(waiting)) = Len(waiting) /\ DOMAIN Orphaned(waiting) = 1 .. Len(waiting)
  BY <1>1, <1>4, <1>5, LenProperties
<1> QED  BY <1>3, <1>5, <1>6

-----------------------------------------------------------------------------
(* The steps the store's functions share.                                  *)

LEMMA TakesTyped == ShownOK => \A event : Takes(event) \in States
<1> SUFFICES ASSUME ShownOK, NEW event PROVE Takes(event) \in States
  OBVIOUS
<1>1. transport \in States
  BY DEF ShownOK
<1> QED  BY <1>1, Zenon DEF Takes, States

LEMMA ShowTyped ==
  ASSUME NEW t \in Tracks, Show(t), transport' \in States
  PROVE  ShownOK'
  BY DEF Show, ShownOK

LEMMA KindTyped == \A t : KindOf(t) \in {"none", "module", "sid"}
  BY DEF KindOf

LEMMA ReplaceTyped ==
  ASSUME NEW k \in {"none", "module", "sid"}, NEW waiting, BuiltOK, Replace(k, waiting)
  PROVE  /\ kind' \in {"none", "module", "sid"} /\ tidy' \in BOOLEAN
         /\ EngineOK'
<1>1. tidy' \in BOOLEAN
  BY Zenon DEF Replace, BuiltOK
<1> QED  BY <1>1 DEF Replace, EngineOK

LEMMA StopTyped == EngineOK /\ EngineStop => EngineOK'
  BY DEF EngineOK, EngineStop, engine

LEMMA PlayTyped ==
  ASSUME ShownOK, BuiltOK, EngineOK, NEW t \in Tracks, NEW waiting \in Seq(Job), PlayTrack(t, waiting)
  PROVE  ShownOK' /\ BuiltOK' /\ EngineOK' /\ JobsOK'
<1>1. ShownOK'
  BY TakesTyped, ShowTyped DEF PlayTrack, Send
<1>2. JobFor("wake", t) \in Job /\ Orphaned(waiting) \in Seq(Job) /\ UNCHANGED resume
  BY JobForTyped, OrphanedIs DEF PlayTrack
<1>3. CASE /\ EngineStop /\ UNCHANGED <<kind, tidy>>
           /\ jobs' = Append(waiting, JobFor("wake", t))
  BY <1>1, <1>2, <1>3, StopTyped, AppendProperties DEF BuiltOK, JobsOK
<1>4. CASE /\ Replace(KindOf(t), waiting)
           /\ jobs' = Append(Orphaned(waiting), JobFor("wake", t))
  BY <1>1, <1>2, <1>4, KindTyped, ReplaceTyped, AppendProperties DEF BuiltOK, JobsOK
<1> QED  BY <1>3, <1>4 DEF PlayTrack

LEMMA RecreateTyped ==
  ASSUME ShownOK, BuiltOK, JobsOK, track # None, Recreate
  PROVE  ShownOK' /\ BuiltOK' /\ EngineOK' /\ JobsOK'
<1>1. track \in Tracks
  BY DEF ShownOK
<1>2. ShownOK'
  BY <1>1, TakesTyped, ShowTyped DEF Recreate, Send
<1>3. JobsOK'
  BY <1>1, JobForTyped, OrphanedIs, AppendProperties DEF Recreate, JobsOK
<1>4. resume' \in Tracks \cup {None}
  BY <1>1 DEF Recreate
<1>5. kind' \in {"none", "module", "sid"} /\ tidy' \in BOOLEAN /\ EngineOK'
  BY ReplaceTyped DEF Recreate, BuiltOK
<1> QED  BY <1>2, <1>3, <1>4, <1>5 DEF BuiltOK

LEMMA SetPosTyped == EngineOK /\ SetPos => EngineOK'
<1> SUFFICES ASSUME EngineOK, SetPos PROVE EngineOK'
  OBVIOUS
<1>1. over' \in BOOLEAN
  BY Zenon DEF SetPos, EngineOK
<1> QED  BY <1>1 DEF SetPos, EngineOK

\* A step within the queue.
LEMMA StepTyped ==
  ASSUME PlaceOK, ListOK, ShownOK, BuiltOK, EngineOK, JobsOK,
         NEW i \in 1 .. MaxLen, StepTo(i)
  PROVE  index' \in 0 .. MaxLen /\ ShownOK' /\ BuiltOK' /\ EngineOK' /\ JobsOK'
<1>1. index' \in 0 .. MaxLen
  BY PlaybackConstants DEF StepTo
<1>2. i <= Len(queue) => queue[i] \in Tracks
  BY QueueIs, PlaybackConstants
<1>3. CASE i <= Len(queue) /\ PlayTrack(queue[i], jobs)
  BY <1>1, <1>2, <1>3, PlayTyped DEF JobsOK
<1>4. CASE /\ i <= Len(queue)
           /\ jobs' = Append(jobs, JobFor("resolve", queue[i]))
           /\ UNCHANGED <<shown, built, engine>>
  <2>1. JobsOK'
    BY <1>2, <1>4, JobForTyped, AppendProperties DEF JobsOK
  <2> QED  BY <1>1, <1>4, <2>1, PartsStay
<1>5. CASE UNCHANGED <<jobs, shown, built, engine>>
  BY <1>1, <1>5, PartsStay
<1> QED  BY <1>3, <1>4, <1>5 DEF StepTo

LEMMA PlayNextTyped ==
  ASSUME PlaceOK, ListOK, ShownOK, BuiltOK, EngineOK, JobsOK, PlayNext
  PROVE  index' \in 0 .. MaxLen /\ ShownOK' /\ BuiltOK' /\ EngineOK' /\ JobsOK'
<1>1. CASE planned = 0
  <2>1. UNCHANGED <<index, jobs, built, shown, engine>>
    BY <1>1, Zenon DEF PlayNext
  <2> QED  BY <2>1, PartsStay DEF ListOK
<1>2. CASE planned # 0
  <2>1. StepTo(planned) /\ planned \in 1 .. MaxLen
    BY <1>2, PlaybackConstants DEF PlayNext, ListOK
  <2> QED  BY <2>1, StepTyped
<1> QED  BY <1>1, <1>2

LEMMA ErrorTyped ==
  ASSUME ShownOK, GuardsOK, OnError
  PROVE  ShownOK' /\ GuardsOK'
<1>1. transport' \in States /\ skips' \in Nat
  <2>1. CASE CanNext /\ failures + 1 <= Len(queue)
    <3>1. skips' = skips + 1 /\ UNCHANGED transport
      BY <2>1, Zenon DEF OnError
    <3> QED  BY <3>1 DEF ShownOK, GuardsOK
  <2>2. CASE ~(CanNext /\ failures + 1 <= Len(queue))
    <3>1. Send("ERROR") /\ UNCHANGED skips
      BY <2>2, Zenon DEF OnError
    <3> QED  BY <3>1, TakesTyped DEF Send, GuardsOK
  <2> QED  BY <2>1, <2>2
<1> QED  BY <1>1 DEF OnError, ShownOK, GuardsOK

-----------------------------------------------------------------------------
(* Every step keeps the types.                                             *)

LEMMA WorldStays == Next => UNCHANGED place
  BY DEF Next, User, Gesture, Click, Cue, NextTrack, PrevTrack, Seek, Toggle, ToggleShuffle,
     Stop, Eject, Later, Resolves, Wakes, Answered, Done, Resolved, ResolveFailed, Awake,
     NeverUp, Fetched, FetchFailed, Decoded, DecodeTimeout, Skip, Watchdog, FromWorker,
     FromNode, OnMetadata, OnMetadataAs, OnLoadError, OnProgress, OnEnded, Engine, PlayOut,
     Sound

LEMMA GestureTyped ==
  ASSUME TypeOK, NEW g, Gesture(g)
  PROVE  PlaceOK' /\ PortsOK' /\ (astray \subseteq Tracks)'
<1>1. calls' \in 0 .. MaxCalls
  BY PlaybackConstants DEF Gesture, TypeOK
<1> QED  BY <1>1, TypeParts DEF Gesture, place, ports, PlaceOK, PortsOK

LEMMA ClickTyped ==
  ASSUME TypeOK, NEW q \in world.lists, NEW i \in DOMAIN q, Click(q, i)
  PROVE  TypeOK'
<1>1. PlaceOK' /\ PortsOK' /\ (astray \subseteq Tracks)' /\ UNCHANGED world
  BY GestureTyped DEF Click, Gesture, place
<1>2. ListOK'
  BY <1>1, ListsAre, TypeParts DEF Click, PlaceOK, ListOK
<1>3. ShownOK' /\ BuiltOK' /\ EngineOK' /\ JobsOK'
  BY ListsAre, PlayTyped, TypeParts DEF Click, JobsOK, PlaceOK
<1>4. GuardsOK'
  BY PartsStay, TypeParts DEF Click
<1> QED  BY <1>1, <1>2, <1>3, <1>4, TypeParts

LEMMA CueTyped ==
  ASSUME TypeOK, NEW q \in world.lists, NEW i \in DOMAIN q, Cue(q, i)
  PROVE  TypeOK'
<1>1. PlaceOK' /\ PortsOK' /\ (astray \subseteq Tracks)' /\ UNCHANGED world
  BY GestureTyped DEF Cue, Gesture, place
<1>2. q[i] \in Tracks /\ q \in Seq(Tracks) /\ i \in Nat /\ i \in 0 .. MaxLen /\ Len(q) <= MaxLen
  BY ListsAre, PlaybackConstants, TypeParts DEF PlaceOK
<1>3. ListOK'
  <2>1. RollNext(q, i, shuffle, <<>>) /\ queue' = q /\ index' = i /\ UNCHANGED shuffle
    BY DEF Cue
  <2>2. order' \in OrdersOf(q) \cup {<<>>} /\ planned' \in 0 .. MaxLen
    BY <1>2, <2>1, RollTyped
  <2> QED  BY <1>1, <1>2, <2>1, <2>2, TypeParts DEF ListOK
<1>4. ShownOK'
  <2>1. transport' \in States
    <3>1. CASE q[i] \in world.sids
      BY <3>1 DEF Cue, States
    <3>2. CASE q[i] \notin world.sids
      BY <3>2, TakesTyped, TypeParts DEF Cue
    <3> QED  BY <3>1, <3>2
  <2> QED  BY <1>2, <2>1, ShowTyped DEF Cue
<1>5. JobsOK'
  <2>1. PICK w : w = IF kind = KindOf(q[i]) THEN jobs ELSE Orphaned(jobs)
    OBVIOUS
  <2>2. w \in Seq(Job)
    BY <2>1, OrphanedIs, TypeParts DEF JobsOK
  <2>3. jobs' = IF q[i] \in world.sids THEN w ELSE Append(w, JobFor("decode", q[i]))
    BY <2>1, Zenon DEF Cue
  <2> QED  BY <1>2, <2>2, <2>3, JobForTyped, AppendProperties DEF JobsOK
<1>6. BuiltOK' /\ EngineOK'
  <2>1. CASE kind = KindOf(q[i])
    <3>1. UNCHANGED <<kind, tidy, engine, resume>>
      BY <2>1 DEF Cue
    <3> QED  BY <3>1, TypeParts, PartsStay DEF BuiltOK
  <2>2. CASE kind # KindOf(q[i])
    <3>1. Replace(KindOf(q[i]), jobs) /\ UNCHANGED resume
      BY <2>2 DEF Cue
    <3> QED  BY <3>1, TypeParts, KindTyped, ReplaceTyped DEF BuiltOK
  <2> QED  BY <2>1, <2>2
<1>7. GuardsOK'
  BY PartsStay, TypeParts DEF Cue
<1> QED  BY <1>1, <1>3, <1>4, <1>5, <1>6, <1>7, TypeParts

LEMMA UserTyped == TypeOK /\ User => TypeOK'
<1> SUFFICES ASSUME TypeOK, User PROVE TypeOK'
  OBVIOUS
<1>0. PlaceOK /\ ListOK /\ ShownOK /\ GuardsOK /\ JobsOK /\ BuiltOK /\ EngineOK
  BY TypeParts
<1>1. ASSUME NEW g, Gesture(g)
      PROVE  PlaceOK' /\ PortsOK' /\ (astray \subseteq Tracks)' /\ UNCHANGED world
  BY <1>1, GestureTyped DEF Gesture, place
<1>2. CASE NextTrack
  <2>1. index' \in 0 .. MaxLen /\ ShownOK' /\ BuiltOK' /\ EngineOK' /\ JobsOK'
    BY <1>0, <1>2, PlayNextTyped DEF NextTrack
  <2>2. ListOK' /\ GuardsOK'
    BY <1>0, <1>1, <1>2, <2>1, PartsStay DEF NextTrack, ListOK
  <2> QED  BY <1>1, <1>2, <2>1, <2>2, TypeParts DEF NextTrack
<1>3. CASE PrevTrack
  <2>1. UNCHANGED <<queue, planned, shuffle, order, guards>>
    BY <1>3 DEF PrevTrack
  <2>2. PICK p \in 0 .. MaxLen : p = PrevOf(queue, index, shuffle, order)
    <3>1. index \in 0 .. MaxLen /\ order \in OrdersOf(queue) \cup {<<>>}
      BY <1>0 DEF ListOK
    <3> QED  BY <1>0, <3>1, QueueIs, PrevTyped
  <2>3. \/ /\ far' = FALSE /\ SetPos
           /\ UNCHANGED <<index, jobs, built, track, pending, meta, transport, error>>
        \/ p # 0 /\ StepTo(p)
    BY <1>3, <2>2 DEF PrevTrack
  <2>4. index' \in 0 .. MaxLen /\ ShownOK' /\ BuiltOK' /\ EngineOK' /\ JobsOK'
    <3>1. CASE /\ far' = FALSE /\ SetPos
               /\ UNCHANGED <<index, jobs, built, track, pending, meta, transport, error>>
      <4>1. index' \in 0 .. MaxLen /\ BuiltOK' /\ JobsOK'
        BY <1>0, <3>1, PartsStay DEF ListOK
      <4>2. ShownOK'
        BY <1>0, <3>1 DEF ShownOK
      <4> QED  BY <1>0, <3>1, <4>1, <4>2, SetPosTyped
    <3>2. CASE p # 0 /\ StepTo(p)
      <4>1. p \in 1 .. MaxLen
        BY <2>2, <3>2, PlaybackConstants
      <4> QED  BY <1>0, <3>2, <4>1, StepTyped
    <3> QED  BY <2>3, <3>1, <3>2
  <2>5. ListOK' /\ GuardsOK'
    BY <1>0, <1>1, <1>3, <2>1, <2>4, PartsStay DEF PrevTrack, ListOK
  <2> QED  BY <1>1, <1>3, <2>4, <2>5, TypeParts DEF PrevTrack
<1>4. CASE Seek
  <2>1. ShownOK'
    BY <1>0, <1>4 DEF Seek, ShownOK
  <2>2. ListOK' /\ GuardsOK' /\ JobsOK' /\ BuiltOK' /\ EngineOK'
    BY <1>0, <1>4, PartsStay, SetPosTyped DEF Seek, Gesture
  <2> QED  BY <1>1, <1>4, <2>1, <2>2, TypeParts DEF Seek
<1>5. CASE Toggle
  <2>1. ShownOK' /\ BuiltOK' /\ EngineOK' /\ JobsOK'
    <3>1. CASE /\ silent' = ~silent /\ Send("TOGGLE")
               /\ UNCHANGED <<jobs, built, track, pending, meta, error, far, song, over, loaded>>
      <4>1. ShownOK'
        BY <1>0, <3>1, TakesTyped DEF Send, ShownOK
      <4>2. EngineOK'
        <5>1. silent' \in BOOLEAN
          BY <3>1, Zenon
        <5> QED  BY <1>0, <3>1, <5>1 DEF EngineOK
      <4> QED  BY <1>0, <3>1, <4>1, <4>2, PartsStay
    <3>2. CASE Recreate
      BY <1>0, <1>5, <3>2, RecreateTyped DEF Toggle
    <3>3. CASE PlayTrack(track, jobs)
      <4>1. track \in Tracks
        BY <1>0, <1>5 DEF Toggle, ShownOK
      <4> QED  BY <1>0, <3>3, <4>1, PlayTyped DEF JobsOK
    <3> QED  BY <1>5, <3>1, <3>2, <3>3 DEF Toggle
  <2>2. ListOK' /\ GuardsOK'
    BY <1>0, <1>5, PartsStay DEF Toggle, Gesture
  <2> QED  BY <1>1, <1>5, <2>1, <2>2, TypeParts DEF Toggle
<1>6. CASE ToggleShuffle
  <2>1. ShownOK' /\ GuardsOK' /\ JobsOK' /\ BuiltOK' /\ EngineOK'
    BY <1>0, <1>6, PartsStay DEF ToggleShuffle
  <2>2. order' \in OrdersOf(queue) \cup {<<>>} /\ planned' \in 0 .. MaxLen
    <3>1. PICK o \in OrdersOf(queue) \cup {<<>>} : o = IF shuffle THEN order ELSE <<>>
      BY <1>0 DEF ListOK
    <3>2. RollNext(queue, index, ~shuffle, o)
      BY <1>6, <3>1 DEF ToggleShuffle
    <3>3. index \in Nat
      BY <1>0, PlaybackConstants DEF ListOK
    <3> QED  BY <1>0, <3>2, <3>3, QueueIs, RollTyped
  <2>3. shuffle' \in BOOLEAN /\ UNCHANGED <<queue, index>>
    BY <1>6, Zenon DEF ToggleShuffle
  <2>4. ListOK'
    BY <1>0, <1>1, <1>6, <2>2, <2>3 DEF ToggleShuffle, ListOK
  <2> QED  BY <1>1, <1>6, <2>1, <2>4, TypeParts DEF ToggleShuffle
<1>7. CASE Stop
  <2>1. ShownOK'
    BY <1>0, <1>7, TakesTyped DEF Stop, Send, ShownOK
  <2>2. ListOK' /\ GuardsOK' /\ JobsOK' /\ BuiltOK' /\ EngineOK'
    BY <1>0, <1>7, PartsStay, StopTyped DEF Stop, Gesture
  <2> QED  BY <1>1, <1>7, <2>1, <2>2, TypeParts DEF Stop
<1>8. CASE Eject
  <2>1. ShownOK'
    BY <1>0, <1>8, TakesTyped DEF Eject, Send, ShownOK
  <2>2. GuardsOK' /\ JobsOK' /\ BuiltOK' /\ EngineOK'
    BY <1>0, <1>8, PartsStay, StopTyped DEF Eject
  <2>3. ListOK'
    BY <1>0, <1>8, PlaybackConstants DEF Eject, ListOK
  <2> QED  BY <1>1, <1>8, <2>1, <2>2, <2>3, TypeParts DEF Eject
<1> QED
  BY <1>2, <1>3, <1>4, <1>5, <1>6, <1>7, <1>8, ClickTyped, CueTyped DEF User

LEMMA FetchedTyped == TypeOK => \A i \in DOMAIN jobs : Fetched(i) => TypeOK'
<1> SUFFICES ASSUME TypeOK, NEW i \in DOMAIN jobs, Fetched(i)  PROVE TypeOK'
  OBVIOUS
<1>1. PICK t \in Tracks : t = jobs[i].track
  BY TypeParts, JobsAre
<1>2. PICK good \in BOOLEAN : good = (file[t] = "good" /\ jobs[i].fits)
  OBVIOUS
<1>3. /\ UNCHANGED <<place, calls, astray, list, shown, guards, built, silent, fromNode>>
      /\ jobs' = Without(i)
      /\ IF jobs[i].own
         THEN song' = (IF good THEN t ELSE None) /\ loaded' = good /\ over' = FALSE
         ELSE UNCHANGED <<song, loaded, over>>
      /\ fromWorker' = Append(fromWorker, [cmd |-> IF good THEN "meta" ELSE "err", song |-> t])
  BY <1>1, <1>2, Zenon DEF Fetched, Done
<1>4. EngineOK'
  BY <1>3, TypeParts DEF EngineOK
<1>5. PortsOK'
  <2>1. [cmd |-> IF good THEN "meta" ELSE "err", song |-> t] \in WorkerEvent
    BY DEF WorkerEvent
  <2> QED  BY <1>3, <2>1, TypeParts, AppendProperties DEF PortsOK
<1>6. JobsOK'
  BY <1>3, TypeParts, JobsAre DEF JobsOK
<1> QED  BY <1>3, <1>4, <1>5, <1>6, TypeParts, PartsStay

LEMMA DecodedTyped == TypeOK => \A i \in DOMAIN jobs : Decoded(i) => TypeOK'
<1> SUFFICES ASSUME TypeOK, NEW i \in DOMAIN jobs, Decoded(i)  PROVE TypeOK'
  OBVIOUS
<1>1. PICK t \in Tracks : t = jobs[i].track
  BY TypeParts, JobsAre
<1>2. /\ UNCHANGED <<place, calls, astray, list, track, pending, error, far, guards, built,
                     silent, loaded, ports>>
      /\ jobs' = Without(i)
      /\ meta' \in {t, meta} /\ transport' \in {transport, "error", "ready"} /\ song' \in {t, song}
  BY <1>1, Zenon DEF Decoded, Done
<1>3. over' \in BOOLEAN
  BY Zenon DEF Decoded
<1>4. ShownOK' /\ EngineOK'
  BY <1>2, <1>3, TypeParts DEF ShownOK, EngineOK, States
<1>5. JobsOK'
  BY <1>2, TypeParts, JobsAre DEF JobsOK
<1> QED  BY <1>2, <1>4, <1>5, TypeParts, PartsStay

LEMMA LaterTyped == TypeOK /\ Later => TypeOK'
<1> SUFFICES ASSUME TypeOK, Later PROVE TypeOK'
  OBVIOUS
<1>0. PlaceOK /\ ListOK /\ ShownOK /\ GuardsOK /\ JobsOK /\ BuiltOK /\ EngineOK /\ PortsOK
        /\ astray \subseteq Tracks
  BY TypeParts
<1>1. ASSUME NEW i \in DOMAIN jobs, Resolved(i)  PROVE TypeOK'
  <2>1. UNCHANGED <<place, calls, astray, list, guards, ports>>
    BY <1>1 DEF Resolved, Done
  <2>2. ShownOK' /\ BuiltOK' /\ EngineOK' /\ JobsOK'
    BY <1>0, <1>1, JobsAre, PlayTyped DEF Resolved
  <2> QED  BY <1>0, <2>1, <2>2, PartsStay, TypeParts
<1>2. ASSUME NEW i \in DOMAIN jobs, ResolveFailed(i) \/ NeverUp(i)  PROVE TypeOK'
  <2>1. UNCHANGED <<place, calls, astray, list, shown, guards, built, engine, ports>>
          /\ jobs' = Without(i)
    BY <1>2 DEF ResolveFailed, NeverUp, Done
  <2>2. JobsOK'
    BY <1>0, <2>1, JobsAre DEF JobsOK
  <2> QED  BY <1>0, <2>1, <2>2, PartsStay, TypeParts
<1>3. ASSUME NEW i \in DOMAIN jobs, Awake(i)  PROVE TypeOK'
  <2>1. /\ UNCHANGED <<place, calls, astray, queue, index, shuffle, shown, guards, built,
                       engine, ports>>
        /\ RollNext(queue, index, shuffle, order)
    BY <1>3 DEF Awake, Done
  <2>2. ListOK'
    <3>1. index \in Nat /\ order \in OrdersOf(queue) \cup {<<>>}
      BY <1>0, PlaybackConstants DEF ListOK
    <3>2. order' \in OrdersOf(queue) \cup {<<>>} /\ planned' \in 0 .. MaxLen
      BY <1>0, <2>1, <3>1, QueueIs, RollTyped
    <3> QED  BY <1>0, <2>1, <3>2 DEF ListOK, place
  <2>3. JobsOK'
    <3>1. PICK t \in Tracks : t = jobs[i].track
      BY <1>0, JobsAre
    <3>2. PICK b \in BOOLEAN : b = (kind = KindOf(t))
      OBVIOUS
    <3>3. jobs' = Append(Without(i), [JobFor("fetch", t) EXCEPT !.fits = b])
      BY <1>3, <3>1, <3>2, Zenon DEF Awake
    <3>4. [JobFor("fetch", t) EXCEPT !.fits = b] \in Job
      BY JobForTyped DEF Job
    <3> QED  BY <1>0, <3>3, <3>4, JobsAre, AppendProperties DEF JobsOK
  <2> QED  BY <1>0, <2>1, <2>2, <2>3, PartsStay, TypeParts
<1>4. ASSUME NEW i \in DOMAIN jobs, FetchFailed(i)  PROVE TypeOK'
  <2>1. UNCHANGED <<place, calls, astray, list, built, engine, ports>> /\ jobs' = Without(i)
    BY <1>4 DEF FetchFailed, Done
  <2>2. ShownOK' /\ GuardsOK'
    BY <1>0, <1>4, ErrorTyped DEF FetchFailed
  <2>3. JobsOK'
    BY <1>0, <2>1, JobsAre DEF JobsOK
  <2> QED  BY <1>0, <2>1, <2>2, <2>3, PartsStay, TypeParts
<1>5. CASE DecodeTimeout
  <2>1. ShownOK'
    BY <1>0, <1>5 DEF DecodeTimeout, ShownOK, States
  <2> QED  BY <1>0, <1>5, <2>1, PartsStay, TypeParts DEF DecodeTimeout
<1>6. CASE Skip
  <2>1. UNCHANGED <<place, calls, astray, queue, planned, shuffle, order, failures, ports>>
    BY <1>6 DEF Skip
  <2>2. index' \in 0 .. MaxLen /\ ShownOK' /\ BuiltOK' /\ EngineOK' /\ JobsOK'
    <3>1. CASE error
      BY <1>0, <1>6, <3>1, PlayNextTyped DEF Skip
    <3>2. CASE ~error
      <4>1. UNCHANGED <<index, jobs, built, shown, engine>>
        BY <1>6, <3>2, Zenon DEF Skip
      <4> QED  BY <1>0, <4>1, PartsStay DEF ListOK
    <3> QED  BY <3>1, <3>2
  <2>3. GuardsOK'
    BY <1>0, <1>6 DEF Skip, GuardsOK
  <2>4. ListOK'
    BY <1>0, <2>1, <2>2 DEF ListOK, place
  <2> QED  BY <1>0, <2>1, <2>2, <2>3, <2>4, PartsStay, TypeParts
<1>7. CASE Watchdog
  <2>1. EngineOK'
    BY <1>0, <1>7, SetPosTyped DEF Watchdog
  <2> QED  BY <1>0, <1>7, <2>1, PartsStay, TypeParts DEF Watchdog
<1> QED
  BY <1>1, <1>2, <1>3, <1>4, <1>5, <1>6, <1>7, FetchedTyped, DecodedTyped
  DEF Later, Resolves, Wakes, Answered

LEMMA EventsTyped == TypeOK /\ (FromWorker \/ FromNode \/ Engine) => TypeOK'
<1> SUFFICES ASSUME TypeOK, FromWorker \/ FromNode \/ Engine PROVE TypeOK'
  OBVIOUS
<1>0. PlaceOK /\ ListOK /\ ShownOK /\ GuardsOK /\ JobsOK /\ BuiltOK /\ EngineOK /\ PortsOK
        /\ astray \subseteq Tracks
  BY TypeParts
<1>1. /\ fromWorker # <<>> => /\ Tail(fromWorker) \in Seq(WorkerEvent)
                              /\ Head(fromWorker) \in WorkerEvent
                              /\ Head(fromWorker).song \in Tracks
      /\ fromNode # <<>> => Tail(fromNode) \in Seq(NodeEvent) /\ Head(fromNode) \in NodeEvent
  <2>1. fromWorker \in Seq(WorkerEvent) /\ fromNode \in Seq(NodeEvent)
    BY <1>0 DEF PortsOK
  <2>2. fromWorker # <<>> => /\ Tail(fromWorker) \in Seq(WorkerEvent)
                             /\ Head(fromWorker) \in WorkerEvent
    BY <2>1, HeadTailProperties
  <2>3. fromNode # <<>> => Tail(fromNode) \in Seq(NodeEvent) /\ Head(fromNode) \in NodeEvent
    BY <2>1, HeadTailProperties
  <2>4. \A e \in WorkerEvent : e.song \in Tracks
    BY DEF WorkerEvent
  <2> QED  BY <2>2, <2>3, <2>4
<1>2. CASE OnMetadata
  <2>1. /\ UNCHANGED <<place, calls, list, track, pending, transport, error, far, guards,
                       jobs, kind, tidy, fromNode>>
        /\ fromWorker # <<>> /\ fromWorker' = Tail(fromWorker)
        /\ meta' = MetaShown /\ resume' = None
    BY <1>2 DEF OnMetadata, OnMetadataAs
  <2>2. ShownOK'
    BY <1>0, <1>1, <2>1 DEF ShownOK, MetaShown
  <2>3. EngineOK'
    <3>1. CASE SetPos
      BY <1>0, <3>1, SetPosTyped
    <3>2. CASE UNCHANGED engine
      BY <1>0, <3>2, PartsStay
    <3> QED  BY <1>2, <3>1, <3>2 DEF OnMetadata, OnMetadataAs
  <2>4. astray' \subseteq Tracks
    <3>1. {resume} \ {None, Head(fromWorker).song} \subseteq Tracks
      BY <1>0 DEF BuiltOK
    <3>2. astray' = astray \cup (IF tidy THEN {resume} \ {None, Head(fromWorker).song} ELSE {})
      BY <1>2, Zenon DEF OnMetadata, OnMetadataAs
    <3> QED  BY <1>0, <3>1, <3>2
  <2>5. BuiltOK' /\ PortsOK'
    BY <1>0, <1>1, <2>1 DEF BuiltOK, PortsOK
  <2> QED  BY <1>0, <2>1, <2>2, <2>3, <2>4, <2>5, PartsStay, TypeParts
<1>3. CASE OnLoadError
  <2>1. ShownOK' /\ GuardsOK'
    BY <1>0, <1>3, ErrorTyped DEF OnLoadError
  <2>2. PortsOK'
    BY <1>0, <1>1, <1>3 DEF OnLoadError, PortsOK
  <2> QED  BY <1>0, <1>3, <2>1, <2>2, PartsStay, TypeParts DEF OnLoadError
<1>4. CASE OnProgress
  <2>1. fromNode # <<>> /\ Head(fromNode).cmd = "pos"
    BY <1>4 DEF OnProgress
  <2>2. Head(fromNode).far \in BOOLEAN
    BY <1>1, <2>1 DEF NodeEvent
  <2>3. ShownOK' /\ GuardsOK' /\ PortsOK'
    BY <1>0, <1>1, <1>4, <2>1, <2>2 DEF OnProgress, ShownOK, GuardsOK, PortsOK
  <2> QED  BY <1>0, <1>4, <2>3, PartsStay, TypeParts DEF OnProgress
<1>5. CASE OnEnded
  <2>1. /\ UNCHANGED <<place, calls, astray, queue, planned, shuffle, order, guards, fromWorker>>
        /\ fromNode # <<>> /\ fromNode' = Tail(fromNode)
    BY <1>5 DEF OnEnded
  <2>2. index' \in 0 .. MaxLen /\ ShownOK' /\ BuiltOK' /\ EngineOK' /\ JobsOK'
    <3>1. CASE CanNext
      BY <1>0, <1>5, <3>1, PlayNextTyped DEF OnEnded
    <3>2. CASE ~CanNext
      <4>1. Send("ENDED")
              /\ UNCHANGED <<index, jobs, built, track, pending, meta, error, far, engine>>
        BY <1>5, <3>2, Zenon DEF OnEnded
      <4>2. ShownOK'
        BY <1>0, <4>1, TakesTyped DEF Send, ShownOK
      <4> QED  BY <1>0, <4>1, <4>2, PartsStay DEF ListOK
    <3> QED  BY <3>1, <3>2
  <2>3. ListOK'
    BY <1>0, <2>1, <2>2 DEF ListOK, place
  <2>4. PortsOK'
    BY <1>0, <1>1, <2>1 DEF PortsOK
  <2> QED  BY <1>0, <2>1, <2>2, <2>3, <2>4, PartsStay, TypeParts
<1>6. CASE PlayOut
  <2>1. song \in Tracks
    BY <1>0, <1>6 DEF PlayOut, Sounding, EngineOK
  <2>2. PortsOK'
    <3>1. [cmd |-> "end", song |-> song] \in NodeEvent
      BY <2>1 DEF NodeEvent
    <3> QED  BY <1>0, <1>6, <3>1, AppendProperties DEF PlayOut, PortsOK
  <2>3. EngineOK'
    BY <1>0, <1>6 DEF PlayOut, EngineOK
  <2> QED  BY <1>0, <1>6, <2>2, <2>3, PartsStay, TypeParts DEF PlayOut
<1>7. ASSUME NEW past \in BOOLEAN, Sound(past)  PROVE TypeOK'
  <2>1. song \in Tracks
    BY <1>0, <1>7 DEF Sound, Sounding, EngineOK
  <2>2. PortsOK'
    <3>1. [cmd |-> "pos", song |-> song, far |-> past] \in NodeEvent
      BY <2>1 DEF NodeEvent
    <3> QED  BY <1>0, <1>7, <3>1, AppendProperties DEF Sound, PortsOK
  <2> QED  BY <1>0, <1>7, <2>2, PartsStay, TypeParts DEF Sound
<1> QED
  BY <1>2, <1>3, <1>4, <1>5, <1>6, <1>7 DEF FromWorker, FromNode, Engine

LEMMA InitTyped == Init => TypeOK
<1> SUFFICES ASSUME Init PROVE TypeOK
  OBVIOUS
<1>1. shuffle \in BOOLEAN
  BY DEF Init
<1>2. MaxLen \in Nat /\ MaxCalls \in Nat
  BY PlaybackConstants
<1>3. PlaceOK /\ ListOK /\ PortsOK /\ JobsOK
  BY <1>1, <1>2 DEF Init, PlaceOK, ListOK, PortsOK, JobsOK
<1>4. ShownOK /\ GuardsOK /\ BuiltOK /\ EngineOK /\ astray \subseteq Tracks
  BY DEF Init, ShownOK, GuardsOK, BuiltOK, EngineOK, States
<1> QED  BY <1>3, <1>4, PartsType DEF Parts

\* What is shown, planned, asked for and reported keeps its type, whatever is answered
\* when; in particular no plan leads past the longest list (plannedNext, plannedPrev,
\* also with an index that a stale plan left beyond the queue).
THEOREM PlaybackTypeCorrect == Spec => []TypeOK
<1>1. TypeOK /\ [Next]_vars => TypeOK'
  <2> SUFFICES ASSUME TypeOK, [Next]_vars PROVE TypeOK'
    OBVIOUS
  <2>1. CASE UNCHANGED vars
    BY <2>1, PartsStay, TypeParts DEF vars
  <2> QED  BY <2>1, UserTyped, LaterTyped, EventsTyped DEF Next
<1> QED  BY <1>1, InitTyped, PTL DEF Spec
-----------------------------------------------------------------------------
(* The jobs of a kind, in their order.                                     *)

NoneOf(s, k) == \A i \in DOMAIN s : s[i].kind # k
IsFirst(s, k, i) == s[i].kind = k /\ \A j \in DOMAIN s : j < i => s[j].kind # k
IsLast(s, k, i)  == s[i].kind = k /\ \A j \in DOMAIN s : j > i => s[j].kind # k
FirstIs(s, k, t) == \A i \in DOMAIN s : IsFirst(s, k, i) => s[i].track = t
LastIs(s, k, t)  == \A i \in DOMAIN s : IsLast(s, k, i) => s[i].track = t
From(r, s) == \A i \in DOMAIN r : \E j \in DOMAIN s : r[i] = s[j]

LEMMA JobsAppended ==
  ASSUME NEW s \in Seq(Job), NEW x \in Job, NEW k
  PROVE  /\ NoneOf(Append(s, x), k) <=> NoneOf(s, k) /\ x.kind # k
         /\ \A i \in DOMAIN Append(s, x) : Append(s, x)[i] = x \/ (i \in DOMAIN s /\ Append(s, x)[i] = s[i])
         /\ \A t : /\ x.kind = k /\ x.track = t => LastIs(Append(s, x), k, t)
                   /\ x.kind # k /\ LastIs(s, k, t) => LastIs(Append(s, x), k, t)
                   /\ x.kind # k /\ FirstIs(s, k, t) => FirstIs(Append(s, x), k, t)
                   /\ ~NoneOf(s, k) /\ FirstIs(s, k, t) => FirstIs(Append(s, x), k, t)
                   /\ NoneOf(s, k) /\ x.track = t => FirstIs(Append(s, x), k, t)
<1> DEFINE n == Len(s)
           r == Append(s, x)
<1>1. n \in Nat /\ DOMAIN s = 1 .. n
  BY LenProperties
<1>2. /\ DOMAIN r = 1 .. n + 1 /\ r[n + 1] = x
      /\ \A i \in 1 .. n : r[i] = s[i]
  BY <1>1, AppendProperties, LenProperties
<1> HIDE DEF n, r
<1>3. ASSUME NEW i \in DOMAIN r  PROVE  r[i] = x \/ (i \in DOMAIN s /\ r[i] = s[i])
  <2>1. i = n + 1 \/ i \in 1 .. n
    BY <1>1, <1>2
  <2> QED  BY <1>1, <1>2, <2>1
<1>4. NoneOf(r, k) <=> NoneOf(s, k) /\ x.kind # k
  <2>1. n + 1 \in 1 .. n + 1 /\ 1 .. n \subseteq 1 .. n + 1
    BY <1>1
  <2>2. NoneOf(r, k) => NoneOf(s, k) /\ x.kind # k
    BY <1>1, <1>2, <2>1 DEF NoneOf
  <2>3. NoneOf(s, k) /\ x.kind # k => NoneOf(r, k)
    BY <1>3, Zenon DEF NoneOf
  <2> QED  BY <2>2, <2>3
<1>5. ASSUME NEW t
      PROVE  /\ x.kind = k /\ x.track = t => LastIs(r, k, t)
             /\ x.kind # k /\ LastIs(s, k, t) => LastIs(r, k, t)
  <2>1. ASSUME x.kind = k, x.track = t, NEW i \in DOMAIN r, IsLast(r, k, i)
        PROVE  r[i].track = t
    BY <1>1, <1>2, <2>1 DEF IsLast
  <2>2. ASSUME x.kind # k, LastIs(s, k, t), NEW i \in DOMAIN r, IsLast(r, k, i)
        PROVE  r[i].track = t
    <3>1. i \in 1 .. n
      BY <1>1, <1>2, <2>2 DEF IsLast
    <3>2. IsLast(s, k, i)
      BY <1>1, <1>2, <2>2, <3>1 DEF IsLast
    <3> QED  BY <1>1, <1>2, <2>2, <3>1, <3>2 DEF LastIs
  <2> QED  BY <2>1, <2>2 DEF LastIs
<1>6. ASSUME NEW t
      PROVE  /\ x.kind # k /\ FirstIs(s, k, t) => FirstIs(r, k, t)
             /\ ~NoneOf(s, k) /\ FirstIs(s, k, t) => FirstIs(r, k, t)
             /\ NoneOf(s, k) /\ x.track = t => FirstIs(r, k, t)
  <2>1. ASSUME FirstIs(s, k, t), NEW i \in DOMAIN r, IsFirst(r, k, i), i \in 1 .. n
        PROVE  r[i].track = t
    <3>1. IsFirst(s, k, i)
      BY <1>1, <1>2, <2>1 DEF IsFirst
    <3> QED  BY <1>1, <1>2, <2>1, <3>1 DEF FirstIs
  <2>2. ASSUME NEW i \in DOMAIN r, IsFirst(r, k, i), i \notin 1 .. n
        PROVE  x.kind = k /\ NoneOf(s, k) /\ r[i] = x
    <3>1. i = n + 1
      BY <1>1, <1>2, <2>2
    <3> QED  BY <1>1, <1>2, <2>2, <3>1 DEF IsFirst, NoneOf
  <2>3. ASSUME NoneOf(s, k), NEW i \in DOMAIN r, IsFirst(r, k, i)
        PROVE  i \notin 1 .. n
    BY <1>1, <1>2, <2>3 DEF IsFirst, NoneOf
  <2> QED  BY <2>1, <2>2, <2>3 DEF FirstIs
<1> QED  BY <1>3, <1>4, <1>5, <1>6 DEF r

LEMMA JobRemoved ==
  ASSUME NEW s \in Seq(Job), NEW i \in DOMAIN s, NEW k
  PROVE  /\ NoneOf(s, k) => NoneOf(RemoveAt(s, i), k)
         /\ s[i].kind # k /\ NoneOf(RemoveAt(s, i), k) => NoneOf(s, k)
         /\ From(RemoveAt(s, i), s)
         /\ \A t : /\ (s[i].kind # k \/ IsFirst(s, k, i)) /\ LastIs(s, k, t) => LastIs(RemoveAt(s, i), k, t)
                   /\ s[i].kind # k /\ FirstIs(s, k, t) => FirstIs(RemoveAt(s, i), k, t)
                   /\ IsFirst(s, k, i) /\ NoneOf(RemoveAt(s, i), k) /\ LastIs(s, k, t) => s[i].track = t
<1> DEFINE n == Len(s)
           r == RemoveAt(s, i)
           Old(j) == IF j < i THEN j ELSE j + 1
           New(j) == IF j < i THEN j ELSE j - 1
<1>1. n \in Nat /\ DOMAIN s = 1 .. n /\ i \in 1 .. n
  BY LenProperties
<1>2. DOMAIN r = 1 .. n - 1 /\ \A j \in 1 .. n - 1 : r[j] = IF j < i THEN s[j] ELSE s[j + 1]
  <2>1. r \in Seq(Job) /\ Len(r) = n - 1
    BY RemoveAtProperties
  <2> QED  BY <1>1, <2>1, RemoveAtProperties, LenProperties
<1> HIDE DEF n, r
<1>3. ASSUME NEW j \in DOMAIN r  PROVE  Old(j) \in DOMAIN s /\ Old(j) # i /\ r[j] = s[Old(j)]
  <2>1. j \in 1 .. n - 1
    BY <1>2
  <2>2. CASE j < i
    BY <1>1, <1>2, <2>1, <2>2
  <2>3. CASE ~(j < i)
    BY <1>1, <1>2, <2>1, <2>3
  <2> QED  BY <2>2, <2>3
<1>4. ASSUME NEW j \in DOMAIN s, j # i  PROVE  New(j) \in DOMAIN r /\ Old(New(j)) = j /\ r[New(j)] = s[j]
  <2>1. CASE j < i
    BY <1>1, <1>2, <1>4, <2>1
  <2>2. CASE ~(j < i)
    BY <1>1, <1>2, <1>4, <2>2
  <2> QED  BY <2>1, <2>2
<1>5. \A j, l \in DOMAIN r : (j < l <=> Old(j) < Old(l)) /\ (j > l <=> Old(j) > Old(l))
  BY <1>1, <1>2
<1> HIDE DEF Old, New
<1>6. From(r, s)
  BY <1>3 DEF From
<1>7. /\ NoneOf(s, k) => NoneOf(r, k)
      /\ s[i].kind # k /\ NoneOf(r, k) => NoneOf(s, k)
  BY <1>3, <1>4 DEF NoneOf
<1>8. ASSUME NEW t, s[i].kind # k \/ IsFirst(s, k, i), LastIs(s, k, t)
      PROVE  LastIs(r, k, t)
  <2> SUFFICES ASSUME NEW j \in DOMAIN r, IsLast(r, k, j)  PROVE  r[j].track = t
    BY DEF LastIs
  <2>1. Old(j) \in DOMAIN s /\ r[j] = s[Old(j)] /\ s[Old(j)].kind = k
    BY <1>3 DEF IsLast
  <2>2. ASSUME NEW l \in DOMAIN s, l > Old(j)  PROVE  s[l].kind # k
    <3>1. CASE l = i
      <4>1. ~IsFirst(s, k, i)
        BY <1>1, <2>1, <2>2, <3>1 DEF IsFirst
      <4> QED  BY <1>8, <3>1, <4>1
    <3>2. CASE l # i
      <4>1. New(l) \in DOMAIN r /\ Old(New(l)) = l /\ r[New(l)] = s[l]
        BY <1>4, <3>2
      <4>2. New(l) > j
        BY <1>5, <2>2, <4>1
      <4> QED  BY <4>1, <4>2 DEF IsLast
    <3> QED  BY <3>1, <3>2
  <2>3. IsLast(s, k, Old(j))
    BY <2>1, <2>2 DEF IsLast
  <2> QED  BY <1>8, <2>1, <2>3 DEF LastIs
<1>9. ASSUME NEW t, s[i].kind # k, FirstIs(s, k, t)
      PROVE  FirstIs(r, k, t)
  <2> SUFFICES ASSUME NEW j \in DOMAIN r, IsFirst(r, k, j)  PROVE  r[j].track = t
    BY DEF FirstIs
  <2>1. Old(j) \in DOMAIN s /\ r[j] = s[Old(j)] /\ s[Old(j)].kind = k
    BY <1>3 DEF IsFirst
  <2>2. ASSUME NEW l \in DOMAIN s, l < Old(j)  PROVE  s[l].kind # k
    <3>1. CASE l = i
      BY <1>9, <3>1
    <3>2. CASE l # i
      <4>1. New(l) \in DOMAIN r /\ Old(New(l)) = l /\ r[New(l)] = s[l]
        BY <1>4, <3>2
      <4>2. New(l) < j
        BY <1>5, <2>2, <4>1
      <4> QED  BY <4>1, <4>2 DEF IsFirst
    <3> QED  BY <3>1, <3>2
  <2>3. IsFirst(s, k, Old(j))
    BY <2>1, <2>2 DEF IsFirst
  <2> QED  BY <1>9, <2>1, <2>3 DEF FirstIs
<1>10. ASSUME NEW t, IsFirst(s, k, i), NoneOf(r, k), LastIs(s, k, t)
       PROVE  s[i].track = t
  <2>1. ASSUME NEW l \in DOMAIN s, l > i  PROVE  s[l].kind # k
    <3>1. l # i
      BY <1>1, <2>1
    <3> QED  BY <1>4, <1>10, <3>1 DEF NoneOf
  <2>2. IsLast(s, k, i)
    BY <1>10, <2>1 DEF IsLast, IsFirst
  <2> QED  BY <1>10, <2>2 DEF LastIs
<1> QED  BY <1>6, <1>7, <1>8, <1>9, <1>10 DEF r

LEMMA JobsOrphaned ==
  ASSUME NEW s \in Seq(Job), NEW k
  PROVE  NoneOf(Orphaned(s), k) <=> NoneOf(s, k)
<1>1. DOMAIN s = 1 .. Len(s)
  BY LenProperties
<1> QED  BY <1>1, OrphanedIs DEF NoneOf

-----------------------------------------------------------------------------
(* The queue's index, when the tracks are in memory.                       *)

\* The user's lists are of one length.
SameLength == \A w \in Worlds : w.memory => \A p, q \in w.lists : Len(p) = Len(q)

InHand  == NoneOf(jobs, "resolve")
Names   == track # None /\ index \in DOMAIN queue => queue[index] = track
InReach == planned <= Len(queue) /\ (track # None => index \in DOMAIN queue)

IndexInv == world.memory => InHand /\ Names /\ (SameLength => InReach)

LEMMA PlayInHand ==
  ASSUME NEW t \in Tracks, NEW waiting \in Seq(Job), NoneOf(waiting, "resolve"),
         PlayTrack(t, waiting)
  PROVE  track' = t /\ InHand'
<1>1. /\ JobFor("wake", t) \in Job /\ JobFor("wake", t).kind # "resolve"
      /\ Orphaned(waiting) \in Seq(Job) /\ NoneOf(Orphaned(waiting), "resolve")
  BY JobForTyped, OrphanedIs, JobsOrphaned DEF JobFor
<1>2. track' = t
  BY DEF PlayTrack, Show
<1>3. jobs' = Append(waiting, JobFor("wake", t)) \/ jobs' = Append(Orphaned(waiting), JobFor("wake", t))
  BY DEF PlayTrack
<1>4. /\ NoneOf(Append(waiting, JobFor("wake", t)), "resolve")
      /\ NoneOf(Append(Orphaned(waiting), JobFor("wake", t)), "resolve")
  BY <1>1, JobsAppended
<1> QED  BY <1>2, <1>3, <1>4 DEF InHand, NoneOf

LEMMA RecreateInHand == TypeOK /\ track # None /\ InHand /\ Recreate => track' = track /\ InHand'
<1> SUFFICES ASSUME TypeOK, track # None, InHand, Recreate  PROVE track' = track /\ InHand'
  OBVIOUS
<1>1. jobs \in Seq(Job) /\ track \in Tracks
  BY DEF TypeOK
<1>2. /\ JobFor("wake", track) \in Job /\ JobFor("wake", track).kind # "resolve"
      /\ Orphaned(jobs) \in Seq(Job) /\ NoneOf(Orphaned(jobs), "resolve")
  BY <1>1, JobForTyped, OrphanedIs, JobsOrphaned DEF JobFor, InHand
<1>3. jobs' = Append(Orphaned(jobs), JobFor("wake", track)) /\ track' = track
  BY DEF Recreate, Show
<1>4. NoneOf(jobs', "resolve")
  BY <1>2, <1>3, JobsAppended
<1> QED  BY <1>3, <1>4 DEF InHand, NoneOf

\* A step within the queue plays the entry it goes to.
LEMMA StepInHand ==
  ASSUME TypeOK, world.memory, IndexInv, NEW i \in 1 .. MaxLen, StepTo(i),
         SameLength => i <= Len(queue),
         UNCHANGED <<world, queue, planned>>
  PROVE  IndexInv'
<1>1. /\ jobs \in Seq(Job) /\ InHand /\ DOMAIN queue = 1 .. Len(queue) /\ Len(queue) \in Nat
      /\ \A j \in DOMAIN queue : queue[j] \in Tracks
      /\ index' = i /\ (i <= Len(queue) <=> i \in DOMAIN queue)
  BY QueueIs, TypeParts, PlaybackConstants DEF JobsOK, IndexInv, StepTo
<1>2. CASE i \in DOMAIN queue /\ PlayTrack(queue[i], jobs)
  <2>1. track' = queue[i] /\ InHand'
    BY <1>1, <1>2, PlayInHand DEF InHand
  <2> QED  BY <1>1, <1>2, <2>1 DEF IndexInv, Names, InReach
<1>3. CASE i \notin DOMAIN queue /\ UNCHANGED <<jobs, shown, built, engine>>
  <2>1. ~SameLength /\ InHand' /\ Names'
    BY <1>1, <1>3 DEF InHand, Names, shown
  <2> QED  BY <2>1 DEF IndexInv
<1> QED  BY <1>1, <1>2, <1>3 DEF StepTo

LEMMA PlayNextInHand ==
  ASSUME TypeOK, world.memory, IndexInv, PlayNext, UNCHANGED <<world, queue, planned>>
  PROVE  IndexInv'
<1>1. CASE planned = 0
  <2>1. UNCHANGED <<index, jobs, track>>
    BY <1>1, Zenon DEF PlayNext, shown
  <2> QED  BY <2>1 DEF IndexInv, InHand, Names, InReach
<1>2. CASE planned # 0
  <2>1. StepTo(planned) /\ planned \in 1 .. MaxLen
    BY <1>2, PlaybackConstants DEF PlayNext, TypeOK
  <2>2. SameLength => planned <= Len(queue)
    BY DEF IndexInv, InReach
  <2> QED  BY <2>1, <2>2, StepInHand
<1> QED  BY <1>1, <1>2

\* The user takes another list, as long as the last one.
LEMMA ListInHand ==
  ASSUME TypeOK, world.memory, IndexInv, NEW q \in world.lists, NEW i \in DOMAIN q,
         UNCHANGED world, queue' = q, index' = i, track' = q[i], InHand',
         planned' = planned \/ planned' <= Len(q)
  PROVE  IndexInv'
<1>1. Names'
  BY DEF Names
<1>2. SameLength => InReach'
  <2> SUFFICES ASSUME SameLength  PROVE InReach'
    OBVIOUS
  <2>1. planned <= Len(queue) /\ world \in Worlds /\ queue \in world.lists \cup {<<>>}
          /\ planned \in Nat
    BY PlaybackConstants DEF IndexInv, InReach, TypeOK
  <2>2. queue \in world.lists => Len(q) = Len(queue)
    BY <2>1 DEF SameLength
  <2>3. queue = <<>> => planned <= Len(q)
    <3>1. Len(q) \in Nat /\ Len(<<>>) = 0
      BY <2>1, ListsAre
    <3> QED  BY <2>1, <3>1
  <2> QED  BY <2>1, <2>2, <2>3 DEF InReach
<1> QED  BY <1>1, <1>2 DEF IndexInv

LEMMA IndexUser ==
  TypeOK /\ world.memory /\ UNCHANGED world /\ IndexInv /\ User => IndexInv'
<1> SUFFICES ASSUME TypeOK, world.memory, UNCHANGED world, IndexInv, User  PROVE IndexInv'
  OBVIOUS
<1>0. /\ jobs \in Seq(Job) /\ world \in Worlds /\ InHand /\ index \in Nat
      /\ queue \in Seq(Tracks) /\ Len(queue) <= MaxLen /\ Len(queue) \in Nat
      /\ DOMAIN queue = 1 .. Len(queue)
  <2>1. PlaceOK /\ ListOK /\ jobs \in Seq(Job)
    BY TypeParts DEF JobsOK
  <2> QED  BY <2>1, QueueIs, PlaybackConstants DEF PlaceOK, ListOK, IndexInv
<1>1. ASSUME UNCHANGED <<queue, index, planned>>, track' \in {track, None}, InHand'
      PROVE  IndexInv'
  BY <1>1 DEF IndexInv, Names, InReach
<1>2. ASSUME NEW q \in world.lists, NEW i \in DOMAIN q, Click(q, i)  PROVE IndexInv'
  <2>1. q[i] \in Tracks /\ PlayTrack(q[i], jobs)
    BY <1>0, <1>2, ListsAre DEF Click
  <2>2. track' = q[i] /\ InHand'
    BY <1>0, <2>1, PlayInHand DEF InHand
  <2> QED  BY <1>2, <2>2, ListInHand DEF Click
<1>3. ASSUME NEW q \in world.lists, NEW i \in DOMAIN q, Cue(q, i)  PROVE IndexInv'
  <2>1. /\ q \in Seq(Tracks) /\ q[i] \in Tracks /\ i \in Nat /\ Len(q) <= MaxLen
        /\ JobFor("decode", q[i]) \in Job /\ JobFor("decode", q[i]).kind # "resolve"
        /\ Orphaned(jobs) \in Seq(Job) /\ NoneOf(Orphaned(jobs), "resolve")
    BY <1>0, ListsAre, JobForTyped, OrphanedIs, JobsOrphaned DEF JobFor, InHand
  <2>2. NoneOf(jobs', "resolve")
    <3>1. PICK w : w = IF kind = KindOf(q[i]) THEN jobs ELSE Orphaned(jobs)
      OBVIOUS
    <3>2. jobs' = IF q[i] \in world.sids THEN w ELSE Append(w, JobFor("decode", q[i]))
      BY <1>3, <3>1, Zenon DEF Cue
    <3>3. w \in Seq(Job) /\ NoneOf(w, "resolve")
      BY <1>0, <2>1, <3>1 DEF InHand
    <3> QED  BY <2>1, <3>2, <3>3, JobsAppended
  <2>3. planned' <= Len(q)
    BY <1>3, <2>1, RollTyped DEF Cue
  <2> QED  BY <1>3, <2>2, <2>3, ListInHand DEF Cue, Show, InHand, NoneOf
<1>4. CASE NextTrack
  BY <1>4, PlayNextInHand DEF NextTrack
<1>5. CASE PrevTrack
  <2>1. /\ order \in OrdersOf(queue) \cup {<<>>} /\ index \in 0 .. MaxLen
        /\ UNCHANGED <<queue, planned>> /\ track # None
    BY <1>5 DEF PrevTrack, TypeOK
  <2>2. PICK p : p = PrevOf(queue, index, shuffle, order)
    OBVIOUS
  <2>3. p \in 0 .. MaxLen /\ (index <= Len(queue) => p <= Len(queue))
    BY <1>0, <2>1, <2>2, PrevTyped
  <2>4. CASE UNCHANGED <<index, jobs, track>>
    BY <1>1, <2>1, <2>4 DEF IndexInv, InHand
  <2>5. CASE p # 0 /\ StepTo(p)
    <3>1. p \in 1 .. MaxLen
      BY <2>3, <2>5, PlaybackConstants
    <3>2. SameLength => p <= Len(queue)
      <4>1. SameLength => index <= Len(queue)
        BY <1>0, <2>1 DEF IndexInv, InReach
      <4> QED  BY <2>3, <4>1
    <3> QED  BY <2>1, <2>5, <3>1, <3>2, StepInHand
  <2> QED  BY <1>5, <2>2, <2>4, <2>5 DEF PrevTrack
<1>6. CASE Seek \/ Stop
  <2>1. UNCHANGED <<list, track, jobs>>
    BY <1>6 DEF Seek, Stop
  <2> QED  BY <1>1, <2>1 DEF list, IndexInv, InHand
<1>7. CASE Toggle
  <2>1. UNCHANGED list /\ track \in Tracks /\ track # None
    BY <1>7 DEF Toggle, TypeOK
  <2>2. track' = track /\ InHand'
    <3>1. CASE UNCHANGED <<jobs, track>>
      BY <1>0, <3>1 DEF InHand
    <3>2. CASE Recreate
      BY <1>0, <2>1, <3>2, RecreateInHand
    <3>3. CASE PlayTrack(track, jobs)
      BY <1>0, <2>1, <3>3, PlayInHand DEF InHand
    <3> QED  BY <1>7, <3>1, <3>2, <3>3 DEF Toggle
  <2> QED  BY <1>1, <2>1, <2>2 DEF list
<1>8. CASE ToggleShuffle
  <2>1. UNCHANGED <<queue, index, jobs, track>>
    BY <1>8 DEF ToggleShuffle, shown
  <2>2. planned' <= Len(queue)
    <3>1. PICK o \in OrdersOf(queue) \cup {<<>>} : o = IF shuffle THEN order ELSE <<>>
      BY DEF TypeOK
    <3>2. RollNext(queue, index, ~shuffle, o)
      BY <1>8, <3>1 DEF ToggleShuffle
    <3> QED  BY <1>0, <3>2, RollTyped
  <2> QED  BY <2>1, <2>2 DEF IndexInv, InHand, Names, InReach
<1>9. CASE Eject
  <2>1. queue' = <<>> /\ planned' = 0 /\ track' = None /\ UNCHANGED jobs
    BY <1>9 DEF Eject
  <2>2. Len(<<>>) = 0
    OBVIOUS
  <2> QED  BY <2>1, <2>2 DEF IndexInv, InHand, Names, InReach
<1> QED  BY <1>2, <1>3, <1>4, <1>5, <1>6, <1>7, <1>8, <1>9 DEF User

LEMMA IndexOther ==
  TypeOK /\ world.memory /\ UNCHANGED world /\ IndexInv /\ (Later \/ FromWorker \/ FromNode \/ Engine)
    => IndexInv'
<1> SUFFICES ASSUME TypeOK, world.memory, UNCHANGED world, IndexInv,
                    Later \/ FromWorker \/ FromNode \/ Engine
             PROVE  IndexInv'
  OBVIOUS
<1>0. /\ jobs \in Seq(Job) /\ NoneOf(jobs, "resolve") /\ index \in Nat
      /\ queue \in Seq(Tracks) /\ Len(queue) <= MaxLen
      /\ order \in OrdersOf(queue) \cup {<<>>}
      /\ \A i \in DOMAIN jobs : /\ Without(i) \in Seq(Job) /\ NoneOf(Without(i), "resolve")
                                /\ jobs[i].track \in Tracks
  <2>1. PlaceOK /\ ListOK /\ JobsOK
    BY TypeParts
  <2>2. jobs \in Seq(Job) /\ NoneOf(jobs, "resolve")
    BY <2>1 DEF JobsOK, IndexInv, InHand
  <2>3. index \in Nat /\ queue \in Seq(Tracks) /\ Len(queue) <= MaxLen /\ order \in OrdersOf(queue) \cup {<<>>}
    BY <2>1, QueueIs, PlaybackConstants DEF ListOK
  <2>4. ASSUME NEW i \in DOMAIN jobs
        PROVE  Without(i) \in Seq(Job) /\ NoneOf(Without(i), "resolve") /\ jobs[i].track \in Tracks
    BY <2>1, <2>2, JobsAre, JobRemoved DEF Without
  <2> QED  BY <2>2, <2>3, <2>4
<1>1. ASSUME UNCHANGED <<queue, index, planned, track>>, NoneOf(jobs', "resolve")
      PROVE  IndexInv'
  BY <1>1 DEF IndexInv, InHand, NoneOf, Names, InReach
<1>2. ASSUME NEW i \in DOMAIN jobs, Resolves(i)  PROVE FALSE
  BY <1>0, <1>2 DEF Resolves, Resolved, ResolveFailed, Done, NoneOf
<1>3. ASSUME NEW i \in DOMAIN jobs, Awake(i)  PROVE IndexInv'
  <2>1. UNCHANGED <<queue, index, track>> /\ planned' <= Len(queue)
    BY <1>0, <1>3, RollTyped DEF Awake, shown
  <2>2. NoneOf(jobs', "resolve")
    <3>1. PICK t \in Tracks : t = jobs[i].track
      BY <1>0
    <3>2. PICK b \in BOOLEAN : b = (kind = KindOf(t))
      OBVIOUS
    <3>3. jobs' = Append(Without(i), [JobFor("fetch", t) EXCEPT !.fits = b])
      BY <1>3, <3>1, <3>2, Zenon DEF Awake
    <3>4. /\ [JobFor("fetch", t) EXCEPT !.fits = b] \in Job
          /\ [JobFor("fetch", t) EXCEPT !.fits = b].kind # "resolve"
      BY JobForTyped DEF Job, JobFor
    <3> QED  BY <1>0, <3>3, <3>4, JobsAppended
  <2> QED  BY <2>1, <2>2 DEF IndexInv, InHand, NoneOf, Names, InReach
<1>4. ASSUME NEW i \in DOMAIN jobs, NeverUp(i) \/ Answered(i) \/ Decoded(i)  PROVE IndexInv'
  <2>1. UNCHANGED <<list, track>> /\ jobs' = Without(i)
    BY <1>4 DEF NeverUp, Answered, Fetched, FetchFailed, Decoded, OnError, shown
  <2> QED  BY <1>0, <1>1, <2>1 DEF list
<1>5. CASE Skip
  <2>1. CASE error
    BY <1>5, <2>1, PlayNextInHand DEF Skip
  <2>2. CASE ~error
    <3>1. UNCHANGED <<queue, index, planned, jobs, shown>>
      BY <1>5, <2>2, Zenon DEF Skip
    <3> QED  BY <1>0, <1>1, <3>1 DEF shown
  <2> QED  BY <2>1, <2>2
<1>6. CASE OnEnded
  <2>1. CASE CanNext
    BY <1>6, <2>1, PlayNextInHand DEF OnEnded
  <2>2. CASE ~CanNext
    <3>1. UNCHANGED <<queue, index, planned, jobs, track>>
      BY <1>6, <2>2, Zenon DEF OnEnded
    <3> QED  BY <1>0, <1>1, <3>1
  <2> QED  BY <2>1, <2>2
<1>7. CASE DecodeTimeout \/ Watchdog \/ FromWorker \/ OnProgress \/ Engine
  <2>1. UNCHANGED <<list, jobs, track>>
    BY <1>7 DEF DecodeTimeout, Watchdog, FromWorker, OnMetadata, OnMetadataAs, OnLoadError,
         OnError, OnProgress, Engine, PlayOut, Sound, shown
  <2> QED  BY <1>0, <1>1, <2>1 DEF list
<1> QED  BY <1>2, <1>3, <1>4, <1>5, <1>6, <1>7 DEF Later, Wakes, FromNode

LEMMA IndexKept == Spec => []IndexInv
<1>1. Init => IndexInv
  <2> SUFFICES ASSUME Init PROVE IndexInv
    OBVIOUS
  <2>1. queue = <<>> /\ planned = 0 /\ track = None /\ jobs = <<>> /\ Len(<<>>) = 0
    BY DEF Init
  <2> QED  BY <2>1 DEF IndexInv, InHand, NoneOf, Names, InReach
<1>2. TypeOK /\ IndexInv /\ [Next]_vars => IndexInv'
  <2> SUFFICES ASSUME TypeOK, IndexInv, [Next]_vars  PROVE IndexInv'
    OBVIOUS
  <2>1. CASE UNCHANGED vars
    BY <2>1 DEF vars, place, list, shown, IndexInv, InHand, NoneOf, Names, InReach
  <2>2. CASE Next
    <3>1. UNCHANGED world
      BY <2>2, WorldStays DEF place
    <3>2. CASE ~world.memory
      BY <3>1, <3>2 DEF IndexInv
    <3> QED  BY <2>2, <3>1, <3>2, IndexUser, IndexOther DEF Next
  <2> QED  BY <2>1, <2>2
<1> QED  BY <1>1, <1>2, PlaybackTypeCorrect, PTL DEF Spec

\* With the tracks in memory, and lists of one length to pick them from, the index is
\* that of the track shown, whatever is picked, planned, skipped or ejected in between.
THEOREM IndexIsTracks ==
  ASSUME SameLength
  PROVE  Spec => []IndexNamesTrack
<1>1. IndexInv => IndexNamesTrack
  BY DEF IndexInv, InReach, Names, IndexNamesTrack
<1> QED  BY <1>1, IndexKept, PTL

\* Lists of any lengths: then a plan made for a longer one may leave the index beyond
\* the queue, but it never stands at another entry than that of the track shown.
THEOREM IndexNeverMisnames == Spec => [](world.memory => Names)
<1>1. IndexInv => (world.memory => Names)
  BY DEF IndexInv
<1> QED  BY <1>1, IndexKept, PTL

-----------------------------------------------------------------------------
(* What sounds.  What a step means for it, whoever makes it.               *)

Idle == NoneOf(jobs, "wake") /\ NoneOf(jobs, "fetch")

\* r has the wakes and the fetches of s, in their order.
SameWork(r, s) ==
  /\ \A k \in {"wake", "fetch"} :
       /\ NoneOf(r, k) <=> NoneOf(s, k)
       /\ \A t : (LastIs(s, k, t) => LastIs(r, k, t)) /\ (FirstIs(s, k, t) => FirstIs(r, k, t))
  /\ \A i \in DOMAIN r : r[i].kind \in {"wake", "fetch"} => \E j \in DOMAIN s : r[i] = s[j]

\* A track is started; w is what waits before it is woken.
Starts(t, w) ==
  /\ w \in Seq(Job) /\ SameWork(w, jobs)
  /\ Show(t) /\ transport' = "playing" /\ kind' = KindOf(t)
  /\ song' = None /\ loaded' = FALSE
  /\ UNCHANGED <<place, fromWorker, astray>>
  /\ tidy' => /\ tidy
              /\ jobs' = Append(w, JobFor("wake", t))
              /\ \/ UNCHANGED <<kind, resume>>
                 \/ w = <<>> /\ fromWorker = <<>> /\ resume' \in {None, resume, t}

\* A track is cued: the first thing the user does, or in a world of late cues.
Cues(t) ==
  /\ Show(t) /\ kind' = KindOf(t) /\ transport' \in {"ready", "decoding"}
  /\ UNCHANGED <<song, loaded, over>> \/ (song' = None /\ loaded' = FALSE)
  /\ UNCHANGED <<place, resume, fromWorker, astray>>
  /\ tidy' => tidy
  /\ world.lateCue \/ (kind = "none" /\ Idle' /\ song' = None /\ loaded' = FALSE)

Silences ==
  /\ song' = None /\ loaded' = FALSE /\ ~Playing'
  /\ (UNCHANGED <<track, meta>> \/ track' = None)
  /\ UNCHANGED <<place, jobs, pending, kind, resume, tidy, astray, fromWorker>>

Passes ==
  /\ UNCHANGED <<place, track, pending, meta, kind, resume, tidy, astray, song, loaded, fromWorker>>
  /\ over /\ ~loaded => over'
  /\ Playing' => Playing
  /\ SameWork(jobs', jobs)

LEMMA SameWorkIs ==
  ASSUME JobsOK
  PROVE  /\ SameWork(jobs, jobs)
         /\ \A x \in Job : x.kind \notin {"wake", "fetch"} => SameWork(Append(jobs, x), jobs)
         /\ \A i \in DOMAIN jobs :
              jobs[i].kind \notin {"wake", "fetch"} => SameWork(Without(i), jobs)
<1>1. jobs \in Seq(Job)
  BY DEF JobsOK
<1>2. SameWork(jobs, jobs)
  BY DEF SameWork
<1>3. ASSUME NEW x \in Job, x.kind \notin {"wake", "fetch"}  PROVE SameWork(Append(jobs, x), jobs)
  <2>1. ASSUME NEW k \in {"wake", "fetch"}
        PROVE  /\ NoneOf(Append(jobs, x), k) <=> NoneOf(jobs, k)
               /\ \A t : /\ LastIs(jobs, k, t) => LastIs(Append(jobs, x), k, t)
                         /\ FirstIs(jobs, k, t) => FirstIs(Append(jobs, x), k, t)
    <3>1. x.kind # k
      BY <1>3
    <3> QED  BY <1>1, <3>1, JobsAppended
  <2>2. \A i \in DOMAIN Append(jobs, x) :
          Append(jobs, x)[i].kind \in {"wake", "fetch"} => \E j \in DOMAIN jobs : Append(jobs, x)[i] = jobs[j]
    <3>1. \A i \in DOMAIN Append(jobs, x) :
            Append(jobs, x)[i] = x \/ (i \in DOMAIN jobs /\ Append(jobs, x)[i] = jobs[i])
      BY <1>1, JobsAppended
    <3> QED  BY <1>3, <3>1
  <2> QED  BY <2>1, <2>2, Zenon DEF SameWork
<1>4. ASSUME NEW i \in DOMAIN jobs, jobs[i].kind \notin {"wake", "fetch"}
      PROVE  SameWork(Without(i), jobs)
  <2>1. ASSUME NEW k \in {"wake", "fetch"}
        PROVE  /\ NoneOf(Without(i), k) <=> NoneOf(jobs, k)
               /\ \A t : /\ LastIs(jobs, k, t) => LastIs(Without(i), k, t)
                         /\ FirstIs(jobs, k, t) => FirstIs(Without(i), k, t)
    <3>1. jobs[i].kind # k
      BY <1>4
    <3> QED  BY <1>1, <3>1, JobRemoved DEF Without
  <2>2. From(Without(i), jobs)
    BY <1>1, JobRemoved DEF Without
  <2> QED  BY <2>1, <2>2, Zenon DEF SameWork, From
<1> QED  BY <1>2, <1>3, <1>4

\* Before the first track nothing is under way.
Unbuilt ==
  /\ calls = 0 => kind = "none"
  /\ kind = "none" =>
       /\ jobs = <<>> /\ fromWorker = <<>> /\ fromNode = <<>> /\ skips = 0
       /\ track = None /\ pending = None /\ song = None /\ resume = None
       /\ transport = "empty" /\ ~loaded
       /\ queue = <<>> /\ index = 0 /\ planned = 0

Engined ==
  /\ song # None => file[song] = "good"
  /\ song # None /\ ~loaded => over
  /\ loaded => song # None
  /\ Playing => track # None
  /\ track # None => track = pending /\ kind = KindOf(track)

LEMMA TakesPlaying ==
  /\ \A event \in {"ENDED", "STOP", "ERROR", "TOGGLE"} :
       Takes(event) \in {"playing", "paused"} => Playing
  /\ Takes("LOAD") = "playing" /\ Takes("CUE") = "decoding"
  /\ TypeOK => Takes("STOP") \notin {"playing", "paused"}
<1>1. ASSUME NEW event \in {"ENDED", "STOP", "ERROR", "TOGGLE"}, Takes(event) \in {"playing", "paused"}
      PROVE  Playing
  <2>1. CASE transport \in {"playing", "paused"}
    BY <2>1 DEF Playing
  <2>2. CASE transport \notin {"playing", "paused"}
    <3>1. Takes(event) \in {transport, "stopped", "error"}
      BY <1>1, <2>2, Zenon DEF Takes
    <3> QED  BY <1>1, <2>2, <3>1
  <2> QED  BY <2>1, <2>2
<1>2. Takes("LOAD") = "playing" /\ Takes("CUE") = "decoding"
  BY DEF Takes
<1>3. Takes("STOP") = IF transport \in {"decoding", "ready", "playing", "paused"} THEN "stopped" ELSE transport
  BY DEF Takes
<1> QED  BY <1>1, <1>2, <1>3

LEMMA PlayStarts ==
  ASSUME TypeOK, Unbuilt, NEW t \in Tracks, NEW w \in Seq(Job), SameWork(w, jobs),
         jobs = <<>> => w = <<>>, PlayTrack(t, w), UNCHANGED <<place, fromWorker, astray>>
  PROVE  Starts(t, w)
<1>1. Show(t) /\ transport' = "playing" /\ UNCHANGED resume
  BY TakesPlaying DEF PlayTrack, Send
<1>2. CASE /\ kind = KindOf(t)
           /\ EngineStop /\ UNCHANGED <<kind, tidy>>
           /\ jobs' = Append(w, JobFor("wake", t))
  BY <1>1, <1>2 DEF Starts, EngineStop
<1>3. CASE /\ Replace(KindOf(t), w)
           /\ jobs' = Append(Orphaned(w), JobFor("wake", t))
  <2>1. kind' = KindOf(t) /\ song' = None /\ loaded' = FALSE
    BY <1>3 DEF Replace
  <2>2. ASSUME tidy'  PROVE tidy /\ w = <<>> /\ fromWorker = <<>>
    <3>1. tidy /\ (kind = "none" \/ (w = <<>> /\ fromWorker = <<>>))
      BY <1>3, <2>2, Zenon DEF Replace
    <3> QED  BY <3>1 DEF Unbuilt
  <2>3. w = <<>> => Orphaned(w) = <<>>
    <3>1. Orphaned(w) \in Seq(Job) /\ Len(Orphaned(w)) = Len(w)
      BY OrphanedIs
    <3> QED  BY <3>1, EmptySeq
  <2> QED  BY <1>1, <1>3, <2>1, <2>2, <2>3 DEF Starts
<1> QED  BY <1>2, <1>3 DEF PlayTrack

LEMMA RecreateStarts ==
  ASSUME TypeOK, Unbuilt, Engined, track # None, Recreate, UNCHANGED <<place, fromWorker, astray>>
  PROVE  Starts(track, jobs)
<1>1. JobsOK /\ jobs \in Seq(Job) /\ SameWork(jobs, jobs)
  BY TypeParts, SameWorkIs DEF JobsOK
<1>2. /\ Show(track) /\ transport' = "playing" /\ kind' = kind /\ song' = None /\ loaded' = FALSE
      /\ resume' \in {track, None} /\ jobs' = Append(Orphaned(jobs), JobFor("wake", track))
  BY TakesPlaying DEF Recreate, Send, Replace
<1>3. kind = KindOf(track) /\ kind # "none"
  BY DEF Engined, Unbuilt
<1>4. ASSUME tidy'  PROVE tidy /\ jobs = <<>> /\ fromWorker = <<>>
  BY <1>3, <1>4, Zenon DEF Recreate, Replace
<1>5. jobs = <<>> => Orphaned(jobs) = <<>>
  <2>1. Orphaned(jobs) \in Seq(Job) /\ Len(Orphaned(jobs)) = Len(jobs)
    BY <1>1, OrphanedIs
  <2> QED  BY <2>1, EmptySeq
<1> QED  BY <1>1, <1>2, <1>3, <1>4, <1>5 DEF Starts

\* A step within the queue, or out of it, or towards a track to be fetched first.
LEMMA StepStarts ==
  ASSUME TypeOK, Unbuilt, NEW i \in 1 .. MaxLen, StepTo(i), UNCHANGED <<place, fromWorker, astray>>
  PROVE  (\E t \in Tracks, w \in Seq(Job) : Starts(t, w)) \/ Passes
<1>1. JobsOK /\ jobs \in Seq(Job) /\ SameWork(jobs, jobs)
  BY TypeParts, SameWorkIs DEF JobsOK
<1>2. i <= Len(queue) => queue[i] \in Tracks
  BY TypeParts, QueueIs, PlaybackConstants
<1>3. CASE i <= Len(queue) /\ PlayTrack(queue[i], jobs)
  BY <1>1, <1>2, <1>3, PlayStarts
<1>4. CASE /\ i <= Len(queue)
           /\ jobs' = Append(jobs, JobFor("resolve", queue[i]))
           /\ UNCHANGED <<shown, built, engine>>
  <2>1. JobFor("resolve", queue[i]) \in Job /\ JobFor("resolve", queue[i]).kind = "resolve"
    BY <1>2, <1>4, JobForTyped DEF JobFor
  <2>2. SameWork(jobs', jobs)
    BY <1>1, <1>4, <2>1, SameWorkIs
  <2> QED  BY <1>4, <2>2 DEF Passes, shown, built, engine, Playing
<1>5. CASE UNCHANGED <<jobs, shown, built, engine>>
  BY <1>1, <1>5 DEF Passes, shown, built, engine, Playing
<1> QED  BY <1>3, <1>4, <1>5 DEF StepTo

LEMMA PlayNextStarts ==
  ASSUME TypeOK, Unbuilt, PlayNext, UNCHANGED <<place, fromWorker, astray>>
  PROVE  (\E t \in Tracks, w \in Seq(Job) : Starts(t, w)) \/ Passes
<1>1. CASE planned = 0
  <2>1. UNCHANGED <<jobs, built, shown, engine>>
    BY <1>1, Zenon DEF PlayNext
  <2>2. SameWork(jobs, jobs)
    BY TypeParts, SameWorkIs
  <2> QED  BY <2>1, <2>2 DEF Passes, shown, built, engine, Playing
<1>2. CASE planned # 0
  <2>1. StepTo(planned) /\ planned \in 1 .. MaxLen
    BY <1>2, PlaybackConstants DEF PlayNext, TypeOK
  <2> QED  BY <2>1, StepStarts
<1> QED  BY <1>1, <1>2

Steps ==
  \/ \E t \in Tracks : Cues(t) \/ \E w \in Seq(Job) : Starts(t, w)
  \/ Silences \/ Passes
  \/ \E i \in DOMAIN jobs : Awake(i) \/ NeverUp(i) \/ Fetched(i) \/ FetchFailed(i) \/ Decoded(i)
  \/ OnMetadata \/ OnLoadError

LEMMA CueSteps ==
  ASSUME TypeOK, Unbuilt, NEW q \in world.lists, NEW i \in DOMAIN q, Cue(q, i)
  PROVE  Cues(q[i])
<1> DEFINE t == q[i]
<1>1. Show(t) /\ UNCHANGED <<place, resume, fromWorker, astray>> /\ (world.lateCue \/ calls = 0)
  BY DEF Cue, Gesture, ports
<1>2. transport' \in {"ready", "decoding"}
  BY TakesPlaying, Zenon DEF Cue
<1>3. \/ kind = KindOf(t) /\ UNCHANGED <<kind, tidy, engine>>
      \/ kind # KindOf(t) /\ Replace(KindOf(t), jobs)
  BY Zenon DEF Cue
<1>4. /\ kind' = KindOf(t) /\ (tidy' => tidy)
      /\ UNCHANGED <<song, loaded, over>> \/ (song' = None /\ loaded' = FALSE)
  <2>1. tidy' => tidy
    BY <1>3, Zenon DEF Replace
  <2>2. /\ kind' = KindOf(t)
        /\ UNCHANGED <<song, loaded, over>> \/ (song' = None /\ loaded' = FALSE)
    <3>1. CASE kind = KindOf(t) /\ UNCHANGED <<kind, tidy, engine>>
      BY <3>1 DEF engine
    <3>2. CASE Replace(KindOf(t), jobs)
      BY <3>2 DEF Replace
    <3> QED  BY <1>3, <3>1, <3>2
  <2> QED  BY <2>1, <2>2
<1>5. ASSUME calls = 0  PROVE kind = "none" /\ Idle' /\ song' = None /\ loaded' = FALSE
  <2>1. kind = "none" /\ jobs = <<>> /\ kind # KindOf(t)
    BY <1>5 DEF Unbuilt, KindOf
  <2>2. song' = None /\ loaded' = FALSE
    BY <1>3, <2>1 DEF Replace
  <2>3. Idle'
    <3>1. t \in Tracks /\ JobFor("decode", t) \in Job /\ JobFor("decode", t).kind = "decode"
      BY TypeParts, ListsAre, JobForTyped DEF PlaceOK, JobFor
    <3>2. <<>> \in Seq(Job) /\ Orphaned(<<>>) \in Seq(Job) /\ Len(Orphaned(<<>>)) = 0
      BY OrphanedIs, EmptySeq
    <3>3. Orphaned(<<>>) = <<>>
      BY <3>2, EmptySeq
    <3>4. jobs' = <<>> \/ jobs' = Append(<<>>, JobFor("decode", t))
      BY <2>1, <3>3, Zenon DEF Cue
    <3>5. \A k : NoneOf(<<>>, k)
      BY DEF NoneOf
    <3>6. \A k \in {"wake", "fetch"} : NoneOf(Append(<<>>, JobFor("decode", t)), k)
      BY <3>1, <3>2, <3>5, JobsAppended
    <3> QED  BY <3>4, <3>5, <3>6 DEF Idle, NoneOf
  <2> QED  BY <2>1, <2>2, <2>3
<1> QED  BY <1>1, <1>2, <1>4, <1>5 DEF Cues

LEMMA UserSteps == TypeOK /\ Unbuilt /\ Engined /\ User => Steps
<1> SUFFICES ASSUME TypeOK, Unbuilt, Engined, User  PROVE Steps
  OBVIOUS
<1>0. JobsOK /\ jobs \in Seq(Job) /\ SameWork(jobs, jobs)
  BY TypeParts, SameWorkIs DEF JobsOK
<1>1. ASSUME NEW g, Gesture(g)  PROVE UNCHANGED <<place, fromWorker, astray>>
  BY <1>1 DEF Gesture, ports
<1>2. ASSUME NEW q \in world.lists, NEW i \in DOMAIN q, Click(q, i) \/ Cue(q, i)  PROVE Steps
  <2>1. q[i] \in Tracks
    BY TypeParts, ListsAre DEF PlaceOK
  <2>2. CASE Click(q, i)
    BY <1>0, <1>1, <2>1, <2>2, PlayStarts DEF Click, Steps
  <2>3. CASE Cue(q, i)
    BY <2>1, <2>3, CueSteps DEF Steps
  <2> QED  BY <1>2, <2>2, <2>3
<1>3. CASE NextTrack
  BY <1>1, <1>3, PlayNextStarts DEF NextTrack, Steps
<1>4. CASE PrevTrack
  <2>1. PICK p : p = PrevOf(queue, index, shuffle, order)
    OBVIOUS
  <2>2. CASE /\ SetPos
             /\ UNCHANGED <<index, jobs, built, track, pending, meta, transport, error>>
    BY <1>0, <1>1, <1>4, <2>2 DEF PrevTrack, SetPos, Passes, built, Playing, Steps
  <2>3. CASE p # 0 /\ StepTo(p)
    <3>1. p \in 1 .. MaxLen
      <4>1. index \in 0 .. MaxLen /\ order \in OrdersOf(queue) \cup {<<>>}
        BY DEF TypeOK
      <4>2. queue \in Seq(Tracks) /\ Len(queue) <= MaxLen
        BY TypeParts, QueueIs
      <4>3. p \in 0 .. MaxLen
        BY <2>1, <4>1, <4>2, PrevTyped
      <4> QED  BY <2>3, <4>3, PlaybackConstants
    <3> QED  BY <1>1, <1>4, <2>3, <3>1, StepStarts DEF PrevTrack, Steps
  <2> QED  BY <1>4, <2>1, <2>2, <2>3 DEF PrevTrack
<1>5. CASE Seek
  BY <1>0, <1>1, <1>5 DEF Seek, SetPos, Passes, built, Playing, Steps
<1>6. CASE Toggle
  <2>1. track \in Tracks /\ track # None /\ UNCHANGED <<place, fromWorker, astray>>
    BY <1>1, <1>6 DEF Toggle, TypeOK
  <2>2. CASE /\ Playing /\ Send("TOGGLE")
             /\ UNCHANGED <<jobs, built, track, pending, meta, error, far, song, over, loaded>>
    BY <1>0, <2>1, <2>2 DEF Passes, built, Steps
  <2>3. CASE Recreate
    BY <1>0, <2>1, <2>3, RecreateStarts DEF Steps
  <2>4. CASE PlayTrack(track, jobs)
    BY <1>0, <2>1, <2>4, PlayStarts DEF Steps
  <2> QED  BY <1>6, <2>2, <2>3, <2>4 DEF Toggle
<1>7. CASE ToggleShuffle
  BY <1>0, <1>1, <1>7 DEF ToggleShuffle, Passes, shown, built, engine, Playing, Steps
<1>8. CASE Stop \/ Eject
  <2>1. transport' = Takes("STOP") /\ EngineStop
    BY <1>8 DEF Stop, Eject, Send
  <2>2. transport' \notin {"playing", "paused"}
    BY <2>1, TakesPlaying
  <2>3. /\ UNCHANGED <<place, fromWorker, astray, jobs, built, pending>>
        /\ UNCHANGED <<track, meta>> \/ track' = None
    BY <1>1, <1>8 DEF Stop, Eject
  <2> QED  BY <2>1, <2>2, <2>3 DEF EngineStop, Silences, built, Playing, Steps
<1> QED  BY <1>2, <1>3, <1>4, <1>5, <1>6, <1>7, <1>8 DEF User

LEMMA OtherSteps ==
  TypeOK /\ Unbuilt /\ Engined /\ (Later \/ FromWorker \/ FromNode \/ Engine) => Steps
<1> SUFFICES ASSUME TypeOK, Unbuilt, Engined, Later \/ FromWorker \/ FromNode \/ Engine
             PROVE  Steps
  OBVIOUS
<1>0. JobsOK /\ jobs \in Seq(Job) /\ SameWork(jobs, jobs)
  BY TypeParts, SameWorkIs DEF JobsOK
<1>1. ASSUME NEW i \in DOMAIN jobs, Resolves(i)  PROVE Steps
  <2>1. /\ jobs[i].kind = "resolve" /\ Without(i) \in Seq(Job) /\ SameWork(Without(i), jobs)
        /\ jobs # <<>> /\ jobs[i].track \in Tracks /\ UNCHANGED <<place, astray>>
    BY <1>0, <1>1, JobsAre, SameWorkIs DEF Resolves, Resolved, ResolveFailed, Done
  <2>2. CASE Resolved(i)
    BY <2>1, <2>2, PlayStarts DEF Resolved, ports, Steps
  <2>3. CASE ResolveFailed(i)
    BY <2>1, <2>3 DEF ResolveFailed, Passes, shown, built, engine, ports, Playing, Steps
  <2> QED  BY <1>1, <2>2, <2>3 DEF Resolves
<1>2. CASE DecodeTimeout
  BY <1>0, <1>2 DEF DecodeTimeout, Passes, built, engine, ports, Playing, Steps
<1>3. CASE Skip
  <2>1. CASE error
    BY <1>3, <2>1, PlayNextStarts DEF Skip, ports, Steps
  <2>2. CASE ~error
    <3>1. UNCHANGED <<jobs, built, shown, engine>> /\ UNCHANGED <<place, astray, ports>>
      BY <1>3, <2>2, Zenon DEF Skip
    <3> QED  BY <1>0, <3>1 DEF Passes, shown, built, engine, ports, Playing, Steps
  <2> QED  BY <2>1, <2>2
<1>4. CASE Watchdog
  BY <1>0, <1>4 DEF Watchdog, SetPos, Passes, shown, built, ports, Playing, Steps
<1>5. CASE OnEnded
  <2>1. CASE CanNext
    BY <1>5, <2>1, PlayNextStarts DEF OnEnded, Steps
  <2>2. CASE ~CanNext
    <3>1. /\ transport' = Takes("ENDED")
          /\ UNCHANGED <<jobs, built, track, pending, meta, engine, place, astray, fromWorker>>
      BY <1>5, <2>2, Zenon DEF OnEnded, Send
    <3>2. Playing' => Playing
      BY <3>1, TakesPlaying DEF Playing
    <3> QED  BY <1>0, <3>1, <3>2 DEF Passes, built, engine, Steps
  <2> QED  BY <2>1, <2>2
<1>6. CASE OnProgress \/ PlayOut \/ \E past \in BOOLEAN : Sound(past)
  BY <1>0, <1>6 DEF OnProgress, PlayOut, Sound, Passes, shown, built, engine, Playing, Steps
<1> QED  BY <1>1, <1>2, <1>3, <1>4, <1>5, <1>6 DEF Later, Wakes, Answered, FromWorker, FromNode, Engine, Steps

LEMMA NextSteps == TypeOK /\ Unbuilt /\ Engined /\ Next => Steps
  BY UserSteps, OtherSteps DEF Next

LEMMA CallsRise == TypeOK /\ Next => calls' = calls \/ (calls \in Nat /\ calls' = calls + 1)
<1> SUFFICES ASSUME TypeOK, Next, ~User  PROVE UNCHANGED calls
  <2>1. User /\ TypeOK => calls \in Nat /\ calls' = calls + 1
    BY PlaybackConstants DEF User, Gesture, Click, Cue, NextTrack, PrevTrack, Seek, Toggle,
       ToggleShuffle, Stop, Eject, TypeOK
  <2> QED  BY <2>1
<1> QED
  BY DEF Next, Later, Resolves, Wakes, Answered, Done, Resolved, ResolveFailed, Awake,
     NeverUp, Fetched, FetchFailed, Decoded, DecodeTimeout, Skip, Watchdog, FromWorker,
     FromNode, OnMetadata, OnMetadataAs, OnLoadError, OnProgress, OnEnded, Engine, PlayOut,
     Sound

LEMMA UnbuiltKept == TypeOK /\ Unbuilt /\ Engined /\ Next => Unbuilt'
<1> SUFFICES ASSUME TypeOK, Unbuilt, Engined, Next  PROVE Unbuilt'
  OBVIOUS
<1>1. CASE kind # "none"
  <2>1. calls' # 0
    BY <1>1, CallsRise DEF Unbuilt
  <2>2. kind' # "none"
    <3>1. Steps
      BY NextSteps
    <3>2. kind' = kind \/ \E t : kind' = KindOf(t)
      BY <3>1 DEF Steps, Cues, Starts, Silences, Passes, Awake, NeverUp, Fetched, FetchFailed,
           Decoded, OnMetadata, OnMetadataAs, OnLoadError, built
    <3> QED  BY <1>1, <3>2 DEF KindOf
  <2> QED  BY <2>1, <2>2 DEF Unbuilt
<1>2. CASE kind = "none"
  <2>0. /\ jobs = <<>> /\ fromWorker = <<>> /\ fromNode = <<>> /\ skips = 0
        /\ track = None /\ pending = None /\ song = None /\ resume = None
        /\ transport = "empty" /\ ~loaded
        /\ queue = <<>> /\ index = 0 /\ planned = 0
    BY <1>2 DEF Unbuilt
  <2>1. User
    <3>1. ~Later
      BY <2>0 DEF Later, DecodeTimeout, Skip, Watchdog
    <3>2. ~FromWorker /\ ~FromNode /\ ~Engine
      BY <2>0 DEF FromWorker, FromNode, Engine, OnMetadata, OnMetadataAs, OnLoadError, OnProgress,
           OnEnded, PlayOut, Sound, Sounding
    <3> QED  BY <3>1, <3>2 DEF Next
  <2>2. calls' # 0
    BY <2>1, PlaybackConstants DEF User, Gesture, Click, Cue, NextTrack, PrevTrack, Seek, Toggle,
       ToggleShuffle, Stop, Eject, TypeOK
  <2>3. ASSUME NEW q, NEW i, Click(q, i) \/ Cue(q, i)  PROVE kind' # "none"
    <3>1. kind' = kind \/ kind' = KindOf(q[i])
      BY <2>3 DEF Click, Cue, PlayTrack, Replace
    <3>2. kind # KindOf(q[i]) /\ KindOf(q[i]) # "none"
      BY <1>2 DEF KindOf
    <3>3. kind' = KindOf(q[i])
      BY <2>3, <3>2 DEF Click, Cue, PlayTrack, Replace
    <3> QED  BY <3>2, <3>3
  <2>4. CASE ToggleShuffle
    <3>1. /\ UNCHANGED <<queue, index, shown, guards, jobs, built, engine, ports>>
          /\ planned' = NextOf(<<>>, 0, ~shuffle, order')
      BY <2>0, <2>4 DEF ToggleShuffle, Gesture, RollNext
    <3>2. planned' = 0
      BY <3>1 DEF NextOf
    <3> QED  BY <2>0, <2>2, <3>1, <3>2 DEF Unbuilt, shown, guards, built, engine, ports
  <2>5. ~NextTrack /\ ~PrevTrack /\ ~Seek /\ ~Toggle /\ ~Stop /\ ~Eject
    BY <2>0 DEF NextTrack, PrevTrack, Seek, Toggle, Stop, Eject
  <2>6. ToggleShuffle \/ kind' # "none"
    BY <2>1, <2>3, <2>5 DEF User
  <2> QED  BY <2>2, <2>4, <2>6 DEF Unbuilt
<1> QED  BY <1>1, <1>2

LEMMA ErrorShown == OnError => (Playing' => Playing) /\ UNCHANGED <<track, pending, meta>>
<1> SUFFICES ASSUME OnError  PROVE (Playing' => Playing) /\ UNCHANGED <<track, pending, meta>>
  OBVIOUS
<1>1. UNCHANGED transport \/ transport' = Takes("ERROR")
  BY Zenon DEF OnError, Send
<1> QED  BY <1>1, TakesPlaying DEF OnError, Playing

LEMMA DecodedShown == TypeOK => \A i \in DOMAIN jobs : Decoded(i) =>
  /\ jobs[i].kind = "decode" /\ SameWork(jobs', jobs)
  /\ UNCHANGED <<place, track, pending, loaded, kind, resume, tidy, astray, fromWorker>>
  /\ Playing' => Playing
  /\ meta' = meta \/ meta' = pending
  /\ \/ song' = song /\ over' = over
     \/ song' = pending /\ ~loaded /\ over' = TRUE /\ file[song'] = "good"
<1> SUFFICES ASSUME TypeOK, NEW i \in DOMAIN jobs, Decoded(i)
             PROVE  /\ jobs[i].kind = "decode" /\ SameWork(jobs', jobs)
                    /\ UNCHANGED <<place, track, pending, loaded, kind, resume, tidy, astray, fromWorker>>
                    /\ Playing' => Playing
                    /\ meta' = meta \/ meta' = pending
                    /\ \/ song' = song /\ over' = over
                       \/ song' = pending /\ ~loaded /\ over' = TRUE /\ file[song'] = "good"
  OBVIOUS
<1>1. jobs[i].kind = "decode" /\ jobs' = Without(i) /\ SameWork(Without(i), jobs)
  BY TypeParts, SameWorkIs DEF Decoded, Done
<1>2. UNCHANGED <<place, track, pending, loaded, kind, resume, tidy, astray, fromWorker>>
  BY DEF Decoded, Done, built, ports
<1>3. PICK t : t = jobs[i].track
  OBVIOUS
<1>4. PICK kept \in BOOLEAN : kept = (pending = t /\ file[t] = "good" /\ ~loaded)
  OBVIOUS
<1>5. /\ meta' = meta \/ (meta' = t /\ pending = t)
      /\ transport' \in {transport, "error", "ready"}
  BY <1>3, Zenon DEF Decoded
<1>6. song' = (IF kept THEN t ELSE song) /\ over' = (kept \/ over)
  BY <1>3, <1>4, Zenon DEF Decoded
<1>7. \/ song' = song /\ over' = over
      \/ song' = pending /\ ~loaded /\ over' = TRUE /\ file[song'] = "good"
  <2>1. CASE kept
    <3>1. song' = t /\ over' = TRUE
      BY <1>6, <2>1
    <3> QED  BY <1>4, <2>1, <3>1
  <2>2. CASE ~kept
    <3>1. song' = song /\ over' = (FALSE \/ over) /\ over \in BOOLEAN
      BY <1>6, <2>2 DEF TypeOK
    <3> QED  BY <3>1
  <2> QED  BY <2>1, <2>2
<1> QED  BY <1>1, <1>2, <1>5, <1>7 DEF Playing

LEMMA FetchedShown == TypeOK => \A i \in DOMAIN jobs : Fetched(i) =>
  /\ UNCHANGED <<place, track, pending, meta, transport, kind, resume, tidy, astray>>
  /\ jobs' = Without(i)
  /\ LET t == jobs[i].track
         good == file[t] = "good" /\ jobs[i].fits
     IN  /\ ~jobs[i].own => UNCHANGED <<song, loaded, over>>
         /\ jobs[i].own => /\ good => song' = t /\ loaded' = TRUE
                           /\ ~good => song' = None /\ loaded' = FALSE
         /\ fromWorker' = Append(fromWorker, [cmd |-> IF good THEN "meta" ELSE "err", song |-> t])
<1> SUFFICES ASSUME TypeOK, NEW i \in DOMAIN jobs, Fetched(i)
             PROVE  /\ UNCHANGED <<place, track, pending, meta, transport, kind, resume, tidy, astray>>
                    /\ jobs' = Without(i)
                    /\ LET t == jobs[i].track
                           good == file[t] = "good" /\ jobs[i].fits
                       IN  /\ ~jobs[i].own => UNCHANGED <<song, loaded, over>>
                           /\ jobs[i].own => /\ good => song' = t /\ loaded' = TRUE
                                             /\ ~good => song' = None /\ loaded' = FALSE
                           /\ fromWorker' = Append(fromWorker,
                                [cmd |-> IF good THEN "meta" ELSE "err", song |-> t])
  OBVIOUS
<1>1. UNCHANGED <<place, track, pending, meta, transport, kind, resume, tidy, astray>> /\ jobs' = Without(i)
  BY DEF Fetched, Done, shown, built
<1> DEFINE t == jobs[i].track
           good == file[t] = "good" /\ jobs[i].fits
<1>2. IF jobs[i].own
      THEN song' = (IF good THEN t ELSE None) /\ loaded' = good /\ over' = FALSE
      ELSE UNCHANGED <<song, loaded, over>>
  BY Zenon DEF Fetched
<1>3. fromWorker' = Append(fromWorker, [cmd |-> IF good THEN "meta" ELSE "err", song |-> t])
  BY Zenon DEF Fetched
<1>4. PICK g \in BOOLEAN : g = good
  OBVIOUS
<1>5. IF jobs[i].own
      THEN song' = (IF g THEN t ELSE None) /\ loaded' = g
      ELSE UNCHANGED <<song, loaded, over>>
  BY <1>2, <1>4
<1> QED  BY <1>1, <1>3, <1>4, <1>5

LEMMA EnginedKept == TypeOK /\ Unbuilt /\ Engined /\ Next => Engined'
<1> SUFFICES ASSUME TypeOK, Unbuilt, Engined, Next  PROVE Engined'
  OBVIOUS
<1>0. Steps /\ UNCHANGED <<world, file>>
  BY NextSteps, WorldStays DEF place
<1>1. ASSUME NEW t \in Tracks, Cues(t) \/ \E w \in Seq(Job) : Starts(t, w)  PROVE Engined'
  <2>1. /\ track' = t /\ pending' = t /\ kind' = KindOf(t) /\ t # None
        /\ UNCHANGED <<song, loaded, over>> \/ (song' = None /\ loaded' = FALSE)
    BY <1>1, PlaybackConstants DEF Cues, Starts, Show
  <2> QED  BY <1>0, <2>1 DEF Engined, KindOf
<1>2. CASE Silences
  BY <1>0, <1>2 DEF Silences, Engined, KindOf
<1>3. CASE Passes
  BY <1>0, <1>3 DEF Passes, Engined, KindOf
<1>4. ASSUME NEW i \in DOMAIN jobs, Awake(i) \/ NeverUp(i)  PROVE Engined'
  BY <1>0, <1>4 DEF Awake, NeverUp, shown, built, engine, Engined, KindOf, Playing
<1>5. ASSUME NEW i \in DOMAIN jobs, Fetched(i)  PROVE Engined'
  <2>1. jobs[i].track \in Tracks /\ None \notin Tracks
    BY TypeParts, JobsAre, PlaybackConstants
  <2>2. /\ UNCHANGED <<track, pending, transport, kind>>
        /\ \/ UNCHANGED <<song, loaded, over>>
           \/ song' = jobs[i].track /\ loaded' = TRUE /\ file[jobs[i].track] = "good"
           \/ song' = None /\ loaded' = FALSE
    BY <1>5, FetchedShown
  <2> QED  BY <1>0, <2>1, <2>2 DEF Engined, KindOf, Playing
<1>6. ASSUME NEW i \in DOMAIN jobs, FetchFailed(i)  PROVE Engined'
  <2>1. (Playing' => Playing) /\ UNCHANGED <<track, pending, kind, song, loaded, over>>
    BY <1>6, ErrorShown DEF FetchFailed, built, engine
  <2> QED  BY <1>0, <2>1 DEF Engined, KindOf
<1>7. ASSUME NEW i \in DOMAIN jobs, Decoded(i)  PROVE Engined'
  <2>1. /\ UNCHANGED <<track, pending, loaded, kind>> /\ (Playing' => Playing)
        /\ \/ song' = song /\ over' = over
           \/ song' = pending /\ ~loaded /\ over' = TRUE /\ file[song'] = "good"
    BY <1>7, DecodedShown
  <2> QED  BY <1>0, <2>1 DEF Engined, KindOf
<1>8. CASE OnMetadata
  <2>1. UNCHANGED <<track, pending, transport, kind>> /\ (SetPos \/ UNCHANGED engine)
    BY <1>8 DEF OnMetadata, OnMetadataAs
  <2>2. UNCHANGED <<song, loaded>> /\ (over /\ ~loaded => over')
    <3>1. SetPos => UNCHANGED <<song, loaded>> /\ (over /\ ~loaded => over')
      BY Zenon DEF SetPos
    <3> QED  BY <2>1, <3>1 DEF engine
  <2> QED  BY <1>0, <2>1, <2>2 DEF Engined, KindOf, Playing
<1>9. CASE OnLoadError
  <2>1. (Playing' => Playing) /\ UNCHANGED <<track, pending, kind, song, loaded, over>>
    BY <1>9, ErrorShown DEF OnLoadError, built, engine
  <2> QED  BY <1>0, <2>1 DEF Engined, KindOf
<1> QED  BY <1>0, <1>1, <1>2, <1>3, <1>4, <1>5, <1>6, <1>7, <1>8, <1>9 DEF Steps

\* What the engine is asked for and reports, as long as its answers come in order.
Orderly == tidy /\ "good" \in world.files

Ours == \A i \in DOMAIN jobs : jobs[i].kind \in {"wake", "fetch"} =>
          jobs[i].own /\ jobs[i].fits /\ KindOf(jobs[i].track) = kind

\* The last track asked for is the one shown.
LastAsked ==
  /\ LastIs(jobs, "wake", pending)
  /\ NoneOf(jobs, "wake") => LastIs(jobs, "fetch", pending)

Told == \A i \in DOMAIN fromWorker : fromWorker[i].cmd = "meta" <=> file[fromWorker[i].song] = "good"

LoadedShown ==
  Idle /\ loaded =>
    /\ song = pending
    /\ fromWorker = <<>> /\ track # None => meta = pending
    /\ fromWorker # <<>> => /\ fromWorker[Len(fromWorker)].cmd = "meta"
                            /\ fromWorker[Len(fromWorker)].song = pending

PlayingLoaded == Idle /\ Playing /\ file[track] = "good" => loaded

\* The seek back is made when the first metadata come: those of its track.
ResumeFirst ==
  resume # None /\ file[resume] = "good" =>
    /\ fromWorker # <<>> => fromWorker[1].song = resume
    /\ fromWorker = <<>> => FirstIs(jobs, "fetch", resume)
    /\ fromWorker = <<>> /\ NoneOf(jobs, "fetch") =>
         ~NoneOf(jobs, "wake") /\ FirstIs(jobs, "wake", resume)

InOrder == Ours /\ LastAsked /\ Told /\ LoadedShown /\ PlayingLoaded /\ ResumeFirst

NowInv ==
  /\ Unbuilt /\ Engined /\ (Orderly => InOrder)
  /\ \A t \in astray : file[t] # "good"

\* In a world where anything plays, nothing is missing, answers come in the order of
\* the requests, and a track is cued before the first gesture only.
WorldsKeepOrder ==
  \A w \in Worlds : "good" \in w.files => "missing" \notin w.files /\ ~w.overtaking /\ ~w.lateCue

LEMMA StartsInOrder ==
  ASSUME TypeOK, NEW t \in Tracks, NEW w \in Seq(Job), Starts(t, w), InOrder, tidy'
  PROVE  InOrder'
<1> DEFINE x == JobFor("wake", t)
<1>1. /\ x \in Job /\ x.kind = "wake" /\ x.track = t /\ x.own /\ x.fits
  BY JobForTyped DEF JobFor
<1>2. /\ UNCHANGED <<world, file, fromWorker>> /\ pending' = t /\ loaded' = FALSE
      /\ jobs' = Append(w, x) /\ kind' = KindOf(t) /\ SameWork(w, jobs)
      /\ \/ UNCHANGED <<kind, resume>>
         \/ w = <<>> /\ fromWorker = <<>> /\ resume' \in {None, resume, t}
  BY DEF Starts, Show, place
<1> HIDE DEF x
<1>3. /\ ~NoneOf(jobs', "wake") /\ LastIs(jobs', "wake", t)
      /\ NoneOf(jobs', "fetch") <=> NoneOf(w, "fetch")
      /\ \A i \in DOMAIN jobs' : jobs'[i] = x \/ (i \in DOMAIN w /\ jobs'[i] = w[i])
      /\ \A s : /\ FirstIs(w, "fetch", s) => FirstIs(jobs', "fetch", s)
                /\ ~NoneOf(w, "wake") /\ FirstIs(w, "wake", s) => FirstIs(jobs', "wake", s)
                /\ NoneOf(w, "wake") /\ s = t => FirstIs(jobs', "wake", s)
  <2>1. "wake" # "fetch"
    OBVIOUS
  <2> QED  BY <1>1, <1>2, <2>1, JobsAppended
<1>4. Ours'
  <2> SUFFICES ASSUME NEW i \in DOMAIN jobs', jobs'[i].kind \in {"wake", "fetch"}
               PROVE  jobs'[i].own /\ jobs'[i].fits /\ KindOf(jobs'[i].track) = KindOf(t)
    BY <1>2 DEF Ours, KindOf
  <2>1. CASE jobs'[i] = x
    BY <1>1, <2>1
  <2>2. CASE i \in DOMAIN w /\ jobs'[i] = w[i]
    <3>1. kind = KindOf(t)
      BY <1>2, <2>2, EmptySeq
    <3>2. PICK j \in DOMAIN jobs : w[i] = jobs[j]
      BY <1>2, <2>2 DEF SameWork
    <3> QED  BY <2>2, <3>1, <3>2 DEF InOrder, Ours
  <2> QED  BY <1>3, <2>1, <2>2
<1>5. LastAsked' /\ LoadedShown' /\ PlayingLoaded' /\ Told'
  BY <1>2, <1>3 DEF InOrder, LastAsked, LoadedShown, PlayingLoaded, Told, Idle, NoneOf, LastIs, IsLast
<1>6. ResumeFirst'
  <2>1. /\ \A k \in {"wake", "fetch"} : NoneOf(w, k) <=> NoneOf(jobs, k)
        /\ \A k \in {"wake", "fetch"} : \A s : FirstIs(jobs, k, s) => FirstIs(w, k, s)
    BY <1>2 DEF SameWork
  <2>2. CASE UNCHANGED <<kind, resume>>
    <3> SUFFICES ASSUME resume # None, file[resume] = "good"
                 PROVE  /\ fromWorker # <<>> => fromWorker[1].song = resume
                        /\ fromWorker = <<>> => FirstIs(jobs', "fetch", resume)
                        /\ fromWorker = <<>> /\ NoneOf(jobs', "fetch") =>
                             ~NoneOf(jobs', "wake") /\ FirstIs(jobs', "wake", resume)
      BY <1>2, <2>2 DEF ResumeFirst, FirstIs, IsFirst, NoneOf
    <3> QED  BY <1>3, <2>1 DEF InOrder, ResumeFirst
  <2>3. CASE w = <<>> /\ fromWorker = <<>> /\ resume' \in {None, resume, t}
    <3>1. NoneOf(w, "wake") /\ NoneOf(w, "fetch") /\ FirstIs(w, "fetch", t)
      BY <2>3 DEF NoneOf, FirstIs
    <3>2. resume = None \/ file[resume] # "good"
      BY <2>1, <2>3, <3>1 DEF InOrder, ResumeFirst
    <3>3. FirstIs(jobs', "wake", t) /\ FirstIs(jobs', "fetch", t)
      BY <1>3, <3>1
    <3>4. resume' = None \/ file[resume'] # "good" \/ resume' = t
      BY <2>3, <3>2
    <3> QED  BY <1>2, <1>3, <2>3, <3>3, <3>4 DEF ResumeFirst, FirstIs, IsFirst, NoneOf
  <2> QED  BY <1>2, <2>2, <2>3
<1> QED  BY <1>4, <1>5, <1>6 DEF InOrder

\* What leaves the wakes, the fetches and the worker's port as they are.
LEMMA SameInOrder ==
  ASSUME TypeOK, InOrder, SameWork(jobs', jobs),
         UNCHANGED <<world, file, pending, kind, resume, fromWorker>>,
         loaded' => loaded /\ song' = song /\ track' = track /\ meta' \in {meta, pending},
         Playing' => Playing /\ track' = track /\ loaded' = loaded
  PROVE  InOrder'
<1>1. /\ \A k \in {"wake", "fetch"} : NoneOf(jobs', k) <=> NoneOf(jobs, k)
      /\ \A k \in {"wake", "fetch"} : \A s : /\ LastIs(jobs, k, s) => LastIs(jobs', k, s)
                                             /\ FirstIs(jobs, k, s) => FirstIs(jobs', k, s)
      /\ \A i \in DOMAIN jobs' : jobs'[i].kind \in {"wake", "fetch"} =>
           \E j \in DOMAIN jobs : jobs'[i] = jobs[j]
  BY DEF SameWork
<1>2. Ours' /\ Told'
  BY <1>1 DEF InOrder, Ours, Told, KindOf
<1>3. LastIs(jobs', "wake", pending) /\ (NoneOf(jobs', "wake") => LastIs(jobs', "fetch", pending))
  BY <1>1 DEF InOrder, LastAsked
<1>4. LastAsked'
  BY <1>3 DEF LastAsked, LastIs, IsLast, NoneOf
<1>5. NoneOf(jobs, "wake") /\ NoneOf(jobs, "fetch") <=> Idle'
  <2>1. Idle' <=> NoneOf(jobs', "wake") /\ NoneOf(jobs', "fetch")
    BY DEF Idle, NoneOf
  <2> QED  BY <1>1, <2>1
<1>6. LoadedShown' /\ PlayingLoaded'
  BY <1>5 DEF InOrder, LoadedShown, PlayingLoaded, Idle
<1>7. ResumeFirst'
  <2> SUFFICES ASSUME resume # None, file[resume] = "good"
               PROVE  /\ fromWorker # <<>> => fromWorker[1].song = resume
                      /\ fromWorker = <<>> => FirstIs(jobs', "fetch", resume)
                      /\ fromWorker = <<>> /\ NoneOf(jobs', "fetch") =>
                           ~NoneOf(jobs', "wake") /\ FirstIs(jobs', "wake", resume)
    BY DEF ResumeFirst, FirstIs, IsFirst, NoneOf
  <2> QED  BY <1>1 DEF InOrder, ResumeFirst
<1> QED  BY <1>2, <1>4, <1>6, <1>7 DEF InOrder

LEMMA DoneInOrder ==
  ASSUME TypeOK, tidy, ~world.overtaking, NEW i \in DOMAIN jobs, NEW k, Done(i, k)
  PROVE  IsFirst(jobs, k, i)
<1>1. DOMAIN jobs = 1 .. Len(jobs) /\ Len(jobs) \in Nat
  BY TypeParts, JobsAre
<1>2. jobs[i].kind = k /\ \A j \in 1 .. i - 1 : jobs[j].kind # k
  BY DEF Done
<1> QED  BY <1>1, <1>2 DEF IsFirst

LEMMA AwakeInOrder ==
  ASSUME TypeOK, tidy, ~world.overtaking, InOrder, NEW i \in DOMAIN jobs, Awake(i)
  PROVE  InOrder'
<1> DEFINE t == jobs[i].track
           x == JobFor("fetch", t)
           w == Without(i)
<1>1. /\ JobsOK /\ jobs \in Seq(Job) /\ w \in Seq(Job) /\ t \in Tracks
      /\ x \in Job /\ x.kind = "fetch" /\ x.track = t /\ x.own /\ x.fits
      /\ IsFirst(jobs, "wake", i) /\ jobs[i].kind = "wake"
  <2>1. JobsOK /\ jobs \in Seq(Job) /\ IsFirst(jobs, "wake", i) /\ jobs[i].kind = "wake"
    BY TypeParts, DoneInOrder DEF JobsOK, Awake, Done
  <2>2. w \in Seq(Job) /\ t \in Tracks
    BY <2>1, JobsAre
  <2> QED  BY <2>1, <2>2, JobForTyped DEF JobFor
<1>2. kind = KindOf(t)
  BY <1>1 DEF InOrder, Ours
<1>3. /\ UNCHANGED <<world, file, fromWorker, pending, kind, resume, loaded>>
      /\ jobs' = Append(w, [x EXCEPT !.fits = (kind = KindOf(t))])
  BY Zenon DEF Awake, Done, place, shown, built, engine, ports
<1>4. jobs' = Append(w, x)
  <2>1. [x EXCEPT !.fits = (kind = KindOf(t))] = [x EXCEPT !.fits = TRUE]
    BY <1>2
  <2>2. [x EXCEPT !.fits = TRUE] = x
    BY <1>1 DEF JobFor
  <2> QED  BY <1>3, <2>1, <2>2
<1>5. /\ LastIs(jobs, "wake", pending) => LastIs(w, "wake", pending)
      /\ LastIs(jobs, "wake", pending) /\ NoneOf(w, "wake") => t = pending
      /\ NoneOf(jobs, "fetch") => NoneOf(w, "fetch")
      /\ NoneOf(w, "fetch") => NoneOf(jobs, "fetch")
      /\ \A s : FirstIs(jobs, "fetch", s) => FirstIs(w, "fetch", s)
      /\ From(w, jobs)
  BY <1>1, JobRemoved DEF Without
<1> HIDE DEF x, w
<1>6. /\ ~NoneOf(jobs', "fetch") /\ (NoneOf(jobs', "wake") => NoneOf(w, "wake"))
      /\ LastIs(w, "wake", pending) => LastIs(jobs', "wake", pending)
      /\ LastIs(jobs', "fetch", t)
      /\ \A s : /\ ~NoneOf(w, "fetch") /\ FirstIs(w, "fetch", s) => FirstIs(jobs', "fetch", s)
                /\ NoneOf(w, "fetch") /\ s = t => FirstIs(jobs', "fetch", s)
      /\ \A j \in DOMAIN jobs' : jobs'[j] = x \/ (j \in DOMAIN w /\ jobs'[j] = w[j])
  <2>1. /\ ~NoneOf(jobs', "fetch") /\ LastIs(jobs', "fetch", t)
        /\ \A s : /\ ~NoneOf(w, "fetch") /\ FirstIs(w, "fetch", s) => FirstIs(jobs', "fetch", s)
                  /\ NoneOf(w, "fetch") /\ x.track = s => FirstIs(jobs', "fetch", s)
        /\ \A j \in DOMAIN jobs' : jobs'[j] = x \/ (j \in DOMAIN w /\ jobs'[j] = w[j])
    <3>1. x.kind = "fetch" /\ w \in Seq(Job) /\ x \in Job
      BY <1>1
    <3>2. ~NoneOf(Append(w, x), "fetch") /\ LastIs(Append(w, x), "fetch", x.track)
      BY <3>1, JobsAppended
    <3>3. ASSUME NEW s
          PROVE  /\ ~NoneOf(w, "fetch") /\ FirstIs(w, "fetch", s) => FirstIs(Append(w, x), "fetch", s)
                 /\ NoneOf(w, "fetch") /\ x.track = s => FirstIs(Append(w, x), "fetch", s)
      BY <3>1, JobsAppended
    <3>4. \A j \in DOMAIN Append(w, x) :
             Append(w, x)[j] = x \/ (j \in DOMAIN w /\ Append(w, x)[j] = w[j])
      BY <3>1, JobsAppended
    <3>5. x.track = t
      BY <1>1
    <3> HIDE DEF t
    <3> QED  BY <1>4, <3>2, <3>3, <3>4, <3>5
  <2>2. /\ NoneOf(jobs', "wake") => NoneOf(w, "wake")
        /\ LastIs(w, "wake", pending) => LastIs(jobs', "wake", pending)
    <3>1. x.kind # "wake"
      BY <1>1
    <3> QED  BY <1>1, <1>4, <3>1, JobsAppended
  <2> QED  BY <1>1, <2>1, <2>2
<1>7. Ours'
  <2> SUFFICES ASSUME NEW j \in DOMAIN jobs', jobs'[j].kind \in {"wake", "fetch"}
               PROVE  jobs'[j].own /\ jobs'[j].fits /\ KindOf(jobs'[j].track) = kind
    BY <1>3 DEF Ours, KindOf
  <2>1. CASE jobs'[j] = x
    BY <1>1, <1>2, <2>1
  <2>2. CASE j \in DOMAIN w /\ jobs'[j] = w[j]
    BY <1>5, <2>2 DEF From, InOrder, Ours
  <2> QED  BY <1>6, <2>1, <2>2
<1>8. LastAsked'
  <2>1. LastIs(jobs', "wake", pending) /\ (NoneOf(jobs', "wake") => LastIs(jobs', "fetch", pending))
    BY <1>5, <1>6 DEF InOrder, LastAsked
  <2> QED  BY <1>3, <2>1 DEF LastAsked, LastIs, IsLast, NoneOf
<1>9. Told' /\ LoadedShown' /\ PlayingLoaded'
  BY <1>3, <1>6 DEF InOrder, Told, LoadedShown, PlayingLoaded, Idle, NoneOf
<1>10. ResumeFirst'
  <2> SUFFICES ASSUME resume # None, file[resume] = "good", fromWorker = <<>>
               PROVE  FirstIs(jobs', "fetch", resume)
    BY <1>3, <1>6 DEF InOrder, ResumeFirst, FirstIs, IsFirst, NoneOf
  <2>1. CASE NoneOf(jobs, "fetch")
    <3>1. FirstIs(jobs, "wake", resume)
      BY <2>1 DEF InOrder, ResumeFirst
    <3>2. t = resume
      BY <1>1, <3>1 DEF FirstIs
    <3> QED  BY <1>5, <1>6, <2>1, <3>2
  <2>2. CASE ~NoneOf(jobs, "fetch")
    BY <1>5, <1>6, <2>2 DEF InOrder, ResumeFirst
  <2> QED  BY <2>1, <2>2
<1> QED  BY <1>7, <1>8, <1>9, <1>10 DEF InOrder

LEMMA FetchedInOrder ==
  ASSUME TypeOK, Engined, tidy, ~world.overtaking, InOrder, NEW i \in DOMAIN jobs, Fetched(i)
  PROVE  InOrder'
<1> DEFINE t == jobs[i].track
           good == file[t] = "good"
           e == [cmd |-> IF good THEN "meta" ELSE "err", song |-> t]
           w == Without(i)
<1>1. /\ jobs \in Seq(Job) /\ IsFirst(jobs, "fetch", i) /\ jobs[i].kind = "fetch"
      /\ fromWorker \in Seq(WorkerEvent)
  BY TypeParts, DoneInOrder DEF JobsOK, PortsOK, Fetched, Done
<1>2. jobs[i].own /\ jobs[i].fits
  BY <1>1 DEF InOrder, Ours
<1>3. /\ UNCHANGED <<world, file, track, pending, meta, transport, kind, resume>>
      /\ jobs' = w
      /\ good => song' = t /\ loaded' = TRUE
      /\ ~good => song' = None /\ loaded' = FALSE
  BY <1>2, FetchedShown DEF place
<1>4. fromWorker' = Append(fromWorker, e)
  BY <1>2, Zenon, FetchedShown
<1>5. /\ LastIs(jobs, "wake", pending) => LastIs(w, "wake", pending)
      /\ NoneOf(jobs, "wake") <=> NoneOf(w, "wake")
      /\ LastIs(jobs, "fetch", pending) => LastIs(w, "fetch", pending)
      /\ LastIs(jobs, "fetch", pending) /\ NoneOf(w, "fetch") => t = pending
      /\ From(w, jobs)
  BY <1>1, JobRemoved DEF Without
<1>6. e.song = t /\ (e.cmd = "meta" <=> good)
  OBVIOUS
<1>7. /\ Len(fromWorker) \in Nat /\ DOMAIN fromWorker = 1 .. Len(fromWorker)
      /\ fromWorker = <<>> <=> Len(fromWorker) = 0
      /\ DOMAIN fromWorker' = 1 .. Len(fromWorker) + 1 /\ Len(fromWorker') = Len(fromWorker) + 1
      /\ fromWorker'[Len(fromWorker) + 1] = e /\ fromWorker' # <<>>
      /\ \A j \in 1 .. Len(fromWorker) : fromWorker'[j] = fromWorker[j]
  <2>1. e \in WorkerEvent
    <3>1. t \in Tracks
      BY TypeParts, JobsAre
    <3> QED  BY <3>1 DEF WorkerEvent
  <2> HIDE DEF e
  <2> QED  BY <1>1, <1>4, <2>1, AppendProperties, LenProperties, EmptySeq
<1> HIDE DEF e, w
<1>8. Ours'
  BY <1>3, <1>5 DEF InOrder, Ours, From, KindOf
<1>9. LastAsked'
  <2>1. LastIs(w, "wake", pending) /\ (NoneOf(w, "wake") => LastIs(w, "fetch", pending))
    BY <1>5 DEF InOrder, LastAsked
  <2> QED  BY <1>3, <2>1 DEF LastAsked
<1>10. Told'
  <2> SUFFICES ASSUME NEW j \in DOMAIN fromWorker'
               PROVE  fromWorker'[j].cmd = "meta" <=> file[fromWorker'[j].song] = "good"
    BY <1>3 DEF Told
  <2>1. CASE j = Len(fromWorker) + 1
    BY <1>6, <1>7, <2>1
  <2>2. CASE j \in 1 .. Len(fromWorker)
    BY <1>7, <2>2 DEF InOrder, Told
  <2> QED  BY <1>7, <2>1, <2>2
<1>11. Idle' => t = pending
  BY <1>3, <1>5 DEF Idle, InOrder, LastAsked
<1>12. LoadedShown'
  BY <1>3, <1>6, <1>7, <1>11 DEF LoadedShown
<1>13. PlayingLoaded'
  BY <1>3, <1>11 DEF PlayingLoaded, Playing, Engined
<1>14. ResumeFirst'
  <2> SUFFICES ASSUME resume # None, file[resume] = "good"  PROVE fromWorker'[1].song = resume
    BY <1>3, <1>7 DEF ResumeFirst
  <2>1. CASE fromWorker = <<>>
    <3>1. t = resume
      BY <1>1, <2>1 DEF InOrder, ResumeFirst, FirstIs
    <3> QED  BY <1>6, <1>7, <2>1, <3>1
  <2>2. CASE fromWorker # <<>>
    BY <1>7, <2>2 DEF InOrder, ResumeFirst
  <2> QED  BY <2>1, <2>2
<1> QED  BY <1>8, <1>9, <1>10, <1>12, <1>13, <1>14 DEF InOrder

LEMMA TailIs ==
  ASSUME NEW s \in Seq(WorkerEvent), s # <<>>
  PROVE  /\ Head(s) = s[1] /\ 1 \in DOMAIN s
         /\ \A i \in DOMAIN Tail(s) : \E j \in DOMAIN s : Tail(s)[i] = s[j]
         /\ Tail(s) # <<>> => Tail(s)[Len(Tail(s))] = s[Len(s)]
         /\ Tail(s) = <<>> => s[Len(s)] = s[1]
<1>1. /\ Tail(s) \in Seq(WorkerEvent) /\ Len(Tail(s)) = Len(s) - 1
      /\ \A i \in 1 .. Len(Tail(s)) : Tail(s)[i] = s[i + 1]
  BY HeadTailProperties
<1>2. /\ Len(s) \in Nat \ {0} /\ DOMAIN s = 1 .. Len(s) /\ DOMAIN Tail(s) = 1 .. Len(s) - 1
      /\ Tail(s) = <<>> <=> Len(s) - 1 = 0
  BY <1>1, LenProperties, EmptySeq
<1>3. Head(s) = s[1]
  OBVIOUS
<1>4. \A i \in 1 .. Len(s) - 1 : i + 1 \in 1 .. Len(s) /\ Tail(s)[i] = s[i + 1]
  BY <1>1, <1>2
<1> QED  BY <1>1, <1>2, <1>3, <1>4

LEMMA ToldInOrder ==
  ASSUME TypeOK, InOrder, OnMetadata \/ OnLoadError, UNCHANGED <<world, file>>
  PROVE  /\ InOrder'
         /\ fromWorker # <<>> /\ Head(fromWorker) = fromWorker[1]
<1>1. fromWorker \in Seq(WorkerEvent) /\ fromWorker # <<>> /\ fromWorker' = Tail(fromWorker)
  BY TypeParts DEF PortsOK, OnMetadata, OnMetadataAs, OnLoadError
<1>2. /\ UNCHANGED <<jobs, kind, track, pending, song, loaded>> /\ (Playing' => Playing)
  <2>1. CASE OnMetadata
    <3>1. SetPos \/ UNCHANGED engine
      BY <2>1 DEF OnMetadata, OnMetadataAs
    <3> QED  BY <2>1, <3>1 DEF OnMetadata, OnMetadataAs, SetPos, engine, Playing
  <2>2. CASE OnLoadError
    BY <2>2, ErrorShown DEF OnLoadError, built, engine
  <2> QED  BY <2>1, <2>2
<1>3. Ours' /\ LastAsked' /\ PlayingLoaded' /\ (Idle' <=> Idle)
  BY <1>2 DEF InOrder, Ours, LastAsked, PlayingLoaded, Idle, KindOf, NoneOf, LastIs, IsLast
<1>4. Told'
  BY <1>1, TailIs DEF InOrder, Told
<1>5. Head(fromWorker).cmd = "meta" <=> file[Head(fromWorker).song] = "good"
  BY <1>1, TailIs DEF InOrder, Told
<1>6. LoadedShown'
  <2> SUFFICES ASSUME Idle, loaded
               PROVE  /\ song = pending
                      /\ fromWorker' = <<>> /\ track # None => meta' = pending
                      /\ fromWorker' # <<>> => /\ fromWorker'[Len(fromWorker')].cmd = "meta"
                                               /\ fromWorker'[Len(fromWorker')].song = pending
    BY <1>2, <1>3 DEF LoadedShown
  <2>1. /\ song = pending
        /\ fromWorker[Len(fromWorker)].cmd = "meta" /\ fromWorker[Len(fromWorker)].song = pending
    BY <1>1 DEF InOrder, LoadedShown
  <2>2. ASSUME fromWorker' = <<>>, track # None  PROVE meta' = pending
    <3>1. Head(fromWorker).cmd = "meta" /\ Head(fromWorker).song = pending
      BY <1>1, <2>1, <2>2, TailIs
    <3>2. OnMetadata
      BY <3>1 DEF OnLoadError
    <3> QED  BY <2>2, <3>1, <3>2 DEF OnMetadata, OnMetadataAs, MetaShown
  <2> QED  BY <1>1, <2>1, <2>2, TailIs
<1>7. ResumeFirst'
  <2>1. CASE OnMetadata
    BY <2>1 DEF OnMetadata, OnMetadataAs, ResumeFirst
  <2>2. CASE OnLoadError
    <3>1. resume = None \/ file[resume] # "good"
      BY <1>1, <1>5, <2>2, TailIs DEF OnLoadError, InOrder, ResumeFirst
    <3> QED  BY <2>2, <3>1 DEF OnLoadError, built, ResumeFirst
  <2> QED  BY <2>1, <2>2
<1> QED  BY <1>1, <1>3, <1>4, <1>6, <1>7, TailIs DEF InOrder

LEMMA InOrderKept ==
  ASSUME WorldsKeepOrder, TypeOK, Unbuilt, Engined, Orderly => InOrder, Next, Orderly'
  PROVE  InOrder'
<1>1. Steps /\ UNCHANGED <<world, file>>
  BY NextSteps, WorldStays DEF place
<1>2. "good" \in world.files /\ "missing" \notin world.files /\ ~world.overtaking /\ ~world.lateCue
  BY <1>1 DEF WorldsKeepOrder, Orderly, TypeOK
<1>3. ASSUME tidy  PROVE InOrder
  BY <1>2, <1>3 DEF Orderly
<1>4. tidy' /\ JobsOK /\ SameWork(jobs, jobs)
  BY TypeParts, SameWorkIs DEF Orderly
<1>5. ASSUME NEW t \in Tracks, Cues(t)  PROVE InOrder'
  <2>1. kind = "none" /\ Idle' /\ loaded' = FALSE /\ ~Playing' /\ UNCHANGED <<resume, fromWorker>>
    BY <1>2, <1>5 DEF Cues, Playing
  <2>2. resume' = None /\ fromWorker' = <<>>
    BY <2>1 DEF Unbuilt
  <2> QED  BY <2>1, <2>2 DEF InOrder, Ours, LastAsked, Told, LoadedShown, PlayingLoaded, ResumeFirst,
             Idle, NoneOf, LastIs, IsLast
<1>6. ASSUME NEW t \in Tracks, NEW w \in Seq(Job), Starts(t, w)  PROVE InOrder'
  BY <1>3, <1>4, <1>6, StartsInOrder DEF Starts
<1>7. CASE Silences
  <2>1. tidy /\ UNCHANGED <<world, file, jobs, pending, kind, resume, fromWorker>>
          /\ ~loaded' /\ ~Playing'
    BY <1>1, <1>4, <1>7 DEF Silences
  <2> QED  BY <1>3, <1>4, <2>1, SameInOrder
<1>8. CASE Passes
  <2>1. tidy
    BY <1>4, <1>8 DEF Passes
  <2> QED  BY <1>1, <1>3, <1>8, <2>1, SameInOrder DEF Passes
<1>9. ASSUME NEW i \in DOMAIN jobs,
             Awake(i) \/ NeverUp(i) \/ Fetched(i) \/ FetchFailed(i) \/ Decoded(i)
      PROVE  InOrder'
  <2>1. tidy /\ jobs[i].track \in Tracks
    BY <1>4, <1>9, JobsAre, DecodedShown, FetchedShown DEF Awake, NeverUp, FetchFailed, built
  <2>2. CASE NeverUp(i)
    BY <1>3, <2>1, <2>2 DEF NeverUp, Done, InOrder, Ours
  <2>3. CASE FetchFailed(i)
    <3>1. file[jobs[i].track] \in world.files
      BY <2>1 DEF TypeOK
    <3> QED  BY <1>2, <2>3, <3>1 DEF FetchFailed
  <2>4. CASE Decoded(i)
    <3>1. /\ SameWork(jobs', jobs)
          /\ UNCHANGED <<track, pending, loaded, kind, resume, fromWorker>>
          /\ Playing' => Playing
          /\ meta' \in {meta, pending}
          /\ loaded => song' = song
      BY <2>4, DecodedShown
    <3> QED  BY <1>1, <1>3, <2>1, <3>1, SameInOrder
  <2> QED  BY <1>2, <1>3, <1>9, <2>1, <2>2, <2>3, <2>4, AwakeInOrder, FetchedInOrder
<1>10. CASE OnMetadata \/ OnLoadError
  <2>1. tidy
    BY <1>4, <1>10 DEF OnMetadata, OnMetadataAs, OnLoadError, built
  <2> QED  BY <1>1, <1>3, <1>10, <2>1, ToldInOrder
<1> QED  BY <1>1, <1>5, <1>6, <1>7, <1>8, <1>9, <1>10 DEF Steps

\* In a seek back that goes astray only a track that cannot be played is left.
LEMMA AstrayKept ==
  ASSUME WorldsKeepOrder, TypeOK, NowInv, Next
  PROVE  \A t \in astray' : file'[t] # "good"
<1>1. Steps /\ UNCHANGED <<world, file>> /\ \A t \in astray : file[t] # "good"
  BY NextSteps, WorldStays DEF place, NowInv
<1>2. CASE OnMetadata
  <2>1. astray' = astray \cup (IF tidy THEN {resume} \ {None, Head(fromWorker).song} ELSE {})
    BY <1>2, Zenon DEF OnMetadata, OnMetadataAs
  <2> SUFFICES ASSUME tidy, resume \notin {None, Head(fromWorker).song}  PROVE file[resume] # "good"
    BY <1>1, <2>1
  <2>2. resume \in Tracks /\ file[resume] \in world.files
    BY DEF TypeOK
  <2>3. CASE "good" \in world.files
    <3>1. InOrder
      BY <2>3 DEF NowInv, Orderly
    <3>2. Head(fromWorker) = fromWorker[1] /\ fromWorker # <<>>
      BY <1>1, <1>2, <3>1, ToldInOrder
    <3> QED  BY <3>1, <3>2 DEF InOrder, ResumeFirst
  <2> QED  BY <2>2, <2>3
<1>3. ~OnMetadata => UNCHANGED astray
  BY <1>1, DecodedShown, FetchedShown
     DEF Steps, Cues, Starts, Silences, Passes, Awake, NeverUp, FetchFailed, Done, OnLoadError
<1> QED  BY <1>1, <1>2, <1>3

LEMMA NowKept ==
  ASSUME WorldsKeepOrder
  PROVE  Spec => []NowInv
<1>1. Init => NowInv
  <2> SUFFICES ASSUME Init  PROVE NowInv
    OBVIOUS
  <2>1. /\ calls = 0 /\ jobs = <<>> /\ fromWorker = <<>> /\ fromNode = <<>> /\ skips = 0
        /\ track = None /\ pending = None /\ song = None /\ resume = None /\ kind = "none"
        /\ transport = "empty" /\ loaded = FALSE
        /\ queue = <<>> /\ index = 0 /\ planned = 0 /\ astray = {}
    BY DEF Init
  <2>2. ~Playing
    BY <2>1 DEF Playing
  <2> QED  BY <2>1, <2>2 DEF NowInv, Unbuilt, Engined, InOrder, Ours, LastAsked, Told, LoadedShown,
             PlayingLoaded, ResumeFirst, NoneOf, LastIs, IsLast
<1>2. TypeOK /\ NowInv /\ [Next]_vars => NowInv'
  <2> SUFFICES ASSUME TypeOK, NowInv, [Next]_vars  PROVE NowInv'
    OBVIOUS
  <2>1. CASE UNCHANGED vars
    BY <2>1 DEF vars, place, list, shown, guards, built, engine, ports, NowInv, Unbuilt, Engined,
       Orderly, InOrder, Ours, LastAsked, Told, LoadedShown, PlayingLoaded, ResumeFirst, Idle,
       NoneOf, LastIs, IsLast, FirstIs, IsFirst, KindOf, Playing
  <2>2. CASE Next
    <3>1. Unbuilt' /\ Engined' /\ \A t \in astray' : file'[t] # "good"
      BY <2>2, UnbuiltKept, EnginedKept, AstrayKept DEF NowInv
    <3>2. Orderly' => InOrder'
      BY <2>2, InOrderKept DEF NowInv
    <3> QED  BY <3>1, <3>2 DEF NowInv
  <2> QED  BY <2>1, <2>2
<1> QED  BY <1>1, <1>2, PlaybackTypeCorrect, PTL DEF Spec

\* However many tracks are picked, skipped to, stopped or fail to parse, and whichever
\* engines are built for them: once nothing is under way, what sounds is the track
\* shown, under its own metadata, and what is shown as playing is loaded.  The answers
\* say not what they are of; that they come in the order of the requests is enough.
THEOREM NowIsPlaying ==
  ASSUME WorldsKeepOrder
  PROVE  Spec => []NowPlaying
<1>1. TypeOK /\ NowInv => NowPlaying
  <2> SUFFICES ASSUME TypeOK, NowInv, tidy, Quiet, track # None
               PROVE  /\ Sounding => song = track /\ meta = track
                      /\ Playing /\ file[track] = "good" => song = track
    BY DEF NowInv, NowPlaying
  <2>1. Idle /\ fromWorker = <<>> /\ track = pending /\ track \in Tracks
    BY DEF Quiet, Idle, NoneOf, NowInv, Engined, TypeOK
  <2>2. CASE Orderly
    <3>1. loaded => song = track /\ meta = track
      BY <2>1, <2>2 DEF NowInv, InOrder, LoadedShown
    <3>2. Sounding => loaded
      BY DEF Sounding, NowInv, Engined
    <3>3. Playing /\ file[track] = "good" => loaded
      BY <2>1, <2>2 DEF NowInv, InOrder, PlayingLoaded
    <3> QED  BY <3>1, <3>2, <3>3
  <2>3. CASE "good" \notin world.files
    <3>1. \A t \in Tracks : file[t] # "good"
      BY <2>3 DEF TypeOK
    <3>2. song = None
      BY <3>1 DEF NowInv, Engined, TypeOK
    <3> QED  BY <2>1, <3>1, <3>2 DEF Sounding
  <2> QED  BY <2>2, <2>3 DEF Orderly
<1> QED  BY <1>1, NowKept, PlaybackTypeCorrect, PTL

=============================================================================
