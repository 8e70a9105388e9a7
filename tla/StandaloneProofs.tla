---------------------------- MODULE StandaloneProofs ----------------------------
(* What holds of Standalone for any modules, removals, gestures, reloads and *)
(* failures of IndexedDB.                                                    *)
EXTENDS Standalone, FiniteSetTheorems, SequenceTheorems, WellFoundedInduction, TLAPS

-----------------------------------------------------------------------------
(* Sequences.                                                              *)

LEMMA LeastIs ==
  ASSUME NEW S \in SUBSET Nat, S # {}
  PROVE  Least(S) \in S /\ \A k \in S : Least(S) <= k
<1> DEFINE R == {ss \in Nat \X Nat : ss[1] < ss[2]}
<1>1. IsWellFoundedOn(R, Nat)
  BY NatLessThanWellFounded, Zenon DEF OpToRel
<1>2. PICK x \in S : \A y \in S : <<y, x>> \notin R
  <2> HIDE DEF R
  <2> QED  BY <1>1, WFMin
<1>3. ASSUME NEW y \in S  PROVE x <= y
  <2>1. x \in Nat /\ y \in Nat
    OBVIOUS
  <2>2. y < x => <<y, x>> \in R
    <3>1. <<y, x>> \in Nat \X Nat /\ <<y, x>>[1] = y /\ <<y, x>>[2] = x
      BY <2>1
    <3> QED  BY <3>1
  <2> HIDE DEF R
  <2> QED  BY <1>2, <2>1, <2>2
<1> QED  BY <1>3 DEF Least

LEMMA RemoveAtProperties ==
  ASSUME NEW S, NEW s \in Seq(S), NEW i \in DOMAIN s
  PROVE  /\ RemoveAt(s, i) \in Seq(S)
         /\ Len(RemoveAt(s, i)) = Len(s) - 1
         /\ \A j \in 1 .. Len(s) - 1 :
              RemoveAt(s, i)[j] = IF j < i THEN s[j] ELSE s[j + 1]
<1> DEFINE a == SubSeq(s, 1, i - 1)
           b == SubSeq(s, i + 1, Len(s))
<1>1. i \in 1 .. Len(s) /\ Len(s) \in Nat
  BY LenProperties
<1>2. /\ a \in Seq(S) /\ Len(a) = i - 1 /\ \A j \in 1 .. i - 1 : a[j] = s[j]
      /\ b \in Seq(S) /\ Len(b) = Len(s) - i
      /\ \A j \in 1 .. Len(s) - i : b[j] = s[i + j]
  BY <1>1
<1>3. RemoveAt(s, i) = a \o b
  BY DEF RemoveAt
<1> HIDE DEF a, b
<1>4. /\ a \o b \in Seq(S) /\ Len(a \o b) = Len(s) - 1
      /\ \A j \in 1 .. Len(s) - 1 : (a \o b)[j] = IF j < i THEN a[j] ELSE b[j - (i - 1)]
  <2>1. Len(a) + Len(b) = Len(s) - 1
    BY <1>1, <1>2
  <2>2. a \o b \in Seq(S) /\ Len(a \o b) = Len(a) + Len(b)
        /\ \A j \in 1 .. Len(a) + Len(b) :
             (a \o b)[j] = IF j <= Len(a) THEN a[j] ELSE b[j - Len(a)]
    BY <1>2, ConcatProperties
  <2>3. ASSUME NEW j \in 1 .. Len(s) - 1
        PROVE  (a \o b)[j] = IF j < i THEN a[j] ELSE b[j - (i - 1)]
    <3>1. Len(a) = i - 1 /\ j \in 1 .. Len(a) + Len(b) /\ (j <= i - 1 <=> j < i)
      BY <1>1, <1>2, <2>1, SMTT(30)
    <3>2. (a \o b)[j] = IF j <= i - 1 THEN a[j] ELSE b[j - (i - 1)]
      BY <2>2, <3>1, Zenon
    <3> QED  BY <3>1, <3>2, Zenon
  <2>4. a \o b \in Seq(S) /\ Len(a \o b) = Len(s) - 1
    BY <2>1, <2>2, Zenon
  <2> QED  BY <2>3, <2>4
<1>5. ASSUME NEW j \in 1 .. Len(s) - 1, ~(j < i)  PROVE b[j - (i - 1)] = s[j + 1]
  <2>1. j - (i - 1) \in 1 .. Len(s) - i /\ i + (j - (i - 1)) = j + 1
    BY <1>1, <1>5
  <2> QED  BY <1>2, <2>1
<1>6. ASSUME NEW j \in 1 .. Len(s) - 1  PROVE (a \o b)[j] = IF j < i THEN s[j] ELSE s[j + 1]
  <2>1. CASE j < i
    <3>1. j \in 1 .. i - 1
      BY <1>1, <2>1
    <3> QED  BY <1>2, <1>4, <2>1, <3>1
  <2>2. CASE ~(j < i)
    BY <1>4, <1>5, <2>2
  <2> QED  BY <2>1, <2>2
<1> QED  BY <1>3, <1>4, <1>6

\* All but entry d, each of them once.
Skip(i, d) == IF i < d THEN i ELSE i + 1

LEMMA Without ==
  ASSUME NEW S, NEW s \in Seq(S), NEW d \in DOMAIN s, NEW r, r = RemoveAt(s, d)
  PROVE  /\ r \in Seq(S)
         /\ \A i \in DOMAIN r : Skip(i, d) \in DOMAIN s /\ Skip(i, d) # d /\ r[i] = s[Skip(i, d)]
         /\ \A i, j \in DOMAIN r : Skip(i, d) = Skip(j, d) => i = j
         /\ \A k \in DOMAIN s : k # d => \E i \in DOMAIN r : k = Skip(i, d)
<1>1. d \in 1 .. Len(s) /\ Len(s) \in Nat /\ DOMAIN s = 1 .. Len(s)
  BY LenProperties
<1>2. /\ r \in Seq(S) /\ DOMAIN r = 1 .. Len(s) - 1
      /\ \A i \in 1 .. Len(s) - 1 : r[i] = IF i < d THEN s[i] ELSE s[i + 1]
  BY <1>1, RemoveAtProperties, LenProperties
<1>3. /\ \A i \in DOMAIN r : Skip(i, d) \in DOMAIN s /\ Skip(i, d) # d /\ r[i] = s[Skip(i, d)]
      /\ \A i, j \in DOMAIN r : Skip(i, d) = Skip(j, d) => i = j
  BY <1>1, <1>2 DEF Skip
<1>4. ASSUME NEW k \in DOMAIN s, k # d  PROVE \E i \in DOMAIN r : k = Skip(i, d)
  <2>1. CASE k < d
    BY <1>1, <1>2, <2>1 DEF Skip
  <2>2. CASE k > d
    <3>1. k - 1 \in DOMAIN r /\ ~(k - 1 < d) /\ (k - 1) + 1 = k
      BY <1>1, <1>2, <2>2
    <3> QED  BY <3>1 DEF Skip
  <2> QED  BY <1>1, <1>4, <2>1, <2>2
<1> QED  BY <1>2, <1>3, <1>4

LEMMA Tailed ==
  ASSUME NEW S, NEW s \in Seq(S), s # <<>>
  PROVE  /\ Head(s) = s[1] /\ 1 \in DOMAIN s /\ Tail(s) \in Seq(S) /\ Head(s) \in S
         /\ Len(s) \in Nat /\ Len(s) # 0 /\ DOMAIN s = 1 .. Len(s)
         /\ Len(Tail(s)) = Len(s) - 1 /\ DOMAIN Tail(s) = 1 .. Len(s) - 1
         /\ \A i \in 1 .. Len(s) - 1 : i + 1 \in DOMAIN s /\ Tail(s)[i] = s[i + 1]
<1>1. Len(s) \in Nat /\ Len(s) # 0 /\ DOMAIN s = 1 .. Len(s)
  BY LenProperties, EmptySeq
<1>2. /\ Head(s) = s[1] /\ Tail(s) \in Seq(S) /\ Len(Tail(s)) = Len(s) - 1
      /\ DOMAIN Tail(s) = 1 .. Len(s) - 1 /\ \A i \in 1 .. Len(s) - 1 : Tail(s)[i] = s[i + 1]
  BY <1>1, HeadTailProperties, LenProperties
<1> QED  BY <1>1, <1>2

LEMMA Appended ==
  ASSUME NEW S, NEW s \in Seq(S), NEW x \in S
  PROVE  /\ Append(s, x) \in Seq(S) /\ Len(s) \in Nat /\ DOMAIN s = 1 .. Len(s)
         /\ Len(Append(s, x)) = Len(s) + 1 /\ DOMAIN Append(s, x) = 1 .. Len(s) + 1
         /\ \A i \in 1 .. Len(s) : Append(s, x)[i] = s[i]
         /\ Append(s, x)[Len(s) + 1] = x
  BY AppendProperties, LenProperties

LEMMA EntryIn ==
  ASSUME NEW S, NEW s \in Seq(S), NEW i \in DOMAIN s
  PROVE  s[i] \in S /\ i \in 1 .. Len(s) /\ Len(s) \in Nat
  BY LenProperties, ElementOfSeq

-----------------------------------------------------------------------------
(* What IndexedDB was asked.                                               *)

Absent(q, p) == \A i \in DOMAIN q : q[i].by # p

\* Of each caller one request waits, except that the deletions of clearAll are as many
\* as it counts, one after the other.
Single(q)   == \A i, j \in DOMAIN q : q[i].by = q[j].by /\ q[i].by # "clear" => i = j
Block(q, c) == \E b \in Nat : /\ b + c <= Len(q)
                              /\ \A i \in DOMAIN q : q[i].by = "clear" <=> i \in (b + 1)..(b + c)

\* A request is what its caller waits for.
Fits(x) ==
  /\ x.by \in Adders => x.op = "put" /\ add[x.by].on /\ x.hash = Head(add[x.by].left)
  /\ x.by = "load" => /\ x.op = "get" /\ load.at = "restoring"
                      /\ load.left # <<>> /\ x.hash = Head(load.left).hash
  /\ x.by = "parse" => x.op = "get" /\ parse.at = "get" /\ x.hash = parse.row.hash
  /\ x.by \in Removers => x.op = "del" /\ del[x.by] # 0
  /\ x.by = "clear" => x.op = "del"

AddsOn == /\ \A p \in Adders : add[p].on => add[p].left # <<>>
          /\ add["seed"].on => load.at = "seeding"

QueueInv == Single(asked) /\ Block(asked, clear) /\ (\A i \in DOMAIN asked : Fits(asked[i])) /\ AddsOn

LEMMA SingleTaken ==
  ASSUME NEW q \in Seq(Request), q # <<>>, Single(q)
  PROVE  Single(Tail(q)) /\ (Head(q).by # "clear" => Absent(Tail(q), Head(q).by))
<1>1. /\ Head(q) = q[1] /\ 1 \in DOMAIN q /\ Len(q) \in Nat /\ DOMAIN q = 1 .. Len(q)
      /\ DOMAIN Tail(q) = 1 .. Len(q) - 1
      /\ \A i \in 1 .. Len(q) - 1 : i + 1 \in DOMAIN q /\ Tail(q)[i] = q[i + 1]
  BY Tailed
<1> DEFINE t == Tail(q)
<1> HIDE DEF t
<1>2. ASSUME NEW i \in DOMAIN t, NEW j \in DOMAIN t, t[i].by = t[j].by, t[i].by # "clear"  PROVE i = j
  <2>1. /\ i \in 1 .. Len(q) - 1 /\ j \in 1 .. Len(q) - 1
        /\ i + 1 \in DOMAIN q /\ j + 1 \in DOMAIN q /\ t[i] = q[i + 1] /\ t[j] = q[j + 1]
    BY <1>1, <1>2 DEF t
  <2>2. i + 1 = j + 1
    BY <1>2, <2>1 DEF Single
  <2> QED  BY <1>1, <2>1, <2>2
<1>3. ASSUME NEW i \in DOMAIN t, t[i].by = Head(q).by, Head(q).by # "clear"  PROVE FALSE
  <2>1. i \in 1 .. Len(q) - 1 /\ i + 1 \in DOMAIN q /\ t[i] = q[i + 1]
    BY <1>1, <1>3 DEF t
  <2>2. i + 1 = 1
    BY <1>1, <1>3, <2>1 DEF Single
  <2> QED  BY <1>1, <2>1, <2>2
<1> QED  BY <1>2, <1>3 DEF t, Single, Absent

LEMMA BlockTaken ==
  ASSUME NEW q \in Seq(Request), q # <<>>, NEW c \in Nat, Block(q, c)
  PROVE  /\ Head(q).by # "clear" => Block(Tail(q), c)
         /\ Head(q).by = "clear" => c # 0 /\ Block(Tail(q), c - 1)
<1>1. /\ Head(q) = q[1] /\ 1 \in DOMAIN q /\ Len(q) \in Nat /\ DOMAIN q = 1 .. Len(q)
      /\ DOMAIN Tail(q) = 1 .. Len(q) - 1 /\ Len(Tail(q)) = Len(q) - 1
      /\ \A i \in 1 .. Len(q) - 1 : i + 1 \in DOMAIN q /\ Tail(q)[i] = q[i + 1]
  BY Tailed
<1> DEFINE t == Tail(q)
<1> HIDE DEF t
<1>2. PICK b \in Nat : b + c <= Len(q) /\ \A i \in DOMAIN q : q[i].by = "clear" <=> i \in (b + 1)..(b + c)
  BY DEF Block
<1>3. CASE Head(q).by = "clear"
  <2>1. 1 \in (b + 1)..(b + c)
    BY <1>1, <1>2, <1>3
  <2>2. b = 0 /\ c # 0 /\ c - 1 \in Nat /\ 0 + (c - 1) <= Len(t)
    BY <1>1, <1>2, <2>1 DEF t
  <2>3. ASSUME NEW i \in DOMAIN t  PROVE t[i].by = "clear" <=> i \in (0 + 1)..(0 + (c - 1))
    <3>1. i \in 1 .. Len(q) - 1 /\ t[i] = q[i + 1] /\ i + 1 \in DOMAIN q
      BY <1>1 DEF t
    <3>2. t[i].by = "clear" <=> i + 1 \in (b + 1)..(b + c)
      BY <1>2, <3>1
    <3> QED  BY <1>1, <2>2, <3>1, <3>2
  <2> QED  BY <1>3, <2>2, <2>3 DEF Block, t
<1>4. CASE Head(q).by # "clear" /\ b # 0
  <2>1. b - 1 \in Nat /\ (b - 1) + c <= Len(t)
    BY <1>1, <1>2, <1>4 DEF t
  <2>2. ASSUME NEW i \in DOMAIN t  PROVE t[i].by = "clear" <=> i \in ((b - 1) + 1)..((b - 1) + c)
    <3>1. i \in 1 .. Len(q) - 1 /\ t[i] = q[i + 1] /\ i + 1 \in DOMAIN q
      BY <1>1 DEF t
    <3>2. t[i].by = "clear" <=> i + 1 \in (b + 1)..(b + c)
      BY <1>2, <3>1
    <3> QED  BY <1>1, <2>1, <3>1, <3>2
  <2> QED  BY <1>4, <2>1, <2>2 DEF Block, t
<1>5. CASE Head(q).by # "clear" /\ b = 0
  <2>1. c = 0
    <3>1. 1 \notin (b + 1)..(b + c)
      BY <1>1, <1>2, <1>5
    <3> QED  BY <1>5, <3>1
  <2>2. ASSUME NEW i \in DOMAIN t  PROVE t[i].by = "clear" <=> i \in (0 + 1)..(0 + c)
    <3>1. i \in 1 .. Len(q) - 1 /\ t[i] = q[i + 1] /\ i + 1 \in DOMAIN q
      BY <1>1 DEF t
    <3>2. t[i].by = "clear" <=> i + 1 \in (b + 1)..(b + c)
      BY <1>2, <3>1
    <3> QED  BY <1>5, <2>1, <3>1, <3>2
  <2>3. 0 + c <= Len(t)
    BY <1>1, <2>1 DEF t
  <2> QED  BY <1>5, <2>2, <2>3 DEF Block, t
<1> QED  BY <1>3, <1>4, <1>5

\* The oldest request is answered.
LEMMA HeadGone ==
  ASSUME HomeTypeOK, QueueInv, asked # <<>>
  PROVE  /\ Tail(asked) \in Seq(Request) /\ Single(Tail(asked))
         /\ Head(asked) \in Request /\ Fits(Head(asked)) /\ 1 \in DOMAIN asked /\ Head(asked) = asked[1]
         /\ Head(asked).by # "clear" => Absent(Tail(asked), Head(asked).by) /\ Block(Tail(asked), clear)
         /\ Head(asked).by = "clear" => clear # 0 /\ Block(Tail(asked), clear - 1)
         /\ \A i \in DOMAIN Tail(asked) : Tail(asked)[i] \in Request /\ Fits(Tail(asked)[i])
<1>0. asked \in Seq(Request) /\ clear \in Nat
  BY DEF HomeTypeOK
<1>1. /\ Head(asked) = asked[1] /\ 1 \in DOMAIN asked /\ Head(asked) \in Request
      /\ Tail(asked) \in Seq(Request) /\ DOMAIN Tail(asked) = 1 .. Len(asked) - 1
      /\ \A i \in 1 .. Len(asked) - 1 : i + 1 \in DOMAIN asked /\ Tail(asked)[i] = asked[i + 1]
  BY <1>0, Tailed
<1>2. \A i \in DOMAIN Tail(asked) : Tail(asked)[i] \in Request /\ Fits(Tail(asked)[i])
  <2> SUFFICES ASSUME NEW i \in DOMAIN Tail(asked)
               PROVE  Tail(asked)[i] \in Request /\ Fits(Tail(asked)[i])
    OBVIOUS
  <2>1. PICK j \in DOMAIN asked : Tail(asked)[i] = asked[j]
    BY <1>1
  <2>2. asked[j] \in Request
    BY <1>0, EntryIn
  <2> QED  BY <2>1, <2>2 DEF QueueInv
<1> QED  BY <1>0, <1>1, <1>2, SingleTaken, BlockTaken DEF QueueInv

\* After a step: q, and perhaps a request more of somebody who has none there.
LEMMA QueueGrows ==
  ASSUME NEW q \in Seq(Request), Single(q), clear' \in Nat, Block(q, clear'),
         \A i \in DOMAIN q : Fits(q[i])', AddsOn',
         \/ asked' = q
         \/ \E x \in Request : x.by # "clear" /\ Absent(q, x.by) /\ Fits(x)' /\ asked' = Append(q, x)
  PROVE  QueueInv' /\ asked' \in Seq(Request)
<1>1. CASE asked' = q
  BY <1>1 DEF QueueInv
<1>2. ASSUME NEW x \in Request, x.by # "clear", Absent(q, x.by), Fits(x)', asked' = Append(q, x)
      PROVE  QueueInv' /\ asked' \in Seq(Request)
  <2>1. /\ asked' \in Seq(Request) /\ Len(q) \in Nat /\ DOMAIN q = 1 .. Len(q) /\ Len(asked') = Len(q) + 1
        /\ DOMAIN asked' = 1 .. Len(q) + 1 /\ asked'[Len(q) + 1] = x
        /\ \A i \in 1 .. Len(q) : asked'[i] = q[i]
    BY <1>2, Appended
  <2>0. \A i \in DOMAIN asked' : (i \in DOMAIN q /\ asked'[i] = q[i]) \/ (i = Len(q) + 1 /\ asked'[i] = x)
    BY <2>1
  <2>2. (\A i \in DOMAIN asked : Fits(asked[i]))'
    BY <1>2, <2>0
  <2>3. Single(asked')
    BY <1>2, <2>0 DEF Single, Absent
  <2>4. PICK b \in Nat : b + clear' <= Len(q)
                         /\ \A i \in DOMAIN q : q[i].by = "clear" <=> i \in (b + 1)..(b + clear')
    BY DEF Block
  <2>5. ASSUME NEW i \in DOMAIN asked'
        PROVE  asked'[i].by = "clear" <=> i \in (b + 1)..(b + clear')
    <3>1. CASE i \in DOMAIN q /\ asked'[i] = q[i]
      BY <2>4, <3>1
    <3>2. CASE i = Len(q) + 1 /\ asked'[i] = x
      <4>1. i \notin (b + 1)..(b + clear')
        BY <2>1, <2>4, <3>2
      <4> QED  BY <1>2, <3>2, <4>1
    <3> QED  BY <2>0, <3>1, <3>2
  <2>6. b + clear' <= Len(asked')
    BY <2>1, <2>4
  <2>7. Block(asked', clear')
    BY <2>5, <2>6 DEF Block
  <2> QED  BY <2>1, <2>2, <2>3, <2>7 DEF QueueInv
<1> QED  BY <1>1, <1>2

\* The deletions of clearAll.
LEMMA QueueBlock ==
  ASSUME NEW q \in Seq(Request), Single(q), Block(q, 0), NEW s \in Seq(Request),
         \A i \in DOMAIN s : s[i].by = "clear"
  PROVE  /\ q \o s \in Seq(Request) /\ Single(q \o s) /\ Block(q \o s, Len(s))
         /\ \A i \in DOMAIN (q \o s) :
              (i \in DOMAIN q /\ (q \o s)[i] = q[i]) \/ \E j \in DOMAIN s : (q \o s)[i] = s[j]
<1> DEFINE t == q \o s
           n == Len(q)
           m == Len(s)
<1>1. /\ t \in Seq(Request) /\ n \in Nat /\ m \in Nat /\ Len(t) = n + m
      /\ DOMAIN q = 1 .. n /\ DOMAIN s = 1 .. m /\ DOMAIN t = 1 .. n + m
      /\ \A i \in 1 .. n + m : t[i] = IF i <= n THEN q[i] ELSE s[i - n]
  BY ConcatProperties, LenProperties
<1> HIDE DEF t, n, m
<1>2. \A i \in DOMAIN t : (i \in DOMAIN q /\ t[i] = q[i]) \/ (i > n /\ i - n \in DOMAIN s /\ t[i] = s[i - n])
  BY <1>1
<1>3. \A i \in DOMAIN q : q[i].by # "clear"
  BY <1>1 DEF Block, n
<1>4. \A i \in DOMAIN t : t[i].by = "clear" <=> i \in (n + 1)..(n + m)
  BY <1>1, <1>2, <1>3
<1>5. Block(t, m)
  BY <1>1, <1>4 DEF Block
<1>6. Single(t)
  BY <1>2, <1>3 DEF Single
<1> QED  BY <1>1, <1>2, <1>5, <1>6 DEF t, m

-----------------------------------------------------------------------------
(* Type correctness.                                                       *)

RowsOK   == /\ rows \in Seq(Row) /\ urls \subseteq Mods /\ nextId \in Nat \ {0}
            /\ \A i \in DOMAIN rows : rows[i].id < nextId
StoredOK == catalog \in Seq(Row) /\ idb \subseteq Mods /\ seeded \in BOOLEAN
LoadOK   == load \in [at : {"restoring", "seeding", "done"}, left : Seq(Row)]
AddOK    == add \in [Adders -> [on : BOOLEAN, left : Seq(Mods), new : SUBSET Mods]]
ParseOK  == /\ parse \in [at : {"off", "get", "parse"}, i : Nat, row : Row \cup {NoRow}]
            /\ parse.at # "off" => parse.row \in Row
DelOK    == del \in [Removers -> Nat] /\ clear \in Nat
Tellings == [Mods -> {"nothing", "gone", "unsaved", "dropped", "plain", "fav"}]
ToldOK   == told \in Tellings /\ tidy \in BOOLEAN
BudgetOK == budget \in [calls : 0..MaxCalls, faults : 0..MaxFaults]

Parts == /\ RowsOK /\ StoredOK /\ LoadOK /\ AddOK /\ ParseOK /\ DelOK /\ ToldOK /\ BudgetOK
         /\ asked \in Seq(Request)

LEMMA TypeParts == (HomeTypeOK <=> Parts) /\ (HomeTypeOK' <=> Parts')
  BY DEF HomeTypeOK, Parts, RowsOK, StoredOK, LoadOK, AddOK, ParseOK, DelOK, ToldOK, Tellings, BudgetOK

TypeInv == HomeTypeOK /\ QueueInv

LEMMA SameTyped ==
  /\ RowsOK /\ UNCHANGED <<rows, urls, nextId>> => RowsOK'
  /\ StoredOK /\ UNCHANGED stored => StoredOK'
  /\ LoadOK /\ UNCHANGED load => LoadOK'
  /\ AddOK /\ UNCHANGED add => AddOK'
  /\ ParseOK /\ UNCHANGED parse => ParseOK'
  /\ DelOK /\ UNCHANGED <<del, clear>> => DelOK'
  /\ ToldOK /\ UNCHANGED history => ToldOK'
  /\ BudgetOK /\ UNCHANGED budget => BudgetOK'
<1>1. RowsOK /\ UNCHANGED <<rows, urls, nextId>> => RowsOK'
  BY DEF RowsOK
<1>2. StoredOK /\ UNCHANGED stored => StoredOK'
  BY DEF StoredOK, stored
<1>3. DelOK /\ UNCHANGED <<del, clear>> => DelOK'
  BY DEF DelOK
<1>4. ToldOK /\ UNCHANGED history => ToldOK'
  BY DEF ToldOK, history
<1> QED  BY <1>1, <1>2, <1>3, <1>4 DEF LoadOK, AddOK, ParseOK, BudgetOK

LEMMA Spent ==
  ASSUME BudgetOK, Call \/ Fault \/ UNCHANGED budget
  PROVE  BudgetOK'
  BY StandaloneAssumption DEF BudgetOK, Call, Fault

LEMMA RowMade ==
  ASSUME NEW h \in Mods, NEW id \in Nat, NEW b \in BOOLEAN, NEW f \in BOOLEAN
  PROVE  [id |-> id, hash |-> h, meta |-> b, fav |-> f] \in Row
  BY DEF Row

LEMMA AddMade ==
  ASSUME NEW l \in Seq(Mods)
  PROVE  \E v \in [on : BOOLEAN, left : Seq(Mods), new : SUBSET Mods] :
           v = [on |-> TRUE, left |-> l, new |-> {}] /\ v.left = l
<1>1. [on |-> TRUE, left |-> l, new |-> {}] \in [on : BOOLEAN, left : Seq(Mods), new : SUBSET Mods]
  OBVIOUS
<1> QED  BY <1>1, Zenon

LEMMA FieldSet ==
  ASSUME NEW M, NEW B, NEW x \in [id : Nat, hash : M, meta : B, fav : B], NEW f \in B
  PROVE  LET y == [x EXCEPT !.fav = f]
             z == [x EXCEPT !.meta = f]
         IN  /\ y \in [id : Nat, hash : M, meta : B, fav : B] /\ y.id = x.id /\ y.hash = x.hash /\ y.fav = f
             /\ z \in [id : Nat, hash : M, meta : B, fav : B] /\ z.id = x.id /\ z.hash = x.hash /\ z.fav = x.fav
  OBVIOUS

LEMMA AskTyped ==
  ASSUME NEW op \in {"put", "get", "del"}, NEW h \in Mods, NEW p \in Actors
  PROVE  Ask(op, h, p) \in Request /\ Ask(op, h, p).op = op /\ Ask(op, h, p).hash = h /\ Ask(op, h, p).by = p
  BY DEF Ask, Request

LEMMA HashIn ==
  ASSUME NEW s \in Seq(Row), NEW h \in Hashes(s)
  PROVE  LET j == Least({i \in DOMAIN s : s[i].hash = h})
         IN  j \in DOMAIN s /\ s[j].hash = h /\ j \in Nat \ {0} /\ h \in Mods
<1> DEFINE T == {i \in DOMAIN s : s[i].hash = h}
<1>1. T \in SUBSET Nat /\ T # {}
  <2>1. DOMAIN s = 1 .. Len(s) /\ Len(s) \in Nat
    BY LenProperties
  <2> QED  BY <2>1 DEF Hashes
<1>2. Least(T) \in T
  BY <1>1, LeastIs
<1>3. PICK j \in DOMAIN s : j = Least(T) /\ s[j].hash = h
  BY <1>2
<1>4. s[j] \in Row /\ j \in 1 .. Len(s) /\ Len(s) \in Nat
  BY EntryIn
<1> QED  BY <1>3, <1>4 DEF Row

\* What parsePending does at one row.
ParseEnds(rs, cat, q) == parse' = NoParse /\ asked' = q /\ catalog' = rs
ParseAsks(rs, cat, q) ==
  /\ parse'.at = "get" /\ parse'.row \in Row /\ catalog' = cat
  /\ \E x \in Request : /\ x.by = "parse" /\ x.op = "get" /\ x.hash = parse'.row.hash
                        /\ asked' = Append(q, x)

LEMMA ParseFromIs ==
  ASSUME NEW i \in Nat, NEW rs \in Seq(Row), NEW cat, NEW q, ParseFrom(i, rs, cat, q)
  PROVE  ParseOK' /\ (ParseEnds(rs, cat, q) \/ ParseAsks(rs, cat, q))
<1>1. CASE Unparsed(rs, i) = {}
  <2>1. parse' = NoParse /\ catalog' = rs /\ asked' = q
    BY <1>1 DEF ParseFrom
  <2> QED  BY <2>1 DEF ParseOK, NoParse, ParseEnds
<1>2. CASE Unparsed(rs, i) # {}
  <2>1. DOMAIN rs = 1 .. Len(rs) /\ Len(rs) \in Nat
    BY LenProperties
  <2>2. PICK j \in DOMAIN rs : j = Least(Unparsed(rs, i))
    <3>1. Unparsed(rs, i) \in SUBSET Nat
      BY <2>1 DEF Unparsed
    <3>2. Least(Unparsed(rs, i)) \in Unparsed(rs, i)
      BY <1>2, <3>1, LeastIs
    <3> QED  BY <3>2 DEF Unparsed
  <2>3. rs[j] \in Row /\ j \in Nat /\ rs[j].hash \in Mods
    <3>1. rs[j] \in Row /\ j \in Nat
      BY <2>1, EntryIn
    <3> QED  BY <3>1 DEF Row
  <2>4. /\ parse' = [at |-> "get", i |-> j, row |-> rs[j]]
        /\ asked' = Append(q, Ask("get", rs[j].hash, "parse")) /\ catalog' = cat
    BY <1>2, <2>2 DEF ParseFrom
  <2>5. PICK x \in Request : x = Ask("get", rs[j].hash, "parse") /\ x.op = "get" /\ x.by = "parse"
                             /\ x.hash = rs[j].hash
    BY <2>3, AskTyped DEF Actors
  <2> QED  BY <2>3, <2>4, <2>5 DEF ParseOK, ParseAsks
<1> QED  BY <1>1, <1>2

LEMMA ParsePendingIs ==
  ASSUME ParseOK, NEW rs \in Seq(Row), NEW cat, NEW q, ParsePending(rs, cat, q)
  PROVE  /\ ParseOK'
         /\ \/ parse.at # "off" /\ UNCHANGED parse /\ asked' = q /\ catalog' = cat
            \/ parse.at = "off" /\ (ParseEnds(rs, cat, q) \/ ParseAsks(rs, cat, q))
<1>1. CASE parse.at = "off"
  BY <1>1, ParseFromIs DEF ParsePending
<1>2. CASE parse.at # "off"
  BY <1>2, SameTyped DEF ParsePending
<1> QED  BY <1>1, <1>2

\* The queue that parsePending leaves.
LEMMA ParseQueue ==
  ASSUME NEW q \in Seq(Request), NEW rs \in Seq(Row), NEW cat \in Seq(Row),
         Single(q), clear' \in Nat, Block(q, clear'), AddsOn',
         \A i \in DOMAIN q : q[i].by # "parse" => Fits(q[i])',
         Absent(q, "parse"), ParseEnds(rs, cat, q) \/ ParseAsks(rs, cat, q)
  PROVE  QueueInv' /\ asked' \in Seq(Request) /\ catalog' \in Seq(Row)
<1>1. \A i \in DOMAIN q : Fits(q[i])'
  BY DEF Absent
<1>2. CASE ParseEnds(rs, cat, q)
  BY <1>1, <1>2, QueueGrows DEF ParseEnds
<1>3. CASE ParseAsks(rs, cat, q)
  <2>1. PICK x \in Request : x.by = "parse" /\ x.op = "get" /\ x.hash = parse'.row.hash /\ asked' = Append(q, x)
    BY <1>3 DEF ParseAsks
  <2>2. Fits(x)'
    <3>1. x.by \notin Adders /\ x.by \notin Removers
      BY <2>1, StandaloneAssumption DEF Adders
    <3> QED  BY <1>3, <2>1, <3>1 DEF Fits, ParseAsks
  <2>3. QueueInv' /\ asked' \in Seq(Request)
    BY <1>1, <2>1, <2>2, QueueGrows
  <2> QED  BY <1>3, <2>3 DEF ParseAsks
<1> QED  BY <1>2, <1>3

LEMMA PendingQueue ==
  ASSUME ParseOK, NEW q \in Seq(Request), NEW rs \in Seq(Row), NEW cat \in Seq(Row),
         Single(q), clear' \in Nat, Block(q, clear'), AddsOn',
         \A i \in DOMAIN q : Fits(q[i]) /\ (q[i].by # "parse" => Fits(q[i])'),
         ParsePending(rs, cat, q)
  PROVE  QueueInv' /\ asked' \in Seq(Request) /\ catalog' \in Seq(Row) /\ ParseOK'
<1>1. CASE parse.at # "off"
  <2>1. ParseOK' /\ UNCHANGED parse /\ asked' = q /\ catalog' = cat
    BY <1>1, ParsePendingIs
  <2>2. ASSUME NEW i \in DOMAIN q  PROVE Fits(q[i])'
    <3>1. CASE q[i].by = "parse"
      <4>1. q[i].by \notin Adders /\ q[i].by \notin Removers
        BY <3>1, StandaloneAssumption DEF Adders
      <4>2. Fits(q[i])
        OBVIOUS
      <4> QED  BY <2>1, <3>1, <4>1, <4>2 DEF Fits
    <3> QED  BY <3>1
  <2>3. QueueInv' /\ asked' \in Seq(Request)
    BY <2>1, <2>2, QueueGrows
  <2> QED  BY <2>1, <2>3
<1>2. CASE parse.at = "off"
  <2>1. ParseOK' /\ (ParseEnds(rs, cat, q) \/ ParseAsks(rs, cat, q))
    BY <1>2, ParsePendingIs
  <2>2. Absent(q, "parse")
    BY <1>2 DEF Absent, Fits
  <2> QED  BY <2>1, <2>2, ParseQueue
<1> QED  BY <1>1, <1>2

LEMMA AddsQueue ==
  ASSUME HomeTypeOK, QueueInv, NEW p \in Adders, add[p].on, NEW left \in Seq(Mods), NEW new \in SUBSET Mods,
         NEW rs \in Seq(Row), NEW q \in Seq(Request), NEW t \in Tellings,
         Single(q), Block(q, clear), Absent(q, p), \A i \in DOMAIN q : Fits(q[i]),
         AddGoesOn(p, left, new, rs, q, t), SeedOver(p, left), UNCHANGED <<del, clear>>
  PROVE  /\ QueueInv' /\ asked' \in Seq(Request) /\ catalog' \in Seq(Row) /\ ParseOK' /\ AddOK' /\ LoadOK'
         /\ told' \in Tellings /\ seeded' \in BOOLEAN
<1>0. /\ StoredOK /\ LoadOK /\ AddOK /\ ParseOK /\ DelOK /\ AddsOn
      /\ p \in {"take", "seed"} /\ {"take", "seed", "load", "parse", "clear"} \cap Removers = {}
  BY TypeParts, StandaloneAssumption DEF Parts, QueueInv, Adders
<1>1. add' = [add EXCEPT ![p] = NoAdd] \/ (left # <<>> /\ add' = [add EXCEPT ![p].left = left, ![p].new = new])
  BY <1>0 DEF AddGoesOn, AddEnds, AddOK
<1>10. PICK v \in [on : BOOLEAN, left : Seq(Mods), new : SUBSET Mods] :
           add' = [add EXCEPT ![p] = v] /\ (v.on => v.left # <<>> /\ left # <<>>)
  <2>1. NoAdd \in [on : BOOLEAN, left : Seq(Mods), new : SUBSET Mods] /\ ~NoAdd.on
    BY EmptySeq DEF NoAdd
  <2>2. CASE left # <<>> /\ add' = [add EXCEPT ![p].left = left, ![p].new = new]
    <3>1. [add[p] EXCEPT !.left = left, !.new = new] \in [on : BOOLEAN, left : Seq(Mods), new : SUBSET Mods]
      BY <1>0 DEF AddOK
    <3>2. [add[p] EXCEPT !.left = left, !.new = new].left = left
      BY <1>0 DEF AddOK
    <3>3. add' = [add EXCEPT ![p] = [add[p] EXCEPT !.left = left, !.new = new]]
      BY <1>0, <2>2 DEF AddOK
    <3> QED  BY <2>2, <3>1, <3>2, <3>3
  <2> QED  BY <1>1, <2>1, <2>2
<1>2. AddOK'
  BY <1>0, <1>10 DEF AddOK
<1>3. LoadOK' /\ seeded' \in BOOLEAN /\ (UNCHANGED load \/ (p = "seed" /\ left = <<>> /\ load.at = "seeding"))
  BY <1>0 DEF SeedOver, LoadOK, StoredOK, AddsOn
<1>4. AddsOn'
  <2>1. \A o \in Adders : add'[o].on => add'[o].left # <<>>
    BY <1>0, <1>10 DEF AddOK, AddsOn
  <2>2. add'["seed"].on => load'.at = "seeding"
    <3>1. CASE p = "seed"
      BY <1>0, <1>10, <1>3, <3>1 DEF AddOK, AddsOn
    <3>2. CASE p = "take"
      <4>1. add'["seed"] = add["seed"] /\ UNCHANGED load
        BY <1>0, <1>10, <1>3, <3>2 DEF AddOK, Adders
      <4> QED  BY <1>0, <4>1 DEF AddsOn
    <3> QED  BY <1>0, <3>1, <3>2
  <2> QED  BY <2>1, <2>2 DEF AddsOn
<1>5. ASSUME NEW i \in DOMAIN q, q[i].by # "parse"  PROVE Fits(q[i])'
  <2> DEFINE x == q[i]
  <2>1. Fits(x) /\ x.by # p /\ x.by # "parse"
    BY <1>5 DEF Absent
  <2> HIDE DEF x
  <2>2. x.by \in Adders => x.op = "put" /\ add'[x.by].on /\ x.hash = Head(add'[x.by].left)
    <3>1. x.by \in Adders => add'[x.by] = add[x.by]
      BY <1>0, <1>10, <2>1 DEF AddOK
    <3> QED  BY <2>1, <3>1 DEF Fits
  <2>3. x.by = "load" => UNCHANGED load
    BY <1>3, <2>1 DEF Fits
  <2> QED  BY <2>1, <2>2, <2>3 DEF Fits, x
<1>6. CASE UNCHANGED <<parse, catalog>> /\ asked' = q /\ told' = t
  <2>1. ASSUME NEW i \in DOMAIN q  PROVE Fits(q[i])'
    <3>1. CASE q[i].by = "parse"
      <4>1. q[i].by \notin Adders /\ q[i].by \notin Removers /\ Fits(q[i])
        BY <1>0, <3>1 DEF Adders
      <4> QED  BY <1>6, <3>1, <4>1 DEF Fits
    <3> QED  BY <1>5, <3>1
  <2>2. QueueInv' /\ asked' \in Seq(Request)
    BY <1>0, <1>4, <1>6, <2>1, QueueGrows DEF DelOK
  <2> QED  BY <1>0, <1>2, <1>3, <1>6, <2>2, SameTyped DEF StoredOK
<1>7. CASE ~(UNCHANGED <<parse, catalog>> /\ asked' = q /\ told' = t)
  <2>1. /\ ParsePending(rs, rs, q)
        /\ told' = [h \in Mods |->
                        IF h \notin (new \cap Hashes(rs)) \ Leaving \/ t[h] = "gone" THEN t[h]
                        ELSE IF h \notin idb' THEN "unsaved"
                        ELSE IF FavOf(rs, h) THEN "fav" ELSE "plain"]
    BY <1>7 DEF AddGoesOn, AddEnds
  <2>2. told' \in Tellings
    BY <2>1 DEF Tellings
  <2>3. QueueInv' /\ asked' \in Seq(Request) /\ catalog' \in Seq(Row) /\ ParseOK'
    BY <1>0, <1>4, <1>5, <2>1, PendingQueue DEF DelOK
  <2> QED  BY <1>2, <1>3, <2>2, <2>3
<1> QED  BY <1>6, <1>7

\* A file is taken in: nothing is asked, or its bytes are there.
LEMMA TakesTyped ==
  ASSUME TypeInv, NEW p \in Adders, Hashed(p) \/ Landed(p)
  PROVE  TypeInv'
<1>0. /\ HomeTypeOK /\ QueueInv /\ RowsOK /\ StoredOK /\ LoadOK /\ AddOK /\ ParseOK /\ DelOK /\ ToldOK /\ BudgetOK
      /\ asked \in Seq(Request) /\ Single(asked) /\ Block(asked, clear) /\ AddsOn
      /\ p \in {"take", "seed"} /\ {"take", "seed", "load", "parse", "clear"} \cap Removers = {}
  BY TypeParts, StandaloneAssumption DEF TypeInv, Parts, QueueInv, Adders
<1>1. add[p].on => /\ Head(add[p].left) \in Mods /\ Tail(add[p].left) \in Seq(Mods)
                   /\ add[p].new \in SUBSET Mods
  <2>1. add[p].left \in Seq(Mods) /\ add[p].new \in SUBSET Mods
    BY <1>0 DEF AddOK
  <2>2. add[p].on => add[p].left # <<>>
    BY <1>0 DEF AddsOn
  <2> QED  BY <2>1, <2>2, Tailed
<1>2. CASE Hashed(p)
  <2>1. /\ add[p].on /\ Absent(asked, p) /\ UNCHANGED <<rows, urls, nextId, del, clear, idb, tidy, budget>>
    BY <1>2 DEF Hashed, Waits, Absent
  <2>2. CASE AddGoesOn(p, Tail(add[p].left), add[p].new, rows, asked, told) /\ SeedOver(p, Tail(add[p].left))
    <3>1. /\ QueueInv' /\ asked' \in Seq(Request) /\ catalog' \in Seq(Row) /\ ParseOK' /\ AddOK' /\ LoadOK'
          /\ told' \in Tellings /\ seeded' \in BOOLEAN
      BY <1>0, <1>1, <2>1, <2>2, AddsQueue DEF QueueInv, RowsOK, ToldOK
    <3>2. RowsOK' /\ StoredOK' /\ DelOK' /\ ToldOK' /\ BudgetOK'
      BY <1>0, <2>1, <3>1, SameTyped DEF StoredOK, ToldOK
    <3> QED  BY <3>1, <3>2, TypeParts DEF TypeInv, Parts
  <2>3. CASE /\ asked' = Append(asked, Ask("put", Head(add[p].left), p))
             /\ UNCHANGED <<add, parse, catalog, told, seeded, load>>
    <3>1. PICK x \in Request : x = Ask("put", Head(add[p].left), p) /\ x.op = "put" /\ x.by = p
                               /\ x.hash = Head(add[p].left)
      BY <1>1, <2>1, AskTyped DEF Actors
    <3>2. Fits(x)'
      BY <1>0, <2>1, <2>3, <3>1 DEF Fits
    <3>3. ASSUME NEW i \in DOMAIN asked  PROVE Fits(asked[i])'
      <4>1. Fits(asked[i])
        BY <1>0 DEF QueueInv
      <4> QED  BY <2>1, <2>3, <4>1 DEF Fits
    <3>4. QueueInv' /\ asked' \in Seq(Request)
      <4>1. AddsOn'
        BY <1>0, <2>3 DEF AddsOn
      <4>2. x.by # "clear" /\ Absent(asked, x.by) /\ asked' = Append(asked, x)
        BY <1>0, <2>1, <2>3, <3>1
      <4>3. clear' = clear /\ clear \in Nat
        BY <1>0, <2>1 DEF DelOK
      <4> QED  BY <1>0, <3>2, <3>3, <4>1, <4>2, <4>3, QueueGrows
    <3>5. /\ RowsOK' /\ StoredOK' /\ LoadOK' /\ AddOK' /\ ParseOK' /\ DelOK' /\ ToldOK' /\ BudgetOK'
      BY <1>0, <2>1, <2>3, SameTyped DEF stored, history
    <3> QED  BY <3>4, <3>5, TypeParts DEF TypeInv, Parts
  <2> QED  BY <1>2, <2>2, <2>3 DEF Hashed
<1>3. CASE Landed(p)
  <2> DEFINE h == Head(asked).hash
             q == Tail(asked)
  <2>1. /\ asked # <<>> /\ Head(asked).by = p /\ UNCHANGED <<del, clear, tidy>>
        /\ urls' = urls \cup {h} /\ nextId' = nextId + 1
        /\ rows' = Append(rows, [id |-> nextId, hash |-> h, meta |-> FALSE, fav |-> FALSE])
        /\ SeedOver(p, Tail(add[p].left))
    BY <1>3 DEF Landed, LandedAs, Answered
  <2>2. /\ q \in Seq(Request) /\ Single(q) /\ Absent(q, p) /\ Block(q, clear) /\ h \in Mods
        /\ add[p].on /\ \A i \in DOMAIN q : Fits(q[i])
    <3>1. /\ q \in Seq(Request) /\ Single(q) /\ Absent(q, p) /\ Block(q, clear) /\ Fits(Head(asked))
          /\ Head(asked) \in Request /\ \A i \in DOMAIN q : Fits(q[i])
      BY <1>0, <2>1, HeadGone
    <3> QED  BY <2>1, <3>1 DEF Fits, Request
  <2>3. RowsOK'
    <3>1. PICK y \in Row : y = [id |-> nextId, hash |-> h, meta |-> FALSE, fav |-> FALSE] /\ y.id = nextId
      BY <1>0, <2>2, RowMade DEF RowsOK
    <3>2. /\ rows' \in Seq(Row) /\ DOMAIN rows' = 1 .. Len(rows) + 1 /\ DOMAIN rows = 1 .. Len(rows)
          /\ Len(rows) \in Nat /\ rows'[Len(rows) + 1] = y /\ \A i \in 1 .. Len(rows) : rows'[i] = rows[i]
      BY <1>0, <2>1, <3>1, Appended DEF RowsOK
    <3>3. \A i \in DOMAIN rows' : rows'[i].id < nextId'
      <4>1. ASSUME NEW i \in DOMAIN rows  PROVE rows[i].id \in Nat
        <5>1. rows[i] \in Row
          BY <1>0, EntryIn DEF RowsOK
        <5> QED  BY <5>1 DEF Row
      <4>2. ASSUME NEW i \in DOMAIN rows'  PROVE rows'[i].id < nextId'
        <5>1. CASE i \in DOMAIN rows
          <6>1. rows'[i] = rows[i] /\ rows[i].id \in Nat /\ rows[i].id < nextId /\ nextId \in Nat
            BY <1>0, <3>2, <4>1, <5>1 DEF RowsOK
          <6> QED  BY <2>1, <6>1
        <5>2. CASE i \notin DOMAIN rows
          <6>1. i = Len(rows) + 1
            BY <3>2, <5>2
          <6> QED  BY <1>0, <2>1, <3>1, <3>2, <6>1 DEF RowsOK
        <5> QED  BY <5>1, <5>2
      <4> QED  BY <4>2
    <3> QED  BY <1>0, <2>1, <2>2, <3>2, <3>3 DEF RowsOK
  <2>4. PICK t \in Tellings : AddGoesOn(p, Tail(add[p].left), add[p].new \cup {h}, rows', q, t)
    <3>1. [told EXCEPT ![h] = IF p = "seed" THEN @ ELSE "nothing"] \in Tellings
      BY <1>0, <2>2 DEF ToldOK, Tellings
    <3> QED  BY <1>3, <3>1 DEF Landed, LandedAs
  <2>5. idb' \subseteq Mods /\ BudgetOK'
    BY <1>0, <1>3, <2>2, Spent DEF Landed, LandedAs, StoredOK
  <2>6. /\ QueueInv' /\ asked' \in Seq(Request) /\ catalog' \in Seq(Row) /\ ParseOK' /\ AddOK' /\ LoadOK'
        /\ told' \in Tellings /\ seeded' \in BOOLEAN
    <3>1. rows' \in Seq(Row) /\ add[p].new \cup {h} \in SUBSET Mods
      BY <1>1, <2>2, <2>3 DEF RowsOK
    <3> HIDE DEF h, q
    <3> QED  BY <1>0, <1>1, <2>1, <2>2, <2>4, <3>1, AddsQueue
  <2>7. StoredOK' /\ DelOK' /\ ToldOK'
    BY <1>0, <2>1, <2>5, <2>6 DEF StoredOK, DelOK, ToldOK
  <2> QED  BY <2>3, <2>5, <2>6, <2>7, TypeParts DEF TypeInv, Parts
<1> QED  BY <1>2, <1>3

\* What the steps below start from.
LEMMA Given ==
  ASSUME TypeInv
  PROVE  /\ HomeTypeOK /\ QueueInv /\ RowsOK /\ StoredOK /\ LoadOK /\ AddOK /\ ParseOK /\ DelOK /\ ToldOK /\ BudgetOK
         /\ asked \in Seq(Request) /\ Single(asked) /\ Block(asked, clear) /\ AddsOn
         /\ \A i \in DOMAIN asked : asked[i] \in Request /\ Fits(asked[i])
         /\ {"take", "seed", "load", "parse", "clear"} \cap Removers = {}
<1>1. asked \in Seq(Request)
  BY TypeParts DEF TypeInv, Parts
<1>2. \A i \in DOMAIN asked : asked[i] \in Request
  BY <1>1, EntryIn
<1> QED  BY <1>1, <1>2, TypeParts, StandaloneAssumption DEF TypeInv, Parts, QueueInv

LEMMA GesturesTyped ==
  ASSUME TypeInv, Gesture
  PROVE  TypeInv'
<1>0. /\ HomeTypeOK /\ QueueInv /\ RowsOK /\ StoredOK /\ LoadOK /\ AddOK /\ ParseOK /\ DelOK /\ ToldOK /\ BudgetOK
      /\ asked \in Seq(Request) /\ Single(asked) /\ Block(asked, clear) /\ AddsOn
      /\ \A i \in DOMAIN asked : asked[i] \in Request /\ Fits(asked[i])
      /\ {"take", "seed", "load", "parse", "clear"} \cap Removers = {}
  BY Given
<1>1. ASSUME NEW ms \in {<<m>> : m \in Mods} \cup {<<m, n>> : m, n \in Mods}, Take(ms)  PROVE TypeInv'
  <2>1. ms \in Seq(Mods) /\ ms # <<>>
    <3>1. ASSUME NEW m \in Mods, ms = <<m>>  PROVE ms \in Seq(Mods) /\ ms # <<>>
      BY <3>1
    <3>2. ASSUME NEW m \in Mods, NEW n \in Mods, ms = <<m, n>>  PROVE ms \in Seq(Mods) /\ ms # <<>>
      BY <3>2
    <3> QED  BY <3>1, <3>2
  <2>2. /\ ~add["take"].on /\ add' = [add EXCEPT !["take"] = [on |-> TRUE, left |-> ms, new |-> {}]]
        /\ tidy' \in BOOLEAN /\ BudgetOK'
        /\ UNCHANGED <<rows, urls, nextId, asked, load, parse, del, clear, stored, told>>
    BY <1>0, <1>1, Spent DEF Take, ToldOK
  <2>3. AddOK' /\ AddsOn'
    BY <1>0, <2>1, <2>2 DEF AddOK, AddsOn, Adders
  <2>4. ASSUME NEW i \in DOMAIN asked  PROVE Fits(asked[i])'
    <3>1. Fits(asked[i])
      BY <1>0
    <3>2. asked[i].by # "take"
      BY <2>2, <3>1 DEF Fits, Adders
    <3>3. asked[i].by \in Adders => add'[asked[i].by] = add[asked[i].by]
      BY <1>0, <2>2, <3>2 DEF AddOK
    <3> QED  BY <2>2, <3>1, <3>3 DEF Fits
  <2>5. QueueInv' /\ asked' \in Seq(Request)
    BY <1>0, <2>2, <2>3, <2>4, QueueGrows DEF DelOK
  <2>6. RowsOK' /\ StoredOK' /\ LoadOK' /\ ParseOK' /\ DelOK' /\ ToldOK'
    BY <1>0, <2>2, SameTyped DEF ToldOK
  <2> QED  BY <2>2, <2>3, <2>5, <2>6, TypeParts DEF TypeInv, Parts
<1>2. ASSUME NEW h \in Mods, SetFavorite(h)  PROVE TypeInv'
  <2>1. PICK i \in DOMAIN rows : /\ rows' = [rows EXCEPT ![i].fav = ~@]
                                 /\ told' = [told EXCEPT ![h] = IF @ \in {"plain", "fav"}
                                       THEN (IF rows[i].fav THEN "plain" ELSE "fav") ELSE @]
    <3>1. h \in Hashes(rows) /\ rows \in Seq(Row)
      BY <1>0, <1>2 DEF SetFavorite, RowsOK
    <3>2. Least({i \in DOMAIN rows : rows[i].hash = h}) \in DOMAIN rows
      BY <3>1, HashIn
    <3> QED  BY <1>2, <3>2 DEF SetFavorite
  <2>2. /\ catalog' = rows' /\ BudgetOK'
        /\ UNCHANGED <<urls, nextId, asked, load, add, parse, del, clear, idb, seeded, tidy>>
    BY <1>0, <1>2, Spent DEF SetFavorite
  <2>3. rows' \in Seq(Row) /\ DOMAIN rows' = DOMAIN rows /\ \A j \in DOMAIN rows : rows'[j].id = rows[j].id
    <3>1. rows[i] \in Row
      BY <1>0, EntryIn DEF RowsOK
    <3>2. PICK f \in BOOLEAN : f = ~rows[i].fav
      OBVIOUS
    <3>3. PICK y \in Row : y = [rows[i] EXCEPT !.fav = f] /\ y.id = rows[i].id
      <4>1. PICK x \in Row : x = rows[i]
        BY <3>1
      <4>2. [x EXCEPT !.fav = f] \in Row /\ [x EXCEPT !.fav = f].id = x.id
        BY FieldSet, Zenon DEF Row
      <4> QED  BY <4>1, <4>2, Zenon
    <3>4. rows' = [rows EXCEPT ![i] = y]
      BY <1>0, <2>1, <3>2, <3>3 DEF RowsOK
    <3> QED  BY <1>0, <3>3, <3>4 DEF RowsOK
  <2>4. RowsOK' /\ StoredOK'
    BY <1>0, <2>2, <2>3 DEF RowsOK, StoredOK
  <2>5. ToldOK'
    BY <1>0, <2>1, <2>2 DEF ToldOK, Tellings
  <2>6. LoadOK' /\ AddOK' /\ ParseOK' /\ DelOK' /\ asked' \in Seq(Request)
    BY <1>0, <2>2, SameTyped
  <2>7. QueueInv'
    BY <1>0, <2>2 DEF QueueInv, Fits, AddsOn
  <2> QED  BY <2>2, <2>4, <2>5, <2>6, <2>7, TypeParts DEF TypeInv, Parts
<1>3. ASSUME NEW h \in Mods, NEW r \in Removers, RemoveTrack(r, h)  PROVE TypeInv'
  <2>1. PICK j \in Nat \ {0} : del' = [del EXCEPT ![r] = j]
    <3>1. h \in Hashes(rows) /\ rows \in Seq(Row)
      BY <1>0, <1>3 DEF RemoveTrack, RowsOK
    <3>2. Least({i \in DOMAIN rows : rows[i].hash = h}) \in Nat \ {0}
      BY <3>1, HashIn
    <3> QED  BY <1>3, <3>2 DEF RemoveTrack
  <2>2. /\ del[r] = 0 /\ urls' = urls \ {h} /\ told' = [told EXCEPT ![h] = "nothing"]
        /\ tidy' \in BOOLEAN /\ BudgetOK' /\ asked' = Append(asked, Ask("del", h, r))
        /\ UNCHANGED <<rows, nextId, load, add, parse, clear, stored>>
    BY <1>0, <1>3, Spent DEF RemoveTrack, ToldOK
  <2>3. PICK x \in Request : x = Ask("del", h, r) /\ x.op = "del" /\ x.by = r
    BY AskTyped DEF Actors
  <2>4. Fits(x)' /\ Absent(asked, r) /\ r # "clear"
    <3>1. r \notin Adders /\ r \notin {"load", "parse", "clear"}
      BY <1>0 DEF Adders
    <3>2. del'[r] # 0
      BY <1>0, <2>1 DEF DelOK
    <3>3. Absent(asked, r)
      BY <1>0, <2>2 DEF Absent, Fits
    <3> QED  BY <2>3, <3>1, <3>2, <3>3 DEF Fits
  <2>5. ASSUME NEW i \in DOMAIN asked  PROVE Fits(asked[i])'
    <3>1. Fits(asked[i])
      BY <1>0
    <3>2. \A o \in Removers : del[o] # 0 => del'[o] # 0
      BY <1>0, <2>1 DEF DelOK
    <3> QED  BY <2>2, <3>1, <3>2 DEF Fits
  <2>6. QueueInv' /\ asked' \in Seq(Request)
    <3>1. AddsOn' /\ clear' = clear /\ clear \in Nat
      BY <1>0, <2>2 DEF AddsOn, DelOK
    <3>2. x.by # "clear" /\ Absent(asked, x.by) /\ asked' = Append(asked, x)
      BY <2>2, <2>3, <2>4
    <3> QED  BY <1>0, <2>4, <2>5, <3>1, <3>2, QueueGrows
  <2>7. RowsOK' /\ DelOK' /\ ToldOK'
    BY <1>0, <2>1, <2>2 DEF RowsOK, DelOK, ToldOK, Tellings
  <2>8. StoredOK' /\ LoadOK' /\ AddOK' /\ ParseOK'
    BY <1>0, <2>2, SameTyped
  <2> QED  BY <2>2, <2>6, <2>7, <2>8, TypeParts DEF TypeInv, Parts
<1>4. CASE Clear
  <2> DEFINE t == [i \in DOMAIN rows |-> Ask("del", rows[i].hash, "clear")]
  <2>1. /\ clear = 0 /\ urls' = {} /\ clear' = Len(rows) /\ asked' = asked \o t
        /\ tidy' \in BOOLEAN /\ BudgetOK' /\ UNCHANGED <<rows, nextId, load, add, parse, del, idb, seeded>>
        /\ catalog' \in {catalog, <<>>}
    BY <1>0, <1>4, Spent DEF Clear, ToldOK
  <2>2. told' \in Tellings
    <3>1. \A h \in Mods : Gone(h) \in {"nothing", "gone"}
      BY DEF Gone
    <3> QED  BY <1>4, <3>1 DEF Clear, Tellings
  <2>3. t \in Seq(Request) /\ Len(t) = Len(rows) /\ Len(rows) \in Nat /\ \A i \in DOMAIN t : t[i].by = "clear" /\ t[i].op = "del"
    <3>1. DOMAIN rows = 1 .. Len(rows) /\ Len(rows) \in Nat
      BY <1>0, LenProperties DEF RowsOK
    <3>2. ASSUME NEW i \in DOMAIN rows
          PROVE  Ask("del", rows[i].hash, "clear") \in Request /\ t[i].by = "clear" /\ t[i].op = "del"
      <4>1. rows[i] \in Row
        BY <1>0, EntryIn DEF RowsOK
      <4>2. rows[i].hash \in Mods
        BY <4>1 DEF Row
      <4> QED  BY <4>2, AskTyped DEF Actors
    <3> QED  BY <3>1, <3>2, IsASeq, LenProperties
  <2> HIDE DEF t
  <2>4. /\ asked' \in Seq(Request) /\ Single(asked') /\ Block(asked', clear')
        /\ \A i \in DOMAIN asked' :
             (i \in DOMAIN asked /\ asked'[i] = asked[i]) \/ \E j \in DOMAIN t : asked'[i] = t[j]
    BY <1>0, <2>1, <2>3, QueueBlock
  <2>5. (\A i \in DOMAIN asked : Fits(asked[i]))'
    <3>1. ASSUME NEW x, Fits(x)  PROVE Fits(x)'
      BY <2>1, <3>1 DEF Fits
    <3>2. ASSUME NEW x, x.by = "clear", x.op = "del"  PROVE Fits(x)'
      BY <1>0, <3>2 DEF Fits, Adders
    <3> QED  BY <1>0, <2>3, <2>4, <3>1, <3>2
  <2>6. QueueInv'
    BY <1>0, <2>1, <2>4, <2>5 DEF QueueInv, AddsOn
  <2>7. RowsOK' /\ StoredOK' /\ DelOK' /\ ToldOK'
    <3>1. RowsOK'
      BY <1>0, <2>1 DEF RowsOK
    <3>2. catalog' \in Seq(Row)
      BY <1>0, <2>1, EmptySeq DEF StoredOK
    <3> QED  BY <1>0, <2>1, <2>2, <2>3, <3>1, <3>2 DEF StoredOK, DelOK, ToldOK
  <2>8. LoadOK' /\ AddOK' /\ ParseOK'
    BY <1>0, <2>1, SameTyped
  <2> QED  BY <2>1, <2>4, <2>6, <2>7, <2>8, TypeParts DEF TypeInv, Parts
<1> QED  BY <1>1, <1>2, <1>3, <1>4 DEF Gesture

\* Rows that came through a step: each was there before.
LEMMA RowsKept ==
  ASSUME RowsOK, rows' \in Seq(Row), urls' \subseteq Mods, nextId' = nextId,
         \A i \in DOMAIN rows' : \E j \in DOMAIN rows : rows'[i].id = rows[j].id
  PROVE  RowsOK'
  BY DEF RowsOK

\* A row comes back, or is passed over, and the next one is asked for.
LEMMA RestoreQueue ==
  ASSUME TypeInv, NEW left \in Seq(Row), NEW rs \in Seq(Row), NEW q \in Seq(Request),
         Single(q), Block(q, clear), Absent(q, "load"), \A i \in DOMAIN q : Fits(q[i]),
         load.at = "restoring", Restore(left, rs, q), UNCHANGED <<add, del, clear>>
  PROVE  /\ QueueInv' /\ asked' \in Seq(Request) /\ catalog' \in Seq(Row) /\ ParseOK' /\ LoadOK'
<1>0. /\ StoredOK /\ ParseOK /\ DelOK /\ AddsOn
      /\ {"take", "seed", "load", "parse", "clear"} \cap Removers = {}
  BY Given
<1>1. AddsOn'
  BY <1>0 DEF AddsOn
<1>2. ASSUME NEW i \in DOMAIN q, UNCHANGED parse \/ q[i].by # "parse"  PROVE Fits(q[i])'
  <2>1. Fits(q[i]) /\ q[i].by # "load"
    BY DEF Absent
  <2>2. q[i].by = "parse" => q[i].op = "get" /\ parse'.at = "get" /\ q[i].hash = parse'.row.hash
    BY <1>2, <2>1 DEF Fits
  <2> QED  BY <2>1, <2>2 DEF Fits
<1>3. CASE left = <<>> /\ RestoreEnds(rs, q)
  <2>1. ParsePending(rs, catalog, q) /\ load' = SeedIfEmpty(rs)
    BY <1>3 DEF RestoreEnds
  <2>2. LoadOK'
    BY <2>1, EmptySeq DEF SeedIfEmpty, LoadOK
  <2> QED  BY <1>0, <1>1, <1>2, <2>1, <2>2, PendingQueue DEF StoredOK, DelOK
<1>4. CASE /\ left # <<>> /\ load' = [at |-> "restoring", left |-> left]
           /\ asked' = Append(q, Ask("get", Head(left).hash, "load")) /\ UNCHANGED <<parse, catalog>>
  <2>1. Head(left).hash \in Mods
    <3>1. Head(left) \in Row
      BY <1>4, Tailed
    <3> QED  BY <3>1 DEF Row
  <2>2. PICK x \in Request : /\ x = Ask("get", Head(left).hash, "load")
                             /\ x.op = "get" /\ x.by = "load" /\ x.hash = Head(left).hash
    BY <2>1, AskTyped DEF Actors
  <2>3. Fits(x)'
    <3>1. x.by \notin Adders /\ x.by \notin Removers
      BY <1>0, <2>2 DEF Adders
    <3> QED  BY <1>4, <2>2, <3>1 DEF Fits
  <2>4. x.by # "clear" /\ Absent(q, x.by) /\ asked' = Append(q, x) /\ clear' = clear /\ clear \in Nat
    BY <1>0, <1>4, <2>2 DEF DelOK
  <2>5. QueueInv' /\ asked' \in Seq(Request)
    BY <1>1, <1>2, <1>4, <2>3, <2>4, QueueGrows
  <2> QED  BY <1>0, <1>4, <2>5, SameTyped DEF LoadOK, StoredOK
<1> QED  BY <1>3, <1>4 DEF Restore

LEMMA OpeningTyped ==
  ASSUME TypeInv, NothingSaved \/ SeedFetched \/ Restored
  PROVE  TypeInv'
<1>0. /\ HomeTypeOK /\ QueueInv /\ RowsOK /\ StoredOK /\ LoadOK /\ AddOK /\ ParseOK /\ DelOK /\ ToldOK /\ BudgetOK
      /\ asked \in Seq(Request) /\ Single(asked) /\ Block(asked, clear) /\ AddsOn
      /\ \A i \in DOMAIN asked : asked[i] \in Request /\ Fits(asked[i])
      /\ {"take", "seed", "load", "parse", "clear"} \cap Removers = {}
  BY Given
<1>1. CASE NothingSaved
  <2>1. /\ load.at = "restoring" /\ load.left = <<>> /\ Restore(<<>>, rows, asked)
        /\ UNCHANGED <<rows, urls, nextId, add, del, clear, idb, seeded, history, budget>>
    BY <1>1 DEF NothingSaved, Restore
  <2>2. Absent(asked, "load")
    BY <1>0, <2>1 DEF Absent, Fits
  <2>3. QueueInv' /\ asked' \in Seq(Request) /\ catalog' \in Seq(Row) /\ ParseOK' /\ LoadOK'
    BY <1>0, <2>1, <2>2, RestoreQueue, EmptySeq DEF RowsOK
  <2>4. RowsOK' /\ AddOK' /\ DelOK' /\ ToldOK' /\ BudgetOK'
    BY <1>0, <2>1, SameTyped
  <2> QED  BY <1>0, <2>1, <2>3, <2>4, TypeParts DEF TypeInv, Parts, StoredOK
<1>2. CASE SeedFetched
  <2>1. /\ load.at = "seeding" /\ ~add["seed"].on
        /\ UNCHANGED <<rows, urls, nextId, asked, parse, del, clear, stored, history, budget>>
    BY <1>2 DEF SeedFetched
  <2>2. PICK v \in [on : BOOLEAN, left : Seq(Mods), new : SUBSET Mods] :
            /\ add' = [add EXCEPT !["seed"] = v] /\ (v.on => v.left # <<>> /\ UNCHANGED load)
    <3>1. CASE add' = [add EXCEPT !["seed"] = [on |-> TRUE, left |-> <<Demo>>, new |-> {}]] /\ UNCHANGED load
      <4>1. <<Demo>> \in Seq(Mods) /\ <<Demo>> # <<>>
        BY StandaloneAssumption
      <4>2. PICK v \in [on : BOOLEAN, left : Seq(Mods), new : SUBSET Mods] :
                v = [on |-> TRUE, left |-> <<Demo>>, new |-> {}] /\ v.left = <<Demo>>
        BY <4>1, AddMade
      <4> QED  BY <3>1, <4>1, <4>2
    <3>2. CASE UNCHANGED add
      <4>1. add["seed"] \in [on : BOOLEAN, left : Seq(Mods), new : SUBSET Mods]
            /\ add' = [add EXCEPT !["seed"] = add["seed"]]
        BY <1>0, <3>2 DEF AddOK, Adders
      <4> QED  BY <2>1, <4>1
    <3> QED  BY <1>2, <3>1, <3>2 DEF SeedFetched
  <2>3. LoadOK' /\ (load' = load \/ load'.at = "done")
    BY <1>0, <1>2 DEF SeedFetched, LoadOK
  <2>4. AddOK' /\ AddsOn'
    BY <1>0, <2>1, <2>2 DEF AddOK, AddsOn, Adders
  <2>5. ASSUME NEW i \in DOMAIN asked  PROVE Fits(asked[i])'
    <3>1. Fits(asked[i]) /\ asked[i].by # "load" /\ asked[i].by # "seed"
      BY <1>0, <2>1 DEF Fits, Adders
    <3>2. asked[i].by \in Adders => add'[asked[i].by] = add[asked[i].by]
      BY <1>0, <2>2, <3>1 DEF AddOK
    <3> QED  BY <2>1, <3>1, <3>2 DEF Fits
  <2>6. QueueInv' /\ asked' \in Seq(Request)
    BY <1>0, <2>1, <2>4, <2>5, QueueGrows DEF DelOK
  <2>7. RowsOK' /\ StoredOK' /\ ParseOK' /\ DelOK' /\ ToldOK' /\ BudgetOK'
    BY <1>0, <2>1, SameTyped
  <2> QED  BY <2>3, <2>4, <2>6, <2>7, TypeParts DEF TypeInv, Parts
<1>3. CASE Restored
  <2> DEFINE row == Head(load.left)
             q   == Tail(asked)
  <2>1. asked # <<>> /\ Head(asked).by = "load" /\ UNCHANGED <<add, del, clear, idb, seeded, tidy>>
    BY <1>3 DEF Restored, Answered
  <2>2. /\ q \in Seq(Request) /\ Single(q) /\ Absent(q, "load") /\ Block(q, clear) /\ Fits(Head(asked))
        /\ \A i \in DOMAIN q : Fits(q[i])
    BY <1>0, <2>1, HeadGone
  <2>3. load.at = "restoring" /\ load.left # <<>> /\ load.left \in Seq(Row)
    BY <1>0, <2>1, <2>2 DEF Fits, LoadOK
  <2>4. row \in Row /\ row.hash \in Mods /\ row.id \in Nat /\ Tail(load.left) \in Seq(Row)
    <3>1. row \in Row /\ Tail(load.left) \in Seq(Row)
      BY <2>3, Tailed
    <3> QED  BY <3>1 DEF Row
  <2>5. Restore(Tail(load.left), rows', q) /\ BudgetOK' /\ ToldOK'
    <3>1. Restore(Tail(load.left), rows', q) /\ (Fault \/ UNCHANGED budget)
          /\ (UNCHANGED told \/ told' = [told EXCEPT ![row.hash] = "dropped"])
      BY <1>3 DEF Restored
    <3>2. ToldOK'
      BY <1>0, <2>1, <2>4, <3>1 DEF ToldOK, Tellings
    <3> QED  BY <1>0, <3>1, <3>2, Spent
  <2>6. RowsOK'
    <3>1. CASE rows' = Append(rows, row) /\ urls' = urls \cup {row.hash}
               /\ nextId' = IF row.id >= nextId THEN row.id + 1 ELSE nextId
      <4>0. nextId \in Nat \ {0} /\ nextId' \in Nat \ {0} /\ nextId <= nextId' /\ row.id < nextId'
        BY <1>0, <2>4, <3>1 DEF RowsOK
      <4>1. /\ rows' \in Seq(Row) /\ DOMAIN rows' = 1 .. Len(rows) + 1 /\ DOMAIN rows = 1 .. Len(rows)
            /\ Len(rows) \in Nat /\ rows'[Len(rows) + 1] = row /\ \A i \in 1 .. Len(rows) : rows'[i] = rows[i]
        BY <1>0, <2>4, <3>1, Appended DEF RowsOK
      <4>2. ASSUME NEW i \in DOMAIN rows'  PROVE rows'[i].id < nextId'
        <5>1. CASE i \in DOMAIN rows
          <6>1. rows'[i] = rows[i] /\ rows[i].id < nextId /\ rows[i] \in Row
            BY <1>0, <4>1, <5>1, EntryIn DEF RowsOK
          <6>2. rows[i].id \in Nat
            BY <6>1 DEF Row
          <6> QED  BY <4>0, <6>1, <6>2
        <5>2. CASE i \notin DOMAIN rows
          <6>1. i = Len(rows) + 1
            BY <4>1, <5>2
          <6> QED  BY <4>0, <4>1, <6>1
        <5> QED  BY <5>1, <5>2
      <4>3. urls' \subseteq Mods
        BY <1>0, <2>4, <3>1 DEF RowsOK
      <4> QED  BY <4>0, <4>1, <4>2, <4>3 DEF RowsOK
    <3>2. CASE UNCHANGED <<rows, urls, nextId>>
      BY <1>0, <3>2, SameTyped
    <3> QED  BY <1>3, <3>1, <3>2 DEF Restored
  <2>7. QueueInv' /\ asked' \in Seq(Request) /\ catalog' \in Seq(Row) /\ ParseOK' /\ LoadOK'
    <3>1. rows' \in Seq(Row)
      BY <2>6 DEF RowsOK
    <3> HIDE DEF row, q
    <3> QED  BY <2>1, <2>2, <2>3, <2>4, <2>5, <3>1, RestoreQueue
  <2>8. AddOK' /\ DelOK'
    BY <1>0, <2>1, SameTyped
  <2> QED  BY <1>0, <2>1, <2>5, <2>6, <2>7, <2>8, TypeParts DEF TypeInv, Parts, StoredOK
<1> QED  BY <1>1, <1>2, <1>3

\* Metadata come to a row: the others, and all else of it, stay.
LEMMA RowsParsed ==
  ASSUME RowsOK, Parsed
  PROVE  /\ rows' \in Seq(Row) /\ DOMAIN rows' = DOMAIN rows
         /\ \A i \in DOMAIN rows :
              rows'[i].id = rows[i].id /\ rows'[i].hash = rows[i].hash /\ rows'[i].fav = rows[i].fav
<1>1. DOMAIN rows = 1 .. Len(rows) /\ Len(rows) \in Nat /\ rows \in Seq(Row)
  BY LenProperties DEF RowsOK
<1>2. CASE rows' = rows
  BY <1>1, <1>2
<1>3. CASE rows' = [i \in DOMAIN rows |-> IF rows[i].id = parse.row.id /\ rows[i].hash = parse.row.hash
                                          THEN [rows[i] EXCEPT !.meta = TRUE] ELSE rows[i]]
  <2>1. ASSUME NEW i \in DOMAIN rows
        PROVE  /\ rows'[i] \in Row
               /\ rows'[i].id = rows[i].id /\ rows'[i].hash = rows[i].hash /\ rows'[i].fav = rows[i].fav
    <3>1. PICK x \in Row : x = rows[i]
      BY <1>1, EntryIn
    <3>2. PICK f \in BOOLEAN : f = TRUE
      OBVIOUS
    <3>3. [x EXCEPT !.meta = f] \in Row /\ [x EXCEPT !.meta = f].id = x.id
          /\ [x EXCEPT !.meta = f].hash = x.hash /\ [x EXCEPT !.meta = f].fav = x.fav
      BY FieldSet, Zenon DEF Row
    <3>4. rows'[i] = [x EXCEPT !.meta = f] \/ rows'[i] = x
      BY <1>3, <3>1, <3>2, Zenon
    <3> QED  BY <3>1, <3>3, <3>4, Zenon
  <2>2. rows' \in [1 .. Len(rows) -> Row]
    <3>1. rows' = [i \in 1 .. Len(rows) |-> rows'[i]]
      BY <1>1, <1>3
    <3> QED  BY <1>1, <2>1, <3>1
  <2>3. rows' \in Seq(Row)
    BY <1>1, <2>2, SeqDef
  <2> QED  BY <1>1, <2>1, <2>2, <2>3
<1> QED  BY <1>2, <1>3 DEF Parsed

\* The page is open and the saved rows are asked for.
Opened ==
  /\ catalog \in Seq(Row) /\ rows = <<>> /\ urls = {} /\ nextId = 1
  /\ add = [p \in Adders |-> NoAdd] /\ parse = NoParse
  /\ del = [r \in Removers |-> 0] /\ clear = 0
  /\ load = [at |-> "restoring", left |-> catalog]
  /\ asked = IF catalog = <<>> THEN <<>> ELSE <<Ask("get", catalog[1].hash, "load")>>

OpenedOK == QueueInv /\ asked \in Seq(Request) /\ RowsOK /\ LoadOK /\ AddOK /\ ParseOK /\ DelOK

LEMMA PageOpened == Opened => OpenedOK
<1> SUFFICES ASSUME Opened  PROVE OpenedOK
  OBVIOUS
<1>0. /\ catalog \in Seq(Row) /\ rows = <<>> /\ urls = {} /\ nextId = 1
      /\ add = [p \in Adders |-> NoAdd] /\ parse = NoParse
      /\ del = [r \in Removers |-> 0] /\ clear = 0
      /\ load = [at |-> "restoring", left |-> catalog]
      /\ asked = IF catalog = <<>> THEN <<>> ELSE <<Ask("get", catalog[1].hash, "load")>>
  BY DEF Opened
<1>1. RowsOK /\ LoadOK /\ ParseOK /\ DelOK
  <2>1. RowsOK
    BY <1>0, EmptySeq DEF RowsOK
  <2>2. ParseOK
    BY <1>0 DEF ParseOK, NoParse
  <2> QED  BY <1>0, <2>1, <2>2 DEF LoadOK, DelOK
<1>2. AddOK /\ AddsOn
  <2>1. NoAdd \in [on : BOOLEAN, left : Seq(Mods), new : SUBSET Mods] /\ ~NoAdd.on
    BY EmptySeq DEF NoAdd
  <2> QED  BY <1>0, <2>1 DEF AddOK, AddsOn, Adders
<1>3. <<>> \in Seq(Request) /\ Single(<<>>) /\ Block(<<>>, 0) /\ \A i \in DOMAIN <<>> : FALSE
  <2>1. Len(<<>>) = 0 /\ DOMAIN <<>> = {} /\ <<>> \in Seq(Request)
    BY EmptySeq
  <2>2. Block(<<>>, 0)
    BY <2>1 DEF Block
  <2> QED  BY <2>1, <2>2 DEF Single
<1>4. CASE catalog = <<>>
  <2>1. asked = <<>> /\ \A i \in DOMAIN asked : FALSE
    BY <1>0, <1>3, <1>4
  <2>2. QueueInv
    <3>1. Single(asked) /\ Block(asked, clear)
      BY <1>0, <1>3, <2>1
    <3> QED  BY <1>2, <2>1, <3>1 DEF QueueInv
  <2> QED  BY <1>1, <1>2, <1>3, <2>1, <2>2 DEF OpenedOK
<1>5. CASE catalog # <<>>
  <2>1. Head(catalog) = catalog[1] /\ catalog[1] \in Row
    BY <1>0, <1>5, Tailed
  <2>2. PICK x \in Request : /\ x = Ask("get", catalog[1].hash, "load")
                             /\ x.op = "get" /\ x.by = "load" /\ x.hash = catalog[1].hash
    <3>1. catalog[1].hash \in Mods
      BY <2>1 DEF Row
    <3> QED  BY <3>1, AskTyped DEF Actors
  <2>3. Fits(x)
    <3>1. x.by \notin Adders /\ x.by \notin Removers
      BY <2>2, StandaloneAssumption DEF Adders
    <3> QED  BY <1>0, <1>5, <2>1, <2>2, <3>1 DEF Fits
  <2>4. asked = <<x>> /\ asked \in Seq(Request) /\ DOMAIN asked = {1} /\ asked[1] = x /\ Len(asked) = 1
    BY <1>0, <1>5, <2>2
  <2>5. Block(asked, clear)
    <3>1. 0 + clear <= Len(asked) /\ \A i \in DOMAIN asked : asked[i].by = "clear" <=> i \in (0 + 1)..(0 + clear)
      BY <1>0, <2>2, <2>4
    <3> QED  BY <3>1 DEF Block
  <2>6. QueueInv
    BY <1>2, <2>3, <2>4, <2>5 DEF QueueInv, Single
  <2> QED  BY <1>1, <1>2, <2>4, <2>6 DEF OpenedOK
<1> QED  BY <1>4, <1>5

LEMMA PageOpenedAgain == Opened' => OpenedOK'
  BY PageOpened, PTL

LEMMA AnswersTyped ==
  ASSUME TypeInv, (\E r \in Removers : Removed(r)) \/ Cleared \/ ParseGot \/ Parsed
  PROVE  TypeInv'
<1>0. /\ HomeTypeOK /\ QueueInv /\ RowsOK /\ StoredOK /\ LoadOK /\ AddOK /\ ParseOK /\ DelOK /\ ToldOK /\ BudgetOK
      /\ asked \in Seq(Request) /\ Single(asked) /\ Block(asked, clear) /\ AddsOn
      /\ \A i \in DOMAIN asked : asked[i] \in Request /\ Fits(asked[i])
      /\ {"take", "seed", "load", "parse", "clear"} \cap Removers = {}
  BY Given
<1>1. ASSUME NEW r \in Removers, Removed(r)  PROVE TypeInv'
  <2>0. PICK q : q = Tail(asked)
    OBVIOUS
  <2>1. /\ asked # <<>> /\ Head(asked).by = r /\ r # "clear" /\ asked' = q /\ catalog' = rows'
        /\ rows' = IF del[r] \in DOMAIN rows THEN RemoveAt(rows, del[r]) ELSE rows
        /\ del' = [del EXCEPT ![r] = 0] /\ idb' \subseteq idb
        /\ UNCHANGED <<urls, nextId, load, add, parse, clear, seeded, tidy, budget>>
    BY <1>0, <1>1, <2>0 DEF Removed, Answered
  <2>2. /\ q \in Seq(Request) /\ Single(q) /\ Absent(q, r) /\ Block(q, clear)
        /\ \A i \in DOMAIN q : Fits(q[i])
    BY <1>0, <2>0, <2>1, HeadGone
  <2>3. RowsOK'
    <3>1. CASE del[r] \in DOMAIN rows
      <4>1. rows \in Seq(Row) /\ rows' = RemoveAt(rows, del[r])
        BY <1>0, <2>1, <3>1 DEF RowsOK
      <4>2. rows' \in Seq(Row)
        BY <3>1, <4>1, Without
      <4>3. \A i \in DOMAIN rows' : Skip(i, del[r]) \in DOMAIN rows /\ rows'[i] = rows[Skip(i, del[r])]
        BY <3>1, <4>1, Without
      <4> QED  BY <1>0, <2>1, <4>2, <4>3, RowsKept DEF RowsOK
    <3>2. CASE del[r] \notin DOMAIN rows
      BY <1>0, <2>1, <3>2, SameTyped
    <3> QED  BY <3>1, <3>2
  <2>4. ASSUME NEW i \in DOMAIN q  PROVE Fits(q[i])'
    <3>1. Fits(q[i]) /\ q[i].by # r
      BY <2>2 DEF Absent
    <3>2. q[i].by \in Removers => del'[q[i].by] = del[q[i].by]
      BY <1>0, <2>1, <3>1 DEF DelOK
    <3> QED  BY <2>1, <3>1, <3>2 DEF Fits
  <2>5. QueueInv' /\ asked' \in Seq(Request)
    <3>1. AddsOn' /\ clear' = clear /\ clear \in Nat
      BY <1>0, <2>1 DEF AddsOn, DelOK
    <3> QED  BY <2>1, <2>2, <2>4, <3>1, QueueGrows
  <2>6. StoredOK' /\ DelOK'
    BY <1>0, <2>1, <2>3 DEF RowsOK, StoredOK, DelOK
  <2>7. ToldOK'
    <3>1. Gone(Head(asked).hash) \in {"nothing", "gone"}
      BY DEF Gone
    <3>2. told' = [told EXCEPT ![Head(asked).hash] = Gone(Head(asked).hash)]
      BY <1>1 DEF Removed
    <3> QED  BY <1>0, <2>1, <3>1, <3>2 DEF ToldOK, Tellings
  <2>8. LoadOK' /\ AddOK' /\ ParseOK' /\ BudgetOK'
    BY <1>0, <2>1, SameTyped
  <2> QED  BY <2>3, <2>5, <2>6, <2>7, <2>8, TypeParts DEF TypeInv, Parts
<1>2. CASE Cleared
  <2>0. PICK q : q = Tail(asked)
    OBVIOUS
  <2>1. /\ asked # <<>> /\ Head(asked).by = "clear" /\ asked' = q /\ clear' = clear - 1 /\ idb' \subseteq idb
        /\ rows' \in {rows, <<>>} /\ catalog' \in {catalog, <<>>}
        /\ UNCHANGED <<urls, nextId, load, add, parse, del, seeded, tidy, budget>>
    BY <1>2, <2>0 DEF Cleared, Answered
  <2>2. /\ q \in Seq(Request) /\ Single(q) /\ clear # 0 /\ Block(q, clear - 1) /\ clear - 1 \in Nat
        /\ \A i \in DOMAIN q : Fits(q[i])
    <3>1. /\ q \in Seq(Request) /\ Single(q) /\ clear # 0 /\ Block(q, clear - 1)
          /\ \A i \in DOMAIN q : Fits(q[i])
      BY <1>0, <2>0, <2>1, HeadGone
    <3> QED  BY <1>0, <3>1 DEF DelOK
  <2>3. QueueInv' /\ asked' \in Seq(Request)
    <3>1. AddsOn'
      BY <1>0, <2>1 DEF AddsOn
    <3>2. \A i \in DOMAIN q : Fits(q[i])'
      BY <2>1, <2>2 DEF Fits
    <3> QED  BY <2>1, <2>2, <3>1, <3>2, QueueGrows
  <2>4. RowsOK'
    <3>1. CASE rows' = rows
      BY <1>0, <2>1, <3>1, SameTyped
    <3>2. CASE rows' = <<>>
      BY <1>0, <2>1, <3>2, EmptySeq DEF RowsOK
    <3> QED  BY <2>1, <3>1, <3>2
  <2>5. StoredOK' /\ DelOK'
    BY <1>0, <2>1, <2>2, EmptySeq DEF StoredOK, DelOK
  <2>6. ToldOK'
    <3>1. \A h \in Mods : Gone(h) \in {"nothing", "gone"}
      BY DEF Gone
    <3>2. told' = told \/ told' = [h \in Mods |-> Gone(h)]
      BY <1>2 DEF Cleared
    <3> QED  BY <1>0, <2>1, <3>1, <3>2 DEF ToldOK, Tellings
  <2>7. LoadOK' /\ AddOK' /\ ParseOK' /\ BudgetOK'
    BY <1>0, <2>1, SameTyped
  <2> QED  BY <2>3, <2>4, <2>5, <2>6, <2>7, TypeParts DEF TypeInv, Parts
<1>3. CASE ParseGot
  <2>0. PICK q : q = Tail(asked)
    OBVIOUS
  <2>1. /\ asked # <<>> /\ Head(asked).by = "parse"
        /\ UNCHANGED <<rows, urls, nextId, load, add, del, clear, idb, seeded, history, budget>>
        /\ \/ parse' = [parse EXCEPT !.at = "parse"] /\ asked' = q /\ UNCHANGED catalog
           \/ ParseFrom(parse.i + 1, rows, catalog, q)
    BY <1>3, <2>0 DEF ParseGot, Answered
  <2>2. /\ q \in Seq(Request) /\ Single(q) /\ Absent(q, "parse") /\ Block(q, clear) /\ Fits(Head(asked))
        /\ \A i \in DOMAIN q : Fits(q[i])
    BY <1>0, <2>0, <2>1, HeadGone
  <2>3. parse.at = "get"
    BY <2>1, <2>2 DEF Fits
  <2>4. AddsOn' /\ clear' = clear /\ clear \in Nat /\ \A i \in DOMAIN q : q[i].by # "parse" => Fits(q[i])'
    <3>1. AddsOn' /\ clear' = clear /\ clear \in Nat
      BY <1>0, <2>1 DEF AddsOn, DelOK
    <3>2. \A i \in DOMAIN q : q[i].by # "parse" => Fits(q[i])'
      BY <2>1, <2>2 DEF Fits
    <3> QED  BY <3>1, <3>2
  <2>5. QueueInv' /\ asked' \in Seq(Request) /\ catalog' \in Seq(Row) /\ ParseOK'
    <3>1. CASE parse' = [parse EXCEPT !.at = "parse"] /\ asked' = q /\ UNCHANGED catalog
      <4>1. \A i \in DOMAIN q : Fits(q[i])'
        BY <2>2, <2>4 DEF Absent
      <4>2. QueueInv' /\ asked' \in Seq(Request)
        <5> QED  BY <2>2, <2>4, <3>1, <4>1, QueueGrows
      <4>3. ParseOK'
        BY <1>0, <2>3, <3>1 DEF ParseOK
      <4> QED  BY <1>0, <3>1, <4>2, <4>3 DEF StoredOK
    <3>2. CASE ParseFrom(parse.i + 1, rows, catalog, q)
      <4>1. parse.i + 1 \in Nat /\ rows \in Seq(Row) /\ catalog \in Seq(Row)
        BY <1>0 DEF ParseOK, RowsOK, StoredOK
      <4>2. ParseOK' /\ (ParseEnds(rows, catalog, q) \/ ParseAsks(rows, catalog, q))
        BY <3>2, <4>1, ParseFromIs
      <4> QED  BY <2>2, <2>4, <4>1, <4>2, ParseQueue
    <3> QED  BY <2>1, <3>1, <3>2
  <2>6. RowsOK' /\ LoadOK' /\ AddOK' /\ DelOK' /\ ToldOK' /\ BudgetOK'
    BY <1>0, <2>1, SameTyped
  <2> QED  BY <1>0, <2>1, <2>5, <2>6, TypeParts DEF TypeInv, Parts, StoredOK
<1>4. CASE Parsed
  <2>0. PICK q : q = asked
    OBVIOUS
  <2>1. /\ parse.at = "parse" /\ ParseFrom(parse.i + 1, rows', catalog, q)
        /\ UNCHANGED <<urls, nextId, load, add, del, clear, idb, seeded, history, budget>>
    BY <1>4, <2>0 DEF Parsed
  <2>2. RowsOK'
    BY <1>0, <1>4, <2>1, RowsParsed, RowsKept DEF RowsOK
  <2>3. Absent(q, "parse")
    BY <1>0, <2>0, <2>1 DEF Absent, Fits
  <2>4. AddsOn' /\ clear' = clear /\ clear \in Nat /\ \A i \in DOMAIN q : q[i].by # "parse" => Fits(q[i])'
    <3>1. AddsOn' /\ clear' = clear /\ clear \in Nat
      BY <1>0, <2>1 DEF AddsOn, DelOK
    <3>2. \A i \in DOMAIN q : q[i].by # "parse" => Fits(q[i])'
      BY <1>0, <2>0, <2>1 DEF Fits
    <3> QED  BY <3>1, <3>2
  <2>5. QueueInv' /\ asked' \in Seq(Request) /\ catalog' \in Seq(Row) /\ ParseOK'
    <3>1. parse.i + 1 \in Nat /\ rows' \in Seq(Row) /\ catalog \in Seq(Row)
      BY <1>0, <2>2 DEF ParseOK, RowsOK, StoredOK
    <3>2. ParseOK' /\ (ParseEnds(rows', catalog, q) \/ ParseAsks(rows', catalog, q))
      BY <2>1, <3>1, ParseFromIs
    <3> QED  BY <1>0, <2>0, <2>3, <2>4, <3>1, <3>2, ParseQueue
  <2>6. LoadOK' /\ AddOK' /\ DelOK' /\ ToldOK' /\ BudgetOK'
    BY <1>0, <2>1, SameTyped
  <2> QED  BY <1>0, <2>1, <2>2, <2>5, <2>6, TypeParts DEF TypeInv, Parts, StoredOK
<1> QED  BY <1>1, <1>2, <1>3, <1>4

LEMMA ReloadTyped ==
  ASSUME TypeInv, Reload
  PROVE  TypeInv'
<1>0. StoredOK /\ ToldOK /\ BudgetOK
  BY Given
<1>1. Opened' /\ UNCHANGED <<catalog, seeded, history>>
  BY <1>0 DEF Reload, Opened, StoredOK
<1>2. idb' \subseteq Mods /\ BudgetOK'
  BY <1>0, Spent DEF Reload, StoredAfter
<1>3. StoredOK' /\ ToldOK'
  BY <1>0, <1>1, <1>2, SameTyped DEF StoredOK
<1>4. OpenedOK'
  BY <1>1, PageOpenedAgain
<1> QED  BY <1>2, <1>3, <1>4, TypeParts DEF TypeInv, Parts, OpenedOK

\* What an earlier visit has left: rows of modules that are stored, each once.
LEMMA FirstOpened ==
  ASSUME HomeInit
  PROVE  /\ Opened
         /\ \A i \in DOMAIN catalog : catalog[i].id = i /\ catalog[i].hash \in idb /\ ~catalog[i].fav
         /\ \A i, j \in DOMAIN catalog : catalog[i].hash = catalog[j].hash => i = j
         /\ \A h \in idb : \E i \in DOMAIN catalog : catalog[i].hash = h
         /\ idb \subseteq Mods \ {Demo}
         /\ told = [h \in Mods |-> IF h \in idb THEN "plain" ELSE "nothing"]
<1>0. PICK S \in SUBSET (Mods \ {Demo}) : \E rs \in SetToSeqs(S) :
        /\ catalog = [i \in DOMAIN rs |-> [id |-> i, hash |-> rs[i], meta |-> FALSE, fav |-> FALSE]]
        /\ idb = S
        /\ told = [h \in Mods |-> IF h \in S THEN "plain" ELSE "nothing"]
        /\ load = [at |-> "restoring", left |-> catalog]
        /\ asked = IF S = {} THEN <<>> ELSE <<Ask("get", catalog[1].hash, "load")>>
  BY DEF HomeInit
<1>1. PICK rs \in SetToSeqs(S) :
        /\ catalog = [i \in DOMAIN rs |-> [id |-> i, hash |-> rs[i], meta |-> FALSE, fav |-> FALSE]]
        /\ idb = S
        /\ told = [h \in Mods |-> IF h \in S THEN "plain" ELSE "nothing"]
        /\ load = [at |-> "restoring", left |-> catalog]
        /\ asked = IF S = {} THEN <<>> ELSE <<Ask("get", catalog[1].hash, "load")>>
  BY <1>0
<1> DEFINE n == Cardinality(S)
<1>2. n \in Nat /\ (n = 0 <=> S = {}) /\ IsFiniteSet(S)
  <2>1. IsFiniteSet(S)
    BY StandaloneAssumption, FS_Subset
  <2> QED  BY <2>1, FS_CardinalityType, FS_EmptySet
<1>3. rs \in [1 .. n -> S] /\ DOMAIN rs = 1 .. n /\ \A i, j \in 1 .. n : rs[i] = rs[j] => i = j
  BY DEF SetToSeqs
<1>4. \A h \in S : \E i \in 1 .. n : rs[i] = h
  <2>1. rs \in Injection(1 .. n, S)
    BY <1>3 DEF Injection, IsInjective
  <2>2. Cardinality(1 .. n) = n
    BY <1>2, FS_Interval
  <2>3. rs \in Surjection(1 .. n, S)
    BY <1>2, <2>1, <2>2, FS_Injection
  <2> QED  BY <2>3 DEF Surjection
<1> HIDE DEF n
<1>5. ASSUME NEW i \in 1 .. n
      PROVE  catalog[i] \in Row /\ catalog[i].id = i /\ catalog[i].hash = rs[i] /\ ~catalog[i].fav
  <2>1. rs[i] \in Mods /\ i \in Nat
    BY <1>2, <1>3
  <2>2. catalog[i] = [id |-> i, hash |-> rs[i], meta |-> FALSE, fav |-> FALSE]
    BY <1>1, <1>3
  <2>3. catalog[i].id = i /\ catalog[i].hash = rs[i] /\ ~catalog[i].fav
    BY <2>2
  <2>4. catalog[i] \in Row
    <3>1. PICK f \in BOOLEAN : f = FALSE
      OBVIOUS
    <3>2. [id |-> i, hash |-> rs[i], meta |-> f, fav |-> f] \in Row
      BY <2>1, RowMade, Zenon
    <3> QED  BY <2>2, <3>1, <3>2, Zenon
  <2> QED  BY <2>3, <2>4
<1>6. catalog \in Seq(Row) /\ DOMAIN catalog = 1 .. n /\ (catalog = <<>> <=> S = {})
  <2>1. catalog = [i \in 1 .. n |-> catalog[i]]
    BY <1>1, <1>3
  <2>2. catalog \in Seq(Row) /\ Len(catalog) = n
    BY <1>2, <1>5, <2>1, IsASeq
  <2> QED  BY <1>2, <2>2, EmptySeq, LenProperties
<1>7. Opened
  <2>1. /\ rows = <<>> /\ urls = {} /\ nextId = 1 /\ clear = 0
        /\ add = [p \in Adders |-> NoAdd] /\ parse = NoParse /\ del = [r \in Removers |-> 0]
    BY DEF HomeInit
  <2> QED  BY <1>1, <1>6, <2>1 DEF Opened
<1>8. \A i \in DOMAIN catalog : catalog[i].id = i /\ catalog[i].hash \in idb /\ ~catalog[i].fav
  BY <1>1, <1>3, <1>5, <1>6
<1>9. \A i, j \in DOMAIN catalog : catalog[i].hash = catalog[j].hash => i = j
  BY <1>3, <1>5, <1>6
<1>10. \A h \in idb : \E i \in DOMAIN catalog : catalog[i].hash = h
  BY <1>1, <1>4, <1>5, <1>6
<1> QED  BY <1>1, <1>7, <1>8, <1>9, <1>10

LEMMA FirstTyped ==
  ASSUME HomeInit
  PROVE  TypeInv
<1>1. OpenedOK /\ catalog \in Seq(Row) /\ seeded \in BOOLEAN /\ idb \subseteq Mods /\ told \in Tellings
  <2>1. Opened /\ idb \subseteq Mods /\ told = [h \in Mods |-> IF h \in idb THEN "plain" ELSE "nothing"]
    BY FirstOpened
  <2>2. OpenedOK
    BY <2>1, PageOpened
  <2> QED  BY <2>1, <2>2 DEF Opened, HomeInit, Tellings
<1>2. tidy \in BOOLEAN /\ BudgetOK
  BY StandaloneAssumption DEF HomeInit, BudgetOK
<1> QED  BY <1>1, <1>2, TypeParts DEF TypeInv, Parts, OpenedOK, StoredOK, ToldOK

LEMMA TypeInvStep == TypeInv /\ [HomeNext]_homeVars => TypeInv'
<1> SUFFICES ASSUME TypeInv, [HomeNext]_homeVars  PROVE TypeInv'
  OBVIOUS
<1>1. CASE Gesture
  BY <1>1, GesturesTyped
<1>2. CASE GoesOn
  BY <1>2, OpeningTyped, TakesTyped, AnswersTyped DEF GoesOn
<1>3. CASE Reload
  BY <1>3, ReloadTyped
<1>4. CASE UNCHANGED homeVars
  <2>1. Parts /\ QueueInv
    BY TypeParts DEF TypeInv
  <2>2. RowsOK' /\ StoredOK' /\ LoadOK' /\ AddOK' /\ ParseOK' /\ DelOK' /\ ToldOK' /\ BudgetOK' /\ asked' \in Seq(Request)
    BY <1>4, <2>1, SameTyped DEF homeVars, memory, Parts
  <2>3. QueueInv'
    BY <1>4, <2>1 DEF homeVars, memory, QueueInv, Fits, AddsOn
  <2> QED  BY <2>2, <2>3, TypeParts DEF TypeInv, Parts
<1> QED  BY <1>1, <1>2, <1>3, <1>4 DEF HomeNext

\* The state keeps its types; with it, a request that waits is one its caller still
\* waits for, so an answer finds it (QueueInv).
THEOREM HomeTypeCorrect == HomeSpec => [](HomeTypeOK /\ QueueInv)
<1>1. HomeInit => TypeInv
  BY FirstTyped
<1> QED  BY <1>1, TypeInvStep, PTL DEF HomeSpec, TypeInv

-----------------------------------------------------------------------------
(* The rows are sound.                                                     *)

Differ(x, y) == x.id # y.id /\ x.hash # y.hash
Distinct(s)  == \A i, j \in DOMAIN s : i # j => Differ(s[i], s[j])
Alike(s, t)  == DOMAIN s = DOMAIN t /\ \A i \in DOMAIN t : s[i].id = t[i].id /\ s[i].hash = t[i].hash
Shown(x)     == IF x.fav THEN "fav" ELSE "plain"
In(s, h, v)  == \E i \in DOMAIN s : s[i].hash = h /\ Shown(s[i]) = v
Dels(q)      == {q[i].hash : i \in {j \in DOMAIN q : q[j].op = "del"}}

\* Bytes that are to be stored are of a module that is not listed, or is about to be
\* taken off the list.
Fresh(q, u, rs) == \A i \in DOMAIN q : q[i].op = "put" =>
  /\ q[i].hash \notin u
  /\ q[i].hash \in Hashes(rs) => \E k \in DOMAIN q : k < i /\ q[k].by \in Removers /\ q[k].hash = q[i].hash

\* A removal finds its row where it was, or none at all: the list was cleared meanwhile,
\* and what comes to it again comes after the removal.
Placed(q, u, rs, d) == \A i \in DOMAIN q : q[i].by \in Removers =>
  /\ q[i].hash \notin u
  /\ \/ d[q[i].by] \in DOMAIN rs /\ rs[d[q[i].by]].hash = q[i].hash
     \/ DOMAIN rs = {} /\ \A k \in DOMAIN q : k < i => q[k].op # "put"

Listed == /\ Distinct(rows) /\ urls \subseteq Hashes(rows)
          /\ clear = 0 => Hashes(rows) \subseteq urls \cup Dels(asked)

Queued == Fresh(asked, urls, rows) /\ Placed(asked, urls, rows, del)

\* What the code and the screen keep apart.
Alone == /\ ~Loaded => ~add["take"].on /\ clear = 0 /\ Removing = {}
         /\ clear # 0 => ~add["take"].on /\ urls = {}
         /\ \A r, t \in Removing : r = t

\* The rows that are yet to come back are none of those that are there.
Ahead == load.at = "restoring" =>
           /\ Distinct(load.left)
           /\ \A i \in DOMAIN rows, j \in DOMAIN load.left : Differ(rows[i], load.left[j])

SoundParts == Listed /\ Queued /\ Distinct(catalog) /\ Alone /\ Ahead
SoundInv   == tidy => SoundParts

\* Each caller asks for one kind of thing.
LEMMA Kinds ==
  ASSUME NEW x \in Request, Fits(x)
  PROVE  /\ x.op = "put" <=> x.by \in Adders
         /\ x.op = "del" <=> (x.by \in Removers \/ x.by = "clear")
         /\ x.op = "get" <=> (x.by \in {"load", "parse"})
<1>1. x.by \in Actors /\ x.op \in {"put", "get", "del"}
  BY DEF Request
<1> QED  BY <1>1, StandaloneAssumption DEF Fits, Actors, Adders

\* While an adder is at it, no other is, and nothing is restored or cleared.
LEMMA OneAdder ==
  ASSUME TypeInv, Alone
  PROVE  /\ \A p \in Adders : add[p].on => /\ load.at # "restoring" /\ clear = 0
                                           /\ \A o \in Adders : add[o].on => o = p
         /\ load.at = "restoring" \/ clear # 0 => \A i \in DOMAIN asked : asked[i].op # "put"
<1>1. AddsOn /\ LoadOK /\ \A i \in DOMAIN asked : asked[i] \in Request /\ Fits(asked[i])
  BY Given
<1>2. \A p \in Adders : add[p].on => /\ load.at # "restoring" /\ clear = 0
                                     /\ \A o \in Adders : add[o].on => o = p
  BY <1>1 DEF AddsOn, Alone, Adders, Loaded
<1>3. \A i \in DOMAIN asked : asked[i].op = "put" => asked[i].by \in Adders /\ add[asked[i].by].on
  BY <1>1, Kinds DEF Fits
<1> QED  BY <1>2, <1>3

\* No request but a get is new.
GetsMore(q) == asked' = q \/ \E x \in Request : x.op = "get" /\ x.by \in {"load", "parse"} /\ asked' = Append(q, x)

LEMMA MoreIsSame ==
  ASSUME NEW q \in Seq(Request), GetsMore(q)
  PROVE  /\ \A i \in DOMAIN q : i \in DOMAIN asked' /\ asked'[i] = q[i]
         /\ \A i \in DOMAIN asked' : \/ i \in DOMAIN q /\ asked'[i] = q[i]
                                     \/ asked'[i].op = "get" /\ asked'[i].by \in {"load", "parse"}
         /\ Dels(asked') = Dels(q)
<1>1. \A i \in DOMAIN q : i \in DOMAIN asked' /\ asked'[i] = q[i]
  BY Appended DEF GetsMore
<1>2. ASSUME NEW i \in DOMAIN asked'
      PROVE  \/ i \in DOMAIN q /\ asked'[i] = q[i]
             \/ asked'[i].op = "get" /\ asked'[i].by \in {"load", "parse"}
  <2>1. CASE asked' = q
    BY <2>1
  <2>2. CASE \E x \in Request : x.op = "get" /\ x.by \in {"load", "parse"} /\ asked' = Append(q, x)
    BY <2>2, Appended
  <2> QED  BY <2>1, <2>2 DEF GetsMore
<1>3. Dels(asked') = Dels(q)
  BY <1>1, <1>2 DEF Dels
<1> QED  BY <1>1, <1>2, <1>3

LEMMA MoreKeeps ==
  ASSUME NEW q \in Seq(Request), GetsMore(q), NEW u, NEW rs, NEW d
  PROVE  /\ Fresh(q, u, rs) => Fresh(asked', u, rs)
         /\ Placed(q, u, rs, d) => Placed(asked', u, rs, d)
<1>1. /\ \A i \in DOMAIN q : i \in DOMAIN asked' /\ asked'[i] = q[i]
      /\ \A i \in DOMAIN asked' : \/ i \in DOMAIN q /\ asked'[i] = q[i]
                                  \/ asked'[i].op = "get" /\ asked'[i].by \in {"load", "parse"}
  BY MoreIsSame
<1>2. "load" \notin Removers /\ "parse" \notin Removers
  BY StandaloneAssumption
<1>3. /\ DOMAIN q = 1 .. Len(q) /\ Len(q) \in Nat
      /\ \A k \in DOMAIN asked', i \in DOMAIN q : k < i => k \in DOMAIN q
  <2>1. DOMAIN q = 1 .. Len(q) /\ Len(q) \in Nat
    BY LenProperties
  <2>2. ASSUME NEW k \in DOMAIN asked', NEW i \in DOMAIN q, k < i  PROVE k \in DOMAIN q
    <3>1. CASE asked' = q
      BY <3>1
    <3>2. CASE \E x \in Request : asked' = Append(q, x)
      <4>1. DOMAIN asked' = 1 .. Len(q) + 1
        BY <3>2, Appended
      <4> QED  BY <2>1, <2>2, <4>1
    <3> QED  BY <3>1, <3>2 DEF GetsMore
  <2> QED  BY <2>1, <2>2
<1>4. ASSUME Fresh(q, u, rs)  PROVE Fresh(asked', u, rs)
  <2> SUFFICES ASSUME NEW i \in DOMAIN asked', asked'[i].op = "put"
               PROVE  /\ asked'[i].hash \notin u
                      /\ asked'[i].hash \in Hashes(rs) => \E k \in DOMAIN asked' :
                           k < i /\ asked'[k].by \in Removers /\ asked'[k].hash = asked'[i].hash
    BY DEF Fresh
  <2>1. i \in DOMAIN q /\ asked'[i] = q[i]
    BY <1>1
  <2>2. q[i].hash \notin u /\ (q[i].hash \in Hashes(rs) => \E k \in DOMAIN q :
                                 k < i /\ q[k].by \in Removers /\ q[k].hash = q[i].hash)
    BY <1>4, <2>1 DEF Fresh
  <2> QED  BY <1>1, <2>1, <2>2
<1>5. ASSUME Placed(q, u, rs, d)  PROVE Placed(asked', u, rs, d)
  <2> SUFFICES ASSUME NEW i \in DOMAIN asked', asked'[i].by \in Removers
               PROVE  /\ asked'[i].hash \notin u
                      /\ \/ d[asked'[i].by] \in DOMAIN rs /\ rs[d[asked'[i].by]].hash = asked'[i].hash
                         \/ DOMAIN rs = {} /\ \A k \in DOMAIN asked' : k < i => asked'[k].op # "put"
    BY DEF Placed
  <2>1. i \in DOMAIN q /\ asked'[i] = q[i]
    BY <1>1, <1>2
  <2>2. /\ q[i].hash \notin u
        /\ \/ d[q[i].by] \in DOMAIN rs /\ rs[d[q[i].by]].hash = q[i].hash
           \/ DOMAIN rs = {} /\ \A k \in DOMAIN q : k < i => q[k].op # "put"
    BY <1>5, <2>1 DEF Placed
  <2> QED  BY <1>1, <1>3, <2>1, <2>2
<1> QED  BY <1>4, <1>5

\* The first request is done.
LEMMA TailKeeps ==
  ASSUME NEW q \in Seq(Request), q # <<>>, NEW u, NEW rs, NEW d
  PROVE  /\ Fresh(q, u, rs) /\ Head(q).by \notin Removers => Fresh(Tail(q), u, rs)
         /\ Placed(q, u, rs, d) => Placed(Tail(q), u, rs, d)
         /\ Head(q).op # "del" => Dels(Tail(q)) = Dels(q)
         /\ Dels(q) \subseteq Dels(Tail(q)) \cup {Head(q).hash}
<1>1. PICK t \in Seq(Request) : t = Tail(q)
  BY Tailed
<1>2. /\ Head(q) = q[1] /\ 1 \in DOMAIN q /\ Len(q) \in Nat /\ DOMAIN q = 1 .. Len(q)
      /\ DOMAIN t = 1 .. Len(q) - 1
      /\ \A i \in 1 .. Len(q) - 1 : i + 1 \in DOMAIN q /\ t[i] = q[i + 1]
  BY <1>1, Tailed
<1>3. /\ \A i \in DOMAIN t : i + 1 \in DOMAIN q /\ t[i] = q[i + 1]
      /\ \A k \in DOMAIN q : k # 1 => k - 1 \in DOMAIN t /\ t[k - 1] = q[k]
      /\ \A i \in DOMAIN t, k \in DOMAIN q : k < i + 1 /\ k # 1 => k - 1 < i
      /\ \A i, k \in DOMAIN t : k < i => k + 1 < i + 1
  <2>1. ASSUME NEW k \in DOMAIN q, k # 1  PROVE k - 1 \in DOMAIN t /\ t[k - 1] = q[k]
    <3>1. k - 1 \in 1 .. Len(q) - 1 /\ (k - 1) + 1 = k
      BY <1>2, <2>1
    <3> QED  BY <1>2, <3>1
  <2> QED  BY <1>2, <2>1
<1>4. ASSUME Fresh(q, u, rs), q[1].by \notin Removers  PROVE Fresh(t, u, rs)
  <2> SUFFICES ASSUME NEW i \in DOMAIN t, t[i].op = "put"
               PROVE  /\ t[i].hash \notin u
                      /\ t[i].hash \in Hashes(rs) =>
                           \E k \in DOMAIN t : k < i /\ t[k].by \in Removers /\ t[k].hash = t[i].hash
    BY DEF Fresh
  <2>1. /\ t[i].hash \notin u
        /\ t[i].hash \in Hashes(rs) =>
             \E k \in DOMAIN q : k < i + 1 /\ q[k].by \in Removers /\ q[k].hash = t[i].hash
    BY <1>3, <1>4 DEF Fresh
  <2>2. ASSUME NEW k \in DOMAIN q, k < i + 1, q[k].by \in Removers
        PROVE  k - 1 \in DOMAIN t /\ k - 1 < i /\ t[k - 1] = q[k]
    <3>1. k # 1
      BY <1>4, <2>2
    <3> QED  BY <1>3, <2>2, <3>1
  <2> QED  BY <2>1, <2>2
<1>5. ASSUME Placed(q, u, rs, d)  PROVE Placed(t, u, rs, d)
  BY <1>3, <1>5 DEF Placed
<1>6. Dels(q) \subseteq Dels(t) \cup {q[1].hash} /\ Dels(t) \subseteq Dels(q)
      /\ (q[1].op # "del" => Dels(q) \subseteq Dels(t))
  <2>1. Dels(t) \subseteq Dels(q)
    BY <1>3 DEF Dels
  <2>2. ASSUME NEW h \in Dels(q)  PROVE h \in Dels(t) \/ (h = q[1].hash /\ q[1].op = "del")
    <3>1. PICK k \in DOMAIN q : q[k].op = "del" /\ h = q[k].hash
      BY <2>2 DEF Dels
    <3> QED  BY <1>3, <3>1 DEF Dels
  <2> QED  BY <2>1, <2>2
<1> QED  BY <1>1, <1>2, <1>4, <1>5, <1>6

LEMMA AlikeKeeps ==
  ASSUME NEW s, NEW t, Alike(s, t)
  PROVE  /\ Hashes(s) = Hashes(t) /\ (Distinct(t) => Distinct(s))
         /\ \A q, u : Fresh(q, u, t) => Fresh(q, u, s)
         /\ \A q, u, d : Placed(q, u, t, d) => Placed(q, u, s, d)
<1>1. Hashes(s) = Hashes(t) /\ (Distinct(t) => Distinct(s))
  BY DEF Hashes, Distinct, Differ, Alike
<1>2. \A q, u : Fresh(q, u, t) => Fresh(q, u, s)
  BY <1>1 DEF Fresh
<1>3. \A q, u, d : Placed(q, u, t, d) => Placed(q, u, s, d)
  BY DEF Placed, Alike
<1> QED  BY <1>1, <1>2, <1>3

\* The list is what it was, but for favourites and metadata, and no request is new.
LEMMA Carried ==
  ASSUME Listed, Queued, NEW q \in Seq(Request), GetsMore(q), Alike(rows', rows), UNCHANGED <<urls, del, clear>>,
         Fresh(q, urls, rows), Placed(q, urls, rows, del), Dels(q) = Dels(asked)
  PROVE  Listed' /\ Queued'
<1>1. /\ Fresh(asked', urls, rows) /\ Placed(asked', urls, rows, del) /\ Dels(asked') = Dels(asked)
  BY MoreKeeps, MoreIsSame
<1>2. Hashes(rows') = Hashes(rows) /\ Distinct(rows') /\ Fresh(asked', urls, rows')
      /\ Placed(asked', urls, rows', del)
  BY <1>1, AlikeKeeps DEF Listed
<1> QED  BY <1>1, <1>2 DEF Listed, Queued

LEMMA Itself == \A s : Alike(s, s)
  BY DEF Alike

LEMMA PendingGets ==
  ASSUME ParseOK, NEW rs \in Seq(Row), NEW cat, NEW q
  PROVE  /\ ParsePending(rs, cat, q) => GetsMore(q) /\ catalog' \in {cat, rs}
         /\ ParseEnds(rs, cat, q) \/ ParseAsks(rs, cat, q) => GetsMore(q) /\ catalog' \in {cat, rs}
<1>1. ParseEnds(rs, cat, q) \/ ParseAsks(rs, cat, q) => GetsMore(q) /\ catalog' \in {cat, rs}
  BY DEF ParseEnds, ParseAsks, GetsMore
<1>2. ParsePending(rs, cat, q) => GetsMore(q) /\ catalog' \in {cat, rs}
  <2> SUFFICES ASSUME ParsePending(rs, cat, q)  PROVE GetsMore(q) /\ catalog' \in {cat, rs}
    OBVIOUS
  <2> QED  BY <1>1, ParsePendingIs DEF GetsMore
<1> QED  BY <1>1, <1>2

LEMMA AddGets ==
  ASSUME ParseOK, NEW p, NEW left, NEW new, NEW rs \in Seq(Row), NEW q, NEW t,
         AddGoesOn(p, left, new, rs, q, t)
  PROVE  GetsMore(q) /\ catalog' \in {catalog, rs}
<1>1. CASE asked' = q /\ UNCHANGED catalog
  BY <1>1 DEF GetsMore
<1>2. CASE ParsePending(rs, rs, q)
  BY <1>2, PendingGets
<1> QED  BY <1>1, <1>2 DEF AddGoesOn, AddEnds

LEMMA RestoreGets ==
  ASSUME ParseOK, NEW left \in Seq(Row), NEW rs \in Seq(Row), NEW q \in Seq(Request), Restore(left, rs, q)
  PROVE  /\ GetsMore(q) /\ catalog' \in {catalog, rs}
         /\ load'.at = "restoring" => left # <<>> /\ load'.left = left
<1>1. CASE left = <<>> /\ RestoreEnds(rs, q)
  <2>1. GetsMore(q) /\ catalog' \in {catalog, rs}
    BY <1>1, PendingGets DEF RestoreEnds
  <2> QED  BY <1>1, <2>1 DEF RestoreEnds, SeedIfEmpty
<1>2. CASE /\ left # <<>> /\ load' = [at |-> "restoring", left |-> left]
           /\ asked' = Append(q, Ask("get", Head(left).hash, "load")) /\ UNCHANGED <<parse, catalog>>
  <2>1. Head(left).hash \in Mods
    <3>1. Head(left) \in Row
      BY <1>2, Tailed
    <3> QED  BY <3>1 DEF Row
  <2>2. PICK x \in Request : x = Ask("get", Head(left).hash, "load") /\ x.op = "get" /\ x.by = "load"
    BY <2>1, AskTyped DEF Actors
  <2> QED  BY <1>2, <2>2 DEF GetsMore
<1> QED  BY <1>1, <1>2 DEF Restore

LEMMA GesturesSound ==
  ASSUME TypeInv, TypeInv', SoundParts, tidy', Gesture
  PROVE  SoundParts'
<1>0. /\ RowsOK /\ StoredOK /\ LoadOK /\ AddOK /\ ParseOK /\ DelOK
      /\ asked \in Seq(Request) /\ Block(asked, clear) /\ AddsOn
      /\ \A i \in DOMAIN asked : asked[i] \in Request /\ Fits(asked[i])
      /\ {"take", "seed", "load", "parse", "clear"} \cap Removers = {}
      /\ Listed /\ Queued /\ Distinct(catalog) /\ Alone /\ Ahead
  BY Given DEF SoundParts
<1>1. ASSUME NEW ms, Take(ms)  PROVE SoundParts'
  <2>1. /\ Loaded /\ clear = 0 /\ add' = [add EXCEPT !["take"] = [on |-> TRUE, left |-> ms, new |-> {}]]
        /\ UNCHANGED <<rows, urls, nextId, asked, load, parse, del, clear, stored>>
    BY <1>1 DEF Take
  <2>2. Listed' /\ Queued'
    BY <1>0, <2>1, Carried, Itself DEF GetsMore, Queued
  <2>3. Alone' /\ Ahead'
    BY <1>0, <2>1 DEF Alone, Ahead, Loaded, Removing
  <2> QED  BY <1>0, <2>1, <2>2, <2>3 DEF SoundParts, stored
<1>2. ASSUME NEW h \in Mods, SetFavorite(h)  PROVE SoundParts'
  <2>1. /\ Loaded /\ catalog' = rows'
        /\ UNCHANGED <<urls, nextId, asked, load, add, parse, del, clear, idb, seeded, tidy>>
    BY <1>2 DEF SetFavorite
  <2>2. Alike(rows', rows)
    <3>1. PICK i \in DOMAIN rows : rows' = [rows EXCEPT ![i].fav = ~@]
      <4>1. h \in Hashes(rows) /\ rows \in Seq(Row)
        BY <1>0, <1>2 DEF SetFavorite, RowsOK
      <4>2. Least({i \in DOMAIN rows : rows[i].hash = h}) \in DOMAIN rows
        BY <4>1, HashIn
      <4> QED  BY <1>2, <4>2 DEF SetFavorite
    <3>2. PICK f \in BOOLEAN : f = ~rows[i].fav
      OBVIOUS
    <3>3. PICK y \in Row : y = [rows[i] EXCEPT !.fav = f] /\ y.id = rows[i].id /\ y.hash = rows[i].hash
      <4>1. PICK x \in Row : x = rows[i]
        BY <1>0, EntryIn DEF RowsOK
      <4>2. /\ [x EXCEPT !.fav = f] \in Row
            /\ [x EXCEPT !.fav = f].id = x.id /\ [x EXCEPT !.fav = f].hash = x.hash
        BY FieldSet, Zenon DEF Row
      <4> QED  BY <4>1, <4>2, Zenon
    <3>4. rows' = [rows EXCEPT ![i] = y]
      BY <1>0, <3>1, <3>2, <3>3 DEF RowsOK
    <3> QED  BY <1>0, <3>3, <3>4 DEF RowsOK, Alike
  <2>3. Listed' /\ Queued'
    BY <1>0, <2>1, <2>2, Carried DEF GetsMore, Queued
  <2>4. Alone' /\ Ahead'
    BY <1>0, <2>1 DEF Alone, Ahead, Loaded, Removing
  <2> QED  BY <2>1, <2>3, <2>4 DEF SoundParts, Listed
<1>3. ASSUME NEW h \in Mods, NEW r \in Removers, RemoveTrack(r, h)  PROVE SoundParts'
  <2>1. PICK j \in DOMAIN rows : /\ del' = [del EXCEPT ![r] = j] /\ rows[j].hash = h
    <3>1. h \in Hashes(rows) /\ rows \in Seq(Row)
      BY <1>0, <1>3 DEF RemoveTrack, RowsOK
    <3> DEFINE j == Least({i \in DOMAIN rows : rows[i].hash = h})
    <3>2. j \in DOMAIN rows /\ rows[j].hash = h
      BY <3>1, HashIn
    <3> QED  BY <1>3, <3>2 DEF RemoveTrack
  <2>2. /\ Loaded /\ Removing = {} /\ urls' = urls \ {h} /\ asked' = Append(asked, Ask("del", h, r))
        /\ UNCHANGED <<rows, nextId, load, add, parse, clear, stored>>
    BY <1>3 DEF RemoveTrack
  <2>3. PICK x \in Request : x = Ask("del", h, r) /\ x.op = "del" /\ x.by = r /\ x.hash = h
    BY AskTyped DEF Actors
  <2>4. \A i \in DOMAIN asked : asked[i].by \notin Removers
    BY <1>0, <2>2 DEF Fits, Removing
  <2>5. /\ DOMAIN asked = 1 .. Len(asked) /\ Len(asked) \in Nat
        /\ \A i \in DOMAIN asked' : (i \in DOMAIN asked /\ asked'[i] = asked[i]) \/ asked'[i] = x
        /\ \A i \in DOMAIN asked : i \in DOMAIN asked' /\ asked'[i] = asked[i]
        /\ \E i \in DOMAIN asked' : asked'[i] = x
    <3>1. asked' = Append(asked, x)
      BY <2>2, <2>3
    <3>2. /\ DOMAIN asked = 1 .. Len(asked) /\ Len(asked) \in Nat /\ DOMAIN asked' = 1 .. Len(asked) + 1
          /\ \A i \in 1 .. Len(asked) : asked'[i] = asked[i]
          /\ asked'[Len(asked) + 1] = x
      BY <1>0, <3>1, Appended
    <3> QED  BY <3>2
  <2>6. Fresh(asked', urls', rows')
    <3> SUFFICES ASSUME NEW i \in DOMAIN asked', asked'[i].op = "put"
                 PROVE  /\ asked'[i].hash \notin urls'
                        /\ asked'[i].hash \notin Hashes(rows)
      BY <2>2 DEF Fresh
    <3>1. i \in DOMAIN asked /\ asked'[i] = asked[i]
      BY <2>3, <2>5
    <3> QED  BY <1>0, <2>2, <2>4, <3>1 DEF Fresh, Queued
  <2>7. Placed(asked', urls', rows', del')
    <3> SUFFICES ASSUME NEW i \in DOMAIN asked', asked'[i].by \in Removers
                 PROVE  /\ asked'[i].hash \notin urls'
                        /\ del'[asked'[i].by] \in DOMAIN rows' /\ rows'[del'[asked'[i].by]].hash = asked'[i].hash
      BY DEF Placed
    <3>1. asked'[i] = x
      BY <2>4, <2>5
    <3>2. del'[r] = j
      BY <1>0, <2>1 DEF DelOK
    <3> QED  BY <2>1, <2>2, <2>3, <3>1, <3>2
  <2>8. Listed'
    <3>1. Dels(asked') = Dels(asked) \cup {h}
      BY <2>3, <2>5 DEF Dels
    <3> QED  BY <1>0, <2>1, <2>2, <3>1 DEF Listed, Hashes
  <2>9. Alone' /\ Ahead'
    <3>1. \A t \in Removers : t # r => del'[t] = 0
      BY <1>0, <2>1, <2>2 DEF DelOK, Removing
    <3>2. \A s, t \in Removing' : s = t
      BY <3>1 DEF Removing
    <3>3. Alone'
      BY <1>0, <2>2, <3>2 DEF Alone, Loaded
    <3> QED  BY <2>2, <3>3 DEF Ahead, Loaded
  <2> QED  BY <1>0, <2>2, <2>6, <2>7, <2>8, <2>9 DEF SoundParts, Queued, stored
<1>4. CASE Clear
  <2> DEFINE t == [i \in DOMAIN rows |-> Ask("del", rows[i].hash, "clear")]
  <2>1. /\ clear = 0 /\ urls' = {} /\ clear' = Len(rows) /\ asked' = asked \o t /\ Loaded /\ ~add["take"].on
        /\ UNCHANGED <<rows, nextId, load, add, parse, del, idb, seeded>>
        /\ catalog' \in {catalog, <<>>}
    BY <1>4 DEF Clear
  <2>2. /\ DOMAIN asked' = 1 .. Len(asked) + Len(rows) /\ Len(asked) \in Nat /\ Len(rows) \in Nat
        /\ DOMAIN asked = 1 .. Len(asked) /\ DOMAIN rows = 1 .. Len(rows)
        /\ \A i \in DOMAIN asked : asked'[i] = asked[i]
        /\ \A i \in DOMAIN asked' : i \notin DOMAIN asked =>
             asked'[i].op = "del" /\ asked'[i].by = "clear"
    <3>1. DOMAIN rows = 1 .. Len(rows) /\ Len(rows) \in Nat /\ DOMAIN asked = 1 .. Len(asked) /\ Len(asked) \in Nat
      BY <1>0, LenProperties DEF RowsOK
    <3>2. ASSUME NEW i \in DOMAIN rows
          PROVE  Ask("del", rows[i].hash, "clear") \in Request /\ t[i].by = "clear" /\ t[i].op = "del"
      <4>1. rows[i] \in Row
        BY <1>0, EntryIn DEF RowsOK
      <4>2. rows[i].hash \in Mods
        BY <4>1 DEF Row
      <4> QED  BY <4>2, AskTyped DEF Actors
    <3>3. t \in Seq(Request) /\ Len(t) = Len(rows)
      BY <3>1, <3>2, IsASeq
    <3> HIDE DEF t
    <3>4. /\ asked' \in Seq(Request) /\ Len(asked') = Len(asked) + Len(rows)
          /\ \A i \in 1 .. Len(asked) + Len(rows) :
               asked'[i] = IF i <= Len(asked) THEN asked[i] ELSE t[i - Len(asked)]
      <4>1. asked \in Seq(Request) /\ asked' = asked \o t
        BY <1>0, <2>1
      <4>2. /\ asked \o t \in Seq(Request) /\ Len(asked \o t) = Len(asked) + Len(t)
            /\ \A i \in 1 .. Len(asked) + Len(t) :
                 (asked \o t)[i] = IF i <= Len(asked) THEN asked[i] ELSE t[i - Len(asked)]
        BY <3>3, <4>1, ConcatProperties, Zenon
      <4> QED  BY <3>3, <4>1, <4>2, Zenon
    <3>5. DOMAIN asked' = 1 .. Len(asked) + Len(rows)
      BY <3>1, <3>4, LenProperties
    <3>6. ASSUME NEW i \in DOMAIN asked', i \notin DOMAIN asked
          PROVE  i - Len(asked) \in DOMAIN rows /\ asked'[i] = t[i - Len(asked)]
      BY <3>1, <3>4, <3>5, <3>6
    <3> QED  BY <3>1, <3>2, <3>4, <3>5, <3>6
  <2>3. \A i \in DOMAIN asked' : asked'[i].op # "put"
    <3>1. add'["seed"].on => load'.at = "seeding"
      BY <1>0, <2>1 DEF AddsOn
    <3>2. \A i \in DOMAIN asked : asked[i].op = "put" => asked[i].by \in Adders /\ add[asked[i].by].on
      BY <1>0, Kinds DEF Fits
    <3>3. \A i \in DOMAIN asked : asked[i].op # "put"
      BY <2>1, <3>1, <3>2 DEF Adders, Loaded
    <3> QED  BY <2>2, <3>3
  <2>4. Placed(asked', urls', rows', del')
    <3> SUFFICES ASSUME NEW i \in DOMAIN asked', asked'[i].by \in Removers
                 PROVE  \/ del'[asked'[i].by] \in DOMAIN rows' /\ rows'[del'[asked'[i].by]].hash = asked'[i].hash
                        \/ DOMAIN rows' = {} /\ \A k \in DOMAIN asked' : k < i => asked'[k].op # "put"
      BY <2>1 DEF Placed
    <3>1. i \in DOMAIN asked /\ asked'[i] = asked[i]
      BY <1>0, <2>2
    <3> QED  BY <1>0, <2>1, <2>3, <3>1 DEF Placed, Queued
  <2>5. Fresh(asked', urls', rows')
    BY <2>3 DEF Fresh
  <2>6. Listed'
    <3>1. clear' = 0 => Hashes(rows') = {}
      BY <2>1, <2>2 DEF Hashes
    <3> QED  BY <1>0, <2>1, <3>1 DEF Listed
  <2>7. Distinct(catalog')
    BY <1>0, <2>1, EmptySeq DEF Distinct
  <2>8. Alone' /\ Ahead'
    BY <1>0, <2>1 DEF Alone, Ahead, Loaded, Removing
  <2> QED  BY <2>4, <2>5, <2>6, <2>7, <2>8 DEF SoundParts, Queued
<1> QED  BY <1>1, <1>2, <1>3, <1>4 DEF Gesture

LEMMA TakesSound ==
  ASSUME TypeInv, TypeInv', SoundParts, tidy', NEW p \in Adders, Hashed(p) \/ Landed(p)
  PROVE  SoundParts'
<1>0. /\ RowsOK /\ StoredOK /\ LoadOK /\ AddOK /\ ParseOK /\ DelOK
      /\ asked \in Seq(Request) /\ Block(asked, clear) /\ AddsOn
      /\ \A i \in DOMAIN asked : asked[i] \in Request /\ Fits(asked[i])
      /\ {"take", "seed", "load", "parse", "clear"} \cap Removers = {}
      /\ Listed /\ Queued /\ Distinct(catalog) /\ Alone /\ Ahead
      /\ p \in {"take", "seed"} /\ HomeTypeOK /\ QueueInv
  BY Given DEF SoundParts, Adders
<1>1. add[p].on
  <2>1. CASE Hashed(p)
    BY <2>1 DEF Hashed
  <2>2. CASE Landed(p)
    <3>1. asked # <<>> /\ Head(asked).by = p
      BY <2>2 DEF Landed, LandedAs, Answered
    <3>2. Fits(Head(asked))
      BY <1>0, <3>1, HeadGone
    <3> QED  BY <3>1, <3>2 DEF Fits
  <2> QED  BY <2>1, <2>2
<1>2. load.at # "restoring" /\ clear = 0 /\ \A o \in Adders : add[o].on => o = p
  BY <1>0, <1>1, OneAdder
\* What follows an answer keeps apart what was.
<1>3. ASSUME SeedOver(p, Tail(add[p].left)) \/ UNCHANGED <<seeded, load>>,
             add' = add \/ \E v : add' = [add EXCEPT ![p] = v],
             UNCHANGED <<del, clear>>
      PROVE  Alone' /\ Ahead'
  <2>1. load' = load \/ (load'.at = "done" /\ load.at = "seeding")
    <3>1. p = "seed" => load.at = "seeding"
      BY <1>0, <1>1 DEF AddsOn
    <3> QED  BY <1>0, <1>3, <3>1 DEF SeedOver, LoadOK
  <2>2. Ahead' /\ clear' = 0
    BY <1>2, <1>3, <2>1 DEF Ahead
  <2>3. ~Loaded' => ~add'["take"].on /\ Removing' = {}
    <3>1. ASSUME ~Loaded'  PROVE ~Loaded /\ UNCHANGED load
      BY <2>1, <3>1 DEF Loaded
    <3>2. ASSUME ~Loaded  PROVE add'["take"] = add["take"]
      <4>1. p # "take"
        BY <1>0, <1>1, <3>2 DEF Alone
      <4> QED  BY <1>0, <1>3, <4>1 DEF AddOK, Adders
    <3> QED  BY <1>0, <1>3, <3>1, <3>2 DEF Alone, Removing
  <2> QED  BY <1>0, <1>3, <2>2, <2>3 DEF Alone, Removing
<1>4. \A left, new, rs, q, t : AddGoesOn(p, left, new, rs, q, t) => \E v : add' = [add EXCEPT ![p] = v]
  <2> SUFFICES ASSUME NEW left, NEW new, NEW rs, NEW q, NEW t, AddGoesOn(p, left, new, rs, q, t)
               PROVE  \E v : add' = [add EXCEPT ![p] = v]
    OBVIOUS
  <2>1. CASE add' = [add EXCEPT ![p] = NoAdd]
    BY <2>1
  <2>2. CASE add' = [add EXCEPT ![p] = IF left = <<>> THEN NoAdd ELSE [@ EXCEPT !.left = left, !.new = new]]
    BY <2>2
  <2> QED  BY <2>1, <2>2 DEF AddGoesOn, AddEnds
<1>5. CASE Hashed(p)
  <2>1. Alike(rows', rows) /\ UNCHANGED <<rows, urls, nextId, del, clear, idb, tidy, budget>>
    BY <1>5, Itself DEF Hashed
  <2>2. CASE AddGoesOn(p, Tail(add[p].left), add[p].new, rows, asked, told) /\ SeedOver(p, Tail(add[p].left))
    <3>1. GetsMore(asked) /\ catalog' \in {catalog, rows}
      BY <1>0, <2>2, AddGets DEF RowsOK
    <3>2. Listed' /\ Queued'
      BY <1>0, <2>1, <3>1, Carried DEF Queued
    <3> QED  BY <1>0, <1>3, <1>4, <2>1, <2>2, <3>1, <3>2 DEF SoundParts, Listed
  <2>3. CASE /\ asked' = Append(asked, Ask("put", Head(add[p].left), p)) /\ Head(add[p].left) \notin urls
             /\ UNCHANGED <<add, parse, catalog, told, seeded, load>>
    <3> DEFINE h == Head(add[p].left)
    <3>1. PICK x \in Request : x = Ask("put", h, p) /\ x.op = "put" /\ x.by = p /\ x.hash = h
      <4>1. add[p].left \in Seq(Mods) /\ add[p].left # <<>>
        BY <1>0, <1>1 DEF AddOK, AddsOn
      <4>2. h \in Mods
        BY <4>1, Tailed
      <4> QED  BY <4>2, AskTyped DEF Actors
    <3>2. asked' = Append(asked, x)
      BY <2>3, <3>1
    <3>3. /\ DOMAIN asked = 1 .. Len(asked) /\ Len(asked) \in Nat /\ DOMAIN asked' = 1 .. Len(asked) + 1
          /\ asked'[Len(asked) + 1] = x
          /\ \A i \in DOMAIN asked : asked'[i] = asked[i]
      BY <1>0, <3>2, Appended
    <3>4. \A i \in DOMAIN asked' : (i \in DOMAIN asked /\ asked'[i] = asked[i]) \/ (i = Len(asked) + 1 /\ asked'[i] = x)
      BY <3>3
    <3>5. Fresh(asked', urls', rows')
      <4> SUFFICES ASSUME NEW i \in DOMAIN asked', asked'[i].op = "put"
                   PROVE  /\ asked'[i].hash \notin urls
                          /\ asked'[i].hash \in Hashes(rows) => \E k \in DOMAIN asked' :
                               k < i /\ asked'[k].by \in Removers /\ asked'[k].hash = asked'[i].hash
        BY <2>1 DEF Fresh
      <4>1. CASE i \in DOMAIN asked /\ asked'[i] = asked[i]
        <5>1. /\ asked[i].hash \notin urls
              /\ asked[i].hash \in Hashes(rows) => \E k \in DOMAIN asked :
                               k < i /\ asked[k].by \in Removers /\ asked[k].hash = asked[i].hash
          BY <1>0, <4>1 DEF Queued, Fresh
        <5>2. \A k \in DOMAIN asked : k \in DOMAIN asked' /\ asked'[k] = asked[k]
          BY <3>3
        <5> QED  BY <4>1, <5>1, <5>2
      <4>2. CASE i = Len(asked) + 1 /\ asked'[i] = x
        <5>1. ASSUME h \in Hashes(rows)
              PROVE  \E k \in DOMAIN asked : asked[k].by \in Removers /\ asked[k].hash = h
          <6>1. h \in Dels(asked)
            BY <1>0, <1>2, <2>3, <5>1 DEF Listed
          <6>2. PICK k \in DOMAIN asked : asked[k].op = "del" /\ asked[k].hash = h
            BY <6>1 DEF Dels
          <6>3. asked[k].by # "clear"
            BY <1>0, <1>2 DEF Block
          <6>4. asked[k].by \in Removers
            BY <1>0, <6>2, <6>3, Kinds
          <6> QED  BY <6>2, <6>4
        <5>2. \A k \in DOMAIN asked : k \in DOMAIN asked' /\ k < i /\ asked'[k] = asked[k]
          BY <3>3, <4>2
        <5> QED  BY <2>3, <3>1, <4>2, <5>1, <5>2
      <4> QED  BY <3>4, <4>1, <4>2
    <3>6. Placed(asked', urls', rows', del')
      <4> SUFFICES ASSUME NEW i \in DOMAIN asked', asked'[i].by \in Removers
                   PROVE  /\ asked'[i].hash \notin urls
                          /\ \/ del[asked'[i].by] \in DOMAIN rows /\ rows[del[asked'[i].by]].hash = asked'[i].hash
                             \/ DOMAIN rows = {} /\ \A k \in DOMAIN asked' : k < i => asked'[k].op # "put"
        BY <2>1 DEF Placed
      <4>1. i \in DOMAIN asked /\ asked'[i] = asked[i]
        BY <1>0, <3>1, <3>4
      <4>2. \A k \in DOMAIN asked' : k < i => k \in DOMAIN asked /\ asked'[k] = asked[k]
        BY <3>3, <4>1
      <4> QED  BY <1>0, <4>1, <4>2 DEF Queued, Placed
    <3>7. Dels(asked') = Dels(asked)
      BY <3>1, <3>3, <3>4 DEF Dels
    <3>8. Alone' /\ Ahead'
      BY <1>3, <2>1, <2>3
    <3> QED  BY <1>0, <2>1, <2>3, <3>5, <3>6, <3>7, <3>8 DEF SoundParts, Listed, Queued
  <2> QED  BY <1>5, <2>2, <2>3 DEF Hashed
<1>6. CASE Landed(p)
  <2>0. PICK h, q : h = Head(asked).hash /\ q = Tail(asked)
    OBVIOUS
  <2>1. /\ asked # <<>> /\ Head(asked).by = p /\ UNCHANGED <<del, clear, tidy>>
        /\ urls' = urls \cup {h}
        /\ rows' = Append(rows, [id |-> nextId, hash |-> h, meta |-> FALSE, fav |-> FALSE])
        /\ SeedOver(p, Tail(add[p].left))
    BY <1>6, <2>0 DEF Landed, LandedAs, Answered
  <2>2. /\ q \in Seq(Request) /\ Absent(q, p) /\ h \in Mods /\ Head(asked) = asked[1] /\ 1 \in DOMAIN asked
        /\ Head(asked).op = "put"
        /\ \A i \in DOMAIN q : q[i] \in Request /\ Fits(q[i])
    <3>1. /\ q \in Seq(Request) /\ Absent(q, p) /\ Fits(Head(asked)) /\ Head(asked) = asked[1] /\ 1 \in DOMAIN asked
          /\ Head(asked) \in Request /\ \A i \in DOMAIN q : q[i] \in Request /\ Fits(q[i])
      BY <1>0, <2>0, <2>1, HeadGone
    <3>2. h \in Mods
      BY <2>0, <3>1 DEF Request
    <3> QED  BY <2>1, <3>1, <3>2 DEF Fits
  <2>3. h \notin urls /\ h \notin Hashes(rows)
    <3>1. \A k \in DOMAIN asked : ~(k < 1)
      BY <1>0, LenProperties
    <3> QED  BY <1>0, <2>0, <2>2, <3>1 DEF Queued, Fresh
  <2>4. GetsMore(q) /\ catalog' \in {catalog, rows'} /\ \E v : add' = [add EXCEPT ![p] = v]
    <3>1. PICK new, t : AddGoesOn(p, Tail(add[p].left), new, rows', q, t)
      BY <1>6, <2>0 DEF Landed, LandedAs
    <3>2. PICK rs \in Seq(Row) : rs = rows'
      BY DEF TypeInv, HomeTypeOK
    <3>3. AddGoesOn(p, Tail(add[p].left), new, rs, q, t)
      BY <3>1, <3>2
    <3>4. PICK left : left = Tail(add[p].left)
      OBVIOUS
    <3>5. AddGoesOn(p, left, new, rs, q, t)
      BY <3>3, <3>4
    <3>6. GetsMore(q) /\ catalog' \in {catalog, rs}
      BY <1>0, <3>5, AddGets
    <3> QED  BY <1>4, <3>2, <3>5, <3>6
  <2>5. PICK y \in Row : y = [id |-> nextId, hash |-> h, meta |-> FALSE, fav |-> FALSE] /\ y.id = nextId /\ y.hash = h
    BY <1>0, <2>2, RowMade DEF RowsOK
  <2>6. /\ DOMAIN rows' = 1 .. Len(rows) + 1 /\ DOMAIN rows = 1 .. Len(rows)
        /\ Len(rows) \in Nat /\ rows'[Len(rows) + 1] = y /\ \A i \in 1 .. Len(rows) : rows'[i] = rows[i]
    BY <1>0, <2>1, <2>5, Appended DEF RowsOK
  <2>7. \A i \in DOMAIN rows' : (i \in DOMAIN rows /\ rows'[i] = rows[i]) \/ (i = Len(rows) + 1 /\ rows'[i] = y)
    BY <2>6
  <2>8. Distinct(rows') /\ Hashes(rows') = Hashes(rows) \cup {h}
    <3>1. ASSUME NEW i \in DOMAIN rows  PROVE Differ(rows[i], y) /\ Differ(y, rows[i])
      <4>1. rows[i] \in Row /\ rows[i].id < nextId /\ nextId \in Nat
        BY <1>0, EntryIn DEF RowsOK
      <4>2. rows[i].id \in Nat
        BY <4>1 DEF Row
      <4>3. rows[i].hash # h
        BY <2>3 DEF Hashes
      <4> QED  BY <2>5, <4>1, <4>2, <4>3 DEF Differ
    <3>2. Distinct(rows)
      BY <1>0 DEF Listed
    <3>3. Distinct(rows')
      BY <2>6, <2>7, <3>1, <3>2 DEF Distinct
    <3>4. Hashes(rows') = Hashes(rows) \cup {h}
      <4>1. \A i \in DOMAIN rows : i \in DOMAIN rows' /\ rows'[i] = rows[i]
        BY <2>6
      <4>2. Len(rows) + 1 \in DOMAIN rows'
        BY <2>6
      <4> QED  BY <2>5, <2>6, <2>7, <4>1, <4>2 DEF Hashes
    <3> QED  BY <3>3, <3>4
  <2>9. \A i \in DOMAIN q : q[i].op # "put"
    <3>1. ASSUME NEW i \in DOMAIN q, q[i].op = "put"  PROVE FALSE
      <4>1. q[i].by \in Adders /\ add[q[i].by].on
        BY <2>2, <3>1, Kinds DEF Fits
      <4> QED  BY <1>2, <2>2, <4>1 DEF Absent
    <3> QED  BY <3>1
  <2>10. Fresh(asked', urls', rows')
    <3>1. Fresh(q, urls', rows')
      BY <2>9 DEF Fresh
    <3>2. PICK u, rs : u = urls' /\ rs = rows'
      OBVIOUS
    <3> QED  BY <2>2, <2>4, <3>1, <3>2, MoreKeeps
  <2>11. Placed(asked', urls', rows', del')
    <3>1. ASSUME NEW i \in DOMAIN q, q[i].by \in Removers
          PROVE  /\ q[i].hash \notin urls'
                 /\ del[q[i].by] \in DOMAIN rows' /\ rows'[del[q[i].by]].hash = q[i].hash
      <4>1. i + 1 \in DOMAIN asked /\ q[i] = asked[i + 1] /\ 1 < i + 1
        BY <1>0, <2>0, <2>1, Tailed
      <4>2. /\ q[i].hash \notin urls
            /\ del[q[i].by] \in DOMAIN rows /\ rows[del[q[i].by]].hash = q[i].hash
        BY <1>0, <2>2, <3>1, <4>1 DEF Queued, Placed
      <4>3. q[i].hash # h
        BY <2>3, <4>2 DEF Hashes
      <4>4. del[q[i].by] \in DOMAIN rows' /\ rows'[del[q[i].by]] = rows[del[q[i].by]]
        BY <2>6, <4>2
      <4> QED  BY <2>1, <4>2, <4>3, <4>4
    <3>2. Placed(q, urls', rows', del')
      BY <2>1, <3>1 DEF Placed
    <3>3. PICK u, rs, d : u = urls' /\ rs = rows' /\ d = del'
      OBVIOUS
    <3> QED  BY <2>2, <2>4, <3>2, <3>3, MoreKeeps
  <2>12. Listed'
    <3>1. Dels(asked') = Dels(asked)
      BY <1>0, <2>0, <2>1, <2>2, <2>4, TailKeeps, MoreIsSame
    <3> QED  BY <1>0, <2>1, <2>8, <3>1 DEF Listed
  <2>13. Distinct(catalog')
    BY <1>0, <2>4, <2>8
  <2>14. Alone' /\ Ahead'
    BY <1>3, <2>1, <2>4
  <2> QED  BY <2>10, <2>11, <2>12, <2>13, <2>14 DEF SoundParts, Queued
<1> QED  BY <1>5, <1>6

LEMMA OpeningSound ==
  ASSUME TypeInv, TypeInv', SoundParts, tidy', NothingSaved \/ SeedFetched \/ Restored
  PROVE  SoundParts'
<1>0. /\ RowsOK /\ StoredOK /\ LoadOK /\ AddOK /\ ParseOK /\ DelOK
      /\ asked \in Seq(Request) /\ Block(asked, clear) /\ AddsOn
      /\ \A i \in DOMAIN asked : asked[i] \in Request /\ Fits(asked[i])
      /\ {"take", "seed", "load", "parse", "clear"} \cap Removers = {}
      /\ Listed /\ Queued /\ Distinct(catalog) /\ Alone /\ Ahead /\ HomeTypeOK /\ QueueInv
  BY Given DEF SoundParts
<1>1. CASE NothingSaved
  <2>1. /\ load.at = "restoring" /\ load.left = <<>> /\ Restore(<<>>, rows, asked)
        /\ UNCHANGED <<rows, urls, nextId, add, del, clear, idb, seeded, history, budget>>
    BY <1>1 DEF NothingSaved, Restore
  <2>2. /\ GetsMore(asked) /\ catalog' \in {catalog, rows} /\ load'.at # "restoring"
    BY <1>0, <2>1, RestoreGets, EmptySeq DEF RowsOK
  <2>3. Listed' /\ Queued'
    BY <1>0, <2>1, <2>2, Carried, Itself DEF Queued
  <2>4. Alone' /\ Ahead'
    BY <1>0, <2>1, <2>2 DEF Alone, Ahead, Loaded, Removing
  <2> QED  BY <1>0, <2>2, <2>3, <2>4 DEF SoundParts, Listed
<1>2. CASE SeedFetched
  <2>1. /\ load.at = "seeding" /\ load'.at # "restoring" /\ add'["take"] = add["take"]
        /\ UNCHANGED <<rows, urls, nextId, asked, parse, del, clear, stored, history, budget>>
    BY <1>0, <1>2 DEF SeedFetched, LoadOK, AddOK, Adders
  <2>2. Listed' /\ Queued'
    BY <1>0, <2>1, Carried, Itself DEF Queued, GetsMore
  <2>3. Alone' /\ Ahead'
    BY <1>0, <2>1 DEF Alone, Ahead, Loaded, Removing
  <2> QED  BY <1>0, <2>1, <2>2, <2>3 DEF SoundParts, stored
<1>3. CASE Restored
  <2>0. PICK row, q : row = Head(load.left) /\ q = Tail(asked)
    OBVIOUS
  <2>1. /\ asked # <<>> /\ Head(asked).by = "load" /\ UNCHANGED <<add, del, clear, idb, seeded, tidy>>
        /\ Restore(Tail(load.left), rows', q)
        /\ \/ rows' = Append(rows, row) /\ urls' = urls \cup {row.hash}
           \/ UNCHANGED <<rows, urls>>
    BY <1>3, <2>0 DEF Restored, Answered
  <2>2. q \in Seq(Request) /\ Head(asked).op = "get" /\ load.at = "restoring" /\ load.left # <<>>
    <3>1. q \in Seq(Request) /\ Fits(Head(asked))
      BY <1>0, <2>0, <2>1, HeadGone
    <3> QED  BY <2>1, <3>1 DEF Fits
  <2>3. PICK s \in Seq(Row) : s = load.left /\ s # <<>>
    BY <1>0, <2>2 DEF LoadOK
  <2>4. PICK t \in Seq(Row), rs \in Seq(Row) : t = Tail(s) /\ rs = rows'
    <3>1. rows' \in Seq(Row)
      BY DEF TypeInv, HomeTypeOK
    <3> QED  BY <2>3, <3>1, Tailed
  <2>5. /\ GetsMore(q) /\ catalog' \in {catalog, rows'}
        /\ load'.at = "restoring" => load'.left = t
    BY <1>0, <2>1, <2>2, <2>3, <2>4, RestoreGets
  <2>6. /\ row = s[1] /\ 1 \in DOMAIN s /\ row \in Row
        /\ \A i \in DOMAIN t : i + 1 \in DOMAIN s /\ i + 1 # 1 /\ t[i] = s[i + 1]
        /\ \A i, j \in DOMAIN t : i # j => i + 1 # j + 1
    BY <2>0, <2>3, <2>4, Tailed
  <2>7. /\ Distinct(s) /\ \A i \in DOMAIN rows, j \in DOMAIN s : Differ(rows[i], s[j])
    BY <1>0, <2>2, <2>3 DEF Ahead
  <2>8. clear = 0 /\ Removing = {} /\ \A i \in DOMAIN asked : asked[i].op # "put"
    BY <1>0, <2>2, OneAdder DEF Alone, Loaded
  <2>9. /\ \A i \in DOMAIN asked : asked[i].by \notin Removers
        /\ \A i \in DOMAIN q : q[i].op # "put" /\ q[i].by \notin Removers
    <3>1. \A i \in DOMAIN asked : asked[i].by \notin Removers
      BY <1>0, <2>8 DEF Fits, Removing
    <3>2. \A i \in DOMAIN q : \E j \in DOMAIN asked : q[i] = asked[j]
      <4>1. \A i \in DOMAIN q : i + 1 \in DOMAIN asked /\ q[i] = asked[i + 1]
        BY <1>0, <2>0, <2>1, Tailed
      <4> QED  BY <4>1
    <3> QED  BY <2>8, <3>1, <3>2
  <2>10. Queued'
    <3>1. \A i \in DOMAIN asked' : asked'[i].op # "put" /\ asked'[i].by \notin Removers
      BY <1>0, <2>2, <2>5, <2>9, MoreIsSame
    <3> QED  BY <3>1 DEF Queued, Fresh, Placed
  <2>11. Dels(asked') = Dels(asked)
    BY <1>0, <2>0, <2>1, <2>2, <2>5, TailKeeps, MoreIsSame
  <2>12. Alone'
    BY <1>0, <2>1, <2>2, <2>8 DEF Alone, Loaded, Removing
  <2>13. CASE UNCHANGED <<rows, urls>>
    <3>1. Listed'
      BY <1>0, <2>1, <2>11, <2>13 DEF Listed
    <3>2. Ahead'
      <4>1. Distinct(t) /\ \A i \in DOMAIN rows, j \in DOMAIN t : Differ(rows[i], t[j])
        BY <2>6, <2>7 DEF Distinct
      <4> QED  BY <2>5, <2>13, <4>1 DEF Ahead
    <3> QED  BY <1>0, <2>5, <2>10, <2>12, <2>13, <3>1, <3>2 DEF SoundParts, Listed
  <2>14. CASE rows' = Append(rows, row) /\ urls' = urls \cup {row.hash}
    <3>1. /\ DOMAIN rows' = 1 .. Len(rows) + 1 /\ DOMAIN rows = 1 .. Len(rows)
          /\ Len(rows) \in Nat /\ rows'[Len(rows) + 1] = row /\ \A i \in 1 .. Len(rows) : rows'[i] = rows[i]
      BY <1>0, <2>6, <2>14, Appended DEF RowsOK
    <3>2. /\ \A i \in DOMAIN rows' : (i \in DOMAIN rows /\ rows'[i] = rows[i]) \/ (i = Len(rows) + 1 /\ rows'[i] = row)
          /\ \A i \in DOMAIN rows : i \in DOMAIN rows' /\ rows'[i] = rows[i]
          /\ Len(rows) + 1 \in DOMAIN rows'
      BY <3>1
    <3>3. \A i \in DOMAIN rows : Differ(rows[i], row) /\ Differ(row, rows[i])
      BY <2>6, <2>7 DEF Differ
    <3>4. Distinct(rows')
      BY <1>0, <3>2, <3>3 DEF Distinct, Listed
    <3>5. Hashes(rows') = Hashes(rows) \cup {row.hash}
      BY <3>1, <3>2 DEF Hashes
    <3>6. Listed'
      BY <1>0, <2>1, <2>11, <2>14, <3>4, <3>5 DEF Listed
    <3>7. Ahead'
      <4>1. Distinct(t)
        BY <2>6, <2>7 DEF Distinct
      <4>2. ASSUME NEW i \in DOMAIN rows', NEW j \in DOMAIN t  PROVE Differ(rows'[i], t[j])
        <5>1. Differ(row, t[j])
          BY <2>6, <2>7 DEF Distinct
        <5>2. \A k \in DOMAIN rows : Differ(rows[k], t[j])
          BY <2>6, <2>7
        <5> QED  BY <3>2, <5>1, <5>2
      <4> QED  BY <2>5, <4>1, <4>2 DEF Ahead
    <3> QED  BY <1>0, <2>5, <2>10, <2>12, <3>4, <3>6, <3>7 DEF SoundParts
  <2> QED  BY <2>1, <2>13, <2>14
<1> QED  BY <1>1, <1>2, <1>3

\* What stays on the list is what was there but the module that was removed.
LEMMA RemovedRow ==
  ASSUME NEW s \in Seq(Row), Distinct(s), NEW d \in DOMAIN s, NEW t, t = RemoveAt(s, d)
  PROVE  /\ Distinct(t) /\ Hashes(t) = Hashes(s) \ {s[d].hash}
         /\ \A h, v : h # s[d].hash /\ In(s, h, v) => In(t, h, v)
<1>1. /\ \A i \in DOMAIN t : Skip(i, d) \in DOMAIN s /\ Skip(i, d) # d /\ t[i] = s[Skip(i, d)]
      /\ \A i, j \in DOMAIN t : Skip(i, d) = Skip(j, d) => i = j
      /\ \A k \in DOMAIN s : k # d => \E i \in DOMAIN t : k = Skip(i, d)
  BY Without
<1>2. Distinct(t)
  BY <1>1 DEF Distinct
<1>3. \A k \in DOMAIN s : k # d => s[k].hash # s[d].hash
  BY DEF Distinct, Differ
<1>4. ASSUME NEW x \in Hashes(t)  PROVE x \in Hashes(s) /\ x # s[d].hash
  <2>1. PICK i \in DOMAIN t : x = t[i].hash
    BY <1>4 DEF Hashes
  <2> QED  BY <1>1, <1>3, <2>1 DEF Hashes
<1>5. ASSUME NEW k \in DOMAIN s, s[k].hash # s[d].hash  PROVE \E i \in DOMAIN t : t[i] = s[k]
  <2>1. PICK i \in DOMAIN t : k = Skip(i, d)
    BY <1>1, <1>5
  <2> QED  BY <1>1, <2>1
<1>6. ASSUME NEW x \in Hashes(s), x # s[d].hash  PROVE x \in Hashes(t)
  <2>1. PICK k \in DOMAIN s : x = s[k].hash
    BY <1>6 DEF Hashes
  <2>2. PICK i \in DOMAIN t : t[i] = s[k]
    BY <1>5, <1>6, <2>1
  <2> QED  BY <2>1, <2>2 DEF Hashes
<1>7. ASSUME NEW h, NEW v, h # s[d].hash, In(s, h, v)  PROVE In(t, h, v)
  <2>1. PICK k \in DOMAIN s : s[k].hash = h /\ Shown(s[k]) = v
    BY <1>7 DEF In
  <2>2. PICK i \in DOMAIN t : t[i] = s[k]
    BY <1>5, <1>7, <2>1
  <2> QED  BY <2>1, <2>2 DEF In
<1> QED  BY <1>2, <1>4, <1>6, <1>7

\* The same of a removal that finds its row, or no row at all.
LEMMA RemovedRows ==
  ASSUME RowsOK, Distinct(rows), NEW d, NEW h,
         (d \in DOMAIN rows /\ rows[d].hash = h) \/ DOMAIN rows = {},
         rows' = IF d \in DOMAIN rows THEN RemoveAt(rows, d) ELSE rows
  PROVE  /\ Distinct(rows') /\ Hashes(rows') = Hashes(rows) \ {h}
         /\ \A g, v : g # h /\ In(rows, g, v) => In(rows', g, v)
<1>1. CASE d \in DOMAIN rows /\ rows[d].hash = h
  <2>1. rows \in Seq(Row) /\ rows' = RemoveAt(rows, d)
    BY <1>1 DEF RowsOK
  <2> QED  BY <1>1, <2>1, RemovedRow
<1>2. CASE DOMAIN rows = {}
  BY <1>2 DEF Distinct, Hashes, In
<1> QED  BY <1>1, <1>2

LEMMA AnswersSound ==
  ASSUME TypeInv, TypeInv', SoundParts, tidy', (\E r \in Removers : Removed(r)) \/ Cleared \/ ParseGot \/ Parsed
  PROVE  SoundParts'
<1>0. /\ RowsOK /\ StoredOK /\ LoadOK /\ AddOK /\ ParseOK /\ DelOK
      /\ asked \in Seq(Request) /\ Single(asked) /\ Block(asked, clear) /\ AddsOn
      /\ \A i \in DOMAIN asked : asked[i] \in Request /\ Fits(asked[i])
      /\ {"take", "seed", "load", "parse", "clear"} \cap Removers = {}
      /\ Listed /\ Queued /\ Distinct(catalog) /\ Alone /\ Ahead /\ HomeTypeOK /\ QueueInv
  BY Given DEF SoundParts
<1>1. ASSUME NEW r \in Removers, Removed(r)  PROVE SoundParts'
  <2>0. PICK h, q, d : h = Head(asked).hash /\ q = Tail(asked) /\ d = del[r]
    OBVIOUS
  <2>1. /\ asked # <<>> /\ Head(asked).by = r /\ asked' = q /\ catalog' = rows'
        /\ rows' = IF d \in DOMAIN rows THEN RemoveAt(rows, d) ELSE rows
        /\ del' = [del EXCEPT ![r] = 0]
        /\ UNCHANGED <<urls, nextId, load, add, parse, clear, seeded, tidy, budget>>
    BY <1>1, <2>0 DEF Removed, Answered
  <2>2. /\ q \in Seq(Request) /\ Absent(q, r) /\ Fits(Head(asked)) /\ Head(asked) = asked[1] /\ 1 \in DOMAIN asked
        /\ \A i \in DOMAIN q : q[i] \in Request /\ Fits(q[i])
    BY <1>0, <2>0, <2>1, HeadGone
  <2>3. /\ h \notin urls /\ r \in Removing
        /\ (d \in DOMAIN rows /\ rows[d].hash = h) \/ DOMAIN rows = {}
    BY <1>0, <2>0, <2>1, <2>2 DEF Queued, Placed, Fits, Removing
  <2>4. Loaded /\ \A i \in DOMAIN q : q[i].by \notin Removers
    <3>1. \A t \in Removing : t = r
      BY <1>0, <2>3 DEF Alone
    <3>2. ASSUME NEW i \in DOMAIN q, q[i].by \in Removers  PROVE q[i].by = r
      BY <2>2, <3>1, <3>2 DEF Fits, Removing
    <3> QED  BY <1>0, <2>2, <2>3, <3>2 DEF Absent, Alone
  <2>5. /\ \A i \in DOMAIN q : i + 1 \in DOMAIN asked /\ q[i] = asked[i + 1]
        /\ \A k \in DOMAIN asked : k # 1 => k - 1 \in DOMAIN q /\ q[k - 1] = asked[k]
        /\ \A i \in DOMAIN q, k \in DOMAIN asked : k < i + 1 /\ k # 1 => k - 1 < i
    <3>1. /\ Len(asked) \in Nat /\ DOMAIN asked = 1 .. Len(asked) /\ DOMAIN q = 1 .. Len(asked) - 1
          /\ \A i \in 1 .. Len(asked) - 1 : i + 1 \in DOMAIN asked /\ q[i] = asked[i + 1]
      BY <1>0, <2>0, <2>1, Tailed
    <3>2. ASSUME NEW k \in DOMAIN asked, k # 1  PROVE k - 1 \in DOMAIN q /\ q[k - 1] = asked[k]
      <4>1. k - 1 \in 1 .. Len(asked) - 1 /\ (k - 1) + 1 = k
        BY <3>1, <3>2
      <4> QED  BY <3>1, <4>1
    <3> QED  BY <3>1, <3>2

  <2>6. Distinct(rows') /\ Hashes(rows') = Hashes(rows) \ {h}
    BY <1>0, <2>1, <2>3, RemovedRows DEF Listed
  <2>7. Fresh(asked', urls', rows')
    <3> SUFFICES ASSUME NEW i \in DOMAIN q, q[i].op = "put"
                 PROVE  /\ q[i].hash \notin urls
                        /\ q[i].hash \notin Hashes(rows')
      BY <2>1 DEF Fresh
    <3>1. /\ q[i].hash \notin urls
          /\ q[i].hash \in Hashes(rows) => \E k \in DOMAIN asked :
               k < i + 1 /\ asked[k].by \in Removers /\ asked[k].hash = q[i].hash
      BY <1>0, <2>5 DEF Queued, Fresh
    <3>2. \A k \in DOMAIN asked : asked[k].by \in Removers => k = 1
      BY <2>4, <2>5
    <3>3. q[i].hash \in Hashes(rows) => q[i].hash = h
      BY <2>0, <2>2, <3>1, <3>2
    <3> QED  BY <2>6, <3>1, <3>3
  <2>8. Placed(asked', urls', rows', del')
    BY <2>1, <2>4 DEF Placed
  <2>9. Listed'
    <3>1. Dels(asked) \subseteq Dels(asked') \cup {h}
      BY <1>0, <2>0, <2>1, TailKeeps
    <3> QED  BY <1>0, <2>1, <2>3, <2>6, <3>1 DEF Listed
  <2>10. Alone' /\ Ahead'
    <3>1. \A t \in Removers : t # r => del'[t] = del[t]
      BY <1>0, <2>1 DEF DelOK
    <3>2. del'[r] = 0
      BY <1>0, <2>1 DEF DelOK
    <3>3. Removing' \subseteq Removing
      BY <3>1, <3>2 DEF Removing
    <3> QED  BY <1>0, <2>1, <2>4, <3>3 DEF Alone, Ahead, Loaded
  <2> QED  BY <2>1, <2>6, <2>7, <2>8, <2>9, <2>10 DEF SoundParts, Queued
<1>2. CASE Cleared
  <2>0. PICK q : q = Tail(asked)
    OBVIOUS
  <2>1. /\ asked # <<>> /\ Head(asked).by = "clear" /\ asked' = q /\ clear' = clear - 1
        /\ IF clear = 1 THEN rows' = <<>> /\ catalog' = <<>> ELSE UNCHANGED <<rows, catalog>>
        /\ UNCHANGED <<urls, nextId, load, add, parse, del, seeded, tidy, budget>>
    BY <1>2, <2>0 DEF Cleared, Answered
  <2>2. /\ q \in Seq(Request) /\ clear # 0 /\ clear \in Nat
        /\ \A i \in DOMAIN q : i + 1 \in DOMAIN asked /\ q[i] = asked[i + 1]
    <3>1. q \in Seq(Request) /\ clear # 0 /\ clear \in Nat
      BY <1>0, <2>0, <2>1, HeadGone DEF DelOK
    <3>2. \A i \in DOMAIN q : i + 1 \in DOMAIN asked /\ q[i] = asked[i + 1]
      BY <1>0, <2>0, <2>1, Tailed
    <3> QED  BY <3>1, <3>2
  <2>3. urls = {} /\ ~add["take"].on /\ Loaded /\ \A i \in DOMAIN q : q[i].op # "put"
    BY <1>0, <2>2, OneAdder DEF Alone
  <2>4. Fresh(asked', urls', rows')
    BY <2>1, <2>3 DEF Fresh
  <2>5. Alone' /\ Ahead'
    BY <1>0, <2>1, <2>3 DEF Alone, Ahead, Loaded, Removing
  <2>6. CASE clear = 1
    <3>1. rows' = <<>> /\ catalog' = <<>> /\ DOMAIN rows' = {} /\ DOMAIN catalog' = {}
      BY <2>1, <2>6
    <3>2. Placed(asked', urls', rows', del')
      BY <2>1, <2>3, <3>1 DEF Placed
    <3>3. Listed' /\ Distinct(catalog')
      BY <2>1, <2>3, <3>1 DEF Listed, Distinct, Hashes
    <3> QED  BY <2>4, <2>5, <3>2, <3>3 DEF SoundParts, Queued
  <2>7. CASE clear # 1
    <3>1. UNCHANGED <<rows, catalog>> /\ clear' # 0
      BY <2>1, <2>2, <2>7
    <3>2. Placed(q, urls, rows, del)
      BY <1>0, <2>0, <2>1, TailKeeps DEF Queued
    <3>3. Placed(asked', urls', rows', del') /\ Listed' /\ Distinct(catalog')
      BY <1>0, <2>1, <3>1, <3>2 DEF Listed
    <3> QED  BY <2>4, <2>5, <3>3 DEF SoundParts, Queued
  <2> QED  BY <2>6, <2>7
<1>3. CASE ParseGot
  <2>0. PICK q : q = Tail(asked)
    OBVIOUS
  <2>1. /\ asked # <<>> /\ Head(asked).by = "parse"
        /\ UNCHANGED <<rows, urls, nextId, load, add, del, clear, idb, seeded, history, budget>>
        /\ \/ asked' = q /\ UNCHANGED catalog
           \/ ParseFrom(parse.i + 1, rows, catalog, q)
    BY <1>3, <2>0 DEF ParseGot, Answered
  <2>2. q \in Seq(Request) /\ Head(asked).op = "get" /\ Head(asked).by \notin Removers
    <3>1. q \in Seq(Request) /\ Fits(Head(asked))
      BY <1>0, <2>0, <2>1, HeadGone
    <3> QED  BY <1>0, <2>1, <3>1 DEF Fits
  <2>3. GetsMore(q) /\ catalog' \in {catalog, rows}
    <3>1. CASE asked' = q /\ UNCHANGED catalog
      BY <3>1 DEF GetsMore
    <3>2. CASE ParseFrom(parse.i + 1, rows, catalog, q)
      <4>1. parse.i + 1 \in Nat /\ rows \in Seq(Row)
        BY <1>0 DEF ParseOK, RowsOK
      <4> QED  BY <1>0, <3>2, <4>1, ParseFromIs, PendingGets
    <3> QED  BY <2>1, <3>1, <3>2
  <2>4. Fresh(q, urls, rows) /\ Placed(q, urls, rows, del) /\ Dels(q) = Dels(asked)
    BY <1>0, <2>0, <2>1, <2>2, TailKeeps DEF Queued
  <2>5. Listed' /\ Queued'
    BY <1>0, <2>1, <2>2, <2>3, <2>4, Carried, Itself
  <2>6. Alone' /\ Ahead'
    BY <1>0, <2>1 DEF Alone, Ahead, Loaded, Removing
  <2> QED  BY <1>0, <2>3, <2>5, <2>6 DEF SoundParts, Listed
<1>4. CASE Parsed
  <2>1. /\ ParseFrom(parse.i + 1, rows', catalog, asked)
        /\ UNCHANGED <<urls, nextId, load, add, del, clear, idb, seeded, history, budget>>
    BY <1>4 DEF Parsed
  <2>2. Alike(rows', rows) /\ rows' \in Seq(Row)
    BY <1>0, <1>4, RowsParsed DEF Alike
  <2>3. GetsMore(asked) /\ catalog' \in {catalog, rows'}
    <3>1. parse.i + 1 \in Nat
      BY <1>0 DEF ParseOK
    <3>2. PICK rs \in Seq(Row) : rs = rows'
      BY <2>2
    <3>3. ParseEnds(rs, catalog, asked) \/ ParseAsks(rs, catalog, asked)
      BY <2>1, <3>1, <3>2, ParseFromIs
    <3>4. GetsMore(asked) /\ catalog' \in {catalog, rs}
      BY <1>0, <3>3, PendingGets
    <3> QED  BY <3>2, <3>4
  <2>4. Listed' /\ Queued'
    BY <1>0, <2>1, <2>2, <2>3, Carried DEF Queued
  <2>5. Alone'
    BY <1>0, <2>1 DEF Alone, Loaded, Removing
  <2>6. Ahead'
    BY <1>0, <2>1, <2>2 DEF Ahead, Alike, Differ
  <2> QED  BY <1>0, <2>3, <2>4, <2>5, <2>6 DEF SoundParts, Listed
<1> QED  BY <1>1, <1>2, <1>3, <1>4

\* Nothing is listed yet, and what is to come back is as the catalogue has it.
LEMMA OpenedSound == Opened /\ Distinct(catalog) => SoundParts
<1> SUFFICES ASSUME Opened, Distinct(catalog)  PROVE SoundParts
  OBVIOUS
<1>1. /\ rows = <<>> /\ urls = {} /\ clear = 0 /\ DOMAIN rows = {} /\ Hashes(rows) = {}
      /\ load.at = "restoring" /\ load.left = catalog
      /\ ~add["take"].on /\ \A r \in Removers : del[r] = 0
  BY DEF Opened, Hashes, NoAdd, Adders
<1>2. \A i \in DOMAIN asked : asked[i].op = "get" /\ asked[i].by = "load"
  BY DEF Opened, Ask
<1>3. "load" \notin Removers
  BY StandaloneAssumption
<1>4. Queued
  BY <1>2, <1>3 DEF Queued, Fresh, Placed
<1>5. Listed
  BY <1>1 DEF Listed, Distinct
<1> QED  BY <1>1, <1>4, <1>5 DEF SoundParts, Alone, Ahead, Removing, Loaded

LEMMA OpenedSoundAgain == Opened' /\ Distinct(catalog)' => SoundParts'
  BY OpenedSound, PTL

LEMMA TidyBefore ==
  ASSUME [HomeNext]_homeVars, tidy'
  PROVE  tidy
<1>1. CASE Gesture
  <2>1. ASSUME NEW ms, Take(ms)  PROVE tidy
    BY <2>1 DEF Take
  <2>2. ASSUME NEW h, SetFavorite(h)  PROVE tidy
    BY <2>2 DEF SetFavorite
  <2>3. ASSUME NEW h, NEW r, RemoveTrack(r, h)  PROVE tidy
    BY <2>3 DEF RemoveTrack
  <2>4. CASE Clear
    BY <2>4 DEF Clear
  <2> QED  BY <1>1, <2>1, <2>2, <2>3, <2>4 DEF Gesture
<1>2. CASE GoesOn
  <2>1. ASSUME NEW p, Hashed(p) \/ Landed(p)  PROVE tidy
    BY <2>1 DEF Hashed, Landed, LandedAs
  <2>2. ASSUME NEW r, Removed(r)  PROVE tidy
    BY <2>2 DEF Removed
  <2>3. CASE NothingSaved \/ SeedFetched \/ Restored
    BY <2>3 DEF NothingSaved, SeedFetched, Restored, history
  <2>4. CASE Cleared \/ ParseGot \/ Parsed
    BY <2>4 DEF Cleared, ParseGot, Parsed, history
  <2> QED  BY <1>2, <2>1, <2>2, <2>3, <2>4 DEF GoesOn
<1>3. CASE Reload
  BY <1>3 DEF Reload, history
<1>4. CASE UNCHANGED homeVars
  BY <1>4 DEF homeVars, history
<1> QED  BY <1>1, <1>2, <1>3, <1>4 DEF HomeNext

LEMMA SoundInvStep == TypeInv /\ SoundInv /\ [HomeNext]_homeVars => SoundInv'
<1> SUFFICES ASSUME TypeInv, SoundInv, [HomeNext]_homeVars, tidy'  PROVE SoundParts'
  BY DEF SoundInv
<1>1. TypeInv'
  BY TypeInvStep
<1>2. tidy
  BY TidyBefore
<1>3. SoundParts
  BY <1>2 DEF SoundInv
<1>4. CASE Gesture
  BY <1>1, <1>3, <1>4, GesturesSound
<1>5. CASE GoesOn
  BY <1>1, <1>3, <1>5, OpeningSound, TakesSound, AnswersSound DEF GoesOn
<1>6. CASE Reload
  <2>1. Opened' /\ UNCHANGED catalog
    <3>1. StoredOK
      BY Given
    <3> QED  BY <1>6, <3>1 DEF Reload, Opened, StoredOK
  <2>2. Distinct(catalog)'
    BY <1>3, <2>1 DEF SoundParts
  <2> QED  BY <2>1, <2>2, OpenedSoundAgain
<1>7. CASE UNCHANGED homeVars
  <2>1. UNCHANGED <<rows, urls, asked, catalog, load, add, del, clear>>
    BY <1>7 DEF homeVars, memory, stored
  <2>2. Listed' /\ Queued' /\ Distinct(catalog')
    BY <1>3, <2>1 DEF SoundParts, Listed, Queued
  <2>3. Alone' /\ Ahead'
    BY <1>3, <2>1 DEF SoundParts, Alone, Ahead, Loaded, Removing
  <2> QED  BY <2>2, <2>3 DEF SoundParts
<1> QED  BY <1>4, <1>5, <1>6, <1>7 DEF HomeNext

\* As long as no two gestures meet that the code does not keep apart, no two rows share an
\* id or their bytes, a module is known as loaded only while it is listed, and whatever is
\* listed and not leaving can be played.
THEOREM RowsStaySound == HomeSpec => []RowsSound
<1>1. HomeInit => TypeInv /\ SoundInv
  <2> SUFFICES ASSUME HomeInit  PROVE TypeInv /\ SoundInv
    OBVIOUS
  <2>1. Opened /\ Distinct(catalog)
    BY FirstOpened DEF Distinct, Differ
  <2> QED  BY <2>1, FirstTyped, OpenedSound DEF SoundInv
<1>2. SoundInv => RowsSound
  BY DEF SoundInv, SoundParts, Listed, Distinct, Differ, RowsSound, Dels, Leaving
<1> QED  BY <1>1, <1>2, TypeInvStep, SoundInvStep, PTL DEF HomeSpec

-----------------------------------------------------------------------------
(* What is kept.                                                           *)

Known(v)    == v \in {"plain", "fav"}
Left        == IF load.at = "restoring" THEN load.left ELSE <<>>

\* The demo is seeded once.
Seeds == /\ load.at = "seeding" => ~seeded
         /\ told[Demo] = "gone" => seeded
         /\ add["seed"].on => add["seed"].left = <<Demo>>

\* Until all the rows are back nothing is read, and so the catalogue is not written.
Quiet == load.at = "restoring" => parse.at = "off"

\* What the user relies on is stored, is not about to be deleted, and is listed or yet to
\* come back; what is gone is nowhere.
Knows == \A h \in Mods :
  /\ Known(told[h]) => /\ h \in idb /\ h \notin Dels(asked)
                       /\ In(catalog, h, told[h])
                       /\ In(rows, h, told[h]) \/ In(Left, h, told[h])
  /\ told[h] = "gone" => h \notin Hashes(rows) /\ h \notin Hashes(Left) /\ h \notin Hashes(catalog)

\* What was reported though its bytes could not be stored is saved, and listed or yet to
\* come back.
Shows == \A h \in Mods : told[h] = "unsaved" =>
           h \in Hashes(catalog) /\ (h \in Hashes(rows) \/ h \in Hashes(Left))

KeepParts == Seeds /\ Quiet /\ Knows /\ Shows
KeepInv   == tidy => KeepParts

LEMMA InListed == \A s, h, v : In(s, h, v) => h \in Hashes(s)
  BY DEF In, Hashes

LEMMA LeavingIs == Leaving = Dels(asked)
  BY DEF Leaving, Dels

LEMMA InOnce ==
  ASSUME NEW s, Distinct(s), NEW h, NEW v
  PROVE  /\ In(s, h, v) => v = IF FavOf(s, h) THEN "fav" ELSE "plain"
         /\ h \in Hashes(s) => In(s, h, IF FavOf(s, h) THEN "fav" ELSE "plain")
<1>1. ASSUME NEW i \in DOMAIN s, s[i].hash = h  PROVE Shown(s[i]) = IF FavOf(s, h) THEN "fav" ELSE "plain"
  <2>1. \A j \in DOMAIN s : s[j].hash = h => i = j
    BY <1>1 DEF Distinct, Differ
  <2>2. FavOf(s, h) <=> s[i].fav
    BY <1>1, <2>1 DEF FavOf
  <2> QED  BY <2>2 DEF Shown
<1> QED  BY <1>1 DEF In, Hashes

\* No answer has changed what is known: the list has lost nothing, and the catalogue is
\* what it was or the whole list.
LEMMA KnowsCarried ==
  ASSUME Knows, UNCHANGED <<told, idb>>, Dels(asked') \subseteq Dels(asked),
         \A h, v : In(rows, h, v) => In(rows', h, v), Hashes(rows') \subseteq Hashes(rows),
         Left' = Left, catalog' = catalog \/ (Left = <<>> /\ catalog' = rows')
  PROVE  Knows'
<1>1. \A h, v : ~In(<<>>, h, v)
  BY DEF In
<1> SUFFICES ASSUME NEW h \in Mods
             PROVE  /\ Known(told[h]) => /\ h \in idb /\ h \notin Dels(asked')
                                         /\ In(catalog', h, told[h])
                                         /\ In(rows', h, told[h]) \/ In(Left, h, told[h])
                    /\ told[h] = "gone" =>
                         h \notin Hashes(rows') /\ h \notin Hashes(Left) /\ h \notin Hashes(catalog')
  BY DEF Knows
<1> QED  BY <1>1 DEF Knows

LEMMA ShowsCarried ==
  ASSUME Shows, UNCHANGED told, Hashes(rows) \subseteq Hashes(rows'),
         Left' = Left, catalog' = catalog \/ (Left = <<>> /\ catalog' = rows')
  PROVE  Shows'
<1>1. Hashes(<<>>) = {}
  BY DEF Hashes
<1> QED  BY <1>1 DEF Shows

\* Files are added, and perhaps reported.
LEMMA AddKnows ==
  ASSUME NEW p \in Adders, AddOK, ParseOK, NEW left, NEW new, NEW rs \in Seq(Row), NEW q \in Seq(Request), NEW t \in Tellings,
         AddGoesOn(p, left, new, rs, q, t), rows' = rs, Distinct(rs), Dels(q) = Dels(asked), Left' = <<>>,
         \A h \in Mods : /\ Known(t[h]) => h \in idb' /\ h \notin Dels(asked) /\ In(catalog, h, t[h]) /\ In(rs, h, t[h])
                         /\ t[h] = "unsaved" => h \in Hashes(catalog) /\ h \in Hashes(rs)
                         /\ t[h] = "gone" => h \notin Hashes(rs) /\ h \notin Hashes(catalog)
  PROVE  Knows' /\ Shows' /\ (told'[Demo] = "gone" => t[Demo] = "gone")
<1>1. Hashes(<<>>) = {} /\ \A h, v : ~In(<<>>, h, v)
  BY DEF In, Hashes
<1>2. CASE asked' = q /\ told' = t /\ UNCHANGED <<parse, catalog>>
  BY <1>1, <1>2 DEF Knows, Shows
<1>3. CASE /\ ParsePending(rs, rs, q)
           /\ told' = [h \in Mods |->
                        IF h \notin (new \cap Hashes(rs)) \ Leaving \/ t[h] = "gone" THEN t[h]
                        ELSE IF h \notin idb' THEN "unsaved"
                        ELSE IF FavOf(rs, h) THEN "fav" ELSE "plain"]
  <2>1. catalog' = rs /\ Dels(asked') = Dels(asked)
    BY <1>3, PendingGets, MoreIsSame
  <2>2. ASSUME NEW h \in Mods
        PROVE  /\ Known(told'[h]) => h \in idb' /\ h \notin Dels(asked') /\ In(rs, h, told'[h])
               /\ told'[h] = "unsaved" => h \in Hashes(rs)
               /\ told'[h] = "gone" => t[h] = "gone"
    <3>1. CASE h \in new /\ h \in Hashes(rs) /\ h \notin Dels(asked) /\ t[h] # "gone"
      <4>1. told'[h] = IF h \notin idb' THEN "unsaved" ELSE IF FavOf(rs, h) THEN "fav" ELSE "plain"
        BY <1>3, <3>1, LeavingIs
      <4>2. In(rs, h, IF FavOf(rs, h) THEN "fav" ELSE "plain")
        BY <3>1, InOnce
      <4> QED  BY <2>1, <3>1, <4>1, <4>2 DEF Known
    <3>2. CASE ~(h \in new /\ h \in Hashes(rs) /\ h \notin Dels(asked) /\ t[h] # "gone")
      <4>1. told'[h] = t[h]
        BY <1>3, <3>2, LeavingIs
      <4> QED  BY <2>1, <4>1
    <3> QED  BY <3>1, <3>2
  <2>3. Knows' /\ Shows'
    BY <1>1, <2>1, <2>2 DEF Knows, Shows
  <2> QED  BY <2>2, <2>3, StandaloneAssumption
<1> QED  BY <1>2, <1>3 DEF AddGoesOn, AddEnds

LEMMA GesturesKeep ==
  ASSUME TypeInv, TypeInv', SoundParts, KeepParts, tidy', Gesture
  PROVE  KeepParts'
<1>0. /\ RowsOK /\ StoredOK /\ LoadOK /\ AddOK /\ ParseOK /\ DelOK /\ ToldOK
      /\ asked \in Seq(Request) /\ AddsOn
      /\ \A i \in DOMAIN asked : asked[i] \in Request /\ Fits(asked[i])
      /\ Listed /\ Queued /\ Distinct(catalog) /\ Alone /\ Ahead
      /\ Seeds /\ Quiet /\ Knows /\ Shows
  BY Given DEF SoundParts, KeepParts
<1>1. ASSUME NEW ms, Take(ms)  PROVE KeepParts'
  <2>1. /\ Loaded /\ add' = [add EXCEPT !["take"] = [on |-> TRUE, left |-> ms, new |-> {}]]
        /\ UNCHANGED <<rows, urls, nextId, asked, load, parse, del, clear, stored, told>>
    BY <1>1 DEF Take
  <2>2. add'["seed"] = add["seed"] /\ ~add["seed"].on
    BY <1>0, <2>1 DEF AddOK, Adders, AddsOn, Loaded
  <2>3. Shows'
    BY <1>0, <2>1, ShowsCarried DEF stored, Left
  <2>4. Knows'
    BY <1>0, <2>1, KnowsCarried DEF stored, Left
  <2> QED  BY <1>0, <2>1, <2>2, <2>3, <2>4 DEF KeepParts, Seeds, Quiet, stored
<1>2. ASSUME NEW h \in Mods, SetFavorite(h)  PROVE KeepParts'
  <2>1. /\ Loaded /\ catalog' = rows'
        /\ UNCHANGED <<urls, nextId, asked, load, add, parse, del, clear, idb, seeded, tidy>>
    BY <1>2 DEF SetFavorite
  <2>2. PICK i \in DOMAIN rows : /\ rows' = [rows EXCEPT ![i].fav = ~@] /\ rows[i].hash = h
                                 /\ told' = [told EXCEPT ![h] = IF @ \in {"plain", "fav"}
                                       THEN (IF rows[i].fav THEN "plain" ELSE "fav") ELSE @]
    <3>1. h \in Hashes(rows) /\ rows \in Seq(Row)
      BY <1>0, <1>2 DEF SetFavorite, RowsOK
    <3>2. Least({i \in DOMAIN rows : rows[i].hash = h}) \in DOMAIN rows
          /\ rows[Least({i \in DOMAIN rows : rows[i].hash = h})].hash = h
      BY <3>1, HashIn
    <3> QED  BY <1>2, <3>2 DEF SetFavorite
  <2>3. /\ DOMAIN rows' = DOMAIN rows /\ \A j \in DOMAIN rows : rows'[j].hash = rows[j].hash
        /\ Shown(rows'[i]) = IF rows[i].fav THEN "plain" ELSE "fav"
        /\ \A j \in DOMAIN rows : j # i => rows'[j] = rows[j]
    <3>1. PICK f \in BOOLEAN : f = ~rows[i].fav
      OBVIOUS
    <3>2. PICK y \in Row : y = [rows[i] EXCEPT !.fav = f] /\ y.hash = rows[i].hash /\ y.fav = f
      <4>1. PICK x \in Row : x = rows[i]
        BY <1>0, EntryIn DEF RowsOK
      <4>2. /\ [x EXCEPT !.fav = f] \in Row
            /\ [x EXCEPT !.fav = f].hash = x.hash /\ [x EXCEPT !.fav = f].fav = f
        BY FieldSet, Zenon DEF Row
      <4> QED  BY <4>1, <4>2, Zenon
    <3>3. rows' = [rows EXCEPT ![i] = y]
      BY <1>0, <2>2, <3>1, <3>2 DEF RowsOK
    <3>4. Shown(y) = IF rows[i].fav THEN "plain" ELSE "fav"
      BY <3>1, <3>2 DEF Shown
    <3> QED  BY <1>0, <3>2, <3>3, <3>4 DEF RowsOK
  <2>4. Hashes(rows') = Hashes(rows) /\ h \in Hashes(rows)
    BY <2>2, <2>3 DEF Hashes
  <2>5. \A g, v : g # h /\ In(rows, g, v) => In(rows', g, v)
    BY <2>2, <2>3 DEF In
  <2>6. /\ \A g \in Mods : g # h => told'[g] = told[g]
        /\ ~Known(told[h]) => told'[h] = told[h]
        /\ Known(told[h]) => told'[h] = Shown(rows'[i])
    BY <1>0, <2>2, <2>3 DEF ToldOK, Tellings, Known
  <2>7. Left = <<>> /\ Left' = <<>> /\ Hashes(<<>>) = {} /\ \A g, v : ~In(<<>>, g, v)
    BY <2>1 DEF Left, Loaded, Hashes, In
  <2>8. Knows'
    <3> SUFFICES ASSUME NEW g \in Mods
                 PROVE  /\ Known(told'[g]) => g \in idb /\ g \notin Dels(asked) /\ In(rows', g, told'[g])
                        /\ told'[g] = "gone" => g \notin Hashes(rows')
      BY <2>1, <2>7 DEF Knows
    <3>1. CASE g = h
      <4>1. Known(told'[h]) => Known(told[h])
        BY <2>6
      <4>2. told[h] # "gone"
        BY <1>0, <2>4 DEF Knows
      <4>3. told'[h] # "gone"
        BY <2>6, <4>2 DEF Shown
      <4>4. In(rows', h, Shown(rows'[i]))
        BY <2>2, <2>3 DEF In
      <4> QED  BY <1>0, <2>6, <3>1, <4>1, <4>3, <4>4 DEF Knows
    <3>2. CASE g # h
      <4>1. told'[g] = told[g]
        BY <2>6, <3>2
      <4>2. /\ Known(told[g]) => g \in idb /\ g \notin Dels(asked) /\ In(rows, g, told[g])
            /\ told[g] = "gone" => g \notin Hashes(rows)
        BY <1>0, <2>7 DEF Knows
      <4> QED  BY <2>4, <2>5, <3>2, <4>1, <4>2
    <3> QED  BY <3>1, <3>2
  <2>9. Shows'
    <3>1. \A g \in Mods : told'[g] = "unsaved" => told[g] = "unsaved"
      BY <2>6 DEF Shown
    <3> QED  BY <1>0, <2>1, <2>4, <2>7, <3>1 DEF Shows
  <2>10. Seeds'
    <3>1. told'[Demo] = "gone" => told[Demo] = "gone"
      BY <2>6, StandaloneAssumption DEF Known, Shown
    <3> QED  BY <1>0, <2>1, <3>1 DEF Seeds
  <2> QED  BY <1>0, <2>1, <2>8, <2>9, <2>10 DEF KeepParts, Quiet
<1>3. ASSUME NEW h \in Mods, NEW r \in Removers, RemoveTrack(r, h)  PROVE KeepParts'
  <2>1. /\ Loaded /\ asked' = Append(asked, Ask("del", h, r)) /\ told' = [told EXCEPT ![h] = "nothing"]
        /\ UNCHANGED <<rows, nextId, load, add, parse, clear, stored>>
    BY <1>3 DEF RemoveTrack
  <2>2. PICK x \in Request : x = Ask("del", h, r) /\ x.op = "del" /\ x.hash = h
    BY AskTyped DEF Actors
  <2>3. Dels(asked') = Dels(asked) \cup {h}
    <3>1. asked' = Append(asked, x)
      BY <2>1, <2>2
    <3>2. /\ DOMAIN asked = 1 .. Len(asked) /\ Len(asked) \in Nat /\ DOMAIN asked' = 1 .. Len(asked) + 1
          /\ \A i \in 1 .. Len(asked) : asked'[i] = asked[i]
          /\ asked'[Len(asked) + 1] = x
      BY <1>0, <3>1, Appended
    <3>3. /\ \A i \in DOMAIN asked' : (i \in DOMAIN asked /\ asked'[i] = asked[i]) \/ asked'[i] = x
          /\ \A i \in DOMAIN asked : i \in DOMAIN asked' /\ asked'[i] = asked[i]
          /\ \E i \in DOMAIN asked' : asked'[i] = x
      BY <3>2
    <3> QED  BY <2>2, <3>3 DEF Dels
  <2>4. told'[h] = "nothing" /\ \A g \in Mods : g # h => told'[g] = told[g]
    BY <1>0, <2>1 DEF ToldOK, Tellings
  <2>5. Knows'
    <3> SUFFICES ASSUME NEW g \in Mods, g # h
                 PROVE  /\ Known(told[g]) => /\ g \in idb /\ g \notin Dels(asked')
                                             /\ In(catalog, g, told[g])
                                             /\ In(rows, g, told[g]) \/ In(Left, g, told[g])
                        /\ told[g] = "gone" =>
                             g \notin Hashes(rows) /\ g \notin Hashes(Left) /\ g \notin Hashes(catalog)
      BY <2>1, <2>4 DEF Knows, Known, Left, stored
    <3> QED  BY <1>0, <2>3 DEF Knows
  <2>6. Shows'
    BY <1>0, <2>1, <2>4 DEF Shows, Left, stored
  <2>7. Seeds'
    <3>1. told'[Demo] = "gone" => told[Demo] = "gone"
      BY <2>4, StandaloneAssumption
    <3> QED  BY <1>0, <2>1, <3>1 DEF Seeds, stored
  <2> QED  BY <1>0, <2>1, <2>5, <2>6, <2>7 DEF KeepParts, Quiet
<1>4. CASE Clear
  <2>1. /\ Loaded /\ ~add["take"].on
        /\ UNCHANGED <<rows, nextId, load, add, parse, del, idb, seeded>>
        /\ IF rows = <<>> THEN catalog' = <<>> /\ told' = [h \in Mods |-> Gone(h)]
                          ELSE told' = [h \in Mods |-> "nothing"] /\ UNCHANGED catalog
    BY <1>4 DEF Clear
  <2>2. /\ \A h \in Mods : told'[h] # "unsaved" /\ (told'[h] # "gone" => ~Known(told'[h]))
        /\ \A h \in Mods : told'[h] = "gone" => rows = <<>> /\ catalog' = <<>>
        /\ told'[Demo] = "gone" => seeded
    BY <2>1, StandaloneAssumption DEF Gone, Known
  <2>3. Left' = <<>> /\ Hashes(<<>>) = {}
    BY <2>1 DEF Left, Loaded, Hashes
  <2>4. Knows'
    BY <2>1, <2>2, <2>3 DEF Knows, Known
  <2>5. Shows'
    BY <2>2 DEF Shows
  <2> QED  BY <1>0, <2>1, <2>2, <2>4, <2>5 DEF KeepParts, Seeds, Quiet
<1> QED  BY <1>1, <1>2, <1>3, <1>4 DEF Gesture

LEMMA TakesKeep ==
  ASSUME TypeInv, TypeInv', SoundParts, SoundParts', KeepParts, tidy', NEW p \in Adders, Hashed(p) \/ Landed(p)
  PROVE  KeepParts'
<1>0. /\ RowsOK /\ StoredOK /\ LoadOK /\ AddOK /\ ParseOK /\ DelOK /\ ToldOK
      /\ asked \in Seq(Request) /\ AddsOn
      /\ \A i \in DOMAIN asked : asked[i] \in Request /\ Fits(asked[i])
      /\ Listed /\ Queued /\ Distinct(catalog) /\ Alone /\ Ahead
      /\ Seeds /\ Quiet /\ Knows /\ Shows
      /\ p \in {"take", "seed"} /\ HomeTypeOK /\ QueueInv
  BY Given DEF SoundParts, KeepParts, Adders
<1>1. add[p].on
  <2>1. CASE Hashed(p)
    BY <2>1 DEF Hashed
  <2>2. CASE Landed(p)
    <3>1. asked # <<>> /\ Head(asked).by = p
      BY <2>2 DEF Landed, LandedAs, Answered
    <3>2. Fits(Head(asked))
      BY <1>0, <3>1, HeadGone
    <3> QED  BY <3>1, <3>2 DEF Fits
  <2> QED  BY <2>1, <2>2
<1>2. load.at # "restoring" /\ \A o \in Adders : add[o].on => o = p
  BY <1>0, <1>1, OneAdder
<1>3. Left = <<>> /\ Hashes(<<>>) = {} /\ \A h, v : ~In(<<>>, h, v)
  BY <1>2 DEF Left, Hashes, In
<1>4. p = "seed" => /\ add["seed"].left = <<Demo>> /\ Tail(add["seed"].left) = <<>> /\ Head(add["seed"].left) = Demo
                    /\ load.at = "seeding" /\ ~seeded
  <2>1. PICK d \in Mods : d = Demo
    BY StandaloneAssumption
  <2>2. Len(<<d>>) = 1 /\ Head(<<d>>) = d /\ Tail(<<d>>) = <<>>
    OBVIOUS
  <2>3. p = "seed" => add["seed"].left = <<Demo>> /\ load.at = "seeding" /\ ~seeded
    BY <1>0, <1>1 DEF Seeds, AddsOn
  <2> QED  BY <2>1, <2>2, <2>3
\* With the demo in, it is not seeded again.
<1>5. ASSUME SeedOver(p, Tail(add[p].left)),
             \/ add' = [add EXCEPT ![p] = NoAdd]
             \/ p = "take" /\ \E v : add' = [add EXCEPT ![p] = v],
             told'[Demo] = "gone" => told[Demo] = "gone"
      PROVE  Seeds' /\ Left' = <<>> /\ load'.at # "restoring"
  <2>1. CASE p = "seed"
    <3>1. seeded' = TRUE /\ load'.at = "done"
      BY <1>0, <1>4, <1>5, <2>1 DEF SeedOver, LoadOK
    <3>2. ~add'["seed"].on
      BY <1>0, <1>5, <2>1 DEF AddOK, NoAdd, Adders
    <3> QED  BY <3>1, <3>2 DEF Seeds, Left
  <2>2. CASE p = "take"
    <3>1. UNCHANGED <<seeded, load>> /\ add'["seed"] = add["seed"]
      BY <1>0, <1>5, <2>2 DEF SeedOver, AddOK, Adders
    <3> QED  BY <1>0, <1>2, <1>3, <1>5, <3>1 DEF Seeds, Left
  <2> QED  BY <1>0, <2>1, <2>2
<1>6. \A new, rs, q, t : AddGoesOn(p, Tail(add[p].left), new, rs, q, t) =>
        \/ add' = [add EXCEPT ![p] = NoAdd]
        \/ p = "take" /\ \E v : add' = [add EXCEPT ![p] = v]
  <2> SUFFICES ASSUME NEW new, NEW rs, NEW q, NEW t, AddGoesOn(p, Tail(add[p].left), new, rs, q, t)
               PROVE  \/ add' = [add EXCEPT ![p] = NoAdd]
                      \/ p = "take" /\ \E v : add' = [add EXCEPT ![p] = v]
    OBVIOUS
  <2>0. PICK left : left = Tail(add[p].left)
    OBVIOUS
  <2>1. CASE add' = [add EXCEPT ![p] = NoAdd]
    BY <2>1
  <2>2. CASE add' = [add EXCEPT ![p] = IF left = <<>> THEN NoAdd ELSE [@ EXCEPT !.left = left, !.new = new]]
    BY <1>0, <1>4, <2>0, <2>2
  <2> QED  BY <2>0, <2>1, <2>2 DEF AddGoesOn, AddEnds
<1>7. CASE Hashed(p)
  <2>1. UNCHANGED <<rows, urls, nextId, del, clear, idb, tidy, budget>>
    BY <1>7 DEF Hashed
  <2>2. CASE AddGoesOn(p, Tail(add[p].left), add[p].new, rows, asked, told) /\ SeedOver(p, Tail(add[p].left))
    <3>1. Left' = <<>> /\ load'.at # "restoring"
      BY <1>0, <1>2, <1>3, <2>2 DEF SeedOver, LoadOK, Left
    <3>2. Knows' /\ Shows' /\ (told'[Demo] = "gone" => told[Demo] = "gone")
      <4>1. PICK left, new, rs, q, t : left = Tail(add[p].left) /\ new = add[p].new /\ rs = rows /\ q = asked /\ t = told
        OBVIOUS
      <4>2. /\ rs \in Seq(Row) /\ q \in Seq(Request) /\ t \in Tellings /\ AddGoesOn(p, left, new, rs, q, t)
            /\ rows' = rs /\ Distinct(rs) /\ Dels(q) = Dels(asked) /\ idb' = idb
        BY <1>0, <2>1, <2>2, <4>1 DEF RowsOK, ToldOK, Listed
      <4>3. \A h \in Mods : /\ Known(t[h]) => h \in idb' /\ h \notin Dels(asked) /\ In(catalog, h, t[h]) /\ In(rs, h, t[h])
                            /\ t[h] = "unsaved" => h \in Hashes(catalog) /\ h \in Hashes(rs)
                            /\ t[h] = "gone" => h \notin Hashes(rs) /\ h \notin Hashes(catalog)
        BY <1>0, <1>3, <4>1, <4>2 DEF Knows, Shows
      <4> QED  BY <1>0, <3>1, <4>1, <4>2, <4>3, AddKnows
    <3>3. Seeds'
      BY <1>5, <1>6, <2>2, <3>2
    <3> QED  BY <3>1, <3>2, <3>3 DEF KeepParts, Quiet
  <2>3. CASE /\ asked' = Append(asked, Ask("put", Head(add[p].left), p))
             /\ UNCHANGED <<add, parse, catalog, told, seeded, load>>
    <3>1. PICK x \in Request : x = Ask("put", Head(add[p].left), p) /\ x.op = "put"
      <4>1. add[p].left \in Seq(Mods) /\ add[p].left # <<>>
        BY <1>0, <1>1 DEF AddOK, AddsOn
      <4>2. Head(add[p].left) \in Mods
        BY <4>1, Tailed
      <4> QED  BY <4>2, AskTyped DEF Actors
    <3>2. Dels(asked') = Dels(asked)
      <4>1. asked' = Append(asked, x)
        BY <2>3, <3>1
      <4>2. /\ DOMAIN asked = 1 .. Len(asked) /\ Len(asked) \in Nat /\ DOMAIN asked' = 1 .. Len(asked) + 1
            /\ \A i \in 1 .. Len(asked) : asked'[i] = asked[i]
            /\ asked'[Len(asked) + 1] = x
        BY <1>0, <4>1, Appended
      <4>3. /\ \A i \in DOMAIN asked' : (i \in DOMAIN asked /\ asked'[i] = asked[i]) \/ asked'[i] = x
            /\ \A i \in DOMAIN asked : i \in DOMAIN asked' /\ asked'[i] = asked[i]
        BY <4>2
      <4> QED  BY <3>1, <4>3 DEF Dels
    <3>3. Knows'
      BY <1>0, <2>1, <2>3, <3>2, KnowsCarried DEF Left
    <3>4. Shows'
      BY <1>0, <2>1, <2>3, ShowsCarried DEF Left
    <3> QED  BY <1>0, <2>3, <3>3, <3>4 DEF KeepParts, Seeds, Quiet
  <2> QED  BY <1>7, <2>2, <2>3 DEF Hashed
<1>8. CASE Landed(p)
  <2>0. PICK h, q : h = Head(asked).hash /\ q = Tail(asked)
    OBVIOUS
  <2>1. /\ asked # <<>> /\ Head(asked).by = p
        /\ rows' = Append(rows, [id |-> nextId, hash |-> h, meta |-> FALSE, fav |-> FALSE])
        /\ SeedOver(p, Tail(add[p].left))
    BY <1>8, <2>0 DEF Landed, LandedAs, Answered
  <2>2. /\ q \in Seq(Request) /\ h \in Mods /\ Head(asked) = asked[1] /\ 1 \in DOMAIN asked
        /\ Head(asked).op = "put" /\ (p = "seed" => h = Demo)
    <3>1. /\ q \in Seq(Request) /\ Fits(Head(asked)) /\ Head(asked) = asked[1] /\ 1 \in DOMAIN asked
          /\ Head(asked) \in Request
      BY <1>0, <2>0, <2>1, HeadGone
    <3>2. h \in Mods
      BY <2>0, <3>1 DEF Request
    <3> QED  BY <1>4, <2>0, <2>1, <3>1, <3>2 DEF Fits, Adders
  <2>3. h \notin Hashes(rows)
    <3>1. \A k \in DOMAIN asked : ~(k < 1)
      BY <1>0, LenProperties
    <3> QED  BY <1>0, <2>0, <2>2, <3>1 DEF Queued, Fresh
  <2>4. ~Known(told[h]) /\ told[h] # "unsaved" /\ (p = "seed" => told[h] # "gone")
    <3>0. told[h] # "unsaved"
      BY <1>0, <1>3, <2>2, <2>3 DEF Shows
    <3>1. Known(told[h]) => In(rows, h, told[h])
      BY <1>0, <1>3, <2>2 DEF Knows
    <3>2. p = "seed" => told[h] # "gone"
      BY <1>0, <1>4, <2>2 DEF Seeds
    <3> QED  BY <2>3, <3>0, <3>1, <3>2, InListed
  <2>5. PICK t \in Tellings :
          /\ AddGoesOn(p, Tail(add[p].left), add[p].new \cup {h}, rows', q, t)
          /\ \A g \in Mods : g # h => t[g] = told[g]
          /\ t[h] # "gone" /\ ~Known(t[h]) /\ t[h] # "unsaved"
          /\ idb \subseteq idb'
    <3>1. AddGoesOn(p, Tail(add[p].left), add[p].new \cup {h}, rows', q,
                    [told EXCEPT ![h] = IF p = "seed" THEN @ ELSE "nothing"])
      BY <1>8, <2>0 DEF Landed, LandedAs
    <3>2. PICK t \in Tellings : t = [told EXCEPT ![h] = IF p = "seed" THEN @ ELSE "nothing"]
      BY <1>0, <2>2 DEF ToldOK, Tellings
    <3>3. (\A g \in Mods : g # h => t[g] = told[g]) /\ t[h] # "gone" /\ ~Known(t[h]) /\ t[h] # "unsaved"
      BY <1>0, <2>2, <2>4, <3>2 DEF ToldOK, Tellings, Known
    <3>4. idb \subseteq idb'
      BY <1>8 DEF Landed, LandedAs
    <3> QED  BY <3>1, <3>2, <3>3, <3>4
  <2>6. Dels(q) = Dels(asked)
    BY <1>0, <2>0, <2>1, <2>2, TailKeeps
  <2>7. /\ Distinct(rows') /\ Hashes(rows') = Hashes(rows) \cup {h} /\ rows' \in Seq(Row)
        /\ \A g, v : In(rows, g, v) => In(rows', g, v)
    <3>1. PICK y \in Row : y = [id |-> nextId, hash |-> h, meta |-> FALSE, fav |-> FALSE] /\ y.hash = h
      BY <1>0, <2>2, RowMade DEF RowsOK
    <3>2. /\ DOMAIN rows' = 1 .. Len(rows) + 1 /\ DOMAIN rows = 1 .. Len(rows) /\ rows' \in Seq(Row)
          /\ Len(rows) \in Nat /\ rows'[Len(rows) + 1] = y /\ \A i \in 1 .. Len(rows) : rows'[i] = rows[i]
      BY <1>0, <2>1, <3>1, Appended DEF RowsOK
    <3>3. /\ \A i \in DOMAIN rows' : (i \in DOMAIN rows /\ rows'[i] = rows[i]) \/ rows'[i] = y
          /\ \A i \in DOMAIN rows : i \in DOMAIN rows' /\ rows'[i] = rows[i]
          /\ \E i \in DOMAIN rows' : rows'[i] = y
      BY <3>2
    <3>4. Hashes(rows') = Hashes(rows) \cup {h}
      BY <3>1, <3>3 DEF Hashes
    <3>5. \A g, v : In(rows, g, v) => In(rows', g, v)
      BY <3>3 DEF In
    <3> QED  BY <3>2, <3>4, <3>5 DEF SoundParts, Listed
  <2>8. Left' = <<>> /\ load'.at # "restoring"
    BY <1>0, <1>2, <1>3, <2>1 DEF SeedOver, LoadOK, Left
  <2>9. Knows' /\ Shows' /\ (told'[Demo] = "gone" => t[Demo] = "gone")
    <3>1. PICK left, new, rs : left = Tail(add[p].left) /\ new = add[p].new \cup {h} /\ rs = rows'
      OBVIOUS
    <3>2. /\ rs \in Seq(Row) /\ AddGoesOn(p, left, new, rs, q, t) /\ rows' = rs /\ Distinct(rs)
          /\ Hashes(rs) = Hashes(rows) \cup {h}
      BY <2>5, <2>7, <3>1
    <3>3. ASSUME NEW g \in Mods
          PROVE  /\ Known(t[g]) => g \in idb' /\ g \notin Dels(asked) /\ In(catalog, g, t[g]) /\ In(rs, g, t[g])
                 /\ t[g] = "unsaved" => g \in Hashes(catalog) /\ g \in Hashes(rs)
                 /\ t[g] = "gone" => g \notin Hashes(rs) /\ g \notin Hashes(catalog)
      <4>1. CASE g = h
        BY <2>5, <4>1
      <4>2. CASE g # h
        <5>1. t[g] = told[g]
          BY <2>5, <4>2
        <5>2. /\ Known(told[g]) => g \in idb /\ g \notin Dels(asked) /\ In(catalog, g, told[g]) /\ In(rows, g, told[g])
              /\ told[g] = "unsaved" => g \in Hashes(catalog) /\ g \in Hashes(rows)
              /\ told[g] = "gone" => g \notin Hashes(rows) /\ g \notin Hashes(catalog)
          BY <1>0, <1>3 DEF Knows, Shows
        <5>3. In(rows, g, told[g]) => In(rs, g, told[g])
          BY <2>7, <3>1
        <5> QED  BY <2>5, <3>2, <4>2, <5>1, <5>2, <5>3
      <4> QED  BY <4>1, <4>2
    <3> QED  BY <1>0, <2>2, <2>6, <2>8, <3>2, <3>3, AddKnows
  <2>10. told'[Demo] = "gone" => told[Demo] = "gone"
    BY <2>5, <2>9, StandaloneAssumption
  <2>11. Seeds'
    BY <1>5, <1>6, <2>1, <2>5, <2>10
  <2> QED  BY <2>8, <2>9, <2>11 DEF KeepParts, Quiet
<1> QED  BY <1>7, <1>8

LEMMA OpeningKeeps ==
  ASSUME TypeInv, TypeInv', SoundParts, SoundParts', KeepParts, tidy', NothingSaved \/ SeedFetched \/ Restored
  PROVE  KeepParts'
<1>0. /\ RowsOK /\ StoredOK /\ LoadOK /\ AddOK /\ ParseOK /\ DelOK /\ ToldOK
      /\ asked \in Seq(Request) /\ AddsOn
      /\ \A i \in DOMAIN asked : asked[i] \in Request /\ Fits(asked[i])
      /\ Listed /\ Queued /\ Distinct(catalog) /\ Alone /\ Ahead
      /\ Seeds /\ Quiet /\ Knows /\ Shows /\ HomeTypeOK /\ QueueInv
  BY Given DEF SoundParts, KeepParts
<1>1. Hashes(<<>>) = {} /\ \A h, v : ~In(<<>>, h, v)
  BY DEF Hashes, In
<1>2. load.at = "restoring" => \A p \in Adders : ~add[p].on
  BY <1>0, OneAdder
<1>3. CASE NothingSaved
  <2>1. /\ load.at = "restoring" /\ load.left = <<>> /\ RestoreEnds(rows, asked)
        /\ UNCHANGED <<rows, urls, nextId, add, del, clear, idb, seeded, history, budget>>
    BY <1>3 DEF NothingSaved
  <2>2. /\ GetsMore(asked) /\ catalog' \in {catalog, rows} /\ load' = SeedIfEmpty(rows)
    BY <1>0, <2>1, PendingGets DEF RestoreEnds, RowsOK
  <2>3. load'.at # "restoring" /\ (load'.at = "seeding" => ~seeded)
    BY <2>2 DEF SeedIfEmpty
  <2>4. Knows'
    <3>1. Dels(asked') = Dels(asked)
      BY <1>0, <2>2, MoreIsSame
    <3>2. Left = <<>> /\ Left' = <<>>
      BY <2>1, <2>3 DEF Left
    <3> QED  BY <1>0, <2>1, <2>2, <3>1, <3>2, KnowsCarried DEF history
  <2>5. Shows'
    BY <1>0, <2>1, <2>2, <2>3, ShowsCarried DEF history, Left
  <2>6. Seeds'
    BY <1>0, <1>2, <2>1, <2>3 DEF Seeds, history, Adders
  <2> QED  BY <2>3, <2>4, <2>5, <2>6 DEF KeepParts, Quiet
<1>4. CASE SeedFetched
  <2>1. /\ load.at = "seeding" /\ ~add["seed"].on
        /\ UNCHANGED <<rows, urls, nextId, asked, parse, del, clear, stored, history, budget>>
        /\ \/ add' = [add EXCEPT !["seed"] = [on |-> TRUE, left |-> <<Demo>>, new |-> {}]] /\ UNCHANGED load
           \/ load' = [load EXCEPT !.at = "done"] /\ UNCHANGED add
    BY <1>4 DEF SeedFetched
  <2>2. load'.at # "restoring" /\ (load'.at = "seeding" => ~seeded)
    BY <1>0, <2>1 DEF LoadOK, Seeds
  <2>3. add'["seed"].on => add'["seed"].left = <<Demo>>
    <3>2. CASE add' = [add EXCEPT !["seed"] = [on |-> TRUE, left |-> <<Demo>>, new |-> {}]]
      BY <1>0, <3>2 DEF AddOK, Adders
    <3>3. CASE UNCHANGED add
      BY <2>1, <3>3
    <3> QED  BY <2>1, <3>2, <3>3
  <2>4. Knows'
    <3>1. Left = <<>> /\ Left' = <<>>
      BY <2>1, <2>2 DEF Left
    <3> QED  BY <1>0, <2>1, <3>1, KnowsCarried DEF history, stored
  <2>5. Shows'
    BY <1>0, <2>1, <2>2, ShowsCarried DEF history, stored, Left
  <2>6. Seeds'
    BY <1>0, <2>1, <2>2, <2>3 DEF Seeds, history, stored
  <2> QED  BY <2>2, <2>4, <2>5, <2>6 DEF KeepParts, Quiet
<1>5. CASE Restored
  <2>0. PICK row, q : row = Head(load.left) /\ q = Tail(asked)
    OBVIOUS
  <2>1. /\ asked # <<>> /\ Head(asked).by = "load" /\ UNCHANGED <<add, del, clear, idb, seeded, tidy>>
        /\ Restore(Tail(load.left), rows', q)
        /\ \/ rows' = Append(rows, row) /\ UNCHANGED told
           \/ UNCHANGED rows /\ told' = [told EXCEPT ![row.hash] = "dropped"]
    BY <1>5, <2>0 DEF Restored, Answered
  <2>2. q \in Seq(Request) /\ Head(asked).op = "get" /\ load.at = "restoring" /\ load.left # <<>>
    <3>1. q \in Seq(Request) /\ Fits(Head(asked))
      BY <1>0, <2>0, <2>1, HeadGone
    <3> QED  BY <2>1, <3>1 DEF Fits
  <2>3. PICK s \in Seq(Row) : s = load.left /\ s # <<>>
    BY <1>0, <2>2 DEF LoadOK
  <2>4. PICK t \in Seq(Row), rs \in Seq(Row) : t = Tail(s) /\ rs = rows'
    <3>1. rows' \in Seq(Row)
      BY DEF TypeInv, HomeTypeOK
    <3> QED  BY <2>3, <3>1, Tailed
  \* What is left now is what was, but for the first row.
  <2>5. /\ row \in Row /\ row.hash \in Mods
        /\ \A h, v : In(s, h, v) => (h = row.hash /\ v = Shown(row)) \/ In(t, h, v)
        /\ Hashes(t) \subseteq Hashes(s) /\ row.hash \in Hashes(s)
        /\ Hashes(s) \subseteq Hashes(t) \cup {row.hash}
    <3>1. /\ row = s[1] /\ 1 \in DOMAIN s /\ row \in Row /\ Len(s) \in Nat /\ DOMAIN s = 1 .. Len(s)
          /\ DOMAIN t = 1 .. Len(s) - 1
          /\ \A i \in 1 .. Len(s) - 1 : i + 1 \in DOMAIN s /\ t[i] = s[i + 1]
      BY <2>0, <2>3, <2>4, Tailed
    <3>2. \A i \in DOMAIN t : i + 1 \in DOMAIN s /\ t[i] = s[i + 1]
      BY <3>1
    <3>3. \A k \in DOMAIN s : k # 1 => k - 1 \in DOMAIN t /\ t[k - 1] = s[k]
      <4>1. \A k \in DOMAIN s : k # 1 => k - 1 \in 1 .. Len(s) - 1 /\ (k - 1) + 1 = k
        BY <3>1
      <4> QED  BY <3>1, <4>1
    <3>4. \A h, v : In(s, h, v) => (h = row.hash /\ v = Shown(row)) \/ In(t, h, v)
      <4> SUFFICES ASSUME NEW h, NEW v, In(s, h, v)  PROVE (h = row.hash /\ v = Shown(row)) \/ In(t, h, v)
        OBVIOUS
      <4>1. PICK k \in DOMAIN s : s[k].hash = h /\ Shown(s[k]) = v
        BY DEF In
      <4> QED  BY <3>1, <3>3, <4>1 DEF In
    <3>5. Hashes(t) \subseteq Hashes(s) /\ row.hash \in Hashes(s)
      BY <3>1, <3>2 DEF Hashes
    <3>6. Hashes(s) \subseteq Hashes(t) \cup {row.hash}
      BY <3>1, <3>3 DEF Hashes
    <3> QED  BY <3>1, <3>4, <3>5, <3>6 DEF Row
  <2>6. Left = s
    BY <2>2, <2>3 DEF Left
  <2>7. /\ GetsMore(q) /\ catalog' \in {catalog, rs} /\ (t # <<>> => UNCHANGED <<parse, catalog>>)
        /\ Left' = t /\ (load'.at = "seeding" => ~seeded) /\ (load'.at = "restoring" => t # <<>>)
    <3>1. GetsMore(q) /\ catalog' \in {catalog, rs}
      BY <1>0, <2>1, <2>2, <2>3, <2>4, RestoreGets
    <3>2. CASE t = <<>> /\ load' = SeedIfEmpty(rs)
      BY <3>1, <3>2 DEF SeedIfEmpty, Left
    <3>3. CASE t # <<>> /\ load' = [at |-> "restoring", left |-> t] /\ UNCHANGED <<parse, catalog>>
      BY <3>1, <3>3 DEF Left
    <3> QED  BY <2>1, <2>3, <2>4, <3>2, <3>3 DEF Restore, RestoreEnds
  <2>8. Dels(asked') = Dels(asked)
    BY <1>0, <2>0, <2>1, <2>2, <2>7, TailKeeps, MoreIsSame
  <2>9. /\ \A h, v : In(rows, h, v) => In(rows', h, v)
        /\ Hashes(rows) \subseteq Hashes(rows') /\ Hashes(rows') \subseteq Hashes(rows) \cup {row.hash}
        /\ In(rows', row.hash, Shown(row)) \/ told'[row.hash] = "dropped"
        /\ told'[row.hash] \in {told[row.hash], "dropped"} /\ \A h \in Mods : h # row.hash => told'[h] = told[h]
    <3>1. CASE rows' = Append(rows, row) /\ UNCHANGED told
      <4>1. /\ DOMAIN rows' = 1 .. Len(rows) + 1 /\ DOMAIN rows = 1 .. Len(rows)
            /\ Len(rows) \in Nat /\ rows'[Len(rows) + 1] = row /\ \A i \in 1 .. Len(rows) : rows'[i] = rows[i]
        BY <1>0, <2>5, <3>1, Appended DEF RowsOK
      <4>2. /\ \A i \in DOMAIN rows' : (i \in DOMAIN rows /\ rows'[i] = rows[i]) \/ rows'[i] = row
            /\ \A i \in DOMAIN rows : i \in DOMAIN rows' /\ rows'[i] = rows[i]
            /\ \E i \in DOMAIN rows' : rows'[i] = row
        BY <4>1
      <4>3. Hashes(rows) \subseteq Hashes(rows') /\ Hashes(rows') \subseteq Hashes(rows) \cup {row.hash}
        BY <4>2 DEF Hashes
      <4>4. (\A h, v : In(rows, h, v) => In(rows', h, v)) /\ In(rows', row.hash, Shown(row))
        BY <4>2 DEF In
      <4> QED  BY <3>1, <4>3, <4>4
    <3>2. CASE UNCHANGED rows /\ told' = [told EXCEPT ![row.hash] = "dropped"]
      BY <1>0, <2>5, <3>2 DEF ToldOK, Tellings
    <3> QED  BY <2>1, <3>1, <3>2
  <2>10. Knows'
    <3> SUFFICES ASSUME NEW h \in Mods
                 PROVE  /\ Known(told'[h]) => /\ h \in idb /\ h \notin Dels(asked)
                                              /\ In(catalog', h, told'[h])
                                              /\ In(rows', h, told'[h]) \/ In(t, h, told'[h])
                        /\ told'[h] = "gone" =>
                             h \notin Hashes(rows') /\ h \notin Hashes(t) /\ h \notin Hashes(catalog')
      BY <2>1, <2>7, <2>8 DEF Knows
    <3>1. ASSUME Known(told'[h])
          PROVE  /\ h \in idb /\ h \notin Dels(asked) /\ In(catalog, h, told'[h])
                 /\ In(rows', h, told'[h]) \/ In(t, h, told'[h])
      <4>1. told'[h] = told[h]
        BY <2>5, <2>9, <3>1 DEF Known
      <4>2. /\ h \in idb /\ h \notin Dels(asked) /\ In(catalog, h, told[h])
            /\ In(rows, h, told[h]) \/ In(s, h, told[h])
        BY <1>0, <2>6, <3>1, <4>1 DEF Knows
      <4>3. told'[h] # "dropped"
        BY <3>1 DEF Known
      <4> QED  BY <2>5, <2>9, <4>1, <4>2, <4>3
    <3>2. ASSUME told'[h] = "gone"  PROVE h \notin Hashes(rows') /\ h \notin Hashes(t) /\ h \notin Hashes(catalog)
      <4>1. told[h] = "gone"
        BY <2>5, <2>9, <3>2
      <4>2. h \notin Hashes(rows) /\ h \notin Hashes(s) /\ h \notin Hashes(catalog)
        BY <1>0, <2>6, <4>1 DEF Knows
      <4> QED  BY <2>5, <2>9, <4>2
    <3>3. t = <<>> => ~In(t, h, told'[h])
      BY <1>1
    <3> QED  BY <2>4, <2>7, <3>1, <3>2, <3>3
  <2>11. Shows'
    <3> SUFFICES ASSUME NEW h \in Mods, told'[h] = "unsaved"
                 PROVE  h \in Hashes(catalog') /\ (h \in Hashes(rows') \/ h \in Hashes(t))
      BY <2>7 DEF Shows
    <3>1. told[h] = "unsaved" /\ (h = row.hash => In(rows', row.hash, Shown(row)))
      BY <2>5, <2>9
    <3>2. h \in Hashes(catalog) /\ (h \in Hashes(rows) \/ h \in Hashes(s))
      BY <1>0, <2>6, <3>1 DEF Shows
    <3>3. h \in Hashes(rows') \/ h \in Hashes(t)
      BY <2>5, <2>9, <3>1, <3>2, InListed
    <3>4. t # <<>> => catalog' = catalog
      BY <2>7
    <3>5. t = <<>> => h \in Hashes(rows')
      BY <1>1, <3>3
    <3> QED  BY <2>4, <2>7, <3>2, <3>3, <3>4, <3>5
  <2>12. Seeds'
    <3>1. told'[Demo] = "gone" => told[Demo] = "gone"
      BY <2>5, <2>9, StandaloneAssumption
    <3> QED  BY <1>0, <1>2, <2>1, <2>2, <2>7, <3>1 DEF Seeds, Adders
  <2>13. Quiet'
    BY <1>0, <2>2, <2>7 DEF Quiet
  <2> QED  BY <2>10, <2>11, <2>12, <2>13 DEF KeepParts
<1> QED  BY <1>3, <1>4, <1>5

LEMMA AnswersKeep ==
  ASSUME TypeInv, TypeInv', SoundParts, SoundParts', KeepParts, tidy',
         (\E r \in Removers : Removed(r)) \/ Cleared \/ ParseGot \/ Parsed
  PROVE  KeepParts'
<1>0. /\ RowsOK /\ StoredOK /\ LoadOK /\ AddOK /\ ParseOK /\ DelOK /\ ToldOK
      /\ asked \in Seq(Request) /\ AddsOn
      /\ \A i \in DOMAIN asked : asked[i] \in Request /\ Fits(asked[i])
      /\ {"take", "seed", "load", "parse", "clear"} \cap Removers = {}
      /\ Listed /\ Queued /\ Distinct(catalog) /\ Alone /\ Ahead
      /\ Seeds /\ Quiet /\ Knows /\ Shows /\ HomeTypeOK /\ QueueInv
  BY Given DEF SoundParts, KeepParts
<1>1. Hashes(<<>>) = {} /\ \A h, v : ~In(<<>>, h, v)
  BY DEF Hashes, In
<1>2. ASSUME NEW r \in Removers, Removed(r)  PROVE KeepParts'
  <2>0. PICK h, q, d : h = Head(asked).hash /\ q = Tail(asked) /\ d = del[r]
    OBVIOUS
  <2>1. /\ asked # <<>> /\ Head(asked).by = r /\ asked' = q /\ catalog' = rows' /\ idb' = idb \ {h}
        /\ rows' = IF d \in DOMAIN rows THEN RemoveAt(rows, d) ELSE rows
        /\ told' = [told EXCEPT ![h] = Gone(h)]
        /\ UNCHANGED <<urls, nextId, load, add, parse, clear, seeded, tidy, budget>>
    BY <1>2, <2>0 DEF Removed, Answered
  <2>2. /\ Fits(Head(asked)) /\ Head(asked) = asked[1] /\ 1 \in DOMAIN asked /\ h \in Mods
    <3>1. /\ Fits(Head(asked)) /\ Head(asked) = asked[1] /\ 1 \in DOMAIN asked /\ Head(asked) \in Request
      BY <1>0, <2>1, HeadGone
    <3> QED  BY <2>0, <3>1 DEF Request
  <2>3. /\ Loaded
        /\ (d \in DOMAIN rows /\ rows[d].hash = h) \/ DOMAIN rows = {}
    <3>1. (d \in DOMAIN rows /\ rows[d].hash = h) \/ DOMAIN rows = {}
      BY <1>0, <2>0, <2>1, <2>2 DEF Queued, Placed
    <3>2. r \in Removing
      BY <2>1, <2>2 DEF Fits, Removing
    <3> QED  BY <1>0, <3>1, <3>2 DEF Alone
  <2>4. /\ Hashes(rows') = Hashes(rows) \ {h} /\ \A g, v : g # h /\ In(rows, g, v) => In(rows', g, v)
    BY <1>0, <2>1, <2>3, RemovedRows DEF Listed
  <2>5. Dels(asked') \subseteq Dels(asked) /\ Dels(asked) \subseteq Dels(asked') \cup {h}
    <3>1. Dels(asked) \subseteq Dels(asked') \cup {h}
      BY <1>0, <2>0, <2>1, TailKeeps
    <3>2. Dels(asked') \subseteq Dels(asked)
      <4>1. \A i \in DOMAIN q : i + 1 \in DOMAIN asked /\ q[i] = asked[i + 1]
        BY <1>0, <2>0, <2>1, Tailed
      <4> QED  BY <2>1, <4>1 DEF Dels
    <3> QED  BY <3>1, <3>2
  <2>6. Left = <<>> /\ Left' = <<>>
    BY <2>1, <2>3 DEF Left, Loaded
  <2>7. told'[h] = Gone(h) /\ Gone(h) \in {"nothing", "gone"} /\ \A g \in Mods : g # h => told'[g] = told[g]
    BY <1>0, <2>1, <2>2 DEF ToldOK, Tellings, Gone
  <2>8. Knows'
    <3> SUFFICES ASSUME NEW g \in Mods
                 PROVE  /\ Known(told'[g]) => g \in idb' /\ g \notin Dels(asked') /\ In(rows', g, told'[g])
                        /\ told'[g] = "gone" => g \notin Hashes(rows')
      BY <1>1, <2>1, <2>6 DEF Knows
    <3>1. CASE g = h
      BY <2>4, <2>7, <3>1 DEF Known
    <3>2. CASE g # h
      <4>1. /\ Known(told[g]) => g \in idb /\ g \notin Dels(asked) /\ In(rows, g, told[g])
            /\ told[g] = "gone" => g \notin Hashes(rows)
        BY <1>0, <1>1, <2>6 DEF Knows
      <4> QED  BY <2>1, <2>4, <2>5, <2>7, <3>2, <4>1
    <3> QED  BY <3>1, <3>2
  <2>9. Shows'
    <3> SUFFICES ASSUME NEW g \in Mods, told'[g] = "unsaved"  PROVE g \in Hashes(rows')
      BY <2>1 DEF Shows
    <3>1. g # h /\ told[g] = "unsaved"
      BY <2>7
    <3>2. g \in Hashes(rows)
      BY <1>0, <1>1, <2>6, <3>1 DEF Shows
    <3> QED  BY <2>4, <3>1, <3>2
  <2>10. Seeds'
    <3>1. told'[Demo] = "gone" => seeded
      BY <1>0, <2>7, StandaloneAssumption DEF Seeds, Gone
    <3> QED  BY <1>0, <2>1, <3>1 DEF Seeds
  <2> QED  BY <1>0, <2>1, <2>8, <2>9, <2>10 DEF KeepParts, Quiet
<1>3. CASE Cleared
  <2>0. PICK h, q : h = Head(asked).hash /\ q = Tail(asked)
    OBVIOUS
  <2>1. /\ asked # <<>> /\ Head(asked).by = "clear" /\ asked' = q /\ idb' = idb \ {h}
        /\ IF clear = 1 THEN rows' = <<>> /\ catalog' = <<>> /\ told' = [g \in Mods |-> Gone(g)]
           ELSE UNCHANGED <<rows, catalog, told>>
        /\ UNCHANGED <<urls, nextId, load, add, parse, del, seeded, tidy, budget>>
    BY <1>3, <2>0 DEF Cleared, Answered
  <2>2. /\ clear # 0 /\ h \in Dels(asked) /\ Dels(asked') \subseteq Dels(asked)
    <3>1. clear # 0 /\ Fits(Head(asked)) /\ Head(asked) = asked[1] /\ 1 \in DOMAIN asked
      BY <1>0, <2>1, HeadGone
    <3>2. h \in Dels(asked)
      BY <2>0, <2>1, <3>1 DEF Fits, Dels
    <3>3. \A i \in DOMAIN q : i + 1 \in DOMAIN asked /\ q[i] = asked[i + 1]
      BY <1>0, <2>0, <2>1, Tailed
    <3> QED  BY <2>1, <3>1, <3>2, <3>3 DEF Dels
  <2>3. Loaded
    BY <1>0, <2>2 DEF Alone
  <2>4. Left = <<>> /\ Left' = <<>>
    BY <2>1, <2>3 DEF Left, Loaded
  <2>5. Shows'
    <3>1. CASE clear = 1
      BY <2>1, <3>1 DEF Shows, Gone
    <3>2. CASE clear # 1
      BY <1>0, <2>1, <2>4, <3>2, ShowsCarried
    <3> QED  BY <3>1, <3>2
  <2>6. CASE clear = 1
    <3>1. rows' = <<>> /\ catalog' = <<>> /\ \A g \in Mods : told'[g] = Gone(g) /\ ~Known(Gone(g))
      BY <2>1, <2>6 DEF Gone, Known
    <3>2. Knows'
      BY <1>1, <2>4, <3>1 DEF Knows
    <3>3. told'[Demo] = "gone" => seeded
      BY <3>1, StandaloneAssumption DEF Gone
    <3> QED  BY <1>0, <2>1, <2>5, <3>2, <3>3 DEF KeepParts, Seeds, Quiet
  <2>7. CASE clear # 1
    <3>1. UNCHANGED <<rows, catalog, told>>
      BY <2>1, <2>7
    <3>2. Knows'
      <4> SUFFICES ASSUME NEW g \in Mods
                   PROVE  /\ Known(told[g]) => g \in idb' /\ g \notin Dels(asked') /\ In(catalog, g, told[g]) /\ In(rows, g, told[g])
                          /\ told[g] = "gone" => g \notin Hashes(rows) /\ g \notin Hashes(catalog)
        BY <1>1, <2>4, <3>1 DEF Knows
      <4> QED  BY <1>0, <1>1, <2>1, <2>2, <2>4 DEF Knows
    <3> QED  BY <1>0, <2>1, <2>5, <3>1, <3>2 DEF KeepParts, Seeds, Quiet
  <2> QED  BY <2>6, <2>7
<1>4. CASE ParseGot
  <2>0. PICK q : q = Tail(asked)
    OBVIOUS
  <2>1. /\ asked # <<>> /\ Head(asked).by = "parse"
        /\ UNCHANGED <<rows, urls, nextId, load, add, del, clear, idb, seeded, history, budget>>
        /\ \/ asked' = q /\ UNCHANGED catalog
           \/ ParseFrom(parse.i + 1, rows, catalog, q)
    BY <1>4, <2>0 DEF ParseGot, Answered
  <2>2. q \in Seq(Request) /\ Head(asked).op = "get" /\ parse.at = "get"
    <3>1. q \in Seq(Request) /\ Fits(Head(asked))
      BY <1>0, <2>0, <2>1, HeadGone
    <3> QED  BY <2>1, <3>1 DEF Fits
  <2>3. GetsMore(q) /\ catalog' \in {catalog, rows}
    <3>1. CASE asked' = q /\ UNCHANGED catalog
      BY <3>1 DEF GetsMore
    <3>2. CASE ParseFrom(parse.i + 1, rows, catalog, q)
      <4>1. parse.i + 1 \in Nat /\ rows \in Seq(Row)
        BY <1>0 DEF ParseOK, RowsOK
      <4> QED  BY <1>0, <3>2, <4>1, ParseFromIs, PendingGets
    <3> QED  BY <2>1, <3>1, <3>2
  <2>4. Dels(asked') = Dels(asked)
    BY <1>0, <2>0, <2>1, <2>2, <2>3, TailKeeps, MoreIsSame
  <2>5. load.at # "restoring" /\ Left = <<>> /\ Left' = <<>>
    BY <1>0, <2>1, <2>2 DEF Quiet, Left
  <2>6. Knows' /\ Shows'
    BY <1>0, <2>1, <2>3, <2>4, <2>5, KnowsCarried, ShowsCarried DEF history
  <2> QED  BY <1>0, <2>1, <2>5, <2>6 DEF KeepParts, Seeds, Quiet, history
<1>5. CASE Parsed
  <2>1. /\ parse.at = "parse" /\ ParseFrom(parse.i + 1, rows', catalog, asked)
        /\ UNCHANGED <<urls, nextId, load, add, del, clear, idb, seeded, history, budget>>
    BY <1>5 DEF Parsed
  <2>2. /\ rows' \in Seq(Row) /\ DOMAIN rows' = DOMAIN rows
        /\ \A i \in DOMAIN rows : rows'[i].hash = rows[i].hash /\ rows'[i].fav = rows[i].fav
    BY <1>0, <1>5, RowsParsed
  <2>3. GetsMore(asked) /\ catalog' \in {catalog, rows'}
    <3>1. parse.i + 1 \in Nat
      BY <1>0 DEF ParseOK
    <3>2. PICK rs \in Seq(Row) : rs = rows'
      BY <2>2
    <3>3. ParseEnds(rs, catalog, asked) \/ ParseAsks(rs, catalog, asked)
      BY <2>1, <3>1, <3>2, ParseFromIs
    <3>4. GetsMore(asked) /\ catalog' \in {catalog, rs}
      BY <1>0, <3>3, PendingGets
    <3> QED  BY <3>2, <3>4
  <2>4. Dels(asked') = Dels(asked)
    BY <1>0, <2>3, MoreIsSame
  <2>5. load.at # "restoring" /\ Left = <<>> /\ Left' = <<>>
    BY <1>0, <2>1 DEF Quiet, Left
  <2>6. Hashes(rows') = Hashes(rows) /\ \A h, v : In(rows, h, v) => In(rows', h, v)
    BY <2>2 DEF Hashes, In, Shown
  <2>7. Knows' /\ Shows'
    BY <1>0, <2>1, <2>3, <2>4, <2>5, <2>6, KnowsCarried, ShowsCarried DEF history
  <2> QED  BY <1>0, <2>1, <2>5, <2>7 DEF KeepParts, Seeds, Quiet, history
<1> QED  BY <1>2, <1>3, <1>4, <1>5

\* Whatever IndexedDB has done of what it was asked, what is known is stored.
LEMMA ReloadKeeps ==
  ASSUME TypeInv, KeepParts, Reload
  PROVE  KeepParts'
<1>0. StoredOK /\ asked \in Seq(Request) /\ Seeds /\ Knows /\ Shows
  BY Given DEF KeepParts
<1>1. /\ rows' = <<>> /\ add' = [p \in Adders |-> NoAdd] /\ parse' = NoParse
      /\ load' = [at |-> "restoring", left |-> catalog]
      /\ asked' = (IF catalog = <<>> THEN <<>> ELSE <<Ask("get", catalog[1].hash, "load")>>)
      /\ UNCHANGED <<catalog, seeded, history>>
  BY DEF Reload
<1>2. \A h \in idb \ Dels(asked) : h \in idb'
  <2>1. PICK n \in 0..Len(asked) : idb' = StoredAfter(n)
    BY DEF Reload
  <2>2. DOMAIN asked = 1 .. Len(asked) /\ Len(asked) \in Nat
    BY <1>0, LenProperties
  <2>3. ASSUME NEW h \in idb, h \notin Dels(asked)  PROVE h \in StoredAfter(n)
    <3>1. \A j \in 1..n : j \in DOMAIN asked
      BY <2>2
    <3>2. \A j \in 1..n : asked[j].hash = h => asked[j].op # "del"
      BY <2>3, <3>1 DEF Dels
    <3> QED  BY <1>0, <2>3, <3>2 DEF StoredAfter, StoredOK
  <2> QED  BY <2>1, <2>3
<1>3. Dels(asked') = {} /\ Left' = catalog /\ Hashes(rows') = {}
  <2>1. \A i \in DOMAIN asked' : asked'[i].op = "get"
    BY <1>1 DEF Ask
  <2> QED  BY <1>1, <2>1 DEF Dels, Left, Hashes
<1>4. Knows'
  <2> SUFFICES ASSUME NEW h \in Mods
               PROVE  /\ Known(told[h]) => h \in idb' /\ In(catalog, h, told[h])
                      /\ told[h] = "gone" => h \notin Hashes(catalog)
    BY <1>1, <1>3 DEF Knows, history
  <2> QED  BY <1>0, <1>2 DEF Knows
<1>5. \A p \in Adders : ~add'[p].on
  BY <1>1 DEF NoAdd
<1>6. Shows' /\ Seeds'
  BY <1>0, <1>1, <1>3, <1>5 DEF Shows, Seeds, history, Adders
<1> QED  BY <1>1, <1>4, <1>6 DEF KeepParts, Quiet, NoParse

LEMMA FirstKeeps ==
  ASSUME HomeInit
  PROVE  KeepParts
<1>1. /\ Opened
      /\ \A i \in DOMAIN catalog : catalog[i].id = i /\ catalog[i].hash \in idb /\ ~catalog[i].fav
      /\ \A h \in idb : \E i \in DOMAIN catalog : catalog[i].hash = h
      /\ idb \subseteq Mods \ {Demo}
      /\ told = [h \in Mods |-> IF h \in idb THEN "plain" ELSE "nothing"]
  BY FirstOpened
<1>2. load.at = "restoring" /\ Left = catalog /\ ~add["take"].on /\ ~add["seed"].on /\ parse.at = "off"
  BY <1>1 DEF Opened, Left, NoAdd, NoParse, Adders
<1>3. \A i \in DOMAIN asked : asked[i].op = "get"
  BY <1>1 DEF Opened, Ask
<1>4. Dels(asked) = {}
  BY <1>3 DEF Dels
<1>5. \A h \in idb : In(catalog, h, "plain")
  BY <1>1 DEF In, Shown
<1>6. Knows
  <2> SUFFICES ASSUME NEW h \in Mods
               PROVE  /\ Known(told[h]) => h \in idb /\ told[h] = "plain"
                      /\ told[h] # "gone"
    BY <1>2, <1>4, <1>5 DEF Knows
  <2> QED  BY <1>1 DEF Known
<1>7. Seeds /\ Shows
  BY <1>1, <1>2, StandaloneAssumption DEF Seeds, Shows
<1> QED  BY <1>2, <1>6, <1>7 DEF KeepParts, Quiet

LEMMA KeepInvStep == TypeInv /\ SoundInv /\ KeepInv /\ [HomeNext]_homeVars => KeepInv'
<1> SUFFICES ASSUME TypeInv, SoundInv, KeepInv, [HomeNext]_homeVars, tidy'  PROVE KeepParts'
  BY DEF KeepInv
<1>1. TypeInv' /\ SoundParts' /\ tidy
  BY TypeInvStep, SoundInvStep, TidyBefore DEF SoundInv
<1>2. SoundParts /\ KeepParts
  BY <1>1 DEF SoundInv, KeepInv
<1>3. CASE Gesture
  BY <1>1, <1>2, <1>3, GesturesKeep
<1>4. CASE GoesOn
  BY <1>1, <1>2, <1>4, OpeningKeeps, TakesKeep, AnswersKeep DEF GoesOn
<1>5. CASE Reload
  BY <1>2, <1>5, ReloadKeeps
<1>6. CASE UNCHANGED homeVars
  <2>1. UNCHANGED <<rows, asked, catalog, idb, seeded, load, add, parse, told>>
    BY <1>6 DEF homeVars, memory, stored, history
  <2>2. Knows' /\ Shows'
    BY <1>2, <2>1, KnowsCarried, ShowsCarried DEF KeepParts, Left
  <2> QED  BY <1>2, <2>1, <2>2 DEF KeepParts, Seeds, Quiet
<1> QED  BY <1>3, <1>4, <1>5, <1>6 DEF HomeNext

\* As long as no two gestures meet that the code does not keep apart: what was reported as
\* added and could be stored is stored, row, favourite and bytes, until the user removes it
\* or its bytes are gone or unread at an opening; what was reported and could not be stored
\* is in the catalogue until the next opening; and when nothing is under way the list shows
\* both, and what was removed or forgotten has not come back.
THEOREM KeptAsTold == HomeSpec => []KeepsWhatItShould
<1>1. HomeInit => TypeInv /\ SoundInv /\ KeepInv
  <2> SUFFICES ASSUME HomeInit  PROVE TypeInv /\ SoundInv /\ KeepInv
    OBVIOUS
  <2>1. Opened /\ Distinct(catalog)
    BY FirstOpened DEF Distinct, Differ
  <2> QED  BY <2>1, FirstTyped, OpenedSound, FirstKeeps DEF SoundInv, KeepInv
<1>2. TypeInv /\ SoundInv /\ KeepInv => KeepsWhatItShould
  <2> SUFFICES ASSUME TypeInv, SoundParts, KeepParts, NEW h \in Mods
               PROVE  /\ told[h] \in {"plain", "fav"} =>
                           /\ h \in idb
                           /\ \E i \in DOMAIN catalog : catalog[i].hash = h /\ catalog[i].fav = (told[h] = "fav")
                      /\ told[h] = "unsaved" => h \in Hashes(catalog)
                      /\ Idle => /\ told[h] \in {"plain", "fav"} =>
                                      h \in Hashes(rows) /\ FavOf(rows, h) = (told[h] = "fav")
                                 /\ told[h] = "unsaved" => h \in Hashes(rows)
                                 /\ told[h] = "gone" => h \notin Hashes(rows)
    BY DEF SoundInv, KeepInv, KeepsWhatItShould
  <2>1. StoredOK /\ Knows /\ Shows /\ Distinct(rows)
    BY Given DEF SoundParts, KeepParts, Listed
  <2>2. told[h] = "gone" => h \notin Hashes(rows)
    BY <2>1 DEF Knows
  <2>3. ASSUME Known(told[h])
        PROVE  h \in idb /\ \E i \in DOMAIN catalog : catalog[i].hash = h /\ catalog[i].fav = (told[h] = "fav")
    <3>1. PICK i \in DOMAIN catalog : catalog[i].hash = h /\ Shown(catalog[i]) = told[h]
      BY <2>1, <2>3 DEF Knows, In
    <3>2. catalog[i].fav \in BOOLEAN
      <4>1. catalog[i] \in Row
        BY <2>1, EntryIn DEF StoredOK
      <4> QED  BY <4>1 DEF Row
    <3>3. catalog[i].fav = (told[h] = "fav")
      <4>1. CASE catalog[i].fav = TRUE
        BY <3>1, <4>1 DEF Shown
      <4>2. CASE catalog[i].fav = FALSE
        BY <3>1, <4>2 DEF Shown
      <4> QED  BY <3>2, <4>1, <4>2
    <3> QED  BY <2>1, <2>3, <3>1, <3>3 DEF Knows
  <2>4. ASSUME Idle, Known(told[h])  PROVE h \in Hashes(rows) /\ FavOf(rows, h) = (told[h] = "fav")
    <3>1. In(rows, h, told[h])
      <4>1. Left = <<>> /\ ~In(<<>>, h, told[h])
        BY <2>4 DEF Idle, Loaded, Left, In
      <4> QED  BY <2>1, <2>4, <4>1 DEF Knows
    <3>2. told[h] = IF FavOf(rows, h) THEN "fav" ELSE "plain"
      BY <2>1, <3>1, InOnce
    <3>3. FavOf(rows, h) = (told[h] = "fav")
      <4>1. CASE FavOf(rows, h)
        BY <3>2, <4>1 DEF FavOf
      <4>2. CASE ~FavOf(rows, h)
        BY <3>2, <4>2 DEF FavOf
      <4> QED  BY <4>1, <4>2
    <3> QED  BY <3>1, <3>3, InListed
  <2>5. ASSUME told[h] = "unsaved"  PROVE h \in Hashes(catalog) /\ (Idle => h \in Hashes(rows))
    <3>1. Idle => Hashes(Left) = {}
      BY DEF Idle, Loaded, Left, Hashes
    <3> QED  BY <2>1, <2>5, <3>1 DEF Shows
  <2> QED  BY <2>2, <2>3, <2>4, <2>5 DEF Known
<1> QED  BY <1>1, <1>2, TypeInvStep, SoundInvStep, KeepInvStep, PTL DEF HomeSpec

=============================================================================
