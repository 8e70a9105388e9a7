-------------------------- MODULE PlaylistsProofs --------------------------
(* What holds of Playlists for any lists, items, modules and places, and   *)
(* any number of changes, failures and crashes.                            *)
EXTENDS Playlists, FiniteSetTheorems, TLAPS

-----------------------------------------------------------------------------
(* Positions.                                                              *)

\* Of a set of numbers the lowest is there, and of a bounded one the highest.
LEMMA LowestIs ==
  ASSUME NEW S \in SUBSET Nat, S # {}
  PROVE  \E p \in S : \A q \in S : p <= q
<1> DEFINE R == {ss \in Nat \X Nat : ss[1] < ss[2]}
<1>1. IsWellFoundedOn(R, Nat)
  BY NatLessThanWellFounded, Zenon DEF OpToRel
<1>2. PICK x \in S : \A y \in S : <<y, x>> \notin R
  <2> HIDE DEF R
  <2> QED  BY <1>1, WFMin
<1>3. ASSUME NEW y \in S  PROVE x <= y
  <2>1. x \in Nat /\ y \in Nat
    OBVIOUS
  <2>2. y < x => <<y, x>> \in R
    <3>1. <<y, x>> \in Nat \X Nat /\ <<y, x>>[1] = y /\ <<y, x>>[2] = x
      BY <2>1
    <3> QED  BY <3>1
  <2> HIDE DEF R
  <2> QED  BY <1>2, <2>1, <2>2
<1> QED  BY <1>3

LEMMA HighestIs ==
  ASSUME NEW S \in SUBSET Nat, S # {}, NEW N \in Nat, \A p \in S : p <= N
  PROVE  Highest(S) \in S /\ \A p \in S : p <= Highest(S)
<1> DEFINE T == {N - p : p \in S}
<1>1. T \in SUBSET Nat /\ T # {}
  <2>1. \A p \in S : N - p \in Nat
    OBVIOUS
  <2> QED  BY <2>1
<1>2. PICK x \in T : \A y \in T : x <= y
  <2> HIDE DEF T
  <2> QED  BY <1>1, LowestIs
<1>3. PICK p \in S : x = N - p
  OBVIOUS
<1>4. \A q \in S : q <= p
  <2> SUFFICES ASSUME NEW q \in S  PROVE q <= p
    OBVIOUS
  <2>1. N - p <= N - q
    BY <1>2, <1>3
  <2> QED  BY <2>1
<1> QED  BY <1>4 DEF Highest

-----------------------------------------------------------------------------
(* Type correctness.                                                       *)

ListsOK == /\ lists \subseteq Lists /\ nextId \in 1..(MaxItems + 1)
           /\ items \in [Ids -> Item \cup {NoItem}]
           /\ \A i \in Ids : items[i] # NoItem => items[i].list \in lists
FilesOK == /\ disk \in [Places -> Mods \cup {NoMod}] /\ index \in [Places -> Mods \cup {NoMod}]
           /\ faults \in 0..MaxFaults
FetchType == [on : BOOLEAN, list : Lists \cup {NoItem}, read : BOOLEAN,
              left : SUBSET [id : Ids, ref : Refs], cur : Cursor, wrote : BOOLEAN,
              done : SUBSET [id : Ids, md5 : Mods], clean : BOOLEAN]
FetchOK == /\ fetch \in FetchType
           /\ fetch.cur.at # "none" => fetch.cur.id \in Ids /\ fetch.cur.md5 \in Mods
           /\ fetch.cur.at = "write" => fetch.cur.dest \in Places

LEMMA TypeParts == (PlTypeOK <=> ListsOK /\ FilesOK /\ FetchOK)
                   /\ (PlTypeOK' <=> ListsOK' /\ FilesOK' /\ FetchOK')
  BY DEF PlTypeOK, ListsOK, FilesOK, FetchOK, FetchType

\* Ids are given out in order, and a position grows by one with each at most: a page
\* that reorders counts no further than to the number of items.
Made == \A i \in Ids : items[i] # NoItem => i < nextId /\ items[i].pos + 2 <= MaxItems + nextId

LEMMA ItemIs ==
  ASSUME ListsOK, NEW i \in Ids, items[i] # NoItem
  PROVE  /\ items[i] \in Item /\ items[i].list \in Lists /\ items[i].pos \in Nat
         /\ items[i].md5 \in Mods \cup {NoMod} /\ items[i].ref \in Refs \cup {NoRef}
  BY DEF ListsOK, Item

\* What comes next is behind all that is there.
LEMMA NextPosIs ==
  ASSUME ListsOK, Made, NEW l
  PROVE  /\ NextPos(l) \in Nat
         /\ \A i \in In(l) : items[i].pos < NextPos(l)
         /\ NextPos(l) = 0 \/ NextPos(l) + 1 <= MaxItems + nextId
<1> DEFINE S == {items[i].pos : i \in In(l)}
<1>1. MaxItems \in Nat /\ nextId \in Nat
  BY PlaylistsAssumption DEF ListsOK
<1>2. ASSUME NEW i \in In(l)
      PROVE  items[i].pos \in Nat /\ items[i].pos + 2 <= MaxItems + nextId
  BY ItemIs DEF In, Made
<1>3. CASE In(l) = {}
  BY <1>3 DEF NextPos
<1>4. CASE In(l) # {}
  <2>1. S \in SUBSET Nat /\ S # {} /\ \A p \in S : p <= MaxItems + nextId /\ p + 2 <= MaxItems + nextId
    BY <1>1, <1>2, <1>4
  <2>2. NextPos(l) = Highest(S) + 1
    BY <1>4 DEF NextPos
  <2>3. \A i \in In(l) : items[i].pos \in S
    OBVIOUS
  <2> HIDE DEF S
  <2>4. Highest(S) \in S /\ \A p \in S : p <= Highest(S)
    <3>1. \A N \in Nat : (\A p \in S : p <= N) => Highest(S) \in S /\ \A p \in S : p <= Highest(S)
      BY <2>1, HighestIs
    <3>2. MaxItems + nextId \in Nat /\ \A p \in S : p <= MaxItems + nextId
      BY <1>1, <2>1
    <3> HIDE DEF S
    <3> QED  BY <3>1, <3>2, Zenon
  <2>5. Highest(S) \in Nat /\ Highest(S) + 2 <= MaxItems + nextId
    BY <2>1, <2>4
  <2>6. ASSUME NEW i \in In(l)  PROVE items[i].pos < Highest(S) + 1
    <3>1. items[i].pos \in S /\ items[i].pos \in Nat
      BY <1>2, <2>3
    <3>2. items[i].pos <= Highest(S)
      BY <2>4, <3>1
    <3> QED  BY <2>5, <3>1, <3>2
  <2> QED  BY <1>1, <2>2, <2>5, <2>6
<1> QED  BY <1>3, <1>4

\* The items that were there and still are say what they said; those that are new come
\* behind all of their list.
SaysTheSame ==
  /\ nextId <= nextId'
  /\ \A i \in Ids : i < nextId /\ items'[i] # NoItem =>
       items[i] # NoItem /\ items'[i].list = items[i].list /\ items'[i].ref = items[i].ref
NothingNoted ==
  \A i \in Ids : items[i] # NoItem /\ items'[i] # NoItem => items'[i].md5 = items[i].md5
Behind ==
  \A i \in Ids : items[i] = NoItem /\ items'[i] # NoItem /\ items'[i].list \in lists
    => \A j \in In(items'[i].list) : items[j].pos < items'[i].pos

LEMMA EntryIs ==
  ASSUME NEW l \in Lists, NEW pos \in 0..(2 * MaxItems), NEW it \in Offered
  PROVE  /\ Entry(l, pos, it) \in Item
         /\ Entry(l, pos, it).list = l /\ Entry(l, pos, it).pos = pos
<1>1. it \in [md5 : Mods \cup {NoMod}, ref : Refs \cup {NoRef}, named : BOOLEAN]
  BY PlaylistsAssumption
<1> QED  BY <1>1 DEF Entry, Item

Curated == ListsOK' /\ Made' /\ SaysTheSame /\ NothingNoted /\ Behind /\ UNCHANGED Outside

LEMMA CurateIs ==
  ASSUME ListsOK, Made, Curate
  PROVE  Curated
<1>0. /\ MaxItems \in Nat /\ nextId \in Nat /\ nextId >= 1 /\ nextId <= MaxItems + 1
      /\ Ids = 1..MaxItems
  BY PlaylistsAssumption DEF ListsOK, Ids
<1>1. ASSUME NEW l \in Lists, Create(l)  PROVE Curated
  BY <1>0, <1>1 DEF Create, Curated, ListsOK, Made, SaysTheSame, NothingNoted, Behind
<1>2. ASSUME NEW l \in Lists, Delete(l)  PROVE Curated
  <2>1. /\ lists' = lists \ {l} /\ nextId' = nextId /\ UNCHANGED Outside
        /\ items' = [i \in Ids |-> IF i \in In(l) THEN NoItem ELSE items[i]]
    BY <1>2 DEF Delete
  <2>2. \A i \in Ids : items'[i] # NoItem => items'[i] = items[i] /\ items[i].list # l
    BY <2>1 DEF In
  <2>3. items' \in [Ids -> Item \cup {NoItem}]
    BY <2>1 DEF ListsOK
  <2>4. ListsOK'
    BY <2>1, <2>2, <2>3 DEF ListsOK
  <2> QED  BY <1>0, <2>1, <2>2, <2>4 DEF Curated, Made, SaysTheSame, NothingNoted, Behind
<1>3. ASSUME NEW l \in Lists, NEW it \in Offered, Add(l, it)  PROVE Curated
  <2> DEFINE e == Entry(l, NextPos(l), it)
  <2>1. /\ l \in lists /\ nextId <= MaxItems /\ nextId \in Ids /\ nextId' = nextId + 1
        /\ lists' = lists /\ UNCHANGED Outside
        /\ items' = [items EXCEPT ![nextId] = e]
    BY <1>0, <1>3 DEF Add
  <2>2. /\ NextPos(l) \in 0..(2 * MaxItems) /\ \A i \in In(l) : items[i].pos < NextPos(l)
        /\ NextPos(l) + 2 <= MaxItems + (nextId + 1)
    BY <1>0, <2>1, NextPosIs
  <2>3. e \in Item /\ e.list = l /\ e.pos = NextPos(l)
    BY <2>2, EntryIs
  <2> HIDE DEF e
  <2>4. \A i \in Ids : items'[i] = IF i = nextId THEN e ELSE items[i]
    BY <2>1 DEF ListsOK
  <2>5. ListsOK'
    BY <1>0, <2>1, <2>3, <2>4 DEF ListsOK
  <2>6. Made'
    <3> SUFFICES ASSUME NEW i \in Ids, items'[i] # NoItem
                 PROVE  i < nextId + 1 /\ items'[i].pos + 2 <= MaxItems + (nextId + 1)
      BY <2>1 DEF Made
    <3>1. CASE i = nextId
      BY <1>0, <2>2, <2>3, <2>4, <3>1
    <3>2. CASE i # nextId
      BY <1>0, <2>4, <3>2, ItemIs DEF Made
    <3> QED  BY <3>1, <3>2
  <2>7. SaysTheSame /\ NothingNoted
    BY <1>0, <2>1, <2>4 DEF SaysTheSame, NothingNoted, Made
  <2>8. Behind
    BY <2>2, <2>3, <2>4 DEF Behind
  <2> QED  BY <2>1, <2>5, <2>6, <2>7, <2>8 DEF Curated
<1>4. ASSUME NEW l \in Lists, NEW a \in Offered, NEW b \in Offered, Import(l, a, b)  PROVE Curated
  <2> DEFINE n == IF Key(a) = Key(b) THEN 1 ELSE 2
             e == Entry(l, 0, a)
             f == Entry(l, 1, b)
  <2>1. /\ n \in {1, 2} /\ l \notin lists /\ nextId + n - 1 <= MaxItems
        /\ lists' = lists \cup {l} /\ nextId' = nextId + n /\ UNCHANGED Outside
        /\ items' = [i \in Ids |-> IF i = nextId THEN e
                                   ELSE IF n = 2 /\ i = nextId + 1 THEN f ELSE items[i]]
    BY <1>4 DEF Import
  <2> HIDE DEF n
  <2>2. 0 \in 0..(2 * MaxItems) /\ 1 \in 0..(2 * MaxItems)
    BY <1>0, <2>1
  <2>3. e \in Item /\ e.list = l /\ e.pos = 0 /\ f \in Item /\ f.list = l /\ f.pos = 1
    BY <2>2, EntryIs
  <2> HIDE DEF e, f
  <2>4. \A i \in Ids : \/ i = nextId /\ items'[i] = e
                       \/ n = 2 /\ i = nextId + 1 /\ items'[i] = f
                       \/ i # nextId /\ items'[i] = items[i]
    BY <2>1
  <2>5. ListsOK'
    <3>1. items' \in [Ids -> Item \cup {NoItem}]
      BY <2>1, <2>3 DEF ListsOK
    <3> QED  BY <1>0, <2>1, <2>3, <2>4, <3>1 DEF ListsOK
  <2>6. Made'
    <3> SUFFICES ASSUME NEW i \in Ids, items'[i] # NoItem
                 PROVE  i < nextId + n /\ items'[i].pos + 2 <= MaxItems + (nextId + n)
      BY <2>1 DEF Made
    <3>1. CASE items'[i] = items[i] /\ i # nextId
      BY <1>0, <2>1, <3>1, ItemIs DEF Made
    <3> QED  BY <1>0, <2>1, <2>3, <2>4, <3>1
  <2>7. SaysTheSame /\ NothingNoted
    BY <1>0, <2>1, <2>4 DEF SaysTheSame, NothingNoted, Made
  <2>8. Behind
    BY <2>1, <2>3, <2>4 DEF Behind
  <2> QED  BY <2>1, <2>5, <2>6, <2>7, <2>8 DEF Curated
<1>5. ASSUME NEW i \in Ids, Remove(i)  PROVE Curated
  <2>1. /\ lists' = lists /\ nextId' = nextId /\ UNCHANGED Outside
        /\ items' = [items EXCEPT ![i] = NoItem]
    BY <1>5 DEF Remove
  <2>2. /\ items' \in [Ids -> Item \cup {NoItem}]
        /\ \A j \in Ids : items'[j] # NoItem => items'[j] = items[j]
    BY <2>1 DEF ListsOK
  <2> QED  BY <1>0, <2>1, <2>2 DEF Curated, ListsOK, Made, SaysTheSame, NothingNoted, Behind
<1>6. ASSUME NEW l \in Lists, NEW ids \in UNION {Injection(1..n, Ids) : n \in 1..MaxItems}, Reorder(l, ids)
      PROVE  Curated
  <2> DEFINE At(i) == CHOOSE n \in DOMAIN ids : ids[n] = i
             Sent(i) == i \in In(l) /\ \E n \in DOMAIN ids : ids[n] = i
  <2>1. /\ lists' = lists /\ nextId' = nextId /\ UNCHANGED Outside
        /\ items' = [i \in Ids |-> IF Sent(i) THEN [items[i] EXCEPT !.pos = At(i) - 1] ELSE items[i]]
    BY <1>6 DEF Reorder
  <2>2. PICK n \in 1..MaxItems : ids \in [1..n -> Ids]
    BY DEF Injection
  <2>3. ASSUME NEW i \in Ids, Sent(i)  PROVE At(i) \in 1..MaxItems
    BY <1>0, <2>2, <2>3
  <2> HIDE DEF At
  <2>4. ASSUME NEW i \in Ids, Sent(i)
        PROVE  /\ items[i] # NoItem /\ items'[i] = [items[i] EXCEPT !.pos = At(i) - 1]
               /\ items'[i] \in Item /\ items'[i].pos = At(i) - 1
               /\ items'[i].list = items[i].list /\ items'[i].ref = items[i].ref
               /\ items'[i].md5 = items[i].md5
    <3>1. items[i] # NoItem /\ items'[i] = [items[i] EXCEPT !.pos = At(i) - 1]
      BY <2>1, <2>4 DEF In
    <3>2. items[i] \in Item
      BY <3>1, ItemIs
    <3>3. At(i) - 1 \in 0..(2 * MaxItems)
      BY <1>0, <2>3, <2>4
    <3> QED  BY <3>1, <3>2, <3>3 DEF Item
  <2>5. ASSUME NEW i \in Ids, ~Sent(i)  PROVE items'[i] = items[i]
    BY <2>1, <2>5
  <2> HIDE DEF Sent
  <2>6. ListsOK'
    <3>1. \A i \in Ids : items'[i] \in Item \cup {NoItem}
      BY <2>4, <2>5 DEF ListsOK
    <3>2. items' \in [Ids -> Item \cup {NoItem}]
      BY <2>1, <3>1
    <3> QED  BY <2>1, <2>4, <2>5, <3>2 DEF ListsOK
  <2>7. Made'
    <3> SUFFICES ASSUME NEW i \in Ids, items'[i] # NoItem
                 PROVE  i < nextId /\ items'[i].pos + 2 <= MaxItems + nextId
      BY <2>1 DEF Made
    <3>1. CASE Sent(i)
      <4>1. At(i) \in 1..MaxItems /\ items'[i].pos = At(i) - 1 /\ items[i] # NoItem
        BY <2>3, <2>4, <3>1
      <4>2. i < nextId
        BY <4>1 DEF Made
      <4> QED  BY <1>0, <4>1, <4>2
    <3>2. CASE ~Sent(i)
      BY <2>5, <3>2 DEF Made
    <3> QED  BY <3>1, <3>2
  <2>8. SaysTheSame /\ NothingNoted /\ Behind
    BY <1>0, <2>1, <2>4, <2>5 DEF SaysTheSame, NothingNoted, Behind
  <2> QED  BY <2>1, <2>6, <2>7, <2>8 DEF Curated
<1> QED  BY <1>1, <1>2, <1>3, <1>4, <1>5, <1>6 DEF Curate

LEMMA ListsStay == ListsOK /\ Made /\ UNCHANGED ListVars => ListsOK' /\ Made' /\ SaysTheSame /\ NothingNoted
<1> SUFFICES ASSUME ListsOK, Made, UNCHANGED ListVars  PROVE ListsOK' /\ Made' /\ SaysTheSame /\ NothingNoted
  OBVIOUS
<1> QED  BY DEF ListVars, ListsOK, Made, SaysTheSame, NothingNoted

\* A step of a fetch to another record, whose types are plain.
LEMMA FetchIs ==
  ASSUME FetchOK
  PROVE  /\ fetch.on \in BOOLEAN /\ fetch.read \in BOOLEAN /\ fetch.wrote \in BOOLEAN
         /\ fetch.clean \in BOOLEAN /\ fetch.list \in Lists \cup {NoItem}
         /\ fetch.left \subseteq [id : Ids, ref : Refs] /\ fetch.cur \in Cursor
         /\ fetch.done \subseteq [id : Ids, md5 : Mods]
  BY DEF FetchOK, FetchType

LEMMA NoFetchIs == NoCur \in Cursor /\ NoFetch \in FetchType
<1>1. MaxItems \in Nat /\ Copies \in Nat
  BY PlaylistsAssumption
<1>2. NoCur \in Cursor
  BY <1>1 DEF NoCur, Cursor
<1> QED  BY <1>2 DEF NoFetch, FetchType

Typed == ListsOK /\ FilesOK /\ FetchOK /\ Made

LEMMA RecordIs ==
  ASSUME Typed, Record
  PROVE  /\ ListsOK' /\ Made' /\ SaysTheSame
         /\ \A i \in Ids : i # fetch.cur.id => items'[i] = items[i]
         /\ items'[fetch.cur.id] # NoItem => items[fetch.cur.id] # NoItem
<1> DEFINE c == fetch.cur.id
<1>1. /\ c \in Ids /\ fetch.cur.md5 \in Mods
      /\ items' = IF items[c] = NoItem THEN items ELSE [items EXCEPT ![c].md5 = fetch.cur.md5]
      /\ lists' = lists /\ nextId' = nextId
  BY DEF Typed, FetchOK, Record
<1> HIDE DEF c
<1>2. CASE items[c] = NoItem
  BY <1>1, <1>2 DEF Typed, ListsOK, Made, SaysTheSame, c
<1>3. CASE items[c] # NoItem
  <2>1. items[c] \in Item
    BY <1>1, <1>3, ItemIs DEF Typed
  <2>2. items' = [items EXCEPT ![c] = [items[c] EXCEPT !.md5 = fetch.cur.md5]]
    BY <1>1, <1>3
  <2>3. /\ [items[c] EXCEPT !.md5 = fetch.cur.md5] \in Item
        /\ [items[c] EXCEPT !.md5 = fetch.cur.md5].list = items[c].list
        /\ [items[c] EXCEPT !.md5 = fetch.cur.md5].ref = items[c].ref
        /\ [items[c] EXCEPT !.md5 = fetch.cur.md5].pos = items[c].pos
    BY <1>1, <2>1 DEF Item
  <2>4. /\ items' \in [Ids -> Item \cup {NoItem}]
        /\ \A i \in Ids : i # c => items'[i] = items[i]
        /\ items'[c].list = items[c].list /\ items'[c].ref = items[c].ref /\ items'[c].pos = items[c].pos
    BY <1>1, <2>2, <2>3 DEF Typed, ListsOK
  <2>5. ListsOK'
    BY <1>1, <1>3, <2>4 DEF Typed, ListsOK
  <2>6. Made'
    BY <1>1, <1>3, <2>4 DEF Typed, ListsOK, Made
  <2>7. SaysTheSame
    BY <1>1, <1>3, <2>4 DEF Typed, ListsOK, SaysTheSame
  <2> QED  BY <1>3, <2>4, <2>5, <2>6, <2>7 DEF c
<1> QED  BY <1>2, <1>3

\* The name chosen is one of those there are, and one that is free if any is.
LEMMA PlaceIs ==
  ASSUME Typed, Place
  PROVE  \E d \in Places :
         \E f \in BOOLEAN :
           /\ fetch' = [fetch EXCEPT !.cur = [fetch.cur EXCEPT !.at = "write", !.dest = d, !.full = f]]
           /\ disk[d] = NoMod \/ f
<1> DEFINE free == {p \in Places : disk[p] = NoMod}
           d == IF free = {} THEN 1 ELSE CHOOSE p \in free : \A q \in free : p <= q
           f == free = {}
<1>1. fetch' = [fetch EXCEPT !.cur = [fetch.cur EXCEPT !.at = "write", !.dest = d, !.full = f]]
  BY DEF Place, Cur
<1>2. CASE free = {}
  <2>1. d = 1 /\ 1 \in Places
    BY <1>2, PlaylistsAssumption DEF Places
  <2>2. f \in BOOLEAN /\ f
    BY <1>2
  <2> HIDE DEF f
  <2> QED  BY <1>1, <2>1, <2>2
<1>3. CASE free # {}
  <2>1. free \in SUBSET Nat /\ free # {}
    BY <1>3 DEF Places
  <2> HIDE DEF free
  <2>2. d \in free
    BY <1>3, <2>1, LowestIs
  <2>3. f \in BOOLEAN /\ d \in Places /\ disk[d] = NoMod
    BY <2>2 DEF free
  <2> HIDE DEF d, f
  <2> QED  BY <1>1, <2>3
<1> QED  BY <1>2, <1>3

\* A file that changes while a download is about to be written, whether under its name.
Met(p, b, t) ==
  /\ fetch' = [fetch EXCEPT !.cur = [fetch.cur EXCEPT !.met = t], !.clean = b]
  /\ \E md5 \in Mods \cup {NoMod} : disk' = [disk EXCEPT ![p] = md5]
  /\ b => fetch.clean /\ disk[p] = NoMod
  /\ fetch.cur.met \/ (fetch.cur.at = "write" /\ fetch.cur.dest = p) => t

LEMMA MetIs ==
  ASSUME Change
  PROVE  \E p \in Places : \E b, t \in BOOLEAN : Met(p, b, t)
<1>1. PICK p \in Places, md5 \in Mods \cup {NoMod} :
        /\ disk' = [disk EXCEPT ![p] = md5]
        /\ fetch' = [fetch EXCEPT !.clean = @ /\ disk[p] = NoMod,
                       !.cur.met = @ \/ (fetch.cur.at = "write" /\ fetch.cur.dest = p)]
  BY DEF Change
<1> DEFINE b == fetch.clean /\ disk[p] = NoMod
           t == fetch.cur.met \/ (fetch.cur.at = "write" /\ fetch.cur.dest = p)
<1>2. fetch' = [fetch EXCEPT !.cur = [fetch.cur EXCEPT !.met = t], !.clean = b]
  BY <1>1
<1>3. b \in BOOLEAN /\ t \in BOOLEAN
  OBVIOUS
<1>4. /\ b => fetch.clean /\ disk[p] = NoMod
      /\ fetch.cur.met \/ (fetch.cur.at = "write" /\ fetch.cur.dest = p) => t
  OBVIOUS
<1> HIDE DEF b, t
<1> QED  BY <1>1, <1>2, <1>3, <1>4 DEF Met

\* What a write that is cut off may do to the files.
LEMMA TornIs ==
  ASSUME Typed, Torn
  PROVE  /\ disk' \in [Places -> Mods \cup {NoMod}]
         /\ \A p \in Places : disk'[p] # disk[p] => fetch.cur.at = "write" /\ p = fetch.cur.dest
  BY DEF Torn, Typed, FilesOK, FetchOK

\* What the fetch itself does to its record, and that nothing else changes in the lists.
LEMMA FetchTyped ==
  ASSUME Typed,
         (\E l \in Lists : FetchStart(l)) \/ FetchRead \/ (\E m \in fetch.left : Download(m))
           \/ Have \/ Place \/ Write \/ Record \/ FetchEnd \/ FetchError \/ WriteFails \/ Scan \/ Change
  PROVE  FetchOK'
<1>0. /\ FetchOK /\ fetch \in FetchType /\ NoCur \in Cursor /\ NoFetch \in FetchType
      /\ fetch.cur \in Cursor
  BY NoFetchIs, FetchIs DEF Typed, FetchOK
<1>1. CASE \E l \in Lists : FetchStart(l)
  <2>1. PICK l \in Lists : fetch' = [NoFetch EXCEPT !.on = TRUE, !.list = l]
    BY <1>1 DEF FetchStart
  <2>2. fetch' \in FetchType /\ fetch'.cur = NoCur
    BY <1>0, <2>1 DEF FetchType, NoFetch
  <2> QED  BY <2>2 DEF FetchOK, NoCur
<1>2. CASE FetchRead
  <2> DEFINE L == {[id |-> i, ref |-> items[i].ref] :
                     i \in {i \in In(fetch.list) : items[i].ref # NoRef /\ ~Present(items[i])}}
  <2>1. fetch' = [fetch EXCEPT !.read = TRUE, !.left = L]
    BY <1>2 DEF FetchRead
  <2>2. L \subseteq [id : Ids, ref : Refs]
    <3> SUFFICES ASSUME NEW i \in Ids, items[i] # NoItem, items[i].ref # NoRef
                 PROVE  [id |-> i, ref |-> items[i].ref] \in [id : Ids, ref : Refs]
      BY DEF In
    <3> QED  BY ItemIs DEF Typed
  <2> HIDE DEF L
  <2>3. fetch' \in FetchType /\ fetch'.cur = fetch.cur
    BY <1>0, <2>1, <2>2 DEF FetchType
  <2> QED  BY <1>0, <2>3 DEF FetchOK
<1>3. CASE \E m \in fetch.left : Download(m)
  <2>1. PICK m \in fetch.left : Download(m)
    BY <1>3
  <2>2. m \in [id : Ids, ref : Refs] /\ fetch.cur = NoCur
    BY <1>0, <2>1, FetchIs DEF Download
  <2>3. CASE fetch' = [fetch EXCEPT !.left = @ \ {m}]
    <3>1. fetch' \in FetchType /\ fetch'.cur = NoCur
      BY <1>0, <2>2, <2>3 DEF FetchType
    <3> QED  BY <3>1 DEF FetchOK, NoCur
  <2>4. ASSUME NEW md5 \in Mods,
               fetch' = [fetch EXCEPT !.left = @ \ {m},
                  !.cur = [at |-> "got", id |-> m.id, ref |-> m.ref, md5 |-> md5, dest |-> 0,
                           full |-> FALSE, met |-> FALSE]]
        PROVE FetchOK'
    <3> DEFINE c == [at |-> "got", id |-> m.id, ref |-> m.ref, md5 |-> md5, dest |-> 0,
                     full |-> FALSE, met |-> FALSE]
    <3>0. c \in Cursor /\ c.at = "got" /\ c.id = m.id /\ c.md5 = md5
      <4>1. m.id \in 0..MaxItems /\ m.ref \in Refs /\ 0 \in 0..Copies
        BY <2>2, PlaylistsAssumption DEF Ids
      <4> QED  BY <4>1 DEF Cursor
    <3>1. c \in Cursor /\ c.at = "got" /\ c.id \in Ids /\ c.md5 \in Mods
      BY <2>2, <3>0
    <3> HIDE DEF c
    <3>2. fetch' \in FetchType /\ fetch'.cur = c
      BY <1>0, <2>4, <3>1 DEF FetchType, c
    <3> QED  BY <3>1, <3>2 DEF FetchOK
  <2> QED  BY <2>1, <2>3, <2>4 DEF Download
<1>4. CASE Have
  <2>1. PICK a \in {"record", "place"}, b \in BOOLEAN :
          fetch' = [fetch EXCEPT !.cur = [fetch.cur EXCEPT !.at = a], !.clean = b]
    <3> DEFINE a == IF Indexed(fetch.cur.md5) THEN "record" ELSE "place"
               b == fetch.clean /\ (Indexed(fetch.cur.md5) => fetch.cur.md5 \in Range(disk))
    <3>1. fetch' = [fetch EXCEPT !.cur.at = a, !.clean = b]
      BY <1>4 DEF Have
    <3>2. a \in {"record", "place"} /\ b \in BOOLEAN
      OBVIOUS
    <3> HIDE DEF a, b
    <3> QED  BY <3>1, <3>2
  <2>2. [fetch.cur EXCEPT !.at = a] \in Cursor
    BY <1>0 DEF Cursor
  <2>3. /\ fetch' \in FetchType /\ fetch'.cur.at = a
        /\ fetch'.cur.id = fetch.cur.id /\ fetch'.cur.md5 = fetch.cur.md5
    BY <1>0, <2>1, <2>2 DEF FetchType, Cursor
  <2> QED  BY <1>0, <1>4, <2>3 DEF FetchOK, Have
<1>5. CASE Place
  <2>1. PICK d \in Places, f \in BOOLEAN :
          fetch' = [fetch EXCEPT !.cur = [fetch.cur EXCEPT !.at = "write", !.dest = d, !.full = f]]
    BY <1>5, PlaceIs
  <2>2. [fetch.cur EXCEPT !.at = "write", !.dest = d, !.full = f] \in Cursor
    <3>1. d \in 0..Copies
      BY PlaylistsAssumption DEF Places
    <3> QED  BY <1>0, <3>1 DEF Cursor
  <2>3. /\ fetch' \in FetchType /\ fetch'.cur.at = "write" /\ fetch'.cur.dest = d
        /\ fetch'.cur.id = fetch.cur.id /\ fetch'.cur.md5 = fetch.cur.md5
    BY <1>0, <2>1, <2>2 DEF FetchType, Cursor
  <2> QED  BY <1>0, <1>5, <2>3 DEF FetchOK, Place
<1>6. CASE Write
  <2>1. PICK b \in BOOLEAN :
          fetch' = [fetch EXCEPT !.cur = [fetch.cur EXCEPT !.at = "record"], !.wrote = TRUE, !.clean = b]
    <3> DEFINE b == fetch.clean /\ disk[fetch.cur.dest] = NoMod
    <3>1. fetch' = [fetch EXCEPT !.cur.at = "record", !.wrote = TRUE, !.clean = b] /\ b \in BOOLEAN
      BY <1>6 DEF Write
    <3> HIDE DEF b
    <3> QED  BY <3>1
  <2>2. [fetch.cur EXCEPT !.at = "record"] \in Cursor
    BY <1>0 DEF Cursor
  <2>3. /\ fetch' \in FetchType /\ fetch'.cur.at = "record"
        /\ fetch'.cur.id = fetch.cur.id /\ fetch'.cur.md5 = fetch.cur.md5
    BY <1>0, <2>1, <2>2 DEF FetchType, Cursor
  <2> QED  BY <1>0, <1>6, <2>3 DEF FetchOK, Write
<1>7. CASE Record
  <2>1. [id |-> fetch.cur.id, md5 |-> fetch.cur.md5] \in [id : Ids, md5 : Mods]
    BY <1>0, <1>7 DEF FetchOK, Record
  <2>2. fetch' \in FetchType /\ fetch'.cur = NoCur
    BY <1>0, <1>7, <2>1 DEF Record, FetchType
  <2> QED  BY <2>2 DEF FetchOK, NoCur
<1>8. CASE FetchEnd \/ FetchError
  <2>1. fetch' = NoFetch
    BY <1>8 DEF FetchEnd, FetchError
  <2> QED  BY <1>0, <2>1 DEF FetchOK, NoFetch, NoCur
<1>9. CASE WriteFails
  <2>1. PICK b \in BOOLEAN : fetch' = [fetch EXCEPT !.cur = NoCur, !.clean = b]
    <3> DEFINE b == fetch.clean /\ (disk' = disk \/ disk[fetch.cur.dest] = NoMod)
    <3>1. fetch' = [fetch EXCEPT !.cur = NoCur, !.clean = b] /\ b \in BOOLEAN
      BY <1>9 DEF WriteFails
    <3> HIDE DEF b
    <3> QED  BY <3>1
  <2>2. fetch' \in FetchType /\ fetch'.cur = NoCur
    BY <1>0, <2>1 DEF FetchType
  <2> QED  BY <2>2 DEF FetchOK, NoCur
<1>10. CASE Scan
  BY <1>0, <1>10 DEF Scan, FetchOK
<1>11. CASE Change
  <2>1. PICK b \in BOOLEAN, t \in BOOLEAN :
          fetch' = [fetch EXCEPT !.cur = [fetch.cur EXCEPT !.met = t], !.clean = b]
    BY <1>11, MetIs DEF Met
  <2>2. [fetch.cur EXCEPT !.met = t] \in Cursor
    BY <1>0 DEF Cursor
  <2>3. /\ fetch' \in FetchType /\ fetch'.cur.at = fetch.cur.at /\ fetch'.cur.dest = fetch.cur.dest
        /\ fetch'.cur.id = fetch.cur.id /\ fetch'.cur.md5 = fetch.cur.md5
    BY <1>0, <2>1, <2>2 DEF FetchType, Cursor
  <2> QED  BY <1>0, <2>3 DEF FetchOK
<1> QED  BY <1>1, <1>2, <1>3, <1>4, <1>5, <1>6, <1>7, <1>8, <1>9, <1>10, <1>11

FetchSteps == \/ \E l \in Lists : FetchStart(l)
              \/ FetchRead \/ (\E m \in fetch.left : Download(m)) \/ Have \/ Place \/ Write
              \/ FetchEnd \/ FetchError \/ WriteFails \/ Scan \/ Change

LEMMA NextIs == PlNext <=> Curate \/ FetchSteps \/ Record
  BY DEF PlNext, RunFetch, FetchSteps

LEMMA FilesTyped == Typed /\ (FetchSteps \/ Record) => FilesOK'
<1> SUFFICES ASSUME Typed, FetchSteps \/ Record  PROVE FilesOK'
  OBVIOUS
<1>1. CASE Write
  <2>1. fetch.cur.md5 \in Mods
    BY <1>1 DEF Typed, FetchOK, Write
  <2> QED  BY <1>1, <2>1 DEF Write, Typed, FilesOK
<1>2. CASE FetchEnd
  BY <1>2 DEF FetchEnd, Typed, FilesOK
<1>3. CASE Scan
  BY <1>3 DEF Scan, Typed, FilesOK
<1>4. CASE FetchError \/ WriteFails
  BY <1>4, TornIs, PlaylistsAssumption DEF FetchError, WriteFails, Fault, Typed, FilesOK
<1>5. CASE Change
  BY <1>5, PlaylistsAssumption DEF Change, Fault, Typed, FilesOK
<1>6. CASE (\E l \in Lists : FetchStart(l)) \/ FetchRead \/ (\E m \in fetch.left : Download(m))
           \/ Have \/ Place \/ Record
  <2>1. UNCHANGED <<disk, index, faults>>
    BY <1>6 DEF FetchStart, FetchRead, Download, Have, Place, Record
  <2> QED  BY <2>1 DEF Typed, FilesOK
<1> QED  BY <1>1, <1>2, <1>3, <1>4, <1>5, <1>6 DEF FetchSteps

LEMMA ListsKept == FetchSteps => UNCHANGED ListVars
  BY DEF FetchSteps, FetchStart, FetchRead, Download, Have, Place, Write, FetchEnd, FetchError,
         WriteFails, Scan, Change

\* A step that is none leaves all as it was.
LEMMA TypedStep == Typed /\ [PlNext]_plVars => Typed' /\ SaysTheSame
<1> SUFFICES ASSUME Typed, [PlNext]_plVars  PROVE Typed' /\ SaysTheSame
  OBVIOUS
<1>1. CASE Curate
  <2>1. Curated
    BY <1>1, CurateIs DEF Typed
  <2> QED  BY <2>1 DEF Curated, Outside, Typed, FilesOK, FetchOK
<1>2. CASE FetchSteps
  <2>1. ListsOK' /\ Made' /\ SaysTheSame
    BY <1>2, ListsKept, ListsStay DEF Typed
  <2> QED  BY <1>2, <2>1, FilesTyped, FetchTyped DEF Typed, FetchSteps
<1>3. CASE Record
  BY <1>3, RecordIs, FilesTyped, FetchTyped DEF Typed
<1>4. CASE UNCHANGED plVars
  <2>1. UNCHANGED ListVars /\ UNCHANGED <<disk, index, fetch, faults>>
    BY <1>4 DEF plVars, ListVars
  <2> QED  BY <2>1, ListsStay DEF Typed, FilesOK, FetchOK
<1> QED  BY <1>1, <1>2, <1>3, <1>4, NextIs

LEMMA PlStarts == PlInit => Typed
<1> SUFFICES ASSUME PlInit  PROVE Typed
  OBVIOUS
<1>1. ListsOK /\ Made
  BY PlaylistsAssumption DEF PlInit, ListsOK, Made
<1>2. FilesOK
  BY PlaylistsAssumption DEF PlInit, FilesOK
<1>3. FetchOK
  BY NoFetchIs DEF PlInit, FetchOK, NoFetch, NoCur
<1> QED  BY <1>1, <1>2, <1>3 DEF Typed

LEMMA TypedKept == PlSpec => []Typed
<1> QED  BY PlStarts, TypedStep, PTL DEF PlSpec

\* Lists, items, files and the fetch keep their types: no item outlives its list, no
\* position runs away, and what is under way is of an item that was made, whoever curates
\* while run_fetch_missing is running.
THEOREM PlTypeCorrect == PlSpec => []PlTypeOK
<1>1. Typed => PlTypeOK
  BY TypeParts DEF Typed
<1> QED  BY <1>1, TypedKept, PTL

\* What is added to a list comes behind all of it, whatever pages have reordered before
\* (api_add_item takes MAX(position) + 1; an import makes a list of its own).
THEOREM AddedComesLast == PlSpec => AddedLast
<1>1. Typed /\ [PlNext]_plVars => [Behind]_plVars
  <2> SUFFICES ASSUME Typed, PlNext  PROVE Behind
    BY DEF plVars
  <2>1. CASE Curate
    BY <2>1, CurateIs DEF Typed, Curated
  <2>2. CASE FetchSteps
    BY <2>2, ListsKept DEF ListVars, Behind
  <2>3. CASE Record
    BY <2>3, RecordIs DEF Behind
  <2> QED  BY <2>1, <2>2, <2>3, NextIs
<1> QED  BY <1>1, TypedKept, PTL DEF PlSpec, AddedLast, Behind

-----------------------------------------------------------------------------
(* The fetch.                                                              *)

\* An id is never given out again: the item it is of now, if it is still there, is the one
\* that was missing.
For(id, ref) == /\ id < nextId
                /\ items[id] # NoItem => items[id].list = fetch.list /\ items[id].ref = ref
Addressed    == /\ \A m \in fetch.left : For(m.id, m.ref)
                /\ fetch.cur.at # "none" => For(fetch.cur.id, fetch.cur.ref)

\* The name chosen is free, unless none was or another has met it since.
Spared == fetch.cur.at = "write" =>
            disk[fetch.cur.dest] = NoMod \/ fetch.cur.full \/ fetch.cur.met

\* What is noted, or about to be, is there, and indexed if no scan is to come.
Sure   == {m \in Mods : /\ \E p \in Places : disk[p] = m
                        /\ ~fetch.wrote => \E p \in Places : index[p] = m}
Stored == fetch.clean => /\ \A d \in fetch.done : d.md5 \in Sure
                         /\ fetch.cur.at = "record" => fetch.cur.md5 \in Sure

\* What each step makes of the record of the fetch.
LEMMA IdleIs ==
  ASSUME (\E l \in Lists : FetchStart(l)) \/ FetchEnd \/ FetchError
  PROVE  fetch'.left = {} /\ fetch'.done = {} /\ fetch'.cur.at = "none"
<1>1. CASE \E l \in Lists : FetchStart(l)
  <2>1. PICK l \in Lists : fetch' = [NoFetch EXCEPT !.on = TRUE, !.list = l]
    BY <1>1 DEF FetchStart
  <2> QED  BY <2>1 DEF NoFetch, NoCur
<1>2. CASE FetchEnd \/ FetchError
  BY <1>2 DEF FetchEnd, FetchError, NoFetch, NoCur
<1> QED  BY <1>1, <1>2

SameRun == /\ fetch'.on = fetch.on /\ fetch'.list = fetch.list /\ fetch'.left \subseteq fetch.left
SameCur == /\ fetch'.cur.id = fetch.cur.id /\ fetch'.cur.ref = fetch.cur.ref
           /\ fetch'.cur.md5 = fetch.cur.md5

LEMMA DownloadIs ==
  ASSUME FetchOK, NEW m \in fetch.left, Download(m)
  PROVE  /\ SameRun /\ fetch'.done = fetch.done /\ fetch'.wrote = fetch.wrote
         /\ fetch'.clean = fetch.clean /\ fetch'.cur.at \in {"none", "got"}
         /\ fetch'.cur.at # "none" => fetch'.cur.id = m.id /\ fetch'.cur.ref = m.ref
         /\ UNCHANGED <<ListVars, disk, index, faults>>
<1>1. CASE fetch' = [fetch EXCEPT !.left = @ \ {m}]
  BY <1>1 DEF Download, FetchOK, FetchType, SameRun, NoCur
<1>2. ASSUME NEW md5 \in Mods,
             fetch' = [fetch EXCEPT !.left = @ \ {m},
                !.cur = [at |-> "got", id |-> m.id, ref |-> m.ref, md5 |-> md5, dest |-> 0,
                         full |-> FALSE, met |-> FALSE]]
      PROVE  /\ SameRun /\ fetch'.done = fetch.done /\ fetch'.wrote = fetch.wrote
             /\ fetch'.clean = fetch.clean /\ fetch'.cur.at = "got"
             /\ fetch'.cur.id = m.id /\ fetch'.cur.ref = m.ref
  BY <1>2 DEF FetchOK, FetchType, SameRun, NoCur
<1> QED  BY <1>1, <1>2 DEF Download

LEMMA HaveIs ==
  ASSUME FetchOK, Have
  PROVE  /\ SameRun /\ SameCur /\ fetch'.done = fetch.done /\ fetch'.wrote = fetch.wrote
         /\ fetch.cur.at = "got"
         /\ fetch'.cur.at = IF Indexed(fetch.cur.md5) THEN "record" ELSE "place"
         /\ fetch'.clean => fetch.clean /\ (Indexed(fetch.cur.md5) => fetch.cur.md5 \in Range(disk))
         /\ UNCHANGED <<ListVars, disk, index, faults>>
<1> DEFINE a == IF Indexed(fetch.cur.md5) THEN "record" ELSE "place"
           b == fetch.clean /\ (Indexed(fetch.cur.md5) => fetch.cur.md5 \in Range(disk))
           c == [fetch.cur EXCEPT !.at = a]
<1>1. fetch' = [fetch EXCEPT !.cur = c, !.clean = b]
  BY DEF Have
<1>2. c.at = a /\ c.id = fetch.cur.id /\ c.ref = fetch.cur.ref /\ c.md5 = fetch.cur.md5
  BY FetchIs DEF Cursor
<1> HIDE DEF a, c
<1>3. fetch'.cur = c /\ fetch'.clean = b
  BY <1>1, FetchIs DEF FetchOK, FetchType
<1>4. SameRun /\ fetch'.done = fetch.done /\ fetch'.wrote = fetch.wrote
  BY <1>1 DEF FetchOK, FetchType, SameRun
<1> QED  BY <1>2, <1>3, <1>4 DEF SameCur, Have, a

LEMMA PlacedIs ==
  ASSUME FetchOK, NEW d \in Places, NEW f \in BOOLEAN,
         fetch' = [fetch EXCEPT !.cur = [fetch.cur EXCEPT !.at = "write", !.dest = d, !.full = f]]
  PROVE  /\ SameRun /\ SameCur /\ fetch'.done = fetch.done /\ fetch'.wrote = fetch.wrote
         /\ fetch'.clean = fetch.clean /\ fetch'.cur.at = "write" /\ fetch'.cur.dest = d
         /\ fetch'.cur.full = f
<1> DEFINE c == [fetch.cur EXCEPT !.at = "write", !.dest = d, !.full = f]
<1>1. /\ c.at = "write" /\ c.dest = d /\ c.full = f
      /\ c.id = fetch.cur.id /\ c.ref = fetch.cur.ref /\ c.md5 = fetch.cur.md5
  BY FetchIs DEF Cursor
<1>2. fetch' = [fetch EXCEPT !.cur = c]
  OBVIOUS
<1> HIDE DEF c
<1> QED  BY <1>1, <1>2 DEF FetchOK, FetchType, SameRun, SameCur

LEMMA WriteIs ==
  ASSUME FetchOK, Write
  PROVE  /\ SameRun /\ SameCur /\ fetch'.done = fetch.done /\ fetch'.wrote = TRUE
         /\ fetch'.clean => fetch.clean /\ disk[fetch.cur.dest] = NoMod
         /\ fetch.cur.at = "write" /\ fetch'.cur.at = "record"
         /\ fetch.cur.dest \in Places /\ fetch.cur.md5 \in Mods
         /\ disk' = [disk EXCEPT ![fetch.cur.dest] = fetch.cur.md5]
         /\ UNCHANGED <<ListVars, index, faults>>
<1> DEFINE b == fetch.clean /\ disk[fetch.cur.dest] = NoMod
           c == [fetch.cur EXCEPT !.at = "record"]
<1>1. fetch' = [fetch EXCEPT !.cur = c, !.wrote = TRUE, !.clean = b]
  BY DEF Write
<1>2. c.at = "record" /\ c.id = fetch.cur.id /\ c.ref = fetch.cur.ref /\ c.md5 = fetch.cur.md5
  BY FetchIs DEF Cursor
<1> HIDE DEF c
<1>3. fetch'.cur = c /\ fetch'.wrote = TRUE /\ fetch'.clean = b
  BY <1>1 DEF FetchOK, FetchType
<1>4. SameRun /\ fetch'.done = fetch.done
  BY <1>1 DEF FetchOK, FetchType, SameRun
<1> QED  BY <1>2, <1>3, <1>4 DEF SameCur, Write, FetchOK

LEMMA LeftIs ==
  ASSUME Typed, Record \/ WriteFails
  PROVE  /\ SameRun /\ fetch'.cur.at = "none" /\ fetch'.wrote = fetch.wrote
         /\ fetch'.clean => fetch.clean /\ \A p \in Places : disk[p] # NoMod => disk'[p] = disk[p]
         /\ \/ fetch'.done = fetch.done
            \/ /\ fetch.cur.at = "record"
               /\ fetch'.done = fetch.done \cup {[id |-> fetch.cur.id, md5 |-> fetch.cur.md5]}
         /\ index' = index
<1>0. FetchOK
  BY DEF Typed
<1>1. CASE Record
  BY <1>0, <1>1 DEF Record, FetchOK, FetchType, SameRun, NoCur
<1>2. CASE WriteFails
  <2> DEFINE b == fetch.clean /\ (disk' = disk \/ disk[fetch.cur.dest] = NoMod)
  <2>1. fetch' = [fetch EXCEPT !.cur = NoCur, !.clean = b] /\ Torn /\ index' = index
    BY <1>2 DEF WriteFails
  <2>2. b => fetch.clean /\ \A p \in Places : disk[p] # NoMod => disk'[p] = disk[p]
    BY <2>1, TornIs
  <2> HIDE DEF b
  <2>3. fetch'.clean = b /\ SameRun /\ fetch'.cur = NoCur /\ fetch'.wrote = fetch.wrote /\ fetch'.done = fetch.done
    BY <1>0, <2>1 DEF FetchOK, FetchType, SameRun
  <2> QED  BY <2>1, <2>2, <2>3 DEF NoCur
<1> QED  BY <1>1, <1>2

LEMMA ChangeIs ==
  ASSUME FetchOK, Change
  PROVE  /\ SameRun /\ SameCur /\ fetch'.done = fetch.done /\ fetch'.wrote = fetch.wrote
         /\ fetch'.cur.at = fetch.cur.at /\ fetch'.cur.dest = fetch.cur.dest
         /\ fetch'.cur.full = fetch.cur.full
         /\ UNCHANGED <<ListVars, index>> /\ Fault
         /\ \E p \in Places : /\ \E md5 \in Mods \cup {NoMod} : disk' = [disk EXCEPT ![p] = md5]
                              /\ fetch'.clean => fetch.clean /\ disk[p] = NoMod
                              /\ fetch.cur.met \/ (fetch.cur.at = "write" /\ fetch.cur.dest = p)
                                   => fetch'.cur.met
<1>1. PICK p \in Places, b \in BOOLEAN, t \in BOOLEAN : Met(p, b, t)
  BY MetIs
<1> DEFINE c == [fetch.cur EXCEPT !.met = t]
<1>2. /\ c.id = fetch.cur.id /\ c.ref = fetch.cur.ref /\ c.md5 = fetch.cur.md5 /\ c.at = fetch.cur.at
      /\ c.dest = fetch.cur.dest /\ c.full = fetch.cur.full /\ c.met = t
  BY FetchIs DEF Cursor
<1>3. fetch' = [fetch EXCEPT !.cur = c, !.clean = b]
  BY <1>1 DEF Met
<1> HIDE DEF c
<1>4. /\ SameRun /\ fetch'.done = fetch.done /\ fetch'.wrote = fetch.wrote
      /\ fetch'.cur = c /\ fetch'.clean = b
  BY <1>3 DEF FetchOK, FetchType, SameRun
<1> QED  BY <1>1, <1>2, <1>4 DEF Change, Met, SameCur

LEMMA ForStays ==
  ASSUME Typed, Typed', SaysTheSame, fetch'.list = fetch.list
  PROVE  \A id \in Ids : \A ref : For(id, ref) => For(id, ref)'
<1>1. nextId \in Nat /\ nextId' \in Nat /\ Ids \subseteq Nat /\ nextId <= nextId'
  BY PlaylistsAssumption DEF Typed, ListsOK, SaysTheSame, Ids
<1>2. SUFFICES ASSUME NEW id \in Ids, NEW ref, For(id, ref)
               PROVE  /\ id < nextId'
                      /\ items'[id] # NoItem => items'[id].list = fetch'.list /\ items'[id].ref = ref
  BY DEF For
<1>3. id < nextId /\ id < nextId'
  <2>1. id < nextId
    BY <1>2 DEF For
  <2>2. id \in Nat
    BY <1>1
  <2> QED  BY <1>1, <2>1, <2>2
<1>4. ASSUME items'[id] # NoItem  PROVE items'[id].list = fetch'.list /\ items'[id].ref = ref
  <2>1. items[id] # NoItem /\ items'[id].list = items[id].list /\ items'[id].ref = items[id].ref
    BY <1>3, <1>4 DEF SaysTheSame
  <2> QED  BY <1>2, <2>1 DEF For
<1> QED  BY <1>3, <1>4

\* What a step makes of the record of the fetch, as far as its addresses go.
GoesOn == /\ fetch'.list = fetch.list /\ fetch'.left \subseteq fetch.left
          /\ fetch'.cur.at # "none" => /\ fetch.cur.at # "none"
                                       /\ fetch'.cur.id = fetch.cur.id /\ fetch'.cur.ref = fetch.cur.ref

LEMMA GoingOn ==
  ASSUME Typed, Have \/ Place \/ Write \/ Record \/ WriteFails \/ Scan \/ Change
  PROVE  GoesOn
<1>0. FetchOK
  BY DEF Typed
<1>1. CASE Have
  BY <1>0, <1>1, HaveIs DEF GoesOn, SameRun, SameCur
<1>2. CASE Place
  BY <1>0, <1>2, PlaceIs, PlacedIs DEF GoesOn, SameRun, SameCur, Place
<1>3. CASE Write
  BY <1>0, <1>3, WriteIs DEF GoesOn, SameRun, SameCur
<1>4. CASE Record \/ WriteFails
  BY <1>4, LeftIs DEF GoesOn, SameRun
<1>5. CASE Scan
  BY <1>5 DEF Scan, GoesOn
<1>6. CASE Change
  BY <1>0, <1>6, ChangeIs DEF GoesOn, SameRun, SameCur
<1> QED  BY <1>1, <1>2, <1>3, <1>4, <1>5, <1>6

LEMMA AddressedStep == Typed /\ Addressed /\ [PlNext]_plVars => Addressed'
<1> SUFFICES ASSUME Typed, Addressed, [PlNext]_plVars  PROVE Addressed'
  OBVIOUS
<1>0. /\ SaysTheSame /\ Typed' /\ fetch \in FetchType /\ fetch.cur \in Cursor
      /\ fetch.left \subseteq [id : Ids, ref : Refs]
      /\ fetch.cur.at # "none" => fetch.cur.id \in Ids
  BY TypedStep, FetchIs DEF Typed, FetchOK
<1>1. CASE GoesOn
  <2>1. ASSUME NEW m \in fetch'.left  PROVE For(m.id, m.ref)'
    BY <1>0, <1>1, <2>1, ForStays DEF GoesOn, Addressed
  <2>2. ASSUME fetch'.cur.at # "none"
        PROVE  /\ fetch'.cur.id < nextId'
               /\ items'[fetch'.cur.id] # NoItem =>
                    items'[fetch'.cur.id].list = fetch'.list /\ items'[fetch'.cur.id].ref = fetch'.cur.ref
    <3>1. /\ fetch.cur.id \in Ids /\ For(fetch.cur.id, fetch.cur.ref)
          /\ fetch'.cur.id = fetch.cur.id /\ fetch'.cur.ref = fetch.cur.ref /\ fetch'.list = fetch.list
      BY <1>0, <1>1, <2>2 DEF GoesOn, Addressed
    <3>2. \A id \in Ids : \A ref : For(id, ref) => /\ id < nextId'
                                                   /\ items'[id] # NoItem => items'[id].list = fetch'.list /\ items'[id].ref = ref
      BY <1>0, <3>1, ForStays DEF For
    <3> QED  BY <3>1, <3>2
  <2> QED  BY <2>1, <2>2 DEF Addressed, For
<1>2. CASE Curate \/ UNCHANGED plVars
  <2>1. fetch' = fetch
    BY <1>2, CurateIs DEF Typed, Curated, Outside, plVars
  <2> QED  BY <1>1, <2>1 DEF GoesOn
<1>3. CASE \E l \in Lists : FetchStart(l)
  BY <1>3, IdleIs DEF Addressed
<1>4. CASE FetchEnd \/ FetchError
  BY <1>4, IdleIs DEF Addressed
<1>5. CASE FetchRead
  <2>1. /\ fetch'.left = {[id |-> i, ref |-> items[i].ref] :
                            i \in {i \in In(fetch.list) : items[i].ref # NoRef /\ ~Present(items[i])}}
        /\ fetch'.list = fetch.list /\ fetch'.cur = fetch.cur /\ items' = items /\ nextId' = nextId
    BY <1>0, <1>5 DEF FetchRead, FetchType, ListVars
  <2>2. ASSUME NEW m \in fetch'.left  PROVE For(m.id, m.ref)'
    <3>1. PICK i \in In(fetch.list) : m.id = i /\ m.ref = items[i].ref
      BY <2>1
    <3> QED  BY <2>1, <3>1 DEF For, In, Typed, Made
  <2> QED  BY <2>1, <2>2 DEF Addressed, For
<1>6. CASE \E m \in fetch.left : Download(m)
  <2>1. PICK m \in fetch.left : Download(m)
    BY <1>6
  <2>2. /\ fetch'.list = fetch.list /\ fetch'.left \subseteq fetch.left /\ items' = items /\ nextId' = nextId
        /\ fetch'.cur.at # "none" => fetch'.cur.id = m.id /\ fetch'.cur.ref = m.ref
    BY <2>1, DownloadIs DEF Typed, SameRun, ListVars
  <2> QED  BY <2>2 DEF Addressed, For
<1> QED  BY <1>1, <1>2, <1>3, <1>4, <1>5, <1>6, GoingOn, NextIs DEF FetchSteps

LEMMA SparedStep == Typed /\ Spared /\ [PlNext]_plVars => Spared'
<1> SUFFICES ASSUME Typed, Spared, [PlNext]_plVars  PROVE Spared'
  OBVIOUS
<1>0. /\ FetchOK /\ disk \in [Places -> Mods \cup {NoMod}]
      /\ fetch.cur.at = "write" => fetch.cur.dest \in Places
  BY DEF Typed, FetchOK, FilesOK
<1>1. CASE Curate \/ UNCHANGED plVars \/ Scan
  <2>1. fetch' = fetch /\ disk' = disk
    BY <1>1, CurateIs DEF Typed, Curated, Outside, plVars, Scan
  <2> QED  BY <2>1 DEF Spared
<1>2. CASE (\E l \in Lists : FetchStart(l)) \/ FetchEnd \/ FetchError
  BY <1>2, IdleIs DEF Spared
<1>3. CASE (\E m \in fetch.left : Download(m)) \/ Have \/ Write \/ Record \/ WriteFails
  <2>1. fetch'.cur.at # "write"
    BY <1>0, <1>3, DownloadIs, HaveIs, WriteIs, LeftIs
  <2> QED  BY <2>1 DEF Spared
<1>4. CASE FetchRead
  <2>1. fetch'.cur = fetch.cur /\ disk' = disk
    BY <1>0, <1>4 DEF FetchRead, FetchOK, FetchType
  <2> QED  BY <2>1 DEF Spared
<1>5. CASE Place
  <2>1. PICK d \in Places, f \in BOOLEAN :
           /\ fetch' = [fetch EXCEPT !.cur = [fetch.cur EXCEPT !.at = "write", !.dest = d, !.full = f]]
           /\ disk[d] = NoMod \/ f
    BY <1>5, PlaceIs
  <2>2. fetch'.cur.dest = d /\ fetch'.cur.full = f /\ disk' = disk
    BY <1>0, <1>5, <2>1, PlacedIs DEF Place
  <2> QED  BY <2>1, <2>2 DEF Spared
<1>6. CASE Change
  <2>1. /\ fetch'.cur.at = fetch.cur.at /\ fetch'.cur.dest = fetch.cur.dest
        /\ fetch'.cur.full = fetch.cur.full
    BY <1>0, <1>6, ChangeIs
  <2>2. PICK p \in Places : /\ \E md5 \in Mods \cup {NoMod} : disk' = [disk EXCEPT ![p] = md5]
                            /\ fetch.cur.met \/ (fetch.cur.at = "write" /\ fetch.cur.dest = p)
                                 => fetch'.cur.met
    BY <1>0, <1>6, ChangeIs
  <2> QED  BY <1>0, <2>1, <2>2 DEF Spared
<1> QED  BY <1>1, <1>2, <1>3, <1>4, <1>5, <1>6, NextIs DEF FetchSteps

\* What is there stays, while no file is replaced or taken away.
FilesStay == /\ \A p \in Places : disk[p] # NoMod => disk'[p] = disk[p]
             /\ index' = index \/ (index' = disk /\ disk' = disk)

LEMMA SureStays ==
  ASSUME FilesStay, fetch.wrote => fetch'.wrote
  PROVE  Sure \subseteq Sure'
<1>1. NoMod \notin Mods
  BY PlaylistsAssumption
<1> QED  BY <1>1 DEF FilesStay, Sure

LEMMA StoredStep == Typed /\ Stored /\ [PlNext]_plVars => Stored'
<1> SUFFICES ASSUME Typed, Stored, [PlNext]_plVars  PROVE Stored'
  OBVIOUS
<1>0. /\ FetchOK /\ disk \in [Places -> Mods \cup {NoMod}] /\ index \in [Places -> Mods \cup {NoMod}]
      /\ fetch.cur.at # "none" => fetch.cur.md5 \in Mods
  BY DEF Typed, FetchOK, FilesOK
<1>1. ASSUME /\ fetch'.clean => fetch.clean /\ FilesStay
             /\ fetch'.done = fetch.done /\ (fetch.wrote => fetch'.wrote)
             /\ fetch'.cur.at = "record" => fetch.cur.at = "record" /\ fetch'.cur.md5 = fetch.cur.md5
      PROVE  Stored'
  BY <1>1, SureStays DEF Stored
<1>2. CASE Curate \/ UNCHANGED plVars
  <2>1. UNCHANGED Outside
    BY <1>2, CurateIs DEF Typed, Curated, Outside, plVars
  <2>2. UNCHANGED <<disk, index, fetch>>
    BY <2>1 DEF Outside
  <2> QED  BY <1>1, <2>2 DEF FilesStay
<1>3. CASE (\E l \in Lists : FetchStart(l)) \/ FetchEnd \/ FetchError
  BY <1>3, IdleIs DEF Stored
<1>4. CASE FetchRead
  <2>1. /\ UNCHANGED <<disk, index>> /\ fetch'.done = fetch.done /\ fetch'.wrote = fetch.wrote
        /\ fetch'.clean = fetch.clean /\ fetch'.cur = fetch.cur
    BY <1>0, <1>4 DEF FetchRead, FetchOK, FetchType
  <2> QED  BY <1>1, <2>1 DEF FilesStay
<1>5. CASE \E m \in fetch.left : Download(m)
  <2>1. /\ UNCHANGED <<disk, index>> /\ fetch'.done = fetch.done /\ fetch'.wrote = fetch.wrote
        /\ fetch'.clean = fetch.clean /\ fetch'.cur.at # "record"
    BY <1>0, <1>5, DownloadIs
  <2> QED  BY <1>1, <2>1 DEF FilesStay
<1>6. CASE Have
  <2>1. fetch'.clean /\ fetch'.cur.at = "record" => fetch.cur.md5 \in Sure
    BY <1>0, <1>6, HaveIs DEF Indexed, Range, Sure
  <2>2. UNCHANGED <<disk, index>> /\ fetch'.wrote = fetch.wrote
    BY <1>0, <1>6, HaveIs
  <2>3. Sure' = Sure
    BY <2>2 DEF Sure
  <2>4. fetch'.done = fetch.done /\ fetch'.cur.md5 = fetch.cur.md5 /\ (fetch'.clean => fetch.clean)
    BY <1>0, <1>6, HaveIs DEF SameCur
  <2> QED  BY <2>1, <2>3, <2>4 DEF Stored
<1>7. CASE Place
  <2>1. /\ UNCHANGED <<disk, index>> /\ fetch'.done = fetch.done /\ fetch'.wrote = fetch.wrote
        /\ fetch'.clean = fetch.clean /\ fetch'.cur.at # "record"
    BY <1>0, <1>7, PlaceIs, PlacedIs DEF Typed, Place
  <2> QED  BY <1>1, <2>1 DEF FilesStay
<1>8. CASE Write
  <2>1. fetch'.clean => FilesStay /\ fetch.clean
    BY <1>0, <1>8, WriteIs DEF FilesStay
  <2>2. fetch'.wrote /\ fetch'.done = fetch.done /\ fetch'.cur.md5 = fetch.cur.md5
    BY <1>0, <1>8, WriteIs DEF SameCur
  <2>3. fetch.cur.md5 \in Sure'
    BY <1>0, <1>8, <2>2, WriteIs DEF Sure
  <2> QED  BY <2>1, <2>2, <2>3, SureStays DEF Stored
<1>9. CASE Record \/ WriteFails
  <2>1. /\ index' = index /\ fetch'.wrote = fetch.wrote
        /\ fetch'.clean => fetch.clean /\ \A p \in Places : disk[p] # NoMod => disk'[p] = disk[p]
    BY <1>9, LeftIs
  <2>2. fetch'.clean => fetch.clean /\ Sure \subseteq Sure'
    BY <2>1, SureStays DEF FilesStay
  <2>3. /\ fetch'.cur.at # "record"
        /\ \/ fetch'.done = fetch.done
           \/ /\ fetch.cur.at = "record"
              /\ fetch'.done = fetch.done \cup {[id |-> fetch.cur.id, md5 |-> fetch.cur.md5]}
    BY <1>9, LeftIs
  <2> QED  BY <2>2, <2>3 DEF Stored
<1>10. CASE Scan
  <2>1. fetch' = fetch /\ disk' = disk /\ index' = disk
    BY <1>10 DEF Scan
  <2> QED  BY <1>1, <2>1 DEF FilesStay
<1>11. CASE Change
  <2>1. /\ fetch'.cur.at = fetch.cur.at /\ fetch'.cur.md5 = fetch.cur.md5
        /\ fetch'.done = fetch.done /\ fetch'.wrote = fetch.wrote /\ index' = index
    BY <1>0, <1>11, ChangeIs DEF SameCur
  <2>2. fetch'.clean => fetch.clean /\ FilesStay
    BY <1>0, <1>11, ChangeIs DEF FilesStay
  <2> QED  BY <1>1, <2>1, <2>2
<1> QED  BY <1>2, <1>3, <1>4, <1>5, <1>6, <1>7, <1>8, <1>9, <1>10, <1>11, NextIs DEF FetchSteps

FetchInv == Typed /\ Addressed /\ Spared /\ Stored

LEMMA FetchInvKept == PlSpec => []FetchInv
<1>1. PlInit => FetchInv
  BY PlStarts DEF PlInit, FetchInv, Addressed, Spared, Stored, NoFetch, NoCur
<1>2. FetchInv /\ [PlNext]_plVars => FetchInv'
  BY TypedStep, AddressedStep, SparedStep, StoredStep DEF FetchInv
<1> QED  BY <1>1, <1>2, PTL DEF PlSpec

\* By what run_fetch_missing, place_download and write_module do, a download replaces no file
\* unless no name was free or another wrote to the one it had chosen; its md5 is noted on the
\* item it was downloaded for, and on no other; and what was fetched is present when the fetch
\* ends, if no file was replaced or taken away meanwhile.
THEOREM FetchKeepsSafe == PlSpec => FetchIsSafe
<1> DEFINE Spares == fetch.cur.at = "write" /\ fetch'.cur.at # "write"
                       => \A p \in Places : disk[p] # NoMod /\ disk'[p] # disk[p]
                            => p = fetch.cur.dest /\ (fetch.cur.full \/ fetch.cur.met)
           Notes  == \A i \in Ids : items[i] # NoItem /\ items'[i] # NoItem /\ items[i].md5 # items'[i].md5
                       => /\ i = fetch.cur.id /\ items'[i].md5 = fetch.cur.md5
                          /\ items[i].list = fetch.list /\ items[i].ref = fetch.cur.ref
           Has    == fetch.on /\ ~fetch'.on /\ faults' = faults /\ fetch.clean
                       => \A d \in fetch.done : d.md5 \in Range(index')
<1>1. ASSUME FetchInv, PlNext  PROVE Spares /\ Notes /\ Has
  <2>0. /\ Typed /\ Typed' /\ disk \in [Places -> Mods \cup {NoMod}] /\ index' \in [Places -> Mods \cup {NoMod}]
        /\ fetch \in FetchType /\ faults \in Nat
        /\ fetch.cur.at = "write" => fetch.cur.dest \in Places
    BY <1>1, TypedStep, PlaylistsAssumption DEF FetchInv, Typed, FilesOK, FetchOK
  <2>1. CASE Curate
    <3>1. UNCHANGED <<disk, fetch>> /\ NothingNoted
      BY <1>1, <2>1, CurateIs DEF FetchInv, Typed, Curated, Outside
    <3> QED  BY <3>1 DEF NothingNoted
  <2>2. CASE Record
    <3>1. disk' = disk /\ fetch'.on = fetch.on
      BY <2>0, <2>2 DEF Record, FetchType
    <3>2. Notes
      <4> SUFFICES ASSUME NEW i \in Ids, items[i] # NoItem, items[i].md5 # items'[i].md5
                   PROVE  /\ i = fetch.cur.id /\ items'[i].md5 = fetch.cur.md5
                          /\ items[i].list = fetch.list /\ items[i].ref = fetch.cur.ref
        OBVIOUS
      <4>1. i = fetch.cur.id
        BY <2>0, <2>2, RecordIs
      <4>2. items'[i].md5 = fetch.cur.md5
        BY <2>0, <2>2, <4>1, ItemIs DEF Record, Typed, ListsOK, Item
      <4> QED  BY <1>1, <2>2, <4>1, <4>2 DEF FetchInv, Addressed, For, Record
    <3> QED  BY <3>1, <3>2
  <2>3. CASE FetchSteps
    <3>1. Notes
      BY <2>3, ListsKept DEF ListVars
    <3>2. Spares
      <4>1. CASE Write
        <5>1. disk' = [disk EXCEPT ![fetch.cur.dest] = fetch.cur.md5] /\ fetch.cur.at = "write"
          BY <4>1 DEF Write
        <5>2. disk[fetch.cur.dest] = NoMod \/ fetch.cur.full \/ fetch.cur.met
          BY <1>1, <5>1 DEF FetchInv, Spared
        <5> QED  BY <2>0, <5>1, <5>2
      <4>2. CASE FetchError \/ WriteFails
        <5>1. \A p \in Places : disk'[p] # disk[p] => fetch.cur.at = "write" /\ p = fetch.cur.dest
          BY <2>0, <4>2, TornIs DEF FetchError, WriteFails
        <5> QED  BY <1>1, <5>1 DEF FetchInv, Spared
      <4>3. CASE Change
        BY <2>0, <4>3, ChangeIs DEF Typed
      <4>4. CASE ~(Write \/ FetchError \/ WriteFails \/ Change)
        BY <2>3, <4>4 DEF FetchSteps, FetchStart, FetchRead, Download, Have, Place, FetchEnd, Scan
      <4> QED  BY <4>1, <4>2, <4>3, <4>4
    <3>3. Has
      <4>1. CASE FetchEnd
        <5> SUFFICES ASSUME fetch.clean, NEW d \in fetch.done  PROVE d.md5 \in Range(index')
          OBVIOUS
        <5>1. d.md5 \in Sure /\ index' = IF fetch.wrote THEN disk ELSE index
          BY <1>1, <4>1 DEF FetchInv, Stored, FetchEnd
        <5>2. \E p \in Places : index'[p] = d.md5
          BY <5>1 DEF Sure
        <5> QED  BY <2>0, <5>2 DEF Range
      <4>2. CASE FetchError
        BY <2>0, <4>2 DEF FetchError, Fault
      <4>3. CASE ~FetchEnd /\ ~FetchError
        <5>1. fetch.on => fetch'.on
          BY <2>0, <2>3, <4>3 DEF FetchSteps, FetchStart, FetchRead, Download, Have, Place, Write,
                                  WriteFails, Cur, Scan, Change, FetchType
        <5> QED  BY <5>1
      <4> QED  BY <4>1, <4>2, <4>3
    <3> QED  BY <3>1, <3>2, <3>3
  <2> QED  BY <1>1, <2>1, <2>2, <2>3, NextIs
<1>2. FetchInv /\ [PlNext]_plVars => [Spares /\ Notes /\ Has]_plVars
  BY <1>1
<1> QED  BY <1>2, FetchInvKept, PTL DEF PlSpec, FetchIsSafe

=============================================================================
