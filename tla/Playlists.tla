----------------------------- MODULE Playlists -----------------------------
(***************************************************************************)
(* Playlists of the tracker backend and the fetch of what they lack.       *)
(*                                                                         *)
(* A playlist item is known by a surrogate id.  It says what it is by an   *)
(* md5, or where it can be downloaded, or both, and is present when the    *)
(* index has a file of that md5 or, failing that, of its file name.  A     *)
(* fetch, one at a time, downloads the items of a list that are missing,   *)
(* writes what it gets beside the files that are there, notes the md5 on   *)
(* the item, and scans.  Everything else goes on meanwhile: items come, go *)
(* and move, lists are deleted, the mount and the index change.            *)
(*                                                                         *)
(* All modules here have one artist and one file name, so that every two   *)
(* of them meet: place 1 is that name, place n is name~n.                  *)
(***************************************************************************)
EXTENDS Naturals, Sequences, FiniteSets, Functions

CONSTANTS Lists, Refs, Mods, NoMod, NoRef, NoItem,
          Offered,  \* what may be added or imported: md5, ref, and whether the
                    \* file name is known
          Copies,   \* of one file name: 999 in the code
          MaxItems, \* bound: items ever made
          MaxFaults \* bound: changes by other hands, failures, crashes

ASSUME PlaylistsAssumption ==
  /\ NoMod \notin Mods /\ NoRef \notin Refs
  /\ Offered \subseteq [md5 : Mods \cup {NoMod}, ref : Refs \cup {NoRef}, named : BOOLEAN]
                      \ [md5 : {NoMod}, ref : {NoRef}, named : BOOLEAN]
  /\ Copies \in Nat \ {0} /\ MaxItems \in Nat /\ MaxFaults \in Nat

VARIABLES lists,  \* the playlists
          items,  \* playlist_items, by id
          nextId, \* AUTOINCREMENT
          disk,   \* the file at each place
          index,  \* `files`: the md5 at each place, as last scanned
          fetch,  \* the fetch: FetchProgress.running and run_fetch_missing
          faults  \* what the bound still allows

plVars == <<lists, items, nextId, disk, index, fetch, faults>>

Places == 1..Copies
Ids    == 1..MaxItems
Item   == [list : Lists, pos : 0..(2 * MaxItems), md5 : Mods \cup {NoMod}, ref : Refs \cup {NoRef},
           named : BOOLEAN]
\* The last two are of the history: no name was free, and another wrote to the one chosen.
NoCur  == [at |-> "none", id |-> 0, ref |-> NoRef, md5 |-> NoMod, dest |-> 0,
           full |-> FALSE, met |-> FALSE]
Cursor == [at : {"none", "got", "place", "write", "record"}, id : 0..MaxItems,
           ref : Refs \cup {NoRef}, md5 : Mods \cup {NoMod}, dest : 0..Copies,
           full : BOOLEAN, met : BOOLEAN]
NoFetch == [on |-> FALSE, list |-> NoItem, read |-> FALSE, left |-> {}, cur |-> NoCur,
            wrote |-> FALSE, done |-> {}, clean |-> TRUE]

PlTypeOK ==
  /\ lists \subseteq Lists
  /\ nextId \in 1..(MaxItems + 1)
  /\ items \in [Ids -> Item \cup {NoItem}]
  /\ \A i \in Ids : items[i] # NoItem => items[i].list \in lists
  /\ disk \in [Places -> Mods \cup {NoMod}] /\ index \in [Places -> Mods \cup {NoMod}]
  /\ fetch \in [on : BOOLEAN, list : Lists \cup {NoItem}, read : BOOLEAN,
                left : SUBSET [id : Ids, ref : Refs], cur : Cursor, wrote : BOOLEAN,
                done : SUBSET [id : Ids, md5 : Mods], clean : BOOLEAN]
  /\ fetch.cur.at # "none" => fetch.cur.id \in Ids /\ fetch.cur.md5 \in Mods
  /\ fetch.cur.at = "write" => fetch.cur.dest \in Places
  /\ faults \in 0..MaxFaults

PlInit ==
  /\ lists = {}
  /\ items = [i \in Ids |-> NoItem]
  /\ nextId = 1
  /\ disk \in [Places -> Mods \cup {NoMod}]
  /\ index = disk
  /\ fetch = NoFetch
  /\ faults = MaxFaults

-----------------------------------------------------------------------------
(* The lists *)

In(l) == {i \in Ids : items[i] # NoItem /\ items[i].list = l}
Highest(S) == CHOOSE p \in S : \A q \in S : q <= p
\* Mutant: MAX(position), without the + 1.
NextPosShared(l) == IF In(l) = {} THEN 0 ELSE Highest({items[i].pos : i \in In(l)})

NextPos(l) == IF In(l) = {} THEN 0 ELSE Highest({items[i].pos : i \in In(l)}) + 1
Outside == <<disk, index, fetch, faults>>

Create(l) ==
  /\ l \notin lists
  /\ lists' = lists \cup {l}
  /\ UNCHANGED <<items, nextId, Outside>>

\* Mutant: foreign keys are not enforced.
DeleteAlone(l) ==
  /\ l \in lists
  /\ lists' = lists \ {l}
  /\ UNCHANGED <<items, nextId, Outside>>

\* Its items go with it (ON DELETE CASCADE).
Delete(l) ==
  /\ l \in lists
  /\ lists' = lists \ {l}
  /\ items' = [i \in Ids |-> IF i \in In(l) THEN NoItem ELSE items[i]]
  /\ UNCHANGED <<nextId, Outside>>

\* md5 if there is one, else the reference: the first that is given decides.
Known(l, it) == \E i \in In(l) : IF it.md5 # NoMod THEN items[i].md5 = it.md5
                                 ELSE items[i].ref = it.ref

Entry(l, pos, it) == [list |-> l, pos |-> pos, md5 |-> it.md5, ref |-> it.ref, named |-> it.named]

\* Added behind all others, once.
Add(l, it) ==
  /\ l \in lists /\ ~Known(l, it) /\ nextId <= MaxItems
  /\ items' = [items EXCEPT ![nextId] = Entry(l, NextPos(l), it)]
  /\ nextId' = nextId + 1
  /\ UNCHANGED <<lists, Outside>>

\* An imported document, here of two items: a list with the first of each key.
Key(it) == IF it.md5 # NoMod THEN it.md5 ELSE it.ref
Import(l, a, b) ==
  LET n == IF Key(a) = Key(b) THEN 1 ELSE 2
  IN  /\ l \notin lists /\ nextId + n - 1 <= MaxItems
      /\ lists' = lists \cup {l}
      /\ items' = [i \in Ids |-> IF i = nextId THEN Entry(l, 0, a)
                                 ELSE IF n = 2 /\ i = nextId + 1 THEN Entry(l, 1, b)
                                 ELSE items[i]]
      /\ nextId' = nextId + n
      /\ UNCHANGED Outside

Remove(i) ==
  /\ items[i] # NoItem
  /\ items' = [items EXCEPT ![i] = NoItem]
  /\ UNCHANGED <<lists, nextId, Outside>>

\* The page sends the whole list as it has seen it, which may be no more what it
\* is: ids that are gone are passed over, those not listed keep their position.
Reorder(l, ids) ==
  /\ l \in lists
  /\ items' = [i \in Ids |-> IF i \in In(l) /\ \E n \in DOMAIN ids : ids[n] = i
                             THEN [items[i] EXCEPT !.pos = (CHOOSE n \in DOMAIN ids : ids[n] = i) - 1]
                             ELSE items[i]]
  /\ UNCHANGED <<lists, nextId, Outside>>

-----------------------------------------------------------------------------
(* The fetch: run_fetch_missing *)

Indexed(md5) == md5 # NoMod /\ md5 \in Range(index)
Present(it)  == Indexed(it.md5) \/ (it.named /\ index[1] # NoMod)
ListVars     == <<lists, items, nextId>>
Cur(c)       == fetch' = [fetch EXCEPT !.cur = c]

\* `running` is claimed, or the request refused.
FetchStart(l) ==
  /\ l \in lists
  /\ ~fetch.on
  /\ fetch' = [NoFetch EXCEPT !.on = TRUE, !.list = l]
  /\ UNCHANGED <<ListVars, disk, index, faults>>

FetchRead ==
  /\ fetch.on /\ ~fetch.read
  /\ fetch' = [fetch EXCEPT !.read = TRUE,
                 !.left = {[id |-> i, ref |-> items[i].ref] :
                             i \in {i \in In(fetch.list) : items[i].ref # NoRef /\ ~Present(items[i])}}]
  /\ UNCHANGED <<ListVars, disk, index, faults>>

\* What comes is not known before, whatever md5 the item has; or nothing comes.
Download(m) ==
  /\ fetch.cur = NoCur
  /\ m \in fetch.left
  /\ \/ \E md5 \in Mods : fetch' = [fetch EXCEPT !.left = @ \ {m},
             !.cur = [at |-> "got", id |-> m.id, ref |-> m.ref, md5 |-> md5, dest |-> 0,
                      full |-> FALSE, met |-> FALSE]]
     \/ fetch' = [fetch EXCEPT !.left = @ \ {m}]
  /\ UNCHANGED <<ListVars, disk, index, faults>>

\* Bytes that are indexed are not written again.
Have ==
  /\ fetch.cur.at = "got"
  /\ fetch' = [fetch EXCEPT !.cur.at = IF Indexed(fetch.cur.md5) THEN "record" ELSE "place",
                 !.clean = @ /\ (Indexed(fetch.cur.md5) => fetch.cur.md5 \in Range(disk))]
  /\ UNCHANGED <<ListVars, disk, index, faults>>

\* Mutant: a file of that name is taken for an older copy.
PlaceOver ==
  /\ fetch.cur.at = "place"
  /\ Cur([fetch.cur EXCEPT !.at = "write", !.dest = 1])
  /\ UNCHANGED <<ListVars, disk, index, faults>>

\* unique_dest: the first name that is free, or the plain one when none is.
Place ==
  /\ fetch.cur.at = "place"
  /\ LET free == {p \in Places : disk[p] = NoMod}
     IN  Cur([fetch.cur EXCEPT !.at = "write",
                !.dest = IF free = {} THEN 1 ELSE CHOOSE p \in free : \A q \in free : p <= q,
                !.full = free = {}])
  /\ UNCHANGED <<ListVars, disk, index, faults>>

Write ==
  /\ fetch.cur.at = "write"
  /\ disk' = [disk EXCEPT ![fetch.cur.dest] = fetch.cur.md5]
  /\ fetch' = [fetch EXCEPT !.cur.at = "record", !.wrote = TRUE,
                 !.clean = @ /\ disk[fetch.cur.dest] = NoMod]
  /\ UNCHANGED <<ListVars, index, faults>>

\* Noted on the item, if it is still there.
Record ==
  /\ fetch.cur.at = "record"
  /\ items' = IF items[fetch.cur.id] = NoItem THEN items
              ELSE [items EXCEPT ![fetch.cur.id].md5 = fetch.cur.md5]
  /\ fetch' = [fetch EXCEPT !.cur = NoCur, !.done = @ \cup {[id |-> fetch.cur.id, md5 |-> fetch.cur.md5]}]
  /\ UNCHANGED <<lists, nextId, disk, index, faults>>

\* Mutant: `running` is lowered after the scan.
FetchEndScanned ==
  /\ fetch.read /\ fetch.left = {} /\ fetch.cur = NoCur
  /\ index' = IF fetch.wrote THEN disk ELSE index
  /\ fetch' = IF fetch.wrote THEN NoFetch ELSE fetch
  /\ UNCHANGED <<ListVars, disk, faults>>

\* At the end a scan, if anything was written.
FetchEnd ==
  /\ fetch.read /\ fetch.left = {} /\ fetch.cur = NoCur
  /\ index' = IF fetch.wrote THEN disk ELSE index
  /\ fetch' = NoFetch
  /\ UNCHANGED <<ListVars, disk, faults>>

-----------------------------------------------------------------------------
(* Around it *)

Fault == faults > 0 /\ faults' = faults - 1

\* A write that does not come to its end may leave half a module under the name, which
\* is a module of other bytes to whoever reads it.
Torn == \/ disk' = disk
        \/ fetch.cur.at = "write" /\ \E md5 \in Mods : disk' = [disk EXCEPT ![fetch.cur.dest] = md5]

\* An error of the database, or of the scan, ends it; so does a crash.
FetchError ==
  /\ Fault /\ fetch.on
  /\ fetch' = NoFetch
  /\ Torn
  /\ UNCHANGED <<ListVars, index>>

\* One download cannot be written: the next.
WriteFails ==
  /\ Fault
  /\ fetch.cur.at \in {"place", "write"}
  /\ Torn
  /\ fetch' = [fetch EXCEPT !.cur = NoCur,
                 !.clean = @ /\ (disk' = disk \/ disk[fetch.cur.dest] = NoMod)]
  /\ UNCHANGED <<ListVars, index>>

Scan == index # disk /\ index' = disk /\ UNCHANGED <<ListVars, disk, fetch, faults>>

\* Files come and go on the mount.
Change ==
  /\ Fault
  /\ \E p \in Places, md5 \in Mods \cup {NoMod} :
       /\ disk[p] # md5
       /\ disk' = [disk EXCEPT ![p] = md5]
       /\ fetch' = [fetch EXCEPT !.clean = @ /\ disk[p] = NoMod,
                      !.cur.met = @ \/ (fetch.cur.at = "write" /\ fetch.cur.dest = p)]
  /\ UNCHANGED <<ListVars, index>>

-----------------------------------------------------------------------------
Curate ==
  \/ \E l \in Lists : Create(l) \/ Delete(l)
  \/ \E l \in Lists, it \in Offered : Add(l, it)
  \/ \E l \in Lists, a, b \in Offered : Import(l, a, b)
  \/ \E i \in Ids : Remove(i)
  \/ \E l \in Lists, ids \in UNION {Injection(1..n, Ids) : n \in 1..MaxItems} : Reorder(l, ids)

RunFetch ==
  \/ FetchRead \/ \E m \in fetch.left : Download(m)
  \/ Have \/ Place \/ Write \/ Record \/ FetchEnd

PlNext ==
  \/ Curate
  \/ \E l \in Lists : FetchStart(l)
  \/ RunFetch \/ FetchError \/ WriteFails
  \/ Scan \/ Change

\* Downloads have a timeout, and the connection is let go of.
PlSpec == PlInit /\ [][PlNext]_plVars /\ WF_plVars(RunFetch)

-----------------------------------------------------------------------------
(* Properties *)

\* What is added to a list is shown behind all that is there, however the list was
\* reordered and shortened before, by pages that had seen it in whatever state.
AddedLast ==
  [][\A i \in Ids : items[i] = NoItem /\ items'[i] # NoItem /\ items'[i].list \in lists
       => \A j \in In(items'[i].list) : items[j].pos < items'[i].pos]_plVars

\* A download takes the place of a file that was there only where no name was free, or
\* where another wrote to the very name it had chosen, since it was chosen: it and no
\* other file, its write cut off or not.  The md5 of what was downloaded, whatever the
\* item said before, is noted on the item it was downloaded for and on no other,
\* whatever has become of the list and its items meanwhile.  And when the fetch has come
\* to its end, all it has fetched is present, if meanwhile no file was replaced or taken
\* away and none that is indexed was found gone.
FetchIsSafe ==
  [][/\ fetch.cur.at = "write" /\ fetch'.cur.at # "write"
          => \A p \in Places : disk[p] # NoMod /\ disk'[p] # disk[p]
               => p = fetch.cur.dest /\ (fetch.cur.full \/ fetch.cur.met)
     /\ \A i \in Ids : items[i] # NoItem /\ items'[i] # NoItem /\ items[i].md5 # items'[i].md5
          => /\ i = fetch.cur.id /\ items'[i].md5 = fetch.cur.md5
             /\ items[i].list = fetch.list /\ items[i].ref = fetch.cur.ref
     /\ fetch.on /\ ~fetch'.on /\ faults' = faults /\ fetch.clean
          => \A d \in fetch.done : d.md5 \in Range(index')]_plVars

\* "Downloads whatever url the curation supplied and verifies the bytes' md5" (db.rs): an
\* item that says which module it is is not made another by a fetch.  It is: the md5 of
\* the bytes that came is noted over it, unread.
Md5Verified ==
  [][\A i \in Ids : items[i] # NoItem /\ items[i].md5 # NoMod /\ items'[i] # NoItem
       => items'[i].md5 = items[i].md5]_plVars

\* A fetch that has begun ends, whatever fails on the way: the next is not refused
\* for ever, and the page that polls goes on.
FetchEnds == fetch.on ~> ~fetch.on
=============================================================================
