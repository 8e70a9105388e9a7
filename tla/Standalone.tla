------------------------------ MODULE Standalone ------------------------------
(***************************************************************************)
(* The library of the build without a backend: rows and object URLs in     *)
(* memory, the bytes in IndexedDB, the catalogue in localStorage.          *)
(*                                                                         *)
(* Every gesture goes on after an await, and the others with it: files are *)
(* taken in one by one, a row is removed, all is forgotten, metadata are   *)
(* filled in, and after each opening of the page the saved rows come back  *)
(* one by one.  IndexedDB answers in the order it is asked; what a caller  *)
(* does then is one with the answer.                                       *)
(***************************************************************************)
EXTENDS Naturals, Sequences, FiniteSets, SequencesExt

CONSTANTS Mods,      \* modules, each known by the hash of its bytes
          Demo,      \* the one that is bundled
          Mute,      \* those of which no metadata can be had
          Removers,  \* removals that may be under way at a time
          NoRow,
          MaxCalls,  \* bound: gestures
          MaxFaults  \* bound: reloads and failures of IndexedDB

ASSUME StandaloneAssumption ==
  /\ IsFiniteSet(Mods) /\ Demo \in Mods /\ Mute \subseteq Mods
  /\ Removers \cap {"take", "seed", "load", "parse", "clear"} = {}
  /\ MaxCalls \in Nat /\ MaxFaults \in Nat

VARIABLES rows,    \* tracks: id, hash, whether parsed, whether a favourite
          urls,    \* the hashes that have an object URL
          nextId,
          idb,     \* the modules whose bytes are stored
          asked,   \* what IndexedDB has been asked and not yet answered
          catalog, \* the rows as saved
          seeded,  \* SEEDED_KEY
          load,    \* rehydrate and seedDemoIfEmpty: how far, and the rows left
          add,     \* addEntries, for the user and for the demo
          parse,   \* parsePending
          del,     \* of each removal the row's place in the list, 0 for none
          clear,   \* clearAll: the deletions it waits for
          told,    \* history: what the user may rely on, see below
          tidy,    \* history: no two gestures have met that the code does not
                   \* keep apart
          budget

memory   == <<rows, urls, nextId, asked, load, add, parse, del, clear>>
stored   == <<idb, catalog, seeded>>
history  == <<told, tidy>>
homeVars == <<memory, stored, history, budget>>

Row       == [id : Nat, hash : Mods, meta : BOOLEAN, fav : BOOLEAN]
Adders    == {"take", "seed"}
NoAdd     == [on |-> FALSE, left |-> <<>>, new |-> {}]
NoParse   == [at |-> "off", i |-> 0, row |-> NoRow]
Hashes(s) == {s[i].hash : i \in DOMAIN s}
Loaded    == load.at = "done"

Actors    == Adders \cup Removers \cup {"load", "parse", "clear"}
Request   == [op : {"put", "get", "del"}, hash : Mods, by : Actors]

HomeTypeOK ==
  /\ rows \in Seq(Row) /\ catalog \in Seq(Row)
  /\ urls \subseteq Mods /\ idb \subseteq Mods
  /\ nextId \in Nat \ {0} /\ \A i \in DOMAIN rows : rows[i].id < nextId
  /\ asked \in Seq(Request)
  /\ seeded \in BOOLEAN /\ tidy \in BOOLEAN
  /\ load \in [at : {"restoring", "seeding", "done"}, left : Seq(Row)]
  /\ add \in [Adders -> [on : BOOLEAN, left : Seq(Mods), new : SUBSET Mods]]
  /\ parse \in [at : {"off", "get", "parse"}, i : Nat, row : Row \cup {NoRow}]
  /\ parse.at # "off" => parse.row \in Row
  /\ del \in [Removers -> Nat] /\ clear \in Nat
  /\ told \in [Mods -> {"nothing", "gone", "unsaved", "dropped", "plain", "fav"}]
  /\ budget \in [calls : 0..MaxCalls, faults : 0..MaxFaults]

-----------------------------------------------------------------------------
(* parsePending, and where it goes on after an answer.                       *)

Ask(op, h, by)  == [op |-> op, hash |-> h, by |-> by]
Unparsed(rs, i) == {j \in DOMAIN rs : j >= i /\ ~rs[j].meta}
Least(S)        == CHOOSE j \in S : \A k \in S : j <= k

\* From the i-th row on, over the list as it is by now.  At its end the catalogue
\* is saved.
ParseFrom(i, rs, cat, q) ==
  IF Unparsed(rs, i) = {}
  THEN parse' = NoParse /\ catalog' = rs /\ asked' = q
  ELSE LET j == Least(Unparsed(rs, i))
       IN  /\ parse' = [at |-> "get", i |-> j, row |-> rs[j]]
           /\ asked' = Append(q, Ask("get", rs[j].hash, "parse"))
           /\ catalog' = cat

\* One at a time: who comes while it runs leaves it at that.
ParsePending(rs, cat, q) ==
  IF parse.at = "off" THEN ParseFrom(1, rs, cat, q)
  ELSE parse' = parse /\ catalog' = cat /\ asked' = q

-----------------------------------------------------------------------------
(* The opening of the page.                                                  *)

\* seedDemoIfEmpty, up to its fetch.
SeedIfEmpty(rs) ==
  [at |-> IF rs = <<>> /\ ~seeded THEN "seeding" ELSE "done", left |-> <<>>]

\* rehydrate: the end of it, with the seeding that follows.
RestoreEnds(rs, q) == ParsePending(rs, catalog, q) /\ load' = SeedIfEmpty(rs)

\* The next row to restore.
Restore(left, rs, q) ==
  \/ left = <<>> /\ RestoreEnds(rs, q)
  \/ /\ left # <<>>
     /\ load' = [at |-> "restoring", left |-> left]
     /\ asked' = Append(q, Ask("get", Head(left).hash, "load"))
     /\ UNCHANGED <<parse, catalog>>

\* An earlier visit has left none or some of the rows, whose metadata it did not come to
\* read (what it had read is read again at most).
HomeInit ==
  /\ \E S \in SUBSET (Mods \ {Demo}) : \E rs \in SetToSeqs(S) :
       /\ catalog = [i \in DOMAIN rs |-> [id |-> i, hash |-> rs[i], meta |-> FALSE, fav |-> FALSE]]
       /\ idb = S
       /\ told = [h \in Mods |-> IF h \in S THEN "plain" ELSE "nothing"]
       /\ load = [at |-> "restoring", left |-> catalog]
       /\ asked = IF S = {} THEN <<>> ELSE <<Ask("get", catalog[1].hash, "load")>>
  /\ seeded \in BOOLEAN
  /\ rows = <<>> /\ urls = {} /\ nextId = 1
  /\ add = [p \in Adders |-> NoAdd] /\ parse = NoParse
  /\ del = [r \in Removers |-> 0] /\ clear = 0
  /\ tidy = TRUE
  /\ budget = [calls |-> MaxCalls, faults |-> MaxFaults]

\* Nothing was saved: the restoring is over at once.
NothingSaved ==
  /\ load.at = "restoring" /\ load.left = <<>>
  /\ RestoreEnds(rows, asked)
  /\ UNCHANGED <<rows, urls, nextId, add, del, clear, idb, seeded, history, budget>>

\* The demo is fetched, or is not to be had.
SeedFetched ==
  /\ load.at = "seeding" /\ ~add["seed"].on
  /\ \/ add' = [add EXCEPT !["seed"] = [on |-> TRUE, left |-> <<Demo>>, new |-> {}]] /\ UNCHANGED load
     \/ load' = [load EXCEPT !.at = "done"] /\ UNCHANGED add
  /\ UNCHANGED <<rows, urls, nextId, asked, parse, del, clear, stored, history, budget>>

-----------------------------------------------------------------------------
(* Gestures.                                                                 *)

\* What the user has removed stays away; only the demo, where it was not seeded
\* before, is seeded later all the same.
Gone(h) == IF h = Demo /\ ~seeded THEN "nothing" ELSE "gone"

Removing == {r \in Removers : del[r] # 0}
Call     == budget.calls > 0 /\ budget' = [budget EXCEPT !.calls = @ - 1]

\* Files are picked or dropped, unless some are being taken in (`busy`); the hero
\* invites to it while the rows come back, too.
Take(ms) ==
  /\ Call
  /\ ~add["take"].on
  /\ add' = [add EXCEPT !["take"] = [on |-> TRUE, left |-> ms, new |-> {}]]
  /\ tidy' = (tidy /\ Loaded /\ clear = 0)
  /\ UNCHANGED <<rows, urls, nextId, asked, load, parse, del, clear, stored, told>>

\* setFavorite: saved at once.  The list is only there once all is loaded.
SetFavorite(h) ==
  /\ Call
  /\ Loaded /\ h \in Hashes(rows)
  /\ LET i == Least({i \in DOMAIN rows : rows[i].hash = h})
     IN  /\ rows' = [rows EXCEPT ![i].fav = ~@]
         /\ told' = [told EXCEPT ![h] = IF @ \in {"plain", "fav"}
                                        THEN (IF rows[i].fav THEN "plain" ELSE "fav") ELSE @]
  /\ catalog' = rows'
  /\ UNCHANGED <<urls, nextId, asked, load, add, parse, del, clear, idb, seeded, tidy>>

\* remove: where the row is, is asked before the await.
RemoveTrack(r, h) ==
  /\ Call
  /\ Loaded /\ h \in Hashes(rows) /\ del[r] = 0
  /\ del' = [del EXCEPT ![r] = Least({i \in DOMAIN rows : rows[i].hash = h})]
  /\ urls' = urls \ {h}
  /\ asked' = Append(asked, Ask("del", h, r))
  /\ told' = [told EXCEPT ![h] = "nothing"]
  /\ tidy' = (tidy /\ Removing = {})
  /\ UNCHANGED <<rows, nextId, load, add, parse, clear, stored>>

\* clearAll, up to its await (a second one before the end finds nothing more).
Clear ==
  /\ Call
  /\ clear = 0
  /\ urls' = {}
  /\ clear' = Len(rows)
  /\ asked' = asked \o [i \in DOMAIN rows |-> Ask("del", rows[i].hash, "clear")]
  /\ IF rows = <<>> THEN catalog' = <<>> /\ told' = [h \in Mods |-> Gone(h)]
     ELSE told' = [h \in Mods |-> "nothing"] /\ UNCHANGED catalog
  /\ tidy' = (tidy /\ Loaded /\ ~add["take"].on)
  /\ UNCHANGED <<rows, nextId, load, add, parse, del, idb, seeded>>

-----------------------------------------------------------------------------
(* What follows.                                                             *)

Waits(p)   == \E i \in DOMAIN asked : asked[i].by = p
Leaving    == {asked[i].hash : i \in {i \in DOMAIN asked : asked[i].op = "del"}}
FavOf(rs, h) == \E i \in DOMAIN rs : rs[i].hash = h /\ rs[i].fav

\* The next file, or the end: what was added is saved, as cat, and reported.
AddEnds(p, left, new, rs, q, t, cat) ==
  IF left # <<>> \/ new = {}
  THEN /\ add' = [add EXCEPT ![p] = IF left = <<>> THEN NoAdd ELSE [@ EXCEPT !.left = left, !.new = new]]
       /\ asked' = q /\ told' = t
       /\ UNCHANGED <<parse, catalog>>
  ELSE /\ add' = [add EXCEPT ![p] = NoAdd]
       /\ ParsePending(rs, cat, q)
       /\ told' = [h \in Mods |->
                     IF h \notin (new \cap Hashes(rs)) \ Leaving \/ t[h] = "gone" THEN t[h]
                     ELSE IF h \notin idb' THEN "unsaved"
                     ELSE IF FavOf(rs, h) THEN "fav" ELSE "plain"]

\* Mutant: what was added is saved when its metadata have been read.
AddGoesOnUnsaved(p, left, new, rs, q, t) == AddEnds(p, left, new, rs, q, t, catalog)

AddGoesOn(p, left, new, rs, q, t) == AddEnds(p, left, new, rs, q, t, rs)

\* With the demo in, the seeding is over.
SeedOver(p, left) ==
  IF p = "seed" /\ left = <<>> THEN seeded' = TRUE /\ load' = [load EXCEPT !.at = "done"]
  ELSE UNCHANGED <<seeded, load>>

\* A file is hashed: known already, or to be stored.
Hashed(p) ==
  /\ add[p].on /\ ~Waits(p)
  /\ idb' = idb
  /\ LET h    == Head(add[p].left)
         left == Tail(add[p].left)
     IN  IF h \in urls
         THEN AddGoesOn(p, left, add[p].new, rows, asked, told) /\ SeedOver(p, left)
         ELSE asked' = Append(asked, Ask("put", h, p)) /\ UNCHANGED <<add, parse, catalog, told, seeded, load>>
  /\ UNCHANGED <<rows, urls, nextId, del, clear, tidy, budget>>

Answered(p) == asked # <<>> /\ Head(asked).by = p
Fault       == budget.faults > 0 /\ budget' = [budget EXCEPT !.faults = @ - 1]

\* The bytes are stored, or cannot be, which is passed over: the row is made.
LandedAs(p, id) ==
  /\ Answered(p)
  /\ LET h    == Head(asked).hash
         left == Tail(add[p].left)
     IN  /\ urls' = urls \cup {h}
         /\ rows' = Append(rows, [id |-> id, hash |-> h, meta |-> FALSE, fav |-> FALSE])
         /\ nextId' = nextId + 1
         /\ \/ idb' = idb \cup {h} /\ UNCHANGED budget
            \/ Fault /\ UNCHANGED idb
         /\ AddGoesOn(p, left, add[p].new \cup {h}, rows', Tail(asked),
                      [told EXCEPT ![h] = IF p = "seed" THEN @ ELSE "nothing"])
         /\ SeedOver(p, left)
  /\ UNCHANGED <<del, clear, tidy>>

\* Mutant: ++nextId for nextId++.
LandedIdAhead(p) == LandedAs(p, nextId + 1)

Landed(p) == LandedAs(p, nextId)

\* The row at that place goes, whichever it is by now.
Removed(r) ==
  /\ Answered(r)
  /\ idb' = idb \ {Head(asked).hash}
  /\ rows' = IF del[r] \in DOMAIN rows THEN RemoveAt(rows, del[r]) ELSE rows
  /\ catalog' = rows'
  /\ del' = [del EXCEPT ![r] = 0]
  /\ told' = [told EXCEPT ![Head(asked).hash] = Gone(Head(asked).hash)]
  /\ asked' = Tail(asked)
  /\ UNCHANGED <<urls, nextId, load, add, parse, clear, seeded, tidy, budget>>

\* The last deletion of clearAll: rows and catalogue go.
Cleared ==
  /\ Answered("clear")
  /\ idb' = idb \ {Head(asked).hash}
  /\ clear' = clear - 1
  /\ IF clear = 1
     THEN rows' = <<>> /\ catalog' = <<>> /\ told' = [h \in Mods |-> Gone(h)]
     ELSE UNCHANGED <<rows, catalog, told>>
  /\ asked' = Tail(asked)
  /\ UNCHANGED <<urls, nextId, load, add, parse, del, seeded, tidy, budget>>

\* Mutant: the counter is not pushed past the ids that come back.
RestoredUncounted ==
  /\ Answered("load")
  /\ LET row == Head(load.left)
     IN  /\ row.hash \in idb
         /\ rows' = Append(rows, row) /\ urls' = urls \cup {row.hash}
         /\ UNCHANGED <<nextId, told, budget>>
         /\ Restore(Tail(load.left), rows', Tail(asked))
  /\ UNCHANGED <<add, del, clear, idb, seeded, tidy>>

\* A row comes back with its bytes, or is dropped without them: they are gone or
\* could not be read.
Restored ==
  /\ Answered("load")
  /\ LET row == Head(load.left)
     IN  /\ \/ /\ row.hash \in idb
               /\ rows' = Append(rows, row) /\ urls' = urls \cup {row.hash}
               /\ nextId' = IF row.id >= nextId THEN row.id + 1 ELSE nextId
               /\ UNCHANGED <<told, budget>>
            \/ /\ row.hash \notin idb \/ Fault
               /\ row.hash \notin idb => UNCHANGED budget
               /\ told' = [told EXCEPT ![row.hash] = "dropped"]
               /\ UNCHANGED <<rows, urls, nextId>>
         /\ Restore(Tail(load.left), rows', Tail(asked))
  /\ UNCHANGED <<add, del, clear, idb, seeded, tidy>>

\* Mutant: a row without bytes is tried again.
ParseGotAgain ==
  /\ Answered("parse")
  /\ IF Head(asked).hash \in idb
     THEN parse' = [parse EXCEPT !.at = "parse"] /\ asked' = Tail(asked) /\ UNCHANGED catalog
     ELSE ParseFrom(parse.i, rows, catalog, Tail(asked))
  /\ UNCHANGED <<rows, urls, nextId, load, add, del, clear, idb, seeded, history, budget>>

\* parsePending has the bytes, or goes on without.
ParseGot ==
  /\ Answered("parse")
  /\ IF Head(asked).hash \in idb
     THEN parse' = [parse EXCEPT !.at = "parse"] /\ asked' = Tail(asked) /\ UNCHANGED catalog
     ELSE ParseFrom(parse.i + 1, rows, catalog, Tail(asked))
  /\ UNCHANGED <<rows, urls, nextId, load, add, del, clear, idb, seeded, history, budget>>

\* The metadata go to the row it took, if that is still there.
Parsed ==
  /\ parse.at = "parse"
  /\ rows' = IF parse.row.hash \in Mute THEN rows
             ELSE [i \in DOMAIN rows |-> IF rows[i].id = parse.row.id /\ rows[i].hash = parse.row.hash
                                         THEN [rows[i] EXCEPT !.meta = TRUE] ELSE rows[i]]
  /\ ParseFrom(parse.i + 1, rows', catalog, asked)
  /\ UNCHANGED <<urls, nextId, load, add, del, clear, idb, seeded, history, budget>>

\* What is stored once the first n requests are done: of each module the last of them
\* that puts or deletes it decides.
StoredAfter(n) ==
  {h \in Mods :
     \/ h \in idb /\ \A j \in 1..n : asked[j].hash = h => asked[j].op # "del"
     \/ \E i \in 1..n : /\ asked[i].hash = h /\ asked[i].op = "put"
                       /\ \A j \in (i + 1)..n : asked[j].hash = h => asked[j].op # "del"}

\* The page is closed and opened again, before or after what IndexedDB was asked.
Reload ==
  /\ Fault
  /\ \E n \in 0..Len(asked) : idb' = StoredAfter(n)
  /\ rows' = <<>> /\ urls' = {} /\ nextId' = 1
  /\ add' = [p \in Adders |-> NoAdd] /\ parse' = NoParse
  /\ del' = [r \in Removers |-> 0] /\ clear' = 0
  /\ load' = [at |-> "restoring", left |-> catalog]
  /\ asked' = IF catalog = <<>> THEN <<>> ELSE <<Ask("get", catalog[1].hash, "load")>>
  /\ UNCHANGED <<catalog, seeded, history>>

-----------------------------------------------------------------------------
Gesture ==
  \/ \E ms \in {<<m>> : m \in Mods} \cup {<<m, n>> : m, n \in Mods} : Take(ms)
  \/ \E h \in Mods : SetFavorite(h) \/ \E r \in Removers : RemoveTrack(r, h)
  \/ Clear

GoesOn ==
  \/ NothingSaved \/ SeedFetched
  \/ \E p \in Adders : Hashed(p) \/ Landed(p)
  \/ \E r \in Removers : Removed(r)
  \/ Cleared \/ Restored \/ ParseGot \/ Parsed

HomeNext == Gesture \/ GoesOn \/ Reload

\* Requests are answered, and the demo's fetch ends.
HomeSpec == HomeInit /\ [][HomeNext]_homeVars /\ WF_homeVars(GoesOn)

-----------------------------------------------------------------------------
(* Properties *)

Idle == /\ asked = <<>> /\ parse.at = "off" /\ Loaded
        /\ \A p \in Adders : ~add[p].on

\* No two rows share an id or their bytes: the queue and the row cache know a row
\* by its id (store.svelte.ts, at nextId), across reloads and removals.  And a module
\* is known as loaded only while it is listed, so one that was removed can be added
\* again, and whatever is listed and not leaving can be played.
RowsSound ==
  tidy => /\ \A i, j \in DOMAIN rows :
               i # j => rows[i].id # rows[j].id /\ rows[i].hash # rows[j].hash
          /\ urls \subseteq Hashes(rows)
          /\ clear = 0 => Hashes(rows) \subseteq urls \cup Leaving

\* What was reported as added, and its bytes with it stored ("plain", or "fav" once it is
\* a favourite), is from then on stored, row, favourite and bytes, until the user removes
\* it: it survives a reload at any moment.  Two are excepted, which the code does not
\* report: a module whose put failed ("unsaved", counted as added all the same) is
\* listed and in the catalogue, but only until the page is opened again; and a row whose
\* bytes are not there by then, or cannot be read just once, is "dropped", and the next
\* save of the catalogue forgets it and its favourite.  When nothing is under way the
\* list shows all of the first three, and nothing that was removed or forgotten.  (For
\* gestures that the code does not keep apart, see tidy.)
KeepsWhatItShould ==
  tidy => \A h \in Mods :
    /\ told[h] \in {"plain", "fav"} =>
         /\ h \in idb
         /\ \E i \in DOMAIN catalog : catalog[i].hash = h /\ catalog[i].fav = (told[h] = "fav")
    /\ told[h] = "unsaved" => h \in Hashes(catalog)
    /\ Idle => /\ told[h] \in {"plain", "fav"} => h \in Hashes(rows) /\ FavOf(rows, h) = (told[h] = "fav")
               /\ told[h] = "unsaved" => h \in Hashes(rows)
               /\ told[h] = "gone" => h \notin Hashes(rows)

\* "Bytes evicted - drop the stale catalog row" (rehydrate): a row that the user has not
\* removed leaves the catalogue only when its bytes are gone.  One whose bytes could not
\* be read at one opening leaves it, too, though they are there.
EvictedOnly ==
  [][\A h \in Hashes(catalog) \ Hashes(catalog') :
       h \notin idb' \/ told'[h] \in {"nothing", "gone"}]_homeVars

\* The list is shown and the intake is free again, whatever goes on.
HomeSettles == <>[]Idle
=============================================================================
