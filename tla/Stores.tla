------------------------------- MODULE Stores -------------------------------
(***************************************************************************)
(* What the tracker backend keeps over a restart, and the start itself.    *)
(*                                                                         *)
(* Db::migrate brings the tables to the shape of this version with one     *)
(* statement after the other, each committed on its own; then the manifest *)
(* (library.json) is read; then requests are served.  A request edits the  *)
(* manifest under a mutex: a copy of what is in memory is changed, saved   *)
(* by way of a temporary file, and put in its place in memory.  A reload   *)
(* reads the file and replaces what is in memory, without that mutex.  The *)
(* process may die between any two steps, and is started again.            *)
(***************************************************************************)
EXTENDS Naturals, FiniteSets

CONSTANTS Tunes,   \* what can be a favourite
          Albums,
          States,  \* what an album can be, Absent among them
          Absent, NoManifest, Unreadable,
          Editors, \* requests that edit the manifest
          MaxCrashes, MaxEdits, MaxHands \* bounds

ASSUME StoresAssumption ==
  /\ Absent \in States /\ States # {Absent}
  /\ {MaxCrashes, MaxEdits, MaxHands} \subseteq Nat

VARIABLES at,     \* how far the start has come, "up", or "down"
          tables, \* the shape of each table
          favs,   \* the favourites in `stats`
          moved,  \* those in `stats_migrating`
          wanted, \* history: the favourites the user has set
          stranded, \* history: the process died between DROP TABLE stats and
                  \* the renaming of its copy
          file,   \* library.json
          mem,    \* ManifestStore.current
          edit,   \* of each request how far its edit is, of what to what
          reload, \* what a reload has read and not yet put in place
          kept,   \* history: of each album the last edit, once acknowledged
          amiss,  \* history: the file was edited by hand, could not be read at
                  \* a start, or a reload has put an older state in place
          budget  \* what the bounds still allow

tableVars == <<tables, favs, moved, wanted>>
fileVars  == <<file, mem, edit, reload, kept, amiss>>
storeVars == <<at, tables, favs, moved, wanted, stranded, file, mem, edit, reload, kept, amiss, budget>>

Manifests == [Albums -> States]
Empty     == [a \in Albums |-> Absent]
NoEdit    == [stage |-> "none", album |-> NoManifest, draft |-> Empty]
Locked    == \E u \in Editors : edit[u] # NoEdit
NoTable   == "no table"

StoresTypeOK ==
  /\ at \in {"down", "items", "files", "stats", "copy", "drop", "rename", "schema", "md5", "url",
             "open", "up"}
  /\ tables \in [items : {NoTable, "old", "no url", "new"}, files : {NoTable, "old", "no md5", "new"},
                 stats : {NoTable, "old", "new"}, migrating : {NoTable, "new"}]
  /\ favs \subseteq Tunes /\ wanted \subseteq Tunes /\ moved \subseteq Tunes
  /\ file \in Manifests \cup {Unreadable}
  /\ mem \in Manifests \cup {NoManifest}
  /\ edit \in [Editors -> [stage : {"none", "draft", "temp", "saved"},
                           album : Albums \cup {NoManifest}, draft : Manifests]]
  /\ reload \in Manifests \cup {NoManifest}
  /\ kept \in Manifests
  /\ {amiss, stranded} \subseteq BOOLEAN
  /\ budget \in [crashes : 0..MaxCrashes, edits : 0..MaxEdits, hands : 0..MaxHands]

\* The database of a fresh install, or one some earlier version has left.
StoresInit ==
  /\ at = "down"
  /\ tables \in [items : {NoTable, "old", "no url", "new"},
                 files : {NoTable, "old", "no md5", "new"},
                 stats : {NoTable, "old", "new"}, migrating : {NoTable}]
  /\ IF tables.stats = NoTable THEN favs = {} ELSE favs \in SUBSET Tunes
  /\ moved = {}
  /\ wanted = favs
  /\ stranded = FALSE
  /\ file \in {Empty, [a \in Albums |-> CHOOSE v \in States : v # Absent], Unreadable}
  /\ mem = NoManifest
  /\ edit = [u \in Editors |-> NoEdit]
  /\ reload = NoManifest
  /\ kept = IF file = Unreadable THEN Empty ELSE file
  /\ amiss = (file = Unreadable)
  /\ budget = [crashes |-> MaxCrashes, edits |-> MaxEdits, hands |-> MaxHands]

-----------------------------------------------------------------------------
(* The start *)

Step(from, to) == at = from /\ at' = to /\ UNCHANGED <<fileVars, stranded, budget>>
Shape(t, s)    == tables' = [tables EXCEPT ![t] = s]

Start == Step("down", "items") /\ UNCHANGED tableVars

\* Tables of an older layout that can be filled again are dropped.
DropItems ==
  /\ Step("items", "files")
  /\ Shape("items", IF tables.items = "old" THEN NoTable ELSE tables.items)
  /\ UNCHANGED <<favs, moved, wanted>>

DropFiles ==
  /\ Step("files", "stats")
  /\ Shape("files", IF tables.files = "old" THEN NoTable ELSE tables.files)
  /\ UNCHANGED <<favs, moved, wanted>>

\* Mutant: a table that a broken-off migration has left is used as it is.
MigrateStatsResumed ==
  \/ /\ tables.stats = "old"
     /\ Step("stats", IF tables.migrating = NoTable THEN "copy" ELSE "drop")
     /\ Shape("migrating", "new")
     /\ UNCHANGED <<favs, moved, wanted>>
  \/ tables.stats # "old" /\ Step("stats", "schema") /\ UNCHANGED tableVars

\* `stats` holds what the user has set: an old one is copied.  CREATE TABLE
\* fails, and so does the start, when there is a stats_migrating already.
MigrateStats ==
  \/ /\ tables.stats = "old"
     /\ tables.migrating = NoTable
     /\ Step("stats", "copy")
     /\ Shape("migrating", "new")
     /\ UNCHANGED <<favs, moved, wanted>>
  \/ /\ tables.stats = "old"
     /\ tables.migrating # NoTable
     /\ Step("stats", "down")
     /\ UNCHANGED tableVars
  \/ tables.stats # "old" /\ Step("stats", "schema") /\ UNCHANGED tableVars

CopyStats ==
  /\ Step("copy", "drop")
  /\ moved' = favs
  /\ UNCHANGED <<tables, favs, wanted>>

DropStats ==
  /\ Step("drop", "rename")
  /\ Shape("stats", NoTable)
  /\ favs' = {}
  /\ UNCHANGED <<moved, wanted>>

RenameStats ==
  /\ Step("rename", "schema")
  /\ tables' = [tables EXCEPT !.stats = "new", !.migrating = NoTable]
  /\ favs' = moved
  /\ moved' = {}
  /\ UNCHANGED wanted

CreatedIn(ts) ==
  [t \in DOMAIN ts |-> IF t # "migrating" /\ ts[t] = NoTable THEN "new" ELSE ts[t]]

\* Mutant: CREATE TABLE without IF NOT EXISTS.
CreateTablesOnce ==
  /\ Step("schema", IF tables.stats = NoTable THEN "md5" ELSE "down")
  /\ tables' = CreatedIn(tables)
  /\ UNCHANGED <<favs, moved, wanted>>

\* CREATE TABLE IF NOT EXISTS: whatever there is stays as it is.
CreateTables ==
  /\ Step("schema", "md5")
  /\ tables' = CreatedIn(tables)
  /\ UNCHANGED <<favs, moved, wanted>>

AddColumns ==
  \/ /\ Step("md5", "url")
     /\ Shape("files", IF tables.files = "no md5" THEN "new" ELSE tables.files)
     /\ UNCHANGED <<favs, moved, wanted>>
  \/ /\ Step("url", "open")
     /\ Shape("items", IF tables.items = "no url" THEN "new" ELSE tables.items)
     /\ UNCHANGED <<favs, moved, wanted>>

\* Mutant: what cannot be parsed is kept as it is.
OpenUnreadable ==
  /\ at = "open"
  /\ at' = "up"
  /\ mem' = file
  /\ amiss' = (amiss \/ file = Unreadable)
  /\ UNCHANGED <<tableVars, stranded, file, edit, reload, kept, budget>>

\* ManifestStore::open: what cannot be parsed counts as empty.
Open ==
  /\ at = "open"
  /\ at' = "up"
  /\ mem' = IF file = Unreadable THEN Empty ELSE file
  /\ amiss' = (amiss \/ file = Unreadable)
  /\ UNCHANGED <<tableVars, stranded, file, edit, reload, kept, budget>>

Boot ==
  \/ Start \/ DropItems \/ DropFiles \/ MigrateStats \/ CopyStats \/ DropStats
  \/ RenameStats \/ CreateTables \/ AddColumns \/ Open

\* What was only in memory is gone; an edit that was saved is in the file, even
\* if nobody has been told.
Crash ==
  /\ at # "down"
  /\ budget.crashes > 0
  /\ budget' = [budget EXCEPT !.crashes = @ - 1]
  /\ at' = "down"
  /\ stranded' = (stranded \/ at = "rename")
  /\ mem' = NoManifest
  /\ edit' = [u \in Editors |-> NoEdit]
  /\ reload' = NoManifest
  /\ LET saved == {u \in Editors : edit[u].stage = "saved"}
     IN  kept' = IF saved = {} THEN kept ELSE edit[CHOOSE u \in saved : TRUE].draft
  /\ UNCHANGED <<tableVars, file, amiss>>

-----------------------------------------------------------------------------
(* Requests *)

\* api_favorite.
SetFavourite(t) ==
  /\ at = "up"
  /\ \/ favs' = favs \cup {t} /\ wanted' = wanted \cup {t}
     \/ favs' = favs \ {t} /\ wanted' = wanted \ {t}
  /\ UNCHANGED <<at, tables, moved, stranded, fileVars, budget>>

\* What the album routes make of an album; all but the first want it to exist,
\* the first that it does not.
Changed(m, a) == IF m[a] = Absent THEN States \ {Absent} ELSE States

Manifest(vars) == UNCHANGED <<at, tableVars, stranded>> /\ UNCHANGED vars

Begin(u) ==
  /\ at = "up"
  /\ edit[u] = NoEdit
  /\ budget.edits > 0
  /\ \E a \in Albums : \E v \in Changed(mem, a) :
       edit' = [edit EXCEPT ![u] = [stage |-> "draft", album |-> a, draft |-> [mem EXCEPT ![a] = v]]]
  /\ budget' = [budget EXCEPT !.edits = @ - 1]
  /\ Manifest(<<file, mem, reload, kept, amiss>>)

\* Mutant: without the mutex.
TakeUnlocked(u) == Begin(u)

\* update: with the mutex, a copy of what is in memory is changed ...
Take(u) == ~Locked /\ Begin(u)

Stage(u, from, to) == edit[u].stage = from /\ edit' = [edit EXCEPT ![u].stage = to]

\* ... written to a file beside it ...
SaveTemp(u) ==
  /\ Stage(u, "draft", "temp")
  /\ Manifest(<<file, mem, reload, kept, amiss, budget>>)

\* ... which takes its place ...
SaveRename(u) ==
  /\ Stage(u, "temp", "saved")
  /\ file' = edit[u].draft
  /\ Manifest(<<mem, reload, kept, amiss, budget>>)

\* ... or an error is returned, and nothing was changed.
SaveFails(u) ==
  /\ edit[u].stage \in {"draft", "temp"}
  /\ edit' = [edit EXCEPT ![u] = NoEdit]
  /\ Manifest(<<file, mem, reload, kept, amiss, budget>>)

\* The edit is put in place and acknowledged.
Swap(u) ==
  /\ edit[u].stage = "saved"
  /\ mem' = edit[u].draft
  /\ kept' = [kept EXCEPT ![edit[u].album] = edit[u].draft[edit[u].album]]
  /\ edit' = [edit EXCEPT ![u] = NoEdit]
  /\ Manifest(<<file, reload, amiss, budget>>)

\* reload: an unreadable file is an error and changes nothing.
ReloadRead ==
  /\ at = "up"
  /\ reload = NoManifest
  /\ file # Unreadable
  /\ reload' = file
  /\ Manifest(<<file, mem, edit, kept, amiss, budget>>)

ReloadSwap ==
  /\ reload # NoManifest
  /\ mem' = reload
  /\ reload' = NoManifest
  /\ amiss' = (amiss \/ reload # file)
  /\ Manifest(<<file, edit, kept, budget>>)

\* The file is edited on the mount.
HandEdit ==
  /\ budget.hands > 0
  /\ budget' = [budget EXCEPT !.hands = @ - 1]
  /\ file' \in (Manifests \cup {Unreadable}) \ {file}
  /\ amiss' = TRUE
  /\ Manifest(<<mem, edit, reload, kept>>)

-----------------------------------------------------------------------------
Request ==
  \/ \E t \in Tunes : SetFavourite(t)
  \/ \E u \in Editors : Take(u) \/ SaveTemp(u) \/ SaveRename(u) \/ SaveFails(u) \/ Swap(u)
  \/ ReloadRead \/ ReloadSwap

StoresNext == Boot \/ Crash \/ Request \/ HandEdit

\* The service is restarted whenever it ends, and the start has nothing to wait
\* for.
StoresSpec == StoresInit /\ [][StoresNext]_storeVars /\ WF_storeVars(Boot)

-----------------------------------------------------------------------------
(* Properties *)

\* Cut off anywhere but between DROP TABLE stats and the renaming of its copy, any
\* number of times, a start has what the user has set where the next one looks for
\* it: in `stats`, but for that one moment.  Cut off there (a start that does not see
\* the copy makes a new `stats`) it is left in a table that nothing reads, but not
\* destroyed.  Once it serves, the backend has every table in its present shape.
FavouritesKept ==
  /\ ~stranded => wanted = IF at = "rename" THEN moved ELSE favs
  /\ wanted \subseteq favs \cup moved
  /\ at = "up" => \A t \in {"items", "files", "stats"} : tables[t] = "new"

\* The migration keeps real user data: the backend serves the favourites that were
\* set.  It does not after a crash between those two statements.
FavouritesServed == at = "up" => favs = wanted

\* The backend always comes up again, except after a migration cut off between
\* the making of stats_migrating and the end of `stats`: then it never does.
ComesUp == <>[](at = "up") \/ <>[](tables.stats = "old" /\ tables.migrating # NoTable)

\* An acknowledged edit is in the file and in memory until the next edit of
\* that album, whatever other edits, reloads and crashes there are, unless the
\* file was edited by hand, could not be read, or a reload has put in place
\* what it had read before an edit.
EditsKept ==
  ~amiss /\ ~Locked => /\ file = kept
                             /\ at = "up" => mem = file
=============================================================================
