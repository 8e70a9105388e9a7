---------------------------- MODULE StoresProofs ----------------------------
(* What holds of Stores for any tunes, albums and editors, and any number  *)
(* of crashes, edits and changes by hand.                                  *)
EXTENDS Stores, TLAPS

-----------------------------------------------------------------------------
(* Type correctness.                                                       *)

TablesType == [items : {NoTable, "old", "no url", "new"}, files : {NoTable, "old", "no md5", "new"},
               stats : {NoTable, "old", "new"}, migrating : {NoTable, "new"}]
EditType   == [stage : {"none", "draft", "temp", "saved"},
               album : Albums \cup {NoManifest}, draft : Manifests]
BudgetType == [crashes : 0..MaxCrashes, edits : 0..MaxEdits, hands : 0..MaxHands]
Stages     == {"down", "items", "files", "stats", "copy", "drop", "rename", "schema", "md5", "url",
               "open", "up"}

LEMMA StoresTypes ==
  StoresTypeOK <=>
    /\ at \in Stages /\ tables \in TablesType
    /\ favs \subseteq Tunes /\ wanted \subseteq Tunes /\ moved \subseteq Tunes
    /\ file \in Manifests \cup {Unreadable} /\ mem \in Manifests \cup {NoManifest}
    /\ edit \in [Editors -> EditType] /\ reload \in Manifests \cup {NoManifest}
    /\ kept \in Manifests /\ amiss \in BOOLEAN /\ stranded \in BOOLEAN
    /\ budget \in BudgetType
  BY DEF StoresTypeOK, Stages, TablesType, EditType, BudgetType

\* A table takes another shape, the others stay.
LEMMA ShapeIs ==
  ASSUME tables \in TablesType, NEW t \in {"items", "files", "stats", "migrating"}, NEW s, Shape(t, s)
  PROVE  /\ tables'.items = (IF t = "items" THEN s ELSE tables.items)
         /\ tables'.files = (IF t = "files" THEN s ELSE tables.files)
         /\ tables'.stats = (IF t = "stats" THEN s ELSE tables.stats)
         /\ tables'.migrating = (IF t = "migrating" THEN s ELSE tables.migrating)
         /\ \/ t = "items" /\ s \in {NoTable, "old", "no url", "new"}
            \/ t = "files" /\ s \in {NoTable, "old", "no md5", "new"}
            \/ t = "stats" /\ s \in {NoTable, "old", "new"}
            \/ t = "migrating" /\ s \in {NoTable, "new"}
            => tables' \in TablesType
  BY DEF Shape, TablesType

LEMMA RenamedIs ==
  ASSUME tables \in TablesType, tables' = [tables EXCEPT !.stats = "new", !.migrating = NoTable]
  PROVE  /\ tables' \in TablesType
         /\ tables'.stats = "new" /\ tables'.migrating = NoTable
         /\ tables'.items = tables.items /\ tables'.files = tables.files
  BY DEF TablesType

\* Tables that were not there are, in their present shape.
LEMMA CreatedIs ==
  ASSUME tables \in TablesType, tables' = CreatedIn(tables)
  PROVE  /\ tables' \in TablesType
         /\ tables'.items = (IF tables.items = NoTable THEN "new" ELSE tables.items)
         /\ tables'.files = (IF tables.files = NoTable THEN "new" ELSE tables.files)
         /\ tables'.stats = (IF tables.stats = NoTable THEN "new" ELSE tables.stats)
         /\ tables'.migrating = tables.migrating
<1> DEFINE new(t) == IF t # "migrating" /\ tables[t] = NoTable THEN "new" ELSE tables[t]
<1>1. DOMAIN tables = {"items", "files", "stats", "migrating"}
  BY DEF TablesType
<1>2. tables' = [t \in {"items", "files", "stats", "migrating"} |-> new(t)]
  BY <1>1 DEF CreatedIn
<1>3. tables' = [items |-> new("items"), files |-> new("files"), stats |-> new("stats"),
                 migrating |-> new("migrating")]
  <2> HIDE DEF new
  <2> QED  BY <1>2
<1>4. /\ new("items") = (IF tables.items = NoTable THEN "new" ELSE tables.items)
      /\ new("files") = (IF tables.files = NoTable THEN "new" ELSE tables.files)
      /\ new("stats") = (IF tables.stats = NoTable THEN "new" ELSE tables.stats)
      /\ new("migrating") = tables.migrating
  OBVIOUS
<1>5. /\ new("items") \in {NoTable, "old", "no url", "new"}
      /\ new("files") \in {NoTable, "old", "no md5", "new"}
      /\ new("stats") \in {NoTable, "old", "new"}
      /\ new("migrating") \in {NoTable, "new"}
  <2> HIDE DEF new
  <2> QED  BY <1>4 DEF TablesType
<1> HIDE DEF new
<1>6. tables' \in TablesType
  <2>1. ASSUME NEW a \in {NoTable, "old", "no url", "new"}, NEW b \in {NoTable, "old", "no md5", "new"},
               NEW c \in {NoTable, "old", "new"}, NEW d \in {NoTable, "new"}
        PROVE  [items |-> a, files |-> b, stats |-> c, migrating |-> d] \in TablesType
    BY DEF TablesType
  <2>2. [items |-> new("items"), files |-> new("files"), stats |-> new("stats"),
         migrating |-> new("migrating")] \in TablesType
    BY <1>5, <2>1, ZenonT(30)
  <2> QED  BY <1>3, <2>2
<1>7. /\ tables'.items = new("items") /\ tables'.files = new("files")
      /\ tables'.stats = new("stats") /\ tables'.migrating = new("migrating")
  BY <1>3
<1> QED  BY <1>4, <1>6, <1>7

\* The steps of a migration: what they leave alone, and where they lead.
Migration ==
  Start \/ DropItems \/ DropFiles \/ MigrateStats \/ CopyStats \/ DropStats
    \/ RenameStats \/ CreateTables \/ AddColumns

LEMMA MigrationIs ==
  ASSUME Migration
  PROVE  at # "up" /\ at' # "up" /\ UNCHANGED <<fileVars, budget, wanted, stranded>>
  BY DEF Migration, Start, DropItems, DropFiles, MigrateStats, CopyStats, DropStats,
     RenameStats, CreateTables, AddColumns, Step, tableVars, fileVars

\* The requests on the manifest, the reloads and the start's reading of it leave the
\* tables alone.
Filing ==
  \/ Open \/ Crash \/ HandEdit \/ ReloadRead \/ ReloadSwap
  \/ \E u \in Editors : Take(u) \/ SaveTemp(u) \/ SaveRename(u) \/ SaveFails(u) \/ Swap(u)

LEMMA FilingIs ==
  ASSUME Filing
  PROVE  /\ UNCHANGED tableVars
         /\ stranded' = stranded \/ stranded' = (stranded \/ at = "rename")
         /\ stranded => stranded'
         /\ at = "rename" /\ at' # "rename" => stranded'
         /\ at' = at \/ at' = "down" \/ (at = "open" /\ at' = "up")
<1>1. CASE Crash
  BY <1>1, Zenon DEF Crash
<1>2. CASE ~Crash
  <2>1. /\ UNCHANGED <<tableVars, stranded>>
        /\ at' = at \/ (at = "open" /\ at' = "up")
    BY <1>2 DEF Filing, Open, HandEdit, ReloadRead, ReloadSwap, Take, Begin, SaveTemp,
       SaveRename, SaveFails, Swap, Manifest
  <2> QED  BY <2>1
<1> QED  BY <1>1, <1>2

LEMMA NextIs ==
  StoresNext <=> Migration \/ Filing \/ \E t \in Tunes : SetFavourite(t)
  BY DEF StoresNext, Boot, Request, Migration, Filing

\* The stage of an edit goes on, or the edit begins or ends.
LEMMA StageIs ==
  ASSUME edit \in [Editors -> EditType], NEW u \in Editors,
         NEW from, NEW to \in {"none", "draft", "temp", "saved"}, Stage(u, from, to)
  PROVE  /\ edit' \in [Editors -> EditType]
         /\ edit[u].stage = from /\ edit'[u].stage = to
         /\ edit'[u].album = edit[u].album /\ edit'[u].draft = edit[u].draft
         /\ \A v \in Editors \ {u} : edit'[v] = edit[v]
  BY DEF Stage, EditType

LEMMA NoEditIs == NoEdit \in EditType /\ NoEdit.stage = "none" /\ Empty \in Manifests
  BY StoresAssumption DEF NoEdit, EditType, Empty, Manifests

\* What a new edit is of, and to what.
LEMMA BeginIs ==
  ASSUME edit \in [Editors -> EditType], mem \in Manifests, NEW u \in Editors, Begin(u)
  PROVE  /\ edit' \in [Editors -> EditType] /\ edit[u] = NoEdit
         /\ edit'[u].stage = "draft" /\ edit'[u].album \in Albums
         /\ \A a \in Albums \ {edit'[u].album} : edit'[u].draft[a] = mem[a]
         /\ \A v \in Editors \ {u} : edit'[v] = edit[v]
<1>0. PICK a \in Albums : \E v \in Changed(mem, a) :
        edit' = [edit EXCEPT ![u] = [stage |-> "draft", album |-> a, draft |-> [mem EXCEPT ![a] = v]]]
  BY DEF Begin
<1>1. PICK v \in Changed(mem, a) :
        edit' = [edit EXCEPT ![u] = [stage |-> "draft", album |-> a, draft |-> [mem EXCEPT ![a] = v]]]
  BY <1>0
<1> DEFINE m == [mem EXCEPT ![a] = v]
<1>2. m \in Manifests /\ \A b \in Albums \ {a} : m[b] = mem[b]
  BY <1>1 DEF Manifests, Changed
<1> HIDE DEF m
<1> DEFINE e == [stage |-> "draft", album |-> a, draft |-> m]
<1>3. e \in EditType /\ e.stage = "draft" /\ e.album = a /\ e.draft = m
  BY <1>2 DEF EditType
<1>4. edit' = [edit EXCEPT ![u] = e]
  BY <1>1 DEF m
<1> HIDE DEF e
<1> QED  BY <1>1, <1>2, <1>3, <1>4 DEF Begin

\* With its tables in memory the backend has a manifest; an edit that is under way is
\* of an album.
MemOK ==
  /\ at = "up" => mem \in Manifests
  /\ \A u \in Editors : /\ edit[u].stage = "none" => edit[u] = NoEdit
                        /\ edit[u].stage # "none" => edit[u].album \in Albums /\ at = "up"
  /\ reload # NoManifest => at = "up"

LEMMA TablesTyped ==
  ASSUME StoresTypeOK, Migration
  PROVE  at' \in Stages /\ tables' \in TablesType /\ favs' \subseteq Tunes /\ moved' \subseteq Tunes
<1> USE DEF Step, tableVars
<1>1. at \in Stages /\ tables \in TablesType /\ favs \subseteq Tunes /\ moved \subseteq Tunes
  BY StoresTypes
<1>2. at' \in Stages
  BY <1>1 DEF Stages, Migration, Start, DropItems, DropFiles, MigrateStats, CopyStats, DropStats,
     RenameStats, CreateTables, AddColumns
<1>3. favs' \subseteq Tunes /\ moved' \subseteq Tunes
  BY <1>1 DEF Migration, Start, DropItems, DropFiles, MigrateStats, CopyStats, DropStats,
     RenameStats, CreateTables, AddColumns
<1>4. tables.items \in {NoTable, "old", "no url", "new"} /\ tables.files \in {NoTable, "old", "no md5", "new"}
  BY <1>1 DEF TablesType
<1>5. ASSUME Start \/ CopyStats  PROVE tables' \in TablesType
  BY <1>1, <1>5 DEF Start, CopyStats
<1>6. ASSUME DropItems  PROVE tables' \in TablesType
  BY <1>1, <1>4, <1>6, ShapeIs DEF DropItems
<1>7. ASSUME DropFiles  PROVE tables' \in TablesType
  BY <1>1, <1>4, <1>7, ShapeIs DEF DropFiles
<1>8. ASSUME MigrateStats  PROVE tables' \in TablesType
  BY <1>1, <1>8, ShapeIs DEF MigrateStats
<1>9. ASSUME DropStats  PROVE tables' \in TablesType
  BY <1>1, <1>9, ShapeIs DEF DropStats
<1>10. ASSUME RenameStats  PROVE tables' \in TablesType
  BY <1>1, <1>10, RenamedIs DEF RenameStats
<1>11. ASSUME CreateTables  PROVE tables' \in TablesType
  BY <1>1, <1>11, CreatedIs DEF CreateTables
<1>12. ASSUME AddColumns  PROVE tables' \in TablesType
  BY <1>1, <1>4, <1>12, ShapeIs DEF AddColumns
<1>13. tables' \in TablesType
  BY <1>5, <1>6, <1>7, <1>8, <1>9, <1>10, <1>11, <1>12 DEF Migration
<1> QED  BY <1>2, <1>3, <1>13

LEMMA FilesTyped ==
  ASSUME StoresTypeOK, MemOK, Filing
  PROVE  /\ file' \in Manifests \cup {Unreadable} /\ mem' \in Manifests \cup {NoManifest}
         /\ edit' \in [Editors -> EditType] /\ reload' \in Manifests \cup {NoManifest}
         /\ kept' \in Manifests /\ amiss' \in BOOLEAN /\ budget' \in BudgetType /\ MemOK'
<1>1. /\ file \in Manifests \cup {Unreadable} /\ mem \in Manifests \cup {NoManifest}
      /\ edit \in [Editors -> EditType] /\ reload \in Manifests \cup {NoManifest}
      /\ kept \in Manifests /\ amiss \in BOOLEAN /\ budget \in BudgetType
  BY StoresTypes
<1>2. \A u \in Editors : /\ edit[u].draft \in Manifests
                         /\ edit[u].stage \in {"none", "draft", "temp", "saved"}
  BY <1>1 DEF EditType
<1> USE DEF tableVars, Manifest
<1>3. CASE Open
  <2>1. mem' \in Manifests
    BY <1>1, <1>3, NoEditIs DEF Open
  <2>2. amiss' \in BOOLEAN
    BY <1>3, Zenon DEF Open
  <2>3. MemOK'
    BY <1>3, <2>1 DEF Open, MemOK
  <2> QED  BY <1>1, <1>3, <2>1, <2>2, <2>3 DEF Open
<1>4. CASE Crash
  <2> DEFINE saved == {u \in Editors : edit[u].stage = "saved"}
  <2>1. kept' = IF saved = {} THEN kept ELSE edit[CHOOSE u \in saved : TRUE].draft
    BY <1>4 DEF Crash
  <2>2. saved # {} => (CHOOSE u \in saved : TRUE) \in saved
    <3>1. saved # {} => \E u : u \in saved
      OBVIOUS
    <3> HIDE DEF saved
    <3> QED  BY <3>1, Zenon
  <2>3. kept' \in Manifests
    <3>1. saved \subseteq Editors
      OBVIOUS
    <3> HIDE DEF saved
    <3> QED  BY <1>1, <1>2, <2>1, <2>2, <3>1
  <2>4. budget' \in BudgetType
    BY <1>1, <1>4, StoresAssumption DEF Crash, BudgetType
  <2>5. edit' = [u \in Editors |-> NoEdit] /\ UNCHANGED <<file, amiss>>
          /\ mem' = NoManifest /\ reload' = NoManifest /\ at' = "down"
    BY <1>4 DEF Crash
  <2> QED  BY <1>1, <2>3, <2>4, <2>5, NoEditIs DEF MemOK
<1>5. CASE HandEdit
  <2>1. budget' \in BudgetType
    BY <1>1, <1>5, StoresAssumption DEF HandEdit, BudgetType
  <2> QED  BY <1>1, <1>5, <2>1 DEF HandEdit, MemOK
<1>6. CASE ReloadRead
  BY <1>1, <1>6 DEF ReloadRead, MemOK
<1>7. CASE ReloadSwap
  <2>1. amiss' \in BOOLEAN
    BY <1>7, Zenon DEF ReloadSwap
  <2> QED  BY <1>1, <1>7, <2>1 DEF ReloadSwap, MemOK
<1>8. ASSUME NEW u \in Editors, Take(u)
      PROVE  /\ edit' \in [Editors -> EditType] /\ budget' \in BudgetType /\ MemOK'
             /\ UNCHANGED <<file, mem, reload, kept, amiss>>
  <2>1. Begin(u) /\ at = "up" /\ mem \in Manifests
    BY <1>8 DEF Take, Begin, MemOK
  <2>2. budget' \in BudgetType
    BY <1>1, <2>1, StoresAssumption DEF Begin, BudgetType
  <2>3. /\ edit' \in [Editors -> EditType] /\ edit'[u].stage = "draft" /\ edit'[u].album \in Albums
        /\ \A v \in Editors \ {u} : edit'[v] = edit[v]
    BY <1>1, <2>1, BeginIs
  <2> QED  BY <2>1, <2>2, <2>3 DEF Begin, MemOK
<1>9. ASSUME NEW u \in Editors, SaveTemp(u) \/ SaveRename(u)
      PROVE  /\ edit' \in [Editors -> EditType] /\ file' \in Manifests \cup {Unreadable} /\ MemOK'
             /\ UNCHANGED <<mem, reload, kept, amiss, budget>>
  <2>1. Stage(u, "draft", "temp") \/ Stage(u, "temp", "saved")
    BY <1>9 DEF SaveTemp, SaveRename
  <2>2. /\ edit' \in [Editors -> EditType] /\ edit[u].stage # "none" /\ edit'[u].stage # "none"
        /\ edit'[u].album = edit[u].album /\ \A v \in Editors \ {u} : edit'[v] = edit[v]
    BY <1>1, <2>1, StageIs
  <2>3. /\ file' \in Manifests \cup {Unreadable} /\ UNCHANGED <<at, mem, reload, kept, amiss, budget>>
    BY <1>1, <1>2, <1>9 DEF SaveTemp, SaveRename
  <2> QED  BY <2>2, <2>3 DEF MemOK
<1>10. ASSUME NEW u \in Editors, SaveFails(u) \/ Swap(u)
      PROVE  /\ edit' \in [Editors -> EditType] /\ mem' \in Manifests \cup {NoManifest}
             /\ kept' \in Manifests /\ MemOK'
             /\ UNCHANGED <<file, reload, amiss, budget>>
  <2>1. edit' = [edit EXCEPT ![u] = NoEdit] /\ UNCHANGED <<at, file, reload, amiss, budget>>
          /\ edit[u].stage # "none"
    BY <1>10 DEF SaveFails, Swap
  <2>2. /\ edit' \in [Editors -> EditType] /\ edit'[u] = NoEdit
        /\ \A v \in Editors \ {u} : edit'[v] = edit[v]
    BY <1>1, <2>1, NoEditIs
  <2>3. mem' \in Manifests /\ kept' \in Manifests
    <3>1. CASE SaveFails(u)
      BY <1>1, <2>1, <3>1 DEF SaveFails, MemOK
    <3>2. CASE Swap(u)
      <4>1. edit[u].album \in Albums
        BY <2>1 DEF MemOK
      <4> QED  BY <1>1, <1>2, <3>2, <4>1 DEF Swap, Manifests
    <3> QED  BY <1>10, <3>1, <3>2
  <2> QED  BY <2>1, <2>2, <2>3, NoEditIs DEF MemOK
<1> QED  BY <1>1, <1>3, <1>4, <1>5, <1>6, <1>7, <1>8, <1>9, <1>10 DEF Filing

LEMMA StoresTyped ==
  StoresTypeOK /\ MemOK /\ [StoresNext]_storeVars => StoresTypeOK' /\ MemOK'
<1> SUFFICES ASSUME StoresTypeOK, MemOK, [StoresNext]_storeVars PROVE StoresTypeOK' /\ MemOK'
  OBVIOUS
<1>1. /\ at \in Stages /\ tables \in TablesType
      /\ favs \subseteq Tunes /\ wanted \subseteq Tunes /\ moved \subseteq Tunes
      /\ file \in Manifests \cup {Unreadable} /\ mem \in Manifests \cup {NoManifest}
      /\ edit \in [Editors -> EditType] /\ reload \in Manifests \cup {NoManifest}
      /\ kept \in Manifests /\ amiss \in BOOLEAN /\ stranded \in BOOLEAN
      /\ budget \in BudgetType
  BY StoresTypes
<1>2. ASSUME at' \in Stages, tables' \in TablesType,
             favs' \subseteq Tunes, wanted' \subseteq Tunes, moved' \subseteq Tunes,
             file' \in Manifests \cup {Unreadable}, mem' \in Manifests \cup {NoManifest},
             edit' \in [Editors -> EditType], reload' \in Manifests \cup {NoManifest},
             kept' \in Manifests, amiss' \in BOOLEAN, stranded' \in BOOLEAN,
             budget' \in BudgetType
      PROVE  StoresTypeOK'
  BY <1>2 DEF StoresTypeOK, Stages, TablesType, EditType, BudgetType
<1>3. CASE Migration
  <2>1. at # "up" /\ at' # "up" /\ UNCHANGED <<file, mem, edit, reload, kept, amiss, budget, wanted, stranded>>
    BY <1>3, MigrationIs DEF fileVars
  <2> QED  BY <1>1, <1>2, <1>3, <2>1, TablesTyped DEF MemOK
<1>4. CASE Filing
  <2>1. UNCHANGED <<tables, favs, moved, wanted>> /\ at' \in Stages /\ stranded' \in BOOLEAN
    <3>1. (stranded \/ at = "rename") \in BOOLEAN
      BY Zenon
    <3>2. UNCHANGED <<tables, favs, moved, wanted>> /\ at' \in Stages
      BY <1>1, <1>4, FilingIs DEF tableVars, Stages
    <3>3. stranded' \in BOOLEAN
      BY <1>1, <1>4, <3>1, FilingIs, Zenon
    <3> QED  BY <3>2, <3>3
  <2> QED  BY <1>1, <1>2, <1>4, <2>1, FilesTyped
<1>5. ASSUME NEW t \in Tunes, SetFavourite(t)  PROVE StoresTypeOK' /\ MemOK'
  BY <1>1, <1>2, <1>5 DEF SetFavourite, fileVars, MemOK
<1>6. CASE UNCHANGED storeVars
  BY <1>1, <1>2, <1>6 DEF storeVars, MemOK
<1> QED  BY <1>3, <1>4, <1>5, <1>6, NextIs

LEMMA StoresStarts == StoresInit => StoresTypeOK /\ MemOK
<1> SUFFICES ASSUME StoresInit PROVE StoresTypeOK /\ MemOK
  OBVIOUS
<1>1. (CHOOSE v \in States : v # Absent) \in States
  BY StoresAssumption
<1>2. file \in Manifests \cup {Unreadable}
  BY <1>1, NoEditIs DEF StoresInit, Manifests
<1>3. kept \in Manifests
  BY <1>2, NoEditIs DEF StoresInit
<1>4. amiss \in BOOLEAN /\ stranded \in BOOLEAN
  BY Zenon DEF StoresInit
<1>5. tables \in TablesType
  BY DEF StoresInit, TablesType
<1>6. budget \in BudgetType
  <2>1. MaxCrashes \in Nat /\ MaxEdits \in Nat /\ MaxHands \in Nat
    BY StoresAssumption
  <2>2. budget = [crashes |-> MaxCrashes, edits |-> MaxEdits, hands |-> MaxHands]
    BY DEF StoresInit
  <2> QED  BY <2>1, <2>2 DEF BudgetType
<1>7. favs \subseteq Tunes /\ wanted \subseteq Tunes /\ moved \subseteq Tunes
  BY DEF StoresInit
<1>8. edit \in [Editors -> EditType] /\ \A u \in Editors : edit[u] = NoEdit /\ edit[u].stage = "none"
  BY NoEditIs DEF StoresInit
<1>9. at = "down" /\ mem = NoManifest /\ reload = NoManifest
  BY DEF StoresInit
<1> QED  BY <1>2, <1>3, <1>4, <1>5, <1>6, <1>7, <1>8, <1>9, StoresTypes DEF MemOK, Stages

LEMMA StoresTypesKept == StoresSpec => [](StoresTypeOK /\ MemOK)
  BY StoresStarts, StoresTyped, PTL DEF StoresSpec

\* The tables, the manifest in the file and in memory and the edits are well typed at
\* any stage of the start and after any crash; in particular a backend that is up has a
\* manifest in memory, also when the file could not be parsed.
THEOREM StoresTypeCorrect == StoresSpec => []StoresTypeOK
  BY StoresTypesKept, PTL

-----------------------------------------------------------------------------
(* The favourites.  The inductive invariant says where they are at every   *)
(* stage of the start, and which tables still have an older shape there:   *)
(* wherever a start is cut off, the next begins with it.                   *)

\* The favourites are in `stats` as long as it is the old table, or nothing is left of
\* a migration; and in the copy once that is made.  A copy without the old `stats` is
\* about to be renamed, or nobody ever will.
FavInv ==
  /\ wanted \subseteq favs \cup moved
  /\ tables.migrating = NoTable \/ tables.stats = "old" => favs = wanted
  /\ at \in {"copy", "drop"} => tables.stats = "old" /\ tables.migrating # NoTable
  /\ at = "rename" => tables.migrating # NoTable
  /\ at \in {"drop", "rename"} => moved = wanted
  /\ tables.migrating # NoTable /\ tables.stats # "old" => at = "rename" \/ stranded

\* The tables that are in their present shape, or will be made, by stage.
TablesInv ==
  /\ at \notin {"down", "items"} => tables.items # "old"
  /\ at \notin {"down", "items", "files"} => tables.files # "old"
  /\ at \in {"schema", "md5", "url", "open", "up"} => tables.stats # "old"
  /\ at \in {"md5", "url", "open", "up"} => /\ tables.stats = "new"
                                            /\ tables.items # NoTable /\ tables.files # NoTable
  /\ at \in {"url", "open", "up"} => tables.files = "new"
  /\ at \in {"open", "up"} => tables.items = "new"

LEMMA FavsStep ==
  StoresTypeOK /\ FavInv /\ TablesInv /\ [StoresNext]_storeVars => FavInv' /\ TablesInv'
<1> SUFFICES ASSUME StoresTypeOK, FavInv, TablesInv, [StoresNext]_storeVars
             PROVE  FavInv' /\ TablesInv'
  OBVIOUS
<1> USE DEF Step, tableVars
<1>0. tables \in TablesType /\ at \in Stages
  BY StoresTypes
<1>1. /\ tables.items \in {NoTable, "old", "no url", "new"}
      /\ tables.files \in {NoTable, "old", "no md5", "new"}
      /\ tables.stats \in {NoTable, "old", "new"}
  BY <1>0 DEF TablesType
<1>2. ASSUME Start  PROVE FavInv' /\ TablesInv'
  BY <1>2 DEF Start, FavInv, TablesInv
<1>3. ASSUME DropItems  PROVE FavInv' /\ TablesInv'
  <2>1. /\ tables'.items # "old" /\ tables'.files = tables.files
        /\ tables'.stats = tables.stats /\ tables'.migrating = tables.migrating
    <3>1. Shape("items", IF tables.items = "old" THEN NoTable ELSE tables.items)
      BY <1>3 DEF DropItems
    <3>2. tables'.items = (IF tables.items = "old" THEN NoTable ELSE tables.items)
      BY <1>0, <3>1, ShapeIs
    <3> QED  BY <1>0, <3>1, <3>2, ShapeIs DEF NoTable
  <2> QED  BY <1>3, <2>1 DEF DropItems, FavInv, TablesInv
<1>4. ASSUME DropFiles  PROVE FavInv' /\ TablesInv'
  <2>1. /\ tables'.files # "old" /\ tables'.items = tables.items
        /\ tables'.stats = tables.stats /\ tables'.migrating = tables.migrating
    BY <1>0, <1>4, ShapeIs DEF DropFiles, NoTable
  <2> QED  BY <1>4, <2>1 DEF DropFiles, FavInv, TablesInv
<1>5. ASSUME MigrateStats  PROVE FavInv' /\ TablesInv'
  <2>1. CASE tables.stats = "old" /\ tables.migrating = NoTable
    <3>1. at = "stats" /\ at' = "copy" /\ Shape("migrating", "new") /\ UNCHANGED <<favs, moved, wanted>>
      BY <1>5, <2>1 DEF MigrateStats
    <3>2. /\ tables'.items = tables.items /\ tables'.files = tables.files
          /\ tables'.stats = tables.stats /\ tables'.migrating = "new"
      BY <1>0, <3>1, ShapeIs
    <3> QED  BY <2>1, <3>1, <3>2 DEF FavInv, TablesInv, NoTable
  <2>2. CASE ~(tables.stats = "old" /\ tables.migrating = NoTable)
    <3>1. UNCHANGED <<tableVars, stranded>> /\ at = "stats"
            /\ (at' = "down" \/ (at' = "schema" /\ tables.stats # "old"))
      BY <1>5, <2>2 DEF MigrateStats
    <3> QED  BY <3>1 DEF FavInv, TablesInv
  <2> QED  BY <2>1, <2>2
<1>6. ASSUME CopyStats  PROVE FavInv' /\ TablesInv'
  BY <1>6 DEF CopyStats, FavInv, TablesInv
<1>7. ASSUME DropStats  PROVE FavInv' /\ TablesInv'
  <2>1. /\ tables'.items = tables.items /\ tables'.files = tables.files
        /\ tables'.stats = NoTable /\ tables'.migrating = tables.migrating
    BY <1>0, <1>7, ShapeIs DEF DropStats
  <2> QED  BY <1>7, <2>1 DEF DropStats, FavInv, TablesInv, NoTable
<1>8. ASSUME RenameStats  PROVE FavInv' /\ TablesInv'
  <2>1. /\ tables'.items = tables.items /\ tables'.files = tables.files
        /\ tables'.stats = "new" /\ tables'.migrating = NoTable
    BY <1>0, <1>8, RenamedIs DEF RenameStats
  <2> QED  BY <1>8, <2>1 DEF RenameStats, FavInv, TablesInv
<1>9. ASSUME CreateTables  PROVE FavInv' /\ TablesInv'
  <2>1. /\ tables'.items # NoTable /\ tables'.files # NoTable /\ tables'.stats = "new"
        /\ tables'.items # "old" /\ tables'.files # "old"
        /\ tables'.migrating = tables.migrating
    BY <1>0, <1>1, <1>9, CreatedIs DEF CreateTables, TablesInv, NoTable
  <2>2. tables.stats # "old"
    BY <1>9 DEF CreateTables, TablesInv
  <2> QED  BY <1>9, <2>1, <2>2 DEF CreateTables, FavInv, TablesInv
<1>10. ASSUME AddColumns  PROVE FavInv' /\ TablesInv'
  <2>1. CASE at = "md5"
    <3>1. at' = "url" /\ UNCHANGED <<favs, moved, wanted, stranded>>
            /\ Shape("files", IF tables.files = "no md5" THEN "new" ELSE tables.files)
      BY <1>10, <2>1 DEF AddColumns
    <3>2. /\ tables'.items = tables.items /\ tables'.stats = tables.stats
          /\ tables'.migrating = tables.migrating
          /\ tables'.files = (IF tables.files = "no md5" THEN "new" ELSE tables.files)
      BY <1>0, <3>1, ShapeIs
    <3>3. tables'.files = "new"
      BY <1>1, <2>1, <3>2 DEF TablesInv
    <3> QED  BY <2>1, <3>1, <3>2, <3>3 DEF FavInv, TablesInv, NoTable
  <2>2. CASE at = "url"
    <3>1. at' = "open" /\ UNCHANGED <<favs, moved, wanted, stranded>>
            /\ Shape("items", IF tables.items = "no url" THEN "new" ELSE tables.items)
      BY <1>10, <2>2 DEF AddColumns
    <3>2. /\ tables'.files = tables.files /\ tables'.stats = tables.stats
          /\ tables'.migrating = tables.migrating
          /\ tables'.items = (IF tables.items = "no url" THEN "new" ELSE tables.items)
      BY <1>0, <3>1, ShapeIs
    <3>3. tables'.items = "new"
      BY <1>1, <2>2, <3>2 DEF TablesInv
    <3> QED  BY <2>2, <3>1, <3>2, <3>3 DEF FavInv, TablesInv, NoTable
  <2> QED  BY <1>10, <2>1, <2>2 DEF AddColumns
<1>11. ASSUME Filing  PROVE FavInv' /\ TablesInv'
  <2>1. /\ UNCHANGED <<tables, favs, moved, wanted>> /\ (at' = at \/ at' = "down" \/ (at = "open" /\ at' = "up"))
        /\ stranded => stranded'
        /\ at = "rename" /\ at' # "rename" => stranded'
    BY <1>11, FilingIs
  <2> QED  BY <2>1 DEF FavInv, TablesInv
<1>12. ASSUME NEW t \in Tunes, SetFavourite(t)  PROVE FavInv' /\ TablesInv'
  <2>1. /\ at = "up" /\ UNCHANGED <<at, tables, moved, stranded>>
        /\ \/ favs' = favs \cup {t} /\ wanted' = wanted \cup {t}
           \/ favs' = favs \ {t} /\ wanted' = wanted \ {t}
    BY <1>12 DEF SetFavourite
  <2> QED  BY <2>1 DEF FavInv, TablesInv
<1>13. CASE UNCHANGED storeVars
  BY <1>13 DEF FavInv, TablesInv, storeVars
<1> QED  BY <1>2, <1>3, <1>4, <1>5, <1>6, <1>7, <1>8, <1>9, <1>10, <1>11, <1>12, <1>13, NextIs
         DEF Migration

\* A start cut off at any statement but one, any number of times, has the favourites
\* where the next one looks for them; cut off between DROP TABLE stats and the renaming
\* it leaves them in the copy.  Once the backend serves, the tables are in their
\* present shape.
THEOREM FavouritesAreKept == StoresSpec => []FavouritesKept
<1>1. StoresInit => FavInv /\ TablesInv
  BY DEF StoresInit, FavInv, TablesInv
<1>2. FavInv /\ TablesInv => FavouritesKept
  BY DEF FavInv, TablesInv, FavouritesKept
<1> QED  BY <1>1, <1>2, FavsStep, StoresTypesKept, PTL DEF StoresSpec

-----------------------------------------------------------------------------
(* The manifest.  The inductive invariant follows an edit from the copy it *)
(* is made on, by way of the file, to its acknowledgement: what it is made *)
(* on is what was acknowledged last, as nobody else is at it.              *)

\* All but one album of a draft is as it was.
DraftOf(u, m) == \A a \in Albums \ {edit[u].album} : edit[u].draft[a] = m[a]

Saved(u) == edit[u].stage = "saved"

OneEditor == \A u, v \in Editors : edit[u].stage # "none" /\ edit[v].stage # "none" => u = v

EditInv ==
  /\ OneEditor
  /\ ~amiss =>
       /\ \A u \in Editors : edit[u].stage # "none" => DraftOf(u, kept)
       /\ \A u \in Editors : Saved(u) => file = edit[u].draft
       /\ (\A u \in Editors : ~Saved(u)) => file = kept /\ (at = "up" => mem = file)

LEMMA EditsStep ==
  StoresTypeOK /\ MemOK /\ EditInv /\ [StoresNext]_storeVars => EditInv'
<1> SUFFICES ASSUME StoresTypeOK, MemOK, EditInv, [StoresNext]_storeVars PROVE EditInv'
  OBVIOUS
<1>1. /\ edit \in [Editors -> EditType] /\ kept \in Manifests
      /\ \A u \in Editors : edit[u].draft \in Manifests /\ edit[u].stage \in {"none", "draft", "temp", "saved"}
  BY StoresTypes DEF EditType
<1>2. ASSUME UNCHANGED <<file, mem, edit, kept, amiss>>, at' = "up" => at = "up"
      PROVE  EditInv'
  BY <1>2 DEF EditInv, OneEditor, DraftOf, Saved
<1>3. ASSUME amiss', UNCHANGED edit  PROVE EditInv'
  BY <1>3 DEF EditInv, OneEditor
<1>4. CASE Migration
  BY <1>2, <1>4, MigrationIs DEF fileVars
<1>5. ASSUME NEW t \in Tunes, SetFavourite(t)  PROVE EditInv'
  BY <1>2, <1>5 DEF SetFavourite, fileVars
<1>6. CASE Open
  <2>1. amiss' \/ file # Unreadable
    BY <1>6, Zenon DEF Open
  <2>2. UNCHANGED <<file, edit, kept>> /\ (file # Unreadable => mem' = file)
    BY <1>6 DEF Open
  <2>3. ~amiss' => ~amiss
    BY <1>6, Zenon DEF Open
  <2> QED  BY <1>3, <2>1, <2>2, <2>3 DEF EditInv, OneEditor, DraftOf, Saved
<1>7. CASE Crash
  <2> DEFINE saved == {u \in Editors : edit[u].stage = "saved"}
  <2>1. /\ kept' = IF saved = {} THEN kept ELSE edit[CHOOSE u \in saved : TRUE].draft
        /\ \A u \in Editors : edit'[u].stage = "none"
        /\ UNCHANGED <<file, amiss>> /\ at' = "down"
    BY <1>7, NoEditIs DEF Crash
  <2>2. saved # {} => (CHOOSE u \in saved : TRUE) \in saved
    <3>1. saved # {} => \E u : u \in saved
      OBVIOUS
    <3> HIDE DEF saved
    <3> QED  BY <3>1, Zenon
  <2>3. ~amiss => kept' = file
    BY <2>1, <2>2 DEF EditInv, Saved
  <2> QED  BY <2>1, <2>3 DEF EditInv, OneEditor, DraftOf, Saved
<1>8. CASE HandEdit
  BY <1>3, <1>8 DEF HandEdit, Manifest
<1>9. CASE ReloadRead
  BY <1>2, <1>9 DEF ReloadRead, Manifest
<1>10. CASE ReloadSwap
  <2>1. UNCHANGED <<file, edit, kept>> /\ mem' = reload
    BY <1>10 DEF ReloadSwap, Manifest
  <2>2. ~amiss' => ~amiss /\ reload = file
    BY <1>10, Zenon DEF ReloadSwap
  <2> QED  BY <1>3, <2>1, <2>2 DEF EditInv, OneEditor, DraftOf, Saved
<1>11. ASSUME NEW u \in Editors, Take(u)  PROVE EditInv'
  <2>1. /\ Begin(u) /\ \A v \in Editors : edit[v].stage = "none"
        /\ mem \in Manifests /\ at = "up" /\ UNCHANGED <<at, file, mem, kept, amiss>>
    BY <1>11, NoEditIs DEF Take, Locked, Begin, MemOK, Manifest
  <2>2. /\ edit'[u].stage = "draft"
        /\ \A a \in Albums \ {edit'[u].album} : edit'[u].draft[a] = mem[a]
        /\ \A v \in Editors \ {u} : edit'[v] = edit[v]
    BY <1>1, <2>1, BeginIs
  <2>3. OneEditor'
    BY <2>1, <2>2 DEF OneEditor
  <2>4. ASSUME ~amiss  PROVE file = kept /\ mem = file
    BY <2>1, <2>4 DEF EditInv, Saved
  <2> QED  BY <2>1, <2>2, <2>3, <2>4 DEF EditInv, DraftOf, Saved
<1>12. ASSUME NEW u \in Editors, SaveTemp(u)  PROVE EditInv'
  <2>1. /\ edit[u].stage = "draft" /\ edit'[u].stage = "temp"
        /\ edit'[u].album = edit[u].album /\ edit'[u].draft = edit[u].draft
        /\ \A v \in Editors \ {u} : edit'[v] = edit[v]
    BY <1>1, <1>12, StageIs DEF SaveTemp
  <2>2. UNCHANGED <<at, file, mem, kept, amiss>>
    BY <1>12 DEF SaveTemp, Manifest
  <2>3. OneEditor'
    BY <2>1 DEF EditInv, OneEditor
  <2> QED  BY <2>1, <2>2, <2>3 DEF EditInv, DraftOf, Saved
<1>13. ASSUME NEW u \in Editors, SaveRename(u)  PROVE EditInv'
  <2>1. /\ edit[u].stage = "temp" /\ edit'[u].stage = "saved"
        /\ edit'[u].album = edit[u].album /\ edit'[u].draft = edit[u].draft
        /\ \A v \in Editors \ {u} : edit'[v] = edit[v]
    BY <1>1, <1>13, StageIs DEF SaveRename
  <2>2. UNCHANGED <<at, mem, kept, amiss>> /\ file' = edit[u].draft
    BY <1>13 DEF SaveRename, Manifest
  <2>3. OneEditor' /\ \A v \in Editors : edit'[v].stage # "none" => v = u
    BY <2>1 DEF EditInv, OneEditor
  <2> QED  BY <2>1, <2>2, <2>3 DEF EditInv, DraftOf, Saved
<1>14. ASSUME NEW u \in Editors, SaveFails(u) \/ Swap(u)  PROVE EditInv'
  <2>1. /\ edit[u].stage # "none" /\ edit'[u].stage = "none"
        /\ \A v \in Editors \ {u} : edit'[v] = edit[v] /\ edit'[v].stage = "none"
        /\ UNCHANGED <<at, file, amiss>>
    BY <1>1, <1>14, NoEditIs DEF SaveFails, Swap, Manifest, EditInv, OneEditor
  <2>2. \A v \in Editors : edit'[v].stage = "none"
    BY <2>1
  <2>3. ASSUME ~amiss  PROVE file = kept' /\ (at = "up" => mem' = file)
    <3>1. CASE SaveFails(u)
      BY <1>1, <2>1, <2>3, <3>1 DEF SaveFails, Manifest, EditInv, Saved
    <3>2. CASE Swap(u)
      <4>1. /\ mem' = edit[u].draft /\ file = edit[u].draft /\ DraftOf(u, kept)
            /\ kept' = [kept EXCEPT ![edit[u].album] = edit[u].draft[edit[u].album]]
        BY <2>3, <3>2 DEF Swap, EditInv, Saved
      <4>2. kept' = edit[u].draft
        BY <1>1, <4>1 DEF DraftOf, Manifests
      <4> QED  BY <4>1, <4>2
    <3> QED  BY <1>14, <3>1, <3>2
  <2> QED  BY <2>1, <2>2, <2>3 DEF EditInv, OneEditor, Saved
<1>15. CASE UNCHANGED storeVars
  BY <1>2, <1>15 DEF storeVars
<1> QED  BY <1>4, <1>5, <1>6, <1>7, <1>8, <1>9, <1>10, <1>11, <1>12, <1>13, <1>14, <1>15, NextIs
         DEF Filing

\* An acknowledged edit of an album is in the file and in memory until the next one of
\* that album, however many edits, reloads and crashes come between, unless the file was
\* edited by hand, could not be read, or a reload was overtaken by an edit.
THEOREM EditsAreKept == StoresSpec => []EditsKept
<1>1. StoresInit => EditInv
  <2> SUFFICES ASSUME StoresInit PROVE EditInv
    OBVIOUS
  <2>1. \A u \in Editors : edit[u].stage = "none"
    BY NoEditIs DEF StoresInit
  <2>2. at = "down" /\ (file # Unreadable => kept = file)
    BY DEF StoresInit
  <2>3. file = Unreadable => amiss
    BY Zenon DEF StoresInit
  <2> QED  BY <2>1, <2>2, <2>3 DEF EditInv, OneEditor, Saved
<1>2. EditInv => EditsKept
  BY NoEditIs DEF EditInv, EditsKept, Locked, Saved
<1> QED  BY <1>1, <1>2, EditsStep, StoresTypesKept, PTL DEF StoresSpec
=============================================================================
