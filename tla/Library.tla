------------------------------ MODULE Library ------------------------------
(***************************************************************************)
(* The `files` index of one writable root against the files themselves:    *)
(* the scan, which holds the database connection from its first read to    *)
(* its commit but looks at the disk path by path, and the requests that    *)
(* rename and delete, which touch the disk without that connection and the *)
(* index afterwards, when they have got it.  The collection is a network   *)
(* mount that others write to as well.                                     *)
(***************************************************************************)
EXTENDS Naturals, FiniteSets, Functions

CONSTANTS Paths, Contents, NoFile, NoRow,
          Ops,         \* requests, each a rename or a delete
          MaxScans,    \* bound: scans begun
          MaxFaults    \* bound: files unreadable or changed by other hands,
                       \* clients that leave and crashes, together

ASSUME LibraryAssumption ==
  /\ NoFile \notin Contents \cup Paths
  /\ IsFiniteSet(Paths)
  /\ MaxScans \in Nat /\ MaxFaults \in Nat
  /\ NoRow \notin [id : Nat, hash : Contents]

VARIABLES disk,    \* the file at each path
          index,   \* the row of each path: UNIQUE(root_id, rel_path)
          nextId,  \* AUTOINCREMENT
          scan,    \* the scan: what it has still to walk, to stat, and what it
                   \* has; `clean` is history, see below
          budget,  \* what the bounds still allow
          op,      \* the requests
          calm     \* history: nothing has happened since the last clean scan
                   \* that may leave the index wrong

libVars == <<disk, index, nextId, scan, budget, op, calm>>

Row  == [id : Nat, hash : Contents]
Idle == [on |-> FALSE, left |-> {}, cands |-> {}, got |-> [p \in Paths |-> NoFile],
         clean |-> TRUE]
NoOp == [at |-> "idle", from |-> NoFile, to |-> NoFile, met |-> FALSE]

LibTypeOK ==
  /\ disk \in [Paths -> Contents \cup {NoFile}]
  /\ index \in [Paths -> Row \cup {NoRow}]
  /\ nextId \in Nat
  /\ scan \in [on : BOOLEAN, left : SUBSET Paths, cands : SUBSET Paths,
               got : [Paths -> Contents \cup {NoFile}], clean : BOOLEAN]
  /\ budget \in [scans : 0..MaxScans, faults : 0..MaxFaults]
  /\ op \in [Ops -> [at : {"idle", "move", "update", "remove", "done"},
                     from : Paths \cup {NoFile}, to : Paths \cup {NoFile},
                     met : BOOLEAN]]
  /\ calm \in BOOLEAN

Indexed   == {p \in Paths : index[p] # NoRow}
Busy      == {r \in Ops : op[r].at \in {"move", "update", "remove"}}
InUse(r)  == {op[r].from, op[r].to} \ {NoFile}
At(r, where) == op' = [op EXCEPT ![r].at = where]

LibInit ==
  /\ disk \in [Paths -> Contents \cup {NoFile}]
  /\ \E id \in Injection(Paths, 1..Cardinality(Paths)) :
       index = [p \in Paths |-> IF disk[p] = NoFile THEN NoRow
                                ELSE [id |-> id[p], hash |-> disk[p]]]
  /\ nextId = Cardinality(Paths) + 1
  /\ scan = Idle
  /\ budget = [scans |-> MaxScans, faults |-> MaxFaults]
  /\ op = [r \in Ops |-> NoOp]
  /\ calm = TRUE

-----------------------------------------------------------------------------
(* The history: a step that may leave the index wrong for good says so, to   *)
(* `calm` and to the scan that is under way, and requests whose files meet   *)
(* remember it, as their last step may still come after the next scan.       *)

Disturb(c) ==
  /\ calm' = (calm /\ ~c)
  /\ scan' = IF scan.on THEN [scan EXCEPT !.clean = @ /\ ~c] ELSE scan

UsersOf(ps) == {q \in Busy : InUse(q) \cap ps # {}}
Meet(ps, f) == [q \in Ops |-> IF q \in UsersOf(ps) THEN [f[q] EXCEPT !.met = TRUE] ELSE f[q]]
Fault == budget.faults > 0 /\ budget' = [budget EXCEPT !.faults = @ - 1]

Settled     == \A r \in Busy : ~op[r].met

-----------------------------------------------------------------------------
(* The scan: scan_into *)

\* The connection is locked and the rows read; no row changes until the commit.
ScanBegin ==
  /\ ~scan.on
  /\ budget.scans > 0
  /\ budget' = [budget EXCEPT !.scans = @ - 1]
  /\ scan' = [Idle EXCEPT !.on = TRUE, !.left = Paths]
  /\ UNCHANGED <<disk, index, nextId, op, calm>>

\* The walk finds what is there as it gets to it.
Walk(p) ==
  /\ p \in scan.left
  /\ scan' = [scan EXCEPT !.left = @ \ {p},
                !.cands = IF disk[p] = NoFile THEN @ ELSE @ \cup {p}]
  /\ UNCHANGED <<disk, index, nextId, budget, op, calm>>

\* A candidate is stat'ed and hashed, in any order, or skipped when it is gone.  The
\* known hash is used again while size and mtime are the same: other contents are
\* taken to differ in one of them.
Resolve(p) ==
  /\ scan.left = {}
  /\ p \in scan.cands
  /\ scan' = [scan EXCEPT !.cands = @ \ {p}, !.got[p] = disk[p]]
  /\ UNCHANGED <<disk, index, nextId, budget, op, calm>>

\* The network mount fails to list or to read one file: skipped, with a warning.
Unreadable(p) ==
  /\ Fault
  /\ p \in scan.left \cup scan.cands
  /\ scan' = [scan EXCEPT !.left = @ \ {p}, !.cands = @ \ {p}, !.clean = FALSE]
  /\ UNCHANGED <<disk, index, nextId, op, calm>>

\* Mutant: ids without AUTOINCREMENT, one above what is there.
FreshAboveMax(new) ==
  LET top == IF Indexed = {} THEN 0
             ELSE CHOOSE i \in {index[p].id : p \in Indexed} :
                    \A p \in Indexed : index[p].id <= i
  IN  Injection(new, (top + 1)..(top + Cardinality(new)))

\* New rows get ids that were never used.
Fresh(new) == Injection(new, nextId..(nextId + Cardinality(new) - 1))

\* One transaction: what was resolved is upserted, every other row deleted.
Commit ==
  /\ scan.on /\ scan.left = {} /\ scan.cands = {}
  /\ LET seen == {p \in Paths : scan.got[p] # NoFile}
         new  == seen \ Indexed
     IN  /\ \E id \in Fresh(new) :
              index' = [p \in Paths |->
                          IF p \in new THEN [id |-> id[p], hash |-> scan.got[p]]
                          ELSE IF p \in seen THEN [index[p] EXCEPT !.hash = scan.got[p]]
                          ELSE NoRow]
         /\ nextId' = nextId + Cardinality(new)
  /\ scan' = Idle
  /\ calm' = (scan.clean /\ Settled)
  /\ UNCHANGED <<disk, budget, op>>

-----------------------------------------------------------------------------
(* The requests *)

\* Mutant: whatever is at the destination is not looked at.
RenameCheckHalf(r, a, b) ==
  /\ op[r].at = "idle"
  /\ a # b /\ disk[a] # NoFile
  /\ op' = [op EXCEPT ![r] = [NoOp EXCEPT !.at = "move", !.from = a, !.to = b]]
  /\ UNCHANGED <<disk, index, nextId, scan, budget, calm>>

\* api_rename finds the source and no file at the destination ...
RenameCheck(r, a, b) ==
  /\ op[r].at = "idle"
  /\ a # b /\ disk[a] # NoFile /\ disk[b] = NoFile
  /\ op' = [op EXCEPT ![r] = [NoOp EXCEPT !.at = "move", !.from = a, !.to = b]]
  /\ UNCHANGED <<disk, index, nextId, scan, budget, calm>>

\* ... then moves the file, over whatever is at the destination by now ...
RenameMove(r) ==
  /\ op[r].at = "move"
  /\ LET a == op[r].from
         b == op[r].to
     IN  IF disk[a] = NoFile
         THEN At(r, "done") /\ UNCHANGED <<disk, scan, calm>>
         ELSE /\ disk' = [disk EXCEPT ![a] = NoFile, ![b] = disk[a]]
              /\ LET met == UsersOf(InUse(r)) # {r}
                 IN  /\ op' = LET f == [op EXCEPT ![r].at = "update"]
                              IN  IF met THEN Meet(InUse(r), f) ELSE f
                     /\ Disturb(scan.on \/ met \/ op[r].met)
  /\ UNCHANGED <<index, nextId, budget>>

\* Mutant: the row is made anew, from the file that is there by now.
RenameUpdateRehash(r) ==
  /\ op[r].at = "update"
  /\ ~scan.on
  /\ LET a == op[r].from
         b == op[r].to
     IN  index' = IF index[a] = NoRow \/ index[b] # NoRow THEN index
                  ELSE [index EXCEPT ![a] = NoRow, ![b] = [index[a] EXCEPT !.hash = disk[b]]]
  /\ At(r, "done")
  /\ UNCHANGED <<disk, nextId, scan, budget, calm>>

\* ... and, with the connection, the row, if there is one still and none at the
\* destination (UNIQUE: the request fails).
RenameUpdate(r) ==
  /\ op[r].at = "update"
  /\ ~scan.on
  /\ LET a == op[r].from
         b == op[r].to
     IN  index' = IF index[a] = NoRow \/ index[b] # NoRow THEN index
                  ELSE [index EXCEPT ![a] = NoRow, ![b] = index[a]]
  /\ At(r, "done")
  /\ UNCHANGED <<disk, nextId, scan, budget, calm>>

\* api_delete removes the file and then, with the connection, its row.
DeleteFile(r, a) ==
  /\ op[r].at = "idle"
  /\ disk[a] # NoFile
  /\ disk' = [disk EXCEPT ![a] = NoFile]
  /\ LET met == UsersOf({a}) # {}
     IN  /\ op' = Meet({a}, [op EXCEPT ![r] =
                                [NoOp EXCEPT !.at = "remove", !.from = a, !.met = met]])
         /\ Disturb(met)
  /\ UNCHANGED <<index, nextId, budget>>

\* Mutant: the row is left to the next scan.
DeleteRowLater(r) ==
  /\ op[r].at = "remove"
  /\ ~scan.on
  /\ At(r, "done")
  /\ UNCHANGED <<disk, index, nextId, scan, budget, calm>>

DeleteRow(r) ==
  /\ op[r].at = "remove"
  /\ ~scan.on
  /\ index' = [index EXCEPT ![op[r].from] = NoRow]
  /\ At(r, "done")
  /\ UNCHANGED <<disk, nextId, scan, budget, calm>>

-----------------------------------------------------------------------------
(* What else may happen *)

\* The client leaves while the request waits for the connection: the handler is
\* dropped there.
Abort(r) ==
  /\ Fault
  /\ op[r].at \in {"update", "remove"}
  /\ At(r, "done")
  /\ Disturb(TRUE)
  /\ UNCHANGED <<disk, index, nextId>>

\* The server goes down and is started again: an open transaction is undone.
Crash ==
  /\ Fault
  /\ scan.on \/ Busy # {}
  /\ scan' = Idle
  /\ op' = [r \in Ops |-> IF r \in Busy THEN [op[r] EXCEPT !.at = "done"] ELSE op[r]]
  /\ calm' = (calm /\ \A r \in Busy : op[r].at = "move")
  /\ UNCHANGED <<disk, index, nextId>>

\* A file comes, goes or changes on the mount, by other hands or by a fetch.
Outside(p) ==
  /\ Fault
  /\ \E c \in (Contents \cup {NoFile}) \ {disk[p]} : disk' = [disk EXCEPT ![p] = c]
  /\ op' = Meet({p}, op)
  /\ Disturb(TRUE)
  /\ UNCHANGED <<index, nextId>>

-----------------------------------------------------------------------------
ScanStep == ScanBegin \/ Commit \/ \E p \in Paths : Walk(p) \/ Resolve(p) \/ Unreadable(p)

Request(r) ==
  \/ \E a, b \in Paths : RenameCheck(r, a, b)
  \/ RenameMove(r) \/ RenameUpdate(r)
  \/ \E a \in Paths : DeleteFile(r, a)
  \/ DeleteRow(r)
  \/ Abort(r)

LibNext ==
  \/ ScanStep
  \/ \E r \in Ops : Request(r)
  \/ Crash
  \/ \E p \in Paths : Outside(p)

LibSpec == LibInit /\ [][LibNext]_libVars

-----------------------------------------------------------------------------
(* Properties *)

Agrees(p) == IF disk[p] = NoFile THEN index[p] = NoRow
             ELSE index[p] # NoRow /\ index[p].hash = disk[p]

\* Whatever has gone wrong before, once a scan has run during which no file was
\* moved, changed or unreadable, the index says what is on disk, and renames
\* and deletes keep it so, deletes and the rows of renames even when a scan
\* comes between their two steps.
SyncWhenCalm ==
  calm /\ ~scan.on =>
    \A p \in Paths : Agrees(p) \/ \E r \in Busy : p \in InUse(r)

\* A row keeps its id as long as its path is indexed, across any scan; no two rows
\* share an id; and an id that is gone never comes back for another file: what
\* queues and playing tabs hold stays theirs.
IdsKeepTheirFile ==
  [][/\ \A p \in Indexed \cap Indexed' : index'[p].id = index[p].id
     /\ \A p, q \in Indexed' :
          /\ p # q => index'[p].id # index'[q].id
          /\ index'[p].id >= nextId \/ \E o \in Indexed : index[o].id = index'[p].id]_libVars

\* A rename that nobody has met (no other request and no other hand has touched its
\* source or its destination since it looked) overwrites nothing, whatever else
\* goes on: scans, crashes, clients that leave, renames and deletes elsewhere.  And
\* when it takes the row after the file, the file is still where it put it.
MovesLoseNothing ==
  [][\A r \in Ops : ~op[r].met =>
       /\ op[r].at = "move" /\ op'[r].at = "update" =>
            Range(disk) \subseteq Range(disk') \cup {NoFile}
       /\ op[r].at = "update" /\ op'[r].at = "done" =>
            disk[op[r].from] = NoFile /\ disk[op[r].to] # NoFile]_libVars

\* Never overwrite an existing file.  The code looks, and then moves with rename(2),
\* which replaces: of two renames to one place, or a rename and a file that
\* comes meanwhile, one is lost.
NeverOverwritten ==
  [][\A r \in Ops : op[r].at = "move" /\ op'[r].at = "update"
       => disk[op[r].to] = NoFile]_libVars
=============================================================================
