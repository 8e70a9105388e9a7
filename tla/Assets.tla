------------------------------- MODULE Assets -------------------------------
(***************************************************************************)
(* Derived assets of the party backend: one file of a production, what the *)
(* transcoder makes of it, the cache directory and the ledger (`derived`). *)
(*                                                                         *)
(* A request names the file by its content hash.  The key of an asset is   *)
(* that hash and the recipe the party configuration has for the file.  On  *)
(* a miss the bytes are read, by path, sent to the sidecar, and what comes *)
(* back is written to <key>.partial, renamed, and recorded.  Requests for  *)
(* one key do not know of each other (a <video> sends several), clients    *)
(* leave, scans run, the file changes on the mount, and the process dies   *)
(* between any two steps.                                                  *)
(***************************************************************************)
EXTENDS Naturals

CONSTANTS Requests,
          Bytes,    \* what the file may contain; its hash tells them apart
          Recipes,  \* what the configuration may say about it
          Good,     \* the keys that ffmpeg can convert
          NoFile, NoKey,
          MaxFaults \* bound: on all that happens to the backend from outside

Keys == Bytes \X Recipes

ASSUME AssetsAssumption ==
  /\ Good \subseteq Keys
  /\ NoKey \notin Keys
  /\ NoFile \notin [of : SUBSET Keys, whole : BOOLEAN]
  /\ MaxFaults \in Nat

VARIABLES src,    \* the file: its bytes and its (size, mtime)
          row,    \* its row in `files`
          recipe, \* the configuration, as loaded
          ledger, \* `derived`: status of each key
          disk,   \* of each key the file in the cache and the .partial
          req,    \* the requests
          faults, \* what the bound still allows
          spoilt, \* history: keys for which other bytes were read than their
                  \* hash names, or whose ffmpeg was killed
          shared, \* history: keys that two requests have written at a time
          cut     \* history: those of them with a write that was cut off

history   == <<spoilt, shared, cut>>
assetVars == <<src, row, recipe, ledger, disk, req, faults, history>>

\* A file in the cache directory: what was written into it since it was last
\* truncated, and whether all of it is there.
File  == [of : SUBSET Keys, whole : BOOLEAN]
Stage == {"idle", "asked", "miss", "read", "rejected", "made", "writing", "left", "written", "renamed"}
Place == {"partial", "cache", "gone"}
Idle  == [at |-> "idle", key |-> NoKey, made |-> NoKey, to |-> "gone", fresh |-> FALSE]

AssetsTypeOK ==
  /\ src \in [bytes : Bytes, stamp : 1..2] /\ row \in [bytes : Bytes, stamp : 1..2]
  /\ recipe \in Recipes
  /\ ledger \in [Keys -> {"none", "ok", "failed"}]
  /\ \A k \in Keys : disk[k].cache # NoFile => disk[k].cache \in File
  /\ \A k \in Keys : disk[k].partial # NoFile => disk[k].partial \in File
  /\ \A r \in Requests :
       /\ req[r].at \in Stage /\ req[r].to \in Place /\ req[r].fresh \in BOOLEAN
       /\ req[r].at # "idle" => req[r].key \in Keys
       /\ req[r].at \in {"read", "rejected", "made", "writing", "left", "written", "renamed"}
            => req[r].made \in Keys
  /\ faults \in 0..MaxFaults
  /\ spoilt \subseteq Keys /\ cut \subseteq shared /\ shared \subseteq Keys

AssetsInit ==
  /\ src \in [bytes : Bytes, stamp : {1}]
  /\ row = src
  /\ recipe \in Recipes
  /\ ledger = [k \in Keys |-> "none"]
  /\ disk = [k \in Keys |-> [cache |-> NoFile, partial |-> NoFile]]
  /\ req = [r \in Requests |-> Idle]
  /\ faults = MaxFaults
  /\ spoilt = {} /\ shared = {} /\ cut = {}

-----------------------------------------------------------------------------
(* A request: api_asset *)

\* What the asset is called in the ledger and in the cache.
Named(key) == key

Outer == <<src, row, recipe, faults>>
At(r, from) == req[r].at = from
To(r, stage) == req' = [req EXCEPT ![r].at = stage]
Answer(r) == req' = [req EXCEPT ![r] = Idle]
Name(r) == Named(req[r].key)

\* The hash is looked up in `files`, and the recipe of that path (404 if there is
\* no such row is no step).
Ask(r) ==
  /\ At(r, "idle")
  /\ req' = [req EXCEPT ![r] = [Idle EXCEPT !.at = "asked", !.key = <<row.bytes, recipe>>]]
  /\ UNCHANGED <<Outer, ledger, disk, history>>

\* Mutant: on a miss the sidecar is asked without the bytes.
CheckOnly(r) ==
  /\ At(r, "asked")
  /\ IF ledger[Name(r)] = "none" THEN To(r, "read") ELSE Answer(r)
  /\ UNCHANGED <<Outer, ledger, disk, history>>

\* The ledger decides: served from the cache, refused, or a miss, as is a file
\* that is recorded and has gone.
Check(r) ==
  /\ At(r, "asked")
  /\ LET k == Name(r)
     IN  CASE ledger[k] = "ok" /\ disk[k].cache # NoFile -> Answer(r)
           [] ledger[k] = "failed" -> Answer(r)
           [] OTHER -> To(r, "miss")
  /\ UNCHANGED <<Outer, ledger, disk, history>>

\* The path is read, whatever is there by now.
ReadSource(r) ==
  /\ At(r, "miss")
  /\ req' = [req EXCEPT ![r].at = "read", ![r].made = <<src.bytes, req[r].key[2]>>]
  /\ spoilt' = spoilt \cup (IF src.bytes = req[r].key[1] THEN {} ELSE {Name(r)})
  /\ UNCHANGED <<Outer, ledger, disk, shared, cut>>

\* What the sidecar may say: ffmpeg is run on what passes the checks, for no
\* longer than the timeout; 422 and 400 stand for what it can never convert.  Its 400
\* for a form it cannot read meets no request of this client, which builds the form in
\* memory: where an upload breaks off, nobody is left to read the reply.
Replies(made) ==
  (IF made \in Good THEN {200} ELSE {400, 422}) \cup {500, 504}

\* Mutant: every reply but a good one is remembered.
ConvertHasty(r) ==
  /\ At(r, "read")
  /\ \/ \E reply \in Replies(req[r].made) : To(r, IF reply = 200 THEN "made" ELSE "rejected")
     \/ Answer(r)
  /\ UNCHANGED <<Outer, ledger, disk, history>>

\* send: a reply is good, for ever bad, or an error that may pass, as it is when
\* the sidecar cannot be reached.
Convert(r) ==
  /\ At(r, "read")
  /\ \/ \E reply \in Replies(req[r].made) :
          CASE reply = 200 -> To(r, "made")
            [] reply \in {400, 413, 422} -> To(r, "rejected")
            [] OTHER -> Answer(r)
     \/ Answer(r)
  /\ UNCHANGED <<Outer, ledger, disk, history>>

\* Any exit of ffmpeg but 0 is a 422, also when it was killed.
FfmpegDies(r) ==
  /\ faults > 0 /\ faults' = faults - 1
  /\ At(r, "read")
  /\ To(r, "rejected")
  /\ spoilt' = spoilt \cup {Name(r)}
  /\ UNCHANGED <<src, row, recipe, ledger, disk, shared, cut>>

RecordFailed(r) ==
  /\ At(r, "rejected")
  /\ ledger' = [ledger EXCEPT ![Name(r)] = "failed"]
  /\ Answer(r)
  /\ UNCHANGED <<Outer, disk, history>>

Doing(k, stages) == {q \in Requests : req[q].at \in stages /\ Name(q) = k}
Writing(k) == Doing(k, {"writing", "left"})
Between(k) == Doing(k, {"writing", "left", "written"})
NewFile    == [of |-> {}, whole |-> FALSE]

\* Mutant: the cached file itself is written.
OpenCache(r) ==
  /\ At(r, "made")
  /\ LET k == Name(r)
     IN  /\ disk' = [disk EXCEPT ![k] = [cache |-> NewFile, partial |-> NewFile]]
         /\ req' = [q \in Requests |->
                      IF q = r THEN [req[r] EXCEPT !.at = "writing", !.to = "cache", !.fresh = TRUE]
                      ELSE IF q \in Writing(k) THEN [req[q] EXCEPT !.fresh = FALSE]
                      ELSE req[q]]
         /\ shared' = IF Between(k) = {} THEN shared ELSE shared \cup {k}
  /\ UNCHANGED <<Outer, ledger, spoilt, cut>>

\* .partial is created, or truncated under the hands of whoever is writing it.
Open(r) ==
  /\ At(r, "made")
  /\ LET k == Name(r)
     IN  /\ disk' = [disk EXCEPT ![k].partial = NewFile]
         /\ req' = [q \in Requests |->
                      IF q = r THEN [req[r] EXCEPT !.at = "writing", !.to = "partial", !.fresh = TRUE]
                      ELSE IF q \in Writing(k) /\ req[q].to = "partial"
                           THEN [req[q] EXCEPT !.fresh = FALSE]
                      ELSE req[q]]
         /\ shared' = IF Between(k) = {} THEN shared ELSE shared \cup {k}
  /\ UNCHANGED <<Outer, ledger, spoilt, cut>>

Filled(f, r) == [of |-> f.of \cup {req[r].made}, whole |-> f.whole \/ req[r].fresh]

\* The last byte is written, into the file that was opened, wherever that is by
\* now; also for a client that has left.
WriteEnd(r) ==
  /\ req[r].at \in {"writing", "left"}
  /\ LET k == Name(r)
     IN  disk' = CASE req[r].to = "partial" -> [disk EXCEPT ![k].partial = Filled(@, r)]
                   [] req[r].to = "cache"   -> [disk EXCEPT ![k].cache = Filled(@, r)]
                   [] OTHER -> disk
  /\ IF At(r, "left") THEN Answer(r) ELSE To(r, "written")
  /\ UNCHANGED <<Outer, ledger, history>>

\* The cache volume is full: an error, and half a .partial.
WriteFails(r) ==
  /\ faults > 0 /\ faults' = faults - 1
  /\ At(r, "writing")
  /\ Answer(r)
  /\ cut' = cut \cup (shared \cap {Name(r)})
  /\ UNCHANGED <<src, row, recipe, ledger, disk, spoilt, shared>>

\* .partial takes the place of the cached file, with all who are writing it; if
\* another request has taken it, this one fails.
Rename(r) ==
  /\ At(r, "written")
  /\ LET k == Name(r)
     IN  IF disk[k].partial = NoFile THEN Answer(r) /\ UNCHANGED disk
         ELSE /\ disk' = [disk EXCEPT ![k] = [cache |-> disk[k].partial, partial |-> NoFile]]
              /\ req' = [q \in Requests |->
                           IF q = r THEN [req[r] EXCEPT !.at = "renamed"]
                           ELSE IF q \in Writing(k)
                                THEN [req[q] EXCEPT !.to = IF @ = "partial" THEN "cache" ELSE "gone"]
                           ELSE req[q]]
  /\ UNCHANGED <<Outer, ledger, history>>

\* Recorded, over a failure if need be, and answered from memory.
RecordOk(r) ==
  /\ At(r, "renamed")
  /\ ledger' = [ledger EXCEPT ![Name(r)] = "ok"]
  /\ Answer(r)
  /\ UNCHANGED <<Outer, disk, history>>

\* The client leaves: the handler is dropped where it waits, a write goes on.
Leave(r) ==
  /\ ~At(r, "idle") /\ ~At(r, "left")
  /\ IF At(r, "writing") THEN To(r, "left") ELSE Answer(r)
  /\ UNCHANGED <<Outer, ledger, disk, history>>

-----------------------------------------------------------------------------
(* Around it *)

Inner == <<ledger, disk, req, history>>
Fault == faults > 0 /\ faults' = faults - 1

\* The file is replaced on the mount; size and mtime (in seconds) may stay.
Replace ==
  /\ Fault
  /\ src' \in [bytes : Bytes \ {src.bytes}, stamp : 1..2]
  /\ UNCHANGED <<row, recipe, Inner>>

\* A scan: the known hash is kept as long as size and mtime are what they were.
Scan ==
  /\ row # src
  /\ row' = IF row.stamp = src.stamp THEN row ELSE src
  /\ UNCHANGED <<src, recipe, faults, Inner>>

\* reload_parties, at a rescan, finds .party.json edited.
Reload ==
  /\ Fault
  /\ recipe' \in Recipes \ {recipe}
  /\ UNCHANGED <<src, row, Inner>>

\* A cached file is deleted.
Purge(k) ==
  /\ Fault
  /\ disk[k].cache # NoFile
  /\ disk' = [disk EXCEPT ![k].cache = NoFile]
  /\ req' = [q \in Requests |-> IF q \in Writing(k) /\ req[q].to = "cache"
                                THEN [req[q] EXCEPT !.to = "gone"] ELSE req[q]]
  /\ UNCHANGED <<src, row, recipe, ledger, history>>

Crash ==
  /\ Fault
  /\ req' = [r \in Requests |-> Idle]
  /\ cut' = cut \cup {k \in shared : Writing(k) # {}}
  /\ UNCHANGED <<src, row, recipe, ledger, disk, spoilt, shared>>

-----------------------------------------------------------------------------
Handle(r) ==
  \/ Ask(r) \/ Check(r) \/ ReadSource(r) \/ Convert(r) \/ RecordFailed(r)
  \/ Open(r) \/ WriteEnd(r) \/ Rename(r) \/ RecordOk(r)

AssetsNext ==
  \/ \E r \in Requests : Handle(r) \/ FfmpegDies(r) \/ WriteFails(r) \/ Leave(r)
  \/ Replace \/ Scan \/ Reload \/ Crash
  \/ \E k \in Keys : Purge(k)

AssetsSpec == AssetsInit /\ [][AssetsNext]_assetVars

-----------------------------------------------------------------------------
(* Properties *)

Served(k) == ledger[k] = "ok" /\ disk[k].cache # NoFile
Right(k)  == disk[k].cache = [of |-> {k}, whole |-> TRUE]

\* What is served is there in full and made from those bytes by that recipe, at
\* any time and whatever crashes, full disks, purges, edits of the configuration
\* and clients that leave, unless two requests have written it at once or it was
\* not those bytes that were read.  Two that write it at once leave it right when
\* they are done, unless a write is cut off by a crash or a full disk.
ServedIsRight ==
  \A k \in Keys \ spoilt :
    Served(k) /\ (k \notin shared \/ (k \notin cut /\ Writing(k) = {})) => Right(k)

\* The ledger never gives up a source that ffmpeg can convert because the sidecar
\* was down, slow or wrongly set up.
FailedForGood == \A k \in Keys \ spoilt : ledger[k] = "failed" => k \notin Good
=============================================================================
