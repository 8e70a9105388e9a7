---------------------------- MODULE AssetsProofs ----------------------------
(* What holds of Assets for any bytes, recipes and requests, whatever      *)
(* ffmpeg can convert.                                                     *)
EXTENDS Assets, TLAPS

-----------------------------------------------------------------------------
(* Type correctness.                                                       *)

ReqType  == [at : Stage, key : Keys \cup {NoKey}, made : Keys \cup {NoKey}, to : Place,
             fresh : BOOLEAN]
DiskType == [cache : File \cup {NoFile}, partial : File \cup {NoFile}]
SrcType  == [bytes : Bytes, stamp : 1..2]

\* The stages at which a request has read some bytes, and so has something made.
Past == {"read", "rejected", "made", "writing", "left", "written", "renamed"}

Typed ==
  /\ src \in SrcType /\ row \in SrcType /\ recipe \in Recipes
  /\ ledger \in [Keys -> {"none", "ok", "failed"}]
  /\ disk \in [Keys -> DiskType]
  /\ req \in [Requests -> ReqType]
  /\ \A r \in Requests : /\ req[r].at # "idle" => req[r].key \in Keys
                         /\ req[r].at \in Past => req[r].made \in Keys
  /\ faults \in 0..MaxFaults
  /\ spoilt \subseteq Keys /\ shared \subseteq Keys /\ cut \subseteq shared

LEMMA TypedIs == Typed => AssetsTypeOK
<1> SUFFICES ASSUME Typed PROVE AssetsTypeOK
  OBVIOUS
<1>1. \A k \in Keys : /\ disk[k].cache # NoFile => disk[k].cache \in File
                      /\ disk[k].partial # NoFile => disk[k].partial \in File
  BY DEF Typed, DiskType
<1>2. \A r \in Requests : req[r].at \in Stage /\ req[r].to \in Place /\ req[r].fresh \in BOOLEAN
  BY DEF Typed, ReqType
<1> QED  BY <1>1, <1>2 DEF Typed, AssetsTypeOK, SrcType, Past

LEMMA IdleIs == Idle \in ReqType /\ Idle.at = "idle" /\ NewFile \in File /\ NewFile # NoFile
<1>1. Idle \in ReqType /\ Idle.at = "idle"
  BY DEF Idle, ReqType, Stage, Place
<1>2. NewFile \in File
  BY DEF NewFile, File
<1> QED  BY <1>1, <1>2, AssetsAssumption DEF File

\* A request goes on to another stage; it is over.
LEMMA ToIs ==
  ASSUME Typed, NEW r \in Requests, NEW stage \in Stage, To(r, stage)
  PROVE  /\ req' \in [Requests -> ReqType]
         /\ req'[r].at = stage /\ req'[r].key = req[r].key /\ req'[r].made = req[r].made
         /\ req'[r].to = req[r].to /\ req'[r].fresh = req[r].fresh
         /\ \A q \in Requests \ {r} : req'[q] = req[q]
  BY DEF Typed, To, ReqType

LEMMA AnswerIs ==
  ASSUME Typed, NEW r \in Requests, Answer(r)
  PROVE  /\ req' \in [Requests -> ReqType]
         /\ req'[r].at = "idle"
         /\ \A q \in Requests \ {r} : req'[q] = req[q]
  BY IdleIs DEF Typed, Answer

LEMMA FilledIs ==
  ASSUME NEW f \in File, NEW r \in Requests, req[r].made \in Keys, req[r].fresh \in BOOLEAN
  PROVE  /\ Filled(f, r) \in File
         /\ Filled(f, r).of = f.of \cup {req[r].made}
         /\ Filled(f, r).whole <=> f.whole \/ req[r].fresh
<1> DEFINE w == f.whole \/ req[r].fresh
<1>1. Filled(f, r) = [of |-> f.of \cup {req[r].made}, whole |-> w]
  BY DEF Filled
<1>2. w \in BOOLEAN /\ (w <=> f.whole \/ req[r].fresh)
  BY Zenon
<1> HIDE DEF w
<1> QED  BY <1>1, <1>2 DEF File

LEMMA FaultTyped == faults \in 0..MaxFaults /\ faults > 0 /\ faults' = faults - 1
                      => faults' \in 0..MaxFaults
  BY AssetsAssumption

\* A step that changes of some requests the file they write into, and whether they have
\* written it from the start.
Redirects(r) ==
  \A q \in Requests \ {r} : /\ req'[q].at = req[q].at /\ req'[q].key = req[q].key
                            /\ req'[q].made = req[q].made

LEMMA DoingIs ==
  ASSUME NEW k, NEW r \in Requests
  PROVE  /\ r \in Writing(k) <=> req[r].at \in {"writing", "left"} /\ req[r].key = k
         /\ r \in Between(k) <=> req[r].at \in {"writing", "left", "written"} /\ req[r].key = k
         /\ r \in Writing(k)' <=> req'[r].at \in {"writing", "left"} /\ req'[r].key = k
         /\ r \in Between(k)' <=> req'[r].at \in {"writing", "left", "written"} /\ req'[r].key = k
  BY DEF Writing, Between, Doing, Name, Named

LEMMA OpenIs ==
  ASSUME Typed, NEW r \in Requests, Open(r)
  PROVE  LET k == req[r].key IN
         /\ req[r].at = "made" /\ k \in Keys
         /\ disk' = [disk EXCEPT ![k].partial = NewFile]
         /\ req' \in [Requests -> ReqType]
         /\ req'[r].at = "writing" /\ req'[r].key = k /\ req'[r].made = req[r].made
         /\ req'[r].to = "partial" /\ req'[r].fresh
         /\ Redirects(r)
         /\ \A q \in Requests \ {r} :
              /\ req'[q].to = req[q].to
              /\ q \notin Writing(k) \/ req[q].to # "partial" => req'[q] = req[q]
         /\ shared' = IF Between(k) = {} THEN shared ELSE shared \cup {k}
<1> DEFINE k == req[r].key
           mine == [req[r] EXCEPT !.at = "writing", !.to = "partial", !.fresh = TRUE]
           new(q) == IF q = r THEN mine
                     ELSE IF q \in Writing(k) /\ req[q].to = "partial"
                     THEN [req[q] EXCEPT !.fresh = FALSE]
                     ELSE req[q]
<1>1. req \in [Requests -> ReqType] /\ req[r].at = "made" /\ k \in Keys
  BY DEF Typed, Open, At
<1>2. /\ disk' = [disk EXCEPT ![k].partial = NewFile]
      /\ req' = [q \in Requests |-> new(q)]
      /\ shared' = IF Between(k) = {} THEN shared ELSE shared \cup {k}
  BY DEF Open, Name, Named
<1>3. /\ mine \in ReqType /\ mine.at = "writing" /\ mine.key = k /\ mine.made = req[r].made
      /\ mine.to = "partial" /\ mine.fresh
  BY <1>1 DEF ReqType, Stage, Place
<1> HIDE DEF mine
<1>4. ASSUME NEW q \in Requests \ {r}
      PROVE  /\ new(q) \in ReqType /\ new(q).at = req[q].at /\ new(q).key = req[q].key
             /\ new(q).made = req[q].made /\ new(q).to = req[q].to
             /\ q \notin Writing(k) \/ req[q].to # "partial" => new(q) = req[q]
  <2>1. CASE q \in Writing(k) /\ req[q].to = "partial"
    <3>1. new(q) = [req[q] EXCEPT !.fresh = FALSE]
      BY <2>1
    <3>2. req[q] \in ReqType
      BY <1>1
    <3> HIDE DEF new
    <3>3. /\ new(q) \in ReqType /\ new(q).at = req[q].at /\ new(q).key = req[q].key
          /\ new(q).made = req[q].made /\ new(q).to = req[q].to
      BY <3>1, <3>2 DEF ReqType
    <3> QED  BY <2>1, <3>3
  <2>2. CASE ~(q \in Writing(k) /\ req[q].to = "partial")
    <3>1. new(q) = req[q]
      BY <2>2
    <3> HIDE DEF new
    <3> QED  BY <1>1, <2>2, <3>1
  <2> QED  BY <2>1, <2>2
<1>5. new(r) = mine
  OBVIOUS
<1> HIDE DEF new
<1>6. req' \in [Requests -> ReqType] /\ \A q \in Requests : req'[q] = new(q)
  BY <1>2, <1>3, <1>4, <1>5
<1> QED  BY <1>1, <1>2, <1>3, <1>4, <1>5, <1>6 DEF Redirects

LEMMA RenameIs ==
  ASSUME Typed, NEW r \in Requests, Rename(r), disk[req[r].key].partial # NoFile
  PROVE  LET k == req[r].key IN
         /\ req[r].at = "written" /\ k \in Keys
         /\ disk' = [disk EXCEPT ![k] = [cache |-> disk[k].partial, partial |-> NoFile]]
         /\ req' \in [Requests -> ReqType]
         /\ req'[r].at = "renamed" /\ req'[r].key = k /\ req'[r].made = req[r].made
         /\ Redirects(r)
         /\ \A q \in Requests \ {r} :
              /\ req'[q].fresh = req[q].fresh
              /\ q \notin Writing(k) => req'[q] = req[q]
              /\ q \in Writing(k) => req'[q].to = IF req[q].to = "partial" THEN "cache" ELSE "gone"
<1> DEFINE k == req[r].key
           mine == [req[r] EXCEPT !.at = "renamed"]
           new(q) == IF q = r THEN mine
                     ELSE IF q \in Writing(k)
                     THEN [req[q] EXCEPT !.to = IF @ = "partial" THEN "cache" ELSE "gone"]
                     ELSE req[q]
<1>1. req \in [Requests -> ReqType] /\ req[r].at = "written" /\ k \in Keys
  BY DEF Typed, Rename, At
<1>2. /\ disk' = [disk EXCEPT ![k] = [cache |-> disk[k].partial, partial |-> NoFile]]
      /\ req' = [q \in Requests |-> new(q)]
  BY DEF Rename, Name, Named
<1>3. mine \in ReqType /\ mine.at = "renamed" /\ mine.key = k /\ mine.made = req[r].made
  BY <1>1 DEF ReqType, Stage
<1> HIDE DEF mine
<1>4. ASSUME NEW q \in Requests \ {r}
      PROVE  /\ new(q) \in ReqType /\ new(q).at = req[q].at /\ new(q).key = req[q].key
             /\ new(q).made = req[q].made /\ new(q).fresh = req[q].fresh
             /\ q \notin Writing(k) => new(q) = req[q]
             /\ q \in Writing(k) => new(q).to = IF req[q].to = "partial" THEN "cache" ELSE "gone"
  <2>1. CASE q \in Writing(k)
    <3> DEFINE to == IF req[q].to = "partial" THEN "cache" ELSE "gone"
    <3>1. new(q) = [req[q] EXCEPT !.to = to]
      BY <2>1
    <3>2. to \in Place
      BY DEF Place
    <3> HIDE DEF new
    <3> QED  BY <1>1, <2>1, <3>1, <3>2 DEF ReqType
  <2>2. CASE q \notin Writing(k)
    <3>1. new(q) = req[q]
      BY <2>2
    <3> HIDE DEF new
    <3> QED  BY <1>1, <2>2, <3>1
  <2> QED  BY <2>1, <2>2
<1>5. new(r) = mine
  OBVIOUS
<1> HIDE DEF new
<1>6. req' \in [Requests -> ReqType] /\ \A q \in Requests : req'[q] = new(q)
  BY <1>2, <1>3, <1>4, <1>5
<1> QED  BY <1>1, <1>2, <1>3, <1>4, <1>5, <1>6 DEF Redirects

LEMMA PurgeIs ==
  ASSUME Typed, NEW k \in Keys, Purge(k)
  PROVE  /\ disk' = [disk EXCEPT ![k].cache = NoFile]
         /\ req' \in [Requests -> ReqType]
         /\ \A q \in Requests :
              /\ req'[q].at = req[q].at /\ req'[q].key = req[q].key /\ req'[q].made = req[q].made
              /\ req'[q].fresh = req[q].fresh
              /\ ~(q \in Writing(k) /\ req[q].to = "cache") => req'[q] = req[q]
              /\ q \in Writing(k) /\ req[q].to = "cache" => req'[q].to = "gone"
<1> DEFINE new(q) == IF q \in Writing(k) /\ req[q].to = "cache"
                     THEN [req[q] EXCEPT !.to = "gone"] ELSE req[q]
<1>1. req \in [Requests -> ReqType]
  BY DEF Typed
<1>2. disk' = [disk EXCEPT ![k].cache = NoFile] /\ req' = [q \in Requests |-> new(q)]
  BY DEF Purge
<1>3. ASSUME NEW q \in Requests
      PROVE  /\ new(q) \in ReqType /\ new(q).at = req[q].at /\ new(q).key = req[q].key
             /\ new(q).made = req[q].made /\ new(q).fresh = req[q].fresh
             /\ ~(q \in Writing(k) /\ req[q].to = "cache") => new(q) = req[q]
             /\ q \in Writing(k) /\ req[q].to = "cache" => new(q).to = "gone"
  <2>1. CASE q \in Writing(k) /\ req[q].to = "cache"
    <3>1. new(q) = [req[q] EXCEPT !.to = "gone"]
      BY <2>1
    <3> HIDE DEF new
    <3> QED  BY <1>1, <2>1, <3>1 DEF ReqType, Place
  <2>2. CASE ~(q \in Writing(k) /\ req[q].to = "cache")
    <3>1. new(q) = req[q]
      BY <2>2
    <3> HIDE DEF new
    <3> QED  BY <1>1, <2>2, <3>1
  <2> QED  BY <2>1, <2>2
<1> HIDE DEF new
<1> QED  BY <1>2, <1>3

\* Where a write ends.
LEMMA WriteEndIs ==
  ASSUME Typed, NEW r \in Requests, WriteEnd(r), NEW k, k = req[r].key,
         req[r].to = "partial" => disk[k].partial # NoFile,
         req[r].to = "cache" => disk[k].cache # NoFile
  PROVE  /\ k \in Keys /\ req[r].made \in Keys
         /\ disk' \in [Keys -> DiskType] /\ \A o \in Keys \ {k} : disk'[o] = disk[o]
         /\ req[r].to # "partial" => disk'[k].partial = disk[k].partial
         /\ req[r].to # "cache" => disk'[k].cache = disk[k].cache
         /\ req[r].to = "partial" =>
              /\ disk[k].partial \in File /\ disk'[k].partial \in File
              /\ disk'[k].partial.of = disk[k].partial.of \cup {req[r].made}
              /\ disk'[k].partial.whole <=> disk[k].partial.whole \/ req[r].fresh
         /\ req[r].to = "cache" =>
              /\ disk[k].cache \in File /\ disk'[k].cache \in File
              /\ disk'[k].cache.of = disk[k].cache.of \cup {req[r].made}
              /\ disk'[k].cache.whole <=> disk[k].cache.whole \/ req[r].fresh
<1>1. /\ req \in [Requests -> ReqType] /\ disk \in [Keys -> DiskType]
      /\ k \in Keys /\ req[r].made \in Keys /\ req[r].fresh \in BOOLEAN
  BY DEF Typed, WriteEnd, Past, ReqType
<1>2. CASE req[r].to = "partial"
  <2>1. disk' = [disk EXCEPT ![k].partial = Filled(disk[k].partial, r)]
    BY <1>1, <1>2 DEF WriteEnd, Name, Named, DiskType
  <2>2. disk[k].partial \in File
    BY <1>1, <1>2 DEF DiskType
  <2>3. /\ Filled(disk[k].partial, r) \in File
        /\ Filled(disk[k].partial, r).of = disk[k].partial.of \cup {req[r].made}
        /\ Filled(disk[k].partial, r).whole <=> disk[k].partial.whole \/ req[r].fresh
    BY <1>1, <2>2, FilledIs
  <2>4. PICK f \in File : f = Filled(disk[k].partial, r)
    BY <2>3
  <2>5. disk' = [disk EXCEPT ![k].partial = f]
    BY <2>1, <2>4
  <2>6. /\ disk' \in [Keys -> DiskType] /\ \A o \in Keys \ {k} : disk'[o] = disk[o]
        /\ disk'[k].partial = f /\ disk'[k].cache = disk[k].cache
    BY <1>1, <2>5 DEF DiskType
  <2> QED  BY <1>1, <1>2, <2>2, <2>3, <2>4, <2>6
<1>3. CASE req[r].to = "cache"
  <2>1. disk' = [disk EXCEPT ![k].cache = Filled(disk[k].cache, r)]
    BY <1>1, <1>3 DEF WriteEnd, Name, Named, DiskType
  <2>2. disk[k].cache \in File
    BY <1>1, <1>3 DEF DiskType
  <2>3. /\ Filled(disk[k].cache, r) \in File
        /\ Filled(disk[k].cache, r).of = disk[k].cache.of \cup {req[r].made}
        /\ Filled(disk[k].cache, r).whole <=> disk[k].cache.whole \/ req[r].fresh
    BY <1>1, <2>2, FilledIs
  <2>4. PICK f \in File : f = Filled(disk[k].cache, r)
    BY <2>3
  <2>5. disk' = [disk EXCEPT ![k].cache = f]
    BY <2>1, <2>4
  <2>6. /\ disk' \in [Keys -> DiskType] /\ \A o \in Keys \ {k} : disk'[o] = disk[o]
        /\ disk'[k].cache = f /\ disk'[k].partial = disk[k].partial
    BY <1>1, <2>5 DEF DiskType
  <2> QED  BY <1>1, <1>3, <2>2, <2>3, <2>4, <2>6
<1>4. CASE req[r].to \notin {"partial", "cache"}
  BY <1>1, <1>4 DEF WriteEnd
<1> QED  BY <1>2, <1>3, <1>4

\* What a writer writes into is there; so what it has written is there as well.
Held ==
  \A r \in Requests : req[r].at \in {"writing", "left"} =>
    /\ req[r].to = "partial" => disk[req[r].key].partial # NoFile
    /\ req[r].to = "cache" => disk[req[r].key].cache # NoFile

\* The stages through which a request goes without touching the cache directory.
Light(r) ==
  \/ Ask(r) \/ Check(r) \/ ReadSource(r) \/ Convert(r) \/ FfmpegDies(r)
  \/ RecordFailed(r) \/ RecordOk(r)

LEMMA LightIs ==
  ASSUME Typed, NEW r \in Requests, Light(r)
  PROVE  /\ req' \in [Requests -> ReqType] /\ \A q \in Requests \ {r} : req'[q] = req[q]
         /\ req[r].at \notin {"writing", "left", "written"}
         /\ req'[r].at \notin {"writing", "left", "written"}
         /\ req'[r].at # "idle" => req'[r].key \in Keys
         /\ req'[r].at \in Past => /\ req'[r].made \in Keys /\ req'[r].key = req[r].key
                                   /\ req[r].at \in {"miss", "read"}
                                   /\ req[r].at = "read" => req'[r].made = req[r].made
         /\ ledger' \in [Keys -> {"none", "ok", "failed"}] /\ faults' \in 0..MaxFaults
         /\ spoilt \subseteq spoilt' /\ spoilt' \subseteq Keys
         /\ UNCHANGED <<src, row, recipe, disk, shared, cut>>
<1>1. /\ req \in [Requests -> ReqType] /\ ledger \in [Keys -> {"none", "ok", "failed"}]
      /\ src \in SrcType /\ row \in SrcType /\ recipe \in Recipes /\ spoilt \subseteq Keys
      /\ faults \in 0..MaxFaults
      /\ req[r].at # "idle" => req[r].key \in Keys
      /\ req[r].at \in Past => req[r].made \in Keys
  BY DEF Typed
<1> USE DEF At, Outer, history
<1>2. CASE Ask(r)
  <2> DEFINE o == [Idle EXCEPT !.at = "asked", !.key = <<row.bytes, recipe>>]
  <2>1. <<row.bytes, recipe>> \in Keys
    BY <1>1 DEF Keys, SrcType
  <2>2. o \in ReqType /\ o.at = "asked" /\ o.key \in Keys
    BY <2>1 DEF Idle, ReqType, Stage, Place
  <2>3. req' = [req EXCEPT ![r] = o] /\ req[r].at = "idle"
          /\ UNCHANGED <<src, row, recipe, faults, ledger, disk, spoilt, shared, cut>>
    BY <1>2 DEF Ask
  <2> HIDE DEF o
  <2> QED  BY <1>1, <2>2, <2>3 DEF Past
<1>3. CASE Check(r)
  <2>1. (To(r, "miss") \/ Answer(r)) /\ req[r].at = "asked"
          /\ UNCHANGED <<src, row, recipe, faults, ledger, disk, spoilt, shared, cut>>
    BY <1>3, Zenon DEF Check
  <2>2. CASE To(r, "miss")
    BY <1>1, <2>1, <2>2, ToIs DEF Past, Stage
  <2>3. CASE Answer(r)
    BY <1>1, <2>1, <2>3, AnswerIs DEF Past
  <2> QED  BY <2>1, <2>2, <2>3
<1>4. CASE ReadSource(r)
  <2> DEFINE m == <<src.bytes, req[r].key[2]>>
  <2>1. req[r].at = "miss" /\ req' = [req EXCEPT ![r].at = "read", ![r].made = m]
          /\ UNCHANGED <<src, row, recipe, faults, ledger, disk, shared, cut>>
    BY <1>4 DEF ReadSource
  <2>2. req[r].key \in Keys
    BY <1>1, <2>1
  <2>3. m \in Keys
    BY <1>1, <2>2 DEF Keys, SrcType
  <2>4. spoilt \subseteq spoilt' /\ spoilt' \subseteq Keys
    BY <1>1, <1>4, <2>2 DEF ReadSource, Name, Named
  <2> HIDE DEF m
  <2> QED  BY <1>1, <2>1, <2>2, <2>3, <2>4, ZenonT(60) DEF ReqType, Stage, Past
<1>5. CASE Convert(r)
  <2>1. (To(r, "made") \/ To(r, "rejected") \/ Answer(r)) /\ req[r].at = "read"
          /\ UNCHANGED <<src, row, recipe, faults, ledger, disk, spoilt, shared, cut>>
    BY <1>5, Zenon DEF Convert
  <2>2. ASSUME NEW s \in {"made", "rejected"}, To(r, s)
        PROVE  /\ req' \in [Requests -> ReqType] /\ \A q \in Requests \ {r} : req'[q] = req[q]
               /\ req'[r].at = s /\ req'[r].key = req[r].key /\ req'[r].made = req[r].made
    BY <2>2, ToIs DEF Stage
  <2>3. CASE Answer(r)
    BY <1>1, <2>1, <2>3, AnswerIs DEF Past
  <2> QED  BY <1>1, <2>1, <2>2, <2>3 DEF Past
<1>6. CASE FfmpegDies(r)
  <2>1. To(r, "rejected") /\ req[r].at = "read" /\ spoilt' = spoilt \cup {req[r].key}
          /\ UNCHANGED <<src, row, recipe, ledger, disk, shared, cut>>
    BY <1>6 DEF FfmpegDies, Name, Named
  <2>2. faults' \in 0..MaxFaults
    BY <1>1, <1>6, FaultTyped DEF FfmpegDies
  <2>3. /\ req' \in [Requests -> ReqType] /\ \A q \in Requests \ {r} : req'[q] = req[q]
        /\ req'[r].at = "rejected" /\ req'[r].key = req[r].key /\ req'[r].made = req[r].made
    BY <2>1, ToIs DEF Stage
  <2> QED  BY <1>1, <2>1, <2>2, <2>3 DEF Past
<1>7. CASE RecordFailed(r) \/ RecordOk(r)
  <2>1. Answer(r) /\ req[r].at \in {"rejected", "renamed"}
          /\ ledger' \in [Keys -> {"none", "ok", "failed"}]
          /\ UNCHANGED <<src, row, recipe, faults, disk, spoilt, shared, cut>>
    BY <1>1, <1>7 DEF RecordFailed, RecordOk
  <2> QED  BY <1>1, <2>1, AnswerIs DEF Past
<1> QED  BY <1>2, <1>3, <1>4, <1>5, <1>6, <1>7 DEF Light

\* What happens to the file, its row and the configuration.
LEMMA AroundIs ==
  ASSUME Typed, Replace \/ Scan \/ Reload
  PROVE  /\ UNCHANGED <<ledger, disk, req, spoilt, shared, cut>>
         /\ src' \in SrcType /\ row' \in SrcType /\ recipe' \in Recipes /\ faults' \in 0..MaxFaults
<1>1. UNCHANGED <<ledger, disk, req, spoilt, shared, cut>>
  BY DEF Replace, Scan, Reload, Inner, history
<1>2. faults' \in 0..MaxFaults
  BY FaultTyped DEF Replace, Scan, Reload, Fault, Typed
<1>3. src' \in SrcType /\ row' \in SrcType /\ recipe' \in Recipes
  BY DEF Replace, Scan, Reload, Typed, SrcType
<1> QED  BY <1>1, <1>2, <1>3

LEMMA NextIs ==
  AssetsNext <=>
    \/ \E r \in Requests : \/ Light(r) \/ Open(r) \/ WriteEnd(r) \/ Rename(r)
                           \/ WriteFails(r) \/ Leave(r)
    \/ Replace \/ Scan \/ Reload \/ Crash
    \/ \E k \in Keys : Purge(k)
  BY DEF AssetsNext, Handle, Light

LEMMA AssetsTyped == Typed /\ Held /\ [AssetsNext]_assetVars => Typed' /\ Held'
<1> SUFFICES ASSUME Typed, Held, [AssetsNext]_assetVars PROVE Typed' /\ Held'
  OBVIOUS
<1>1. /\ src \in SrcType /\ row \in SrcType /\ recipe \in Recipes
      /\ ledger \in [Keys -> {"none", "ok", "failed"}]
      /\ disk \in [Keys -> DiskType] /\ req \in [Requests -> ReqType]
      /\ \A r \in Requests : /\ req[r].at # "idle" => req[r].key \in Keys
                             /\ req[r].at \in Past => req[r].made \in Keys
      /\ faults \in 0..MaxFaults
      /\ spoilt \subseteq Keys /\ shared \subseteq Keys /\ cut \subseteq shared
  BY DEF Typed
<1> USE DEF At, Outer, history
<1>2. ASSUME NEW r \in Requests, Light(r)  PROVE Typed' /\ Held'
  <2>1. /\ req' \in [Requests -> ReqType] /\ \A q \in Requests \ {r} : req'[q] = req[q]
        /\ req'[r].at \notin {"writing", "left", "written"}
        /\ req'[r].at # "idle" => req'[r].key \in Keys
        /\ req'[r].at \in Past => req'[r].made \in Keys
        /\ ledger' \in [Keys -> {"none", "ok", "failed"}] /\ faults' \in 0..MaxFaults
        /\ spoilt' \subseteq Keys
        /\ UNCHANGED <<src, row, recipe, disk, shared, cut>>
    BY <1>2, LightIs
  <2> QED  BY <1>1, <2>1 DEF Typed, Held
<1>3. ASSUME NEW r \in Requests, Open(r)  PROVE Typed' /\ Held'
  <2> DEFINE k == req[r].key
  <2>1. /\ k \in Keys /\ req[r].at = "made"
        /\ disk' = [disk EXCEPT ![k].partial = NewFile]
        /\ req' \in [Requests -> ReqType]
        /\ req'[r].at = "writing" /\ req'[r].key = k /\ req'[r].made = req[r].made
        /\ req'[r].to = "partial" /\ Redirects(r)
        /\ \A q \in Requests \ {r} : req'[q].to = req[q].to
        /\ shared' = IF Between(k) = {} THEN shared ELSE shared \cup {k}
    BY <1>3, OpenIs
  <2>2. UNCHANGED <<src, row, recipe, faults, ledger, spoilt, cut>>
    BY <1>3 DEF Open
  <2>3. /\ disk' \in [Keys -> DiskType] /\ disk'[k].partial = NewFile
        /\ \A o \in Keys : disk'[o].cache = disk[o].cache
        /\ \A o \in Keys : disk[o].partial # NoFile => disk'[o].partial # NoFile
    BY <1>1, <2>1, IdleIs DEF DiskType
  <2>4. \A q \in Requests : /\ req'[q].at # "idle" => req'[q].key \in Keys
                            /\ req'[q].at \in Past => req'[q].made \in Keys
    BY <1>1, <2>1 DEF Redirects, Past
  <2>5. Held'
    BY <1>1, <2>1, <2>3, IdleIs DEF Held, Redirects
  <2> QED  BY <1>1, <2>1, <2>2, <2>3, <2>4, <2>5 DEF Typed
<1>4. ASSUME NEW r \in Requests, WriteEnd(r)  PROVE Typed' /\ Held'
  <2>1. req[r].at \in {"writing", "left"} /\ req[r].key \in Keys
          /\ UNCHANGED <<src, row, recipe, faults, ledger, spoilt, shared, cut>>
    BY <1>1, <1>4 DEF WriteEnd
  <2>2. /\ disk' \in [Keys -> DiskType] /\ \A o \in Keys \ {req[r].key} : disk'[o] = disk[o]
        /\ disk[req[r].key].partial # NoFile => disk'[req[r].key].partial # NoFile
        /\ disk[req[r].key].cache # NoFile => disk'[req[r].key].cache # NoFile
    BY <1>4, <2>1, WriteEndIs, AssetsAssumption DEF Held, File
  <2>3. /\ req' \in [Requests -> ReqType] /\ \A q \in Requests \ {r} : req'[q] = req[q]
        /\ \/ req'[r].at = "idle"
           \/ req'[r].at = "written" /\ req'[r].key = req[r].key /\ req'[r].made = req[r].made
    BY <1>4, ToIs, AnswerIs DEF WriteEnd, Stage
  <2>4. \A q \in Requests : /\ req'[q].at # "idle" => req'[q].key \in Keys
                            /\ req'[q].at \in Past => req'[q].made \in Keys
    BY <1>1, <2>1, <2>3 DEF Past
  <2>5. Held'
    <3>1. ASSUME NEW q \in Requests, req'[q].at \in {"writing", "left"}
          PROVE  q # r /\ req'[q] = req[q] /\ req[q].key \in Keys
      BY <1>1, <2>3, <3>1
    <3>2. \A o \in Keys : /\ disk[o].partial # NoFile => disk'[o].partial # NoFile
                          /\ disk[o].cache # NoFile => disk'[o].cache # NoFile
      BY <2>1, <2>2
    <3> QED  BY <3>1, <3>2 DEF Held
  <2> QED  BY <1>1, <2>1, <2>2, <2>3, <2>4, <2>5 DEF Typed
<1>5. ASSUME NEW r \in Requests, Rename(r)  PROVE Typed' /\ Held'
  <2> DEFINE k == req[r].key
  <2>0. UNCHANGED <<src, row, recipe, faults, ledger, spoilt, shared, cut>> /\ req[r].at = "written"
    BY <1>5 DEF Rename
  <2>1. CASE disk[k].partial = NoFile
    <3>1. Answer(r) /\ UNCHANGED disk
      BY <1>5, <2>1 DEF Rename, Name, Named
    <3> QED  BY <1>1, <2>0, <3>1, AnswerIs DEF Typed, Held, Past
  <2>2. CASE disk[k].partial # NoFile
    <3>1. /\ k \in Keys
          /\ disk' = [disk EXCEPT ![k] = [cache |-> disk[k].partial, partial |-> NoFile]]
          /\ req' \in [Requests -> ReqType]
          /\ req'[r].at = "renamed" /\ req'[r].key = k /\ req'[r].made = req[r].made
          /\ Redirects(r)
          /\ \A q \in Requests \ {r} :
               /\ q \notin Writing(k) => req'[q] = req[q]
               /\ q \in Writing(k) => req'[q].to = IF req[q].to = "partial" THEN "cache" ELSE "gone"
      BY <1>5, <2>2, RenameIs
    <3>2. /\ disk' \in [Keys -> DiskType] /\ disk'[k].cache # NoFile
          /\ \A o \in Keys \ {k} : disk'[o] = disk[o]
      BY <1>1, <2>2, <3>1 DEF DiskType
    <3>3. \A q \in Requests : /\ req'[q].at # "idle" => req'[q].key \in Keys
                              /\ req'[q].at \in Past => req'[q].made \in Keys
      BY <1>1, <2>0, <3>1 DEF Redirects, Past
    <3>4. ASSUME NEW q \in Requests, req'[q].at \in {"writing", "left"}
          PROVE  /\ req'[q].to = "partial" => disk'[req'[q].key].partial # NoFile
                 /\ req'[q].to = "cache" => disk'[req'[q].key].cache # NoFile
      <4>1. q # r /\ req[q].at \in {"writing", "left"} /\ req'[q].key = req[q].key /\ req[q].key \in Keys
        BY <1>1, <3>1, <3>4 DEF Redirects
      <4>2. CASE q \in Writing(k)
        BY <3>1, <3>2, <4>1, <4>2, DoingIs
      <4>3. CASE q \notin Writing(k)
        BY <3>1, <3>2, <4>1, <4>3, DoingIs DEF Held
      <4> QED  BY <4>2, <4>3
    <3> QED  BY <1>1, <2>0, <3>1, <3>2, <3>3, <3>4 DEF Typed, Held
  <2> QED  BY <2>1, <2>2
<1>6. ASSUME NEW r \in Requests, WriteFails(r)  PROVE Typed' /\ Held'
  <2>1. /\ req' \in [Requests -> ReqType] /\ req'[r].at = "idle"
        /\ \A q \in Requests \ {r} : req'[q] = req[q]
    BY <1>6, AnswerIs DEF WriteFails
  <2>2. faults' \in 0..MaxFaults
    BY <1>1, <1>6, FaultTyped DEF WriteFails
  <2>3. UNCHANGED <<src, row, recipe, ledger, disk, spoilt, shared>> /\ cut' \subseteq shared
    BY <1>1, <1>6 DEF WriteFails
  <2> QED  BY <1>1, <2>1, <2>2, <2>3 DEF Typed, Held, Past
<1>7. ASSUME NEW r \in Requests, Leave(r)  PROVE Typed' /\ Held'
  <2>1. UNCHANGED <<src, row, recipe, faults, ledger, disk, spoilt, shared, cut>>
    BY <1>7 DEF Leave
  <2>2. CASE req[r].at = "writing"
    <3>1. To(r, "left")
      BY <1>7, <2>2 DEF Leave
    <3>2. /\ req' \in [Requests -> ReqType]
          /\ req'[r].at = "left" /\ req'[r].key = req[r].key /\ req'[r].made = req[r].made
          /\ req'[r].to = req[r].to
          /\ \A q \in Requests \ {r} : req'[q] = req[q]
      BY <3>1, ToIs DEF Stage
    <3>3. \A q \in Requests : /\ req'[q].at # "idle" => req'[q].key \in Keys
                              /\ req'[q].at \in Past => req'[q].made \in Keys
      BY <1>1, <2>2, <3>2 DEF Past
    <3>4. Held'
      BY <2>1, <2>2, <3>2 DEF Held
    <3> QED  BY <1>1, <2>1, <3>2, <3>3, <3>4 DEF Typed
  <2>3. CASE req[r].at # "writing"
    <3>1. Answer(r)
      BY <1>7, <2>3 DEF Leave
    <3> QED  BY <1>1, <2>1, <3>1, AnswerIs DEF Typed, Held, Past
  <2> QED  BY <2>2, <2>3
<1>8. ASSUME Replace \/ Scan \/ Reload  PROVE Typed' /\ Held'
  BY <1>1, <1>8, AroundIs DEF Typed, Held
<1>9. CASE Crash
  <2>1. UNCHANGED <<src, row, recipe, ledger, disk, spoilt, shared>> /\ cut' \subseteq shared
          /\ req' = [r \in Requests |-> Idle]
    BY <1>1, <1>9 DEF Crash
  <2>2. faults' \in 0..MaxFaults
    BY <1>1, <1>9, FaultTyped DEF Crash, Fault
  <2> QED  BY <1>1, <2>1, <2>2, IdleIs DEF Typed, Held, Past
<1>10. ASSUME NEW k \in Keys, Purge(k)  PROVE Typed' /\ Held'
  <2>1. /\ disk' = [disk EXCEPT ![k].cache = NoFile]
        /\ req' \in [Requests -> ReqType]
        /\ \A q \in Requests :
             /\ req'[q].at = req[q].at /\ req'[q].key = req[q].key /\ req'[q].made = req[q].made
             /\ ~(q \in Writing(k) /\ req[q].to = "cache") => req'[q] = req[q]
             /\ q \in Writing(k) /\ req[q].to = "cache" => req'[q].to = "gone"
    BY <1>10, PurgeIs
  <2>2. UNCHANGED <<src, row, recipe, ledger, spoilt, shared, cut>>
    BY <1>10 DEF Purge
  <2>3. faults' \in 0..MaxFaults
    BY <1>1, <1>10, FaultTyped DEF Purge, Fault
  <2>4. /\ disk' \in [Keys -> DiskType] /\ \A o \in Keys : disk'[o].partial = disk[o].partial
        /\ \A o \in Keys \ {k} : disk'[o] = disk[o]
    BY <1>1, <2>1 DEF DiskType
  <2>5. ASSUME NEW q \in Requests, req'[q].at \in {"writing", "left"}
        PROVE  /\ req'[q].to = "partial" => disk'[req'[q].key].partial # NoFile
               /\ req'[q].to = "cache" => disk'[req'[q].key].cache # NoFile
    <3>1. req[q].at \in {"writing", "left"} /\ req'[q].key = req[q].key /\ req[q].key \in Keys
      BY <1>1, <2>1, <2>5
    <3>2. CASE q \in Writing(k) /\ req[q].to = "cache"
      BY <2>1, <3>2
    <3>3. CASE ~(q \in Writing(k) /\ req[q].to = "cache")
      <4>1. req'[q] = req[q]
        BY <2>1, <3>3
      <4>2. req[q].to = "cache" => req[q].key # k
        BY <3>1, <3>3, DoingIs
      <4> QED  BY <2>4, <3>1, <4>1, <4>2 DEF Held
    <3> QED  BY <3>2, <3>3
  <2>6. Held'
    BY <2>5 DEF Held
  <2> QED  BY <1>1, <2>1, <2>2, <2>3, <2>4, <2>6 DEF Typed
<1>11. CASE UNCHANGED assetVars
  BY <1>1, <1>11 DEF assetVars, Typed, Held
<1> QED  BY <1>2, <1>3, <1>4, <1>5, <1>6, <1>7, <1>8, <1>9, <1>10, <1>11, NextIs

LEMMA AssetsStart == AssetsInit => Typed /\ Held
<1> SUFFICES ASSUME AssetsInit PROVE Typed /\ Held
  OBVIOUS
<1>1. src \in SrcType /\ row \in SrcType /\ faults \in 0..MaxFaults
  BY AssetsAssumption DEF AssetsInit, SrcType
<1>2. \A r \in Requests : req[r].at = "idle"
  BY IdleIs DEF AssetsInit
<1>3. disk \in [Keys -> DiskType] /\ req \in [Requests -> ReqType]
  BY IdleIs DEF AssetsInit, DiskType
<1> QED  BY <1>1, <1>2, <1>3 DEF AssetsInit, Typed, Held, Past

LEMMA TypedKept == AssetsSpec => [](Typed /\ Held)
  BY AssetsStart, AssetsTyped, PTL DEF AssetsSpec

\* The ledger, the cache directory and the requests are well typed, however requests for
\* one key cross each other and wherever one of them ends: a request that converts has
\* the key of what it was asked for and of what it makes.
THEOREM AssetsTypeCorrect == AssetsSpec => []AssetsTypeOK
  BY TypedKept, TypedIs, PTL

-----------------------------------------------------------------------------
(* The ledger's failures.  The inductive invariant says of a request that  *)
(* has read the bytes its key is made of what it knows of them.            *)

Knows ==
  \A r \in Requests : req[r].at \in Past /\ req[r].key \notin spoilt =>
    /\ req[r].made = req[r].key
    /\ req[r].at = "rejected" => req[r].key \notin Good

\* What a request knows that goes on, or begins to.
LEMMA LightKnows ==
  ASSUME Typed, Knows, NEW r \in Requests, Light(r),
         req'[r].at \in Past, req'[r].key \notin spoilt'
  PROVE  req'[r].made = req'[r].key /\ (req'[r].at = "rejected" => req'[r].key \notin Good)
<1>1. req \in [Requests -> ReqType] /\ (req[r].at # "idle" => req[r].key \in Keys)
  BY DEF Typed
<1>2. req'[r].key = req[r].key /\ spoilt \subseteq spoilt'
  BY LightIs
<1> USE DEF At, Outer, history
<1>3. CASE ReadSource(r)
  <2>1. /\ req[r].at = "miss"
        /\ req' = [req EXCEPT ![r].at = "read", ![r].made = <<src.bytes, req[r].key[2]>>]
        /\ spoilt' = spoilt \cup (IF src.bytes = req[r].key[1] THEN {} ELSE {req[r].key})
    BY <1>3 DEF ReadSource, Name, Named
  <2>2. req'[r].at = "read" /\ req'[r].made = <<src.bytes, req[r].key[2]>> /\ req[r].key \in Keys
    BY <1>1, <2>1 DEF ReqType
  <2>3. src.bytes = req[r].key[1]
    BY <1>2, <2>1
  <2> QED  BY <1>2, <2>2, <2>3 DEF Keys
<1>4. CASE Convert(r)
  <2>1. req[r].at = "read" /\ UNCHANGED spoilt
    BY <1>4 DEF Convert
  <2>2. req[r].made = req[r].key
    BY <1>2, <2>1 DEF Knows, Past
  <2>3. ~Answer(r)
    BY AnswerIs DEF Past
  <2>4. PICK reply \in Replies(req[r].made) :
          CASE reply = 200 -> To(r, "made")
            [] reply \in {400, 413, 422} -> To(r, "rejected")
            [] OTHER -> Answer(r)
    BY <1>4, <2>3 DEF Convert
  <2>5. CASE reply = 200
    <3>1. To(r, "made")
      BY <2>4, <2>5
    <3> QED  BY <2>2, <3>1, ToIs DEF Stage
  <2>6. CASE reply \in {400, 413, 422}
    <3>1. To(r, "rejected")
      BY <2>4, <2>6
    <3>2. req[r].made \notin Good
      BY <2>6 DEF Replies
    <3> QED  BY <2>2, <3>1, <3>2, ToIs DEF Stage
  <2>7. CASE reply \notin {200, 400, 413, 422}
    BY <2>3, <2>4, <2>7
  <2> QED  BY <2>5, <2>6, <2>7
<1>5. CASE FfmpegDies(r)
  BY <1>2, <1>5 DEF FfmpegDies, Name, Named
<1>6. CASE Ask(r)
  <2>1. req' = [req EXCEPT ![r] = [Idle EXCEPT !.at = "asked", !.key = <<row.bytes, recipe>>]]
    BY <1>6 DEF Ask
  <2>2. req'[r].at = "asked"
    BY <1>1, <2>1 DEF Idle
  <2> QED  BY <2>2 DEF Past
<1>7. CASE Check(r)
  <2>1. To(r, "miss") \/ Answer(r)
    BY <1>7, Zenon DEF Check
  <2> QED  BY <2>1, ToIs, AnswerIs DEF Past, Stage
<1>8. CASE RecordFailed(r) \/ RecordOk(r)
  BY <1>8, AnswerIs DEF RecordFailed, RecordOk, Past
<1> QED  BY <1>3, <1>4, <1>5, <1>6, <1>7, <1>8 DEF Light

\* The steps that leave it at what is known.
LEMMA KnowsKept ==
  ASSUME Typed, Knows, spoilt \subseteq spoilt',
         \A q \in Requests : req'[q].at \in Past =>
           /\ req[q].at \in Past /\ req'[q].key = req[q].key /\ req'[q].made = req[q].made
           /\ req'[q].at = "rejected" => req[q].at = "rejected"
  PROVE  Knows'
  BY DEF Knows

LEMMA KnowsStep == Typed /\ Held /\ Knows /\ [AssetsNext]_assetVars => Knows'
<1> SUFFICES ASSUME Typed, Held, Knows, [AssetsNext]_assetVars PROVE Knows'
  OBVIOUS
<1>1. req \in [Requests -> ReqType]
  BY DEF Typed
<1>2. ASSUME NEW r \in Requests, Light(r)  PROVE Knows'
  <2>1. spoilt \subseteq spoilt' /\ \A q \in Requests \ {r} : req'[q] = req[q]
    BY <1>2, LightIs
  <2> QED  BY <1>2, <2>1, LightKnows DEF Knows
<1>3. ASSUME NEW r \in Requests, Open(r)  PROVE Knows'
  <2>1. UNCHANGED spoilt
    BY <1>3 DEF Open
  <2>2. /\ req[r].at = "made" /\ req'[r].at = "writing" /\ req'[r].key = req[r].key
        /\ req'[r].made = req[r].made /\ Redirects(r)
    BY <1>3, OpenIs
  <2> QED  BY <2>1, <2>2, KnowsKept DEF Redirects, Past
<1>4. ASSUME NEW r \in Requests, WriteEnd(r)  PROVE Knows'
  <2>1. /\ \A q \in Requests \ {r} : req'[q] = req[q]
        /\ req[r].at \in {"writing", "left"}
        /\ \/ req'[r].at = "idle"
           \/ req'[r].at = "written" /\ req'[r].key = req[r].key /\ req'[r].made = req[r].made
    BY <1>4, ToIs, AnswerIs DEF WriteEnd, Stage
  <2> QED  BY <1>4, <2>1, KnowsKept DEF WriteEnd, Past, history
<1>5. ASSUME NEW r \in Requests, Rename(r)  PROVE Knows'
  <2>1. CASE disk[req[r].key].partial = NoFile
    <3>1. Answer(r) /\ UNCHANGED spoilt
      BY <1>5, <2>1 DEF Rename, Name, Named, history
    <3> QED  BY <3>1, AnswerIs, KnowsKept DEF Past
  <2>2. CASE disk[req[r].key].partial # NoFile
    <3>1. /\ req[r].at = "written" /\ UNCHANGED spoilt /\ Redirects(r)
          /\ req'[r].at = "renamed" /\ req'[r].key = req[r].key /\ req'[r].made = req[r].made
      BY <1>5, <2>2, RenameIs DEF Rename, history
    <3> QED  BY <3>1, KnowsKept DEF Redirects, Past
  <2> QED  BY <2>1, <2>2
<1>6. ASSUME NEW r \in Requests, WriteFails(r)  PROVE Knows'
  BY <1>6, AnswerIs, KnowsKept DEF WriteFails, Past
<1>7. ASSUME NEW r \in Requests, Leave(r)  PROVE Knows'
  <2>1. UNCHANGED spoilt /\ (Answer(r) \/ (req[r].at = "writing" /\ To(r, "left")))
    BY <1>7, Zenon DEF Leave, At, history
  <2>2. CASE Answer(r)
    BY <2>1, <2>2, AnswerIs, KnowsKept DEF Past
  <2>3. CASE req[r].at = "writing" /\ To(r, "left")
    <3>1. /\ req'[r].at = "left" /\ req'[r].key = req[r].key /\ req'[r].made = req[r].made
          /\ \A q \in Requests \ {r} : req'[q] = req[q]
      BY <2>3, ToIs DEF Stage
    <3> QED  BY <2>1, <2>3, <3>1, KnowsKept DEF Past
  <2> QED  BY <2>1, <2>2, <2>3
<1>8. ASSUME Replace \/ Scan \/ Reload  PROVE Knows'
  BY <1>8, AroundIs, KnowsKept
<1>9. CASE Crash
  <2>1. UNCHANGED spoilt /\ \A q \in Requests : req'[q].at = "idle"
    BY <1>9, IdleIs DEF Crash
  <2> QED  BY <2>1, KnowsKept DEF Past
<1>10. ASSUME NEW k \in Keys, Purge(k)  PROVE Knows'
  <2>1. UNCHANGED spoilt
    BY <1>10 DEF Purge, history
  <2>2. \A q \in Requests :
          req'[q].at = req[q].at /\ req'[q].key = req[q].key /\ req'[q].made = req[q].made
    BY <1>10, PurgeIs
  <2> QED  BY <2>1, <2>2, KnowsKept
<1>11. CASE UNCHANGED assetVars
  BY <1>11 DEF assetVars, Knows, history
<1> QED  BY <1>2, <1>3, <1>4, <1>5, <1>6, <1>7, <1>8, <1>9, <1>10, <1>11, NextIs

LEMMA FailedStep ==
  Typed /\ Knows /\ FailedForGood /\ [AssetsNext]_assetVars => FailedForGood'
<1> SUFFICES ASSUME Typed, Knows, FailedForGood, [AssetsNext]_assetVars PROVE FailedForGood'
  OBVIOUS
<1>1. ledger \in [Keys -> {"none", "ok", "failed"}]
  BY DEF Typed
<1>2. ASSUME spoilt \subseteq spoilt',
             \A k \in Keys : ledger'[k] = "failed" => \/ ledger[k] = "failed"
                                                      \/ k \in spoilt \/ k \notin Good
      PROVE  FailedForGood'
  BY <1>2 DEF FailedForGood
<1>3. ASSUME UNCHANGED ledger, spoilt \subseteq spoilt'  PROVE FailedForGood'
  BY <1>2, <1>3
<1>4. ASSUME NEW r \in Requests, RecordFailed(r)  PROVE FailedForGood'
  <2>1. ledger' = [ledger EXCEPT ![req[r].key] = "failed"] /\ UNCHANGED spoilt /\ req[r].at = "rejected"
    BY <1>4 DEF RecordFailed, Name, Named, history, At
  <2>2. req[r].key \in spoilt \/ req[r].key \notin Good
    BY <2>1 DEF Knows, Past
  <2> QED  BY <1>1, <1>2, <2>1, <2>2
<1>5. ASSUME NEW r \in Requests, RecordOk(r)  PROVE FailedForGood'
  <2>1. ledger' = [ledger EXCEPT ![req[r].key] = "ok"] /\ UNCHANGED spoilt
    BY <1>5 DEF RecordOk, Name, Named, history
  <2> QED  BY <1>1, <1>2, <2>1
<1>6. ASSUME NEW r \in Requests,
             \/ Ask(r) \/ Check(r) \/ Convert(r) \/ ReadSource(r) \/ FfmpegDies(r) \/ Open(r)
             \/ WriteEnd(r) \/ Rename(r) \/ WriteFails(r) \/ Leave(r)
      PROVE  UNCHANGED ledger /\ spoilt \subseteq spoilt'
  BY <1>6 DEF Ask, Check, Convert, ReadSource, FfmpegDies, Open, WriteEnd, Rename, WriteFails,
     Leave, history
<1>7. ASSUME \/ Replace \/ Scan \/ Reload \/ Crash \/ \E k \in Keys : Purge(k)
             \/ UNCHANGED assetVars
      PROVE  UNCHANGED ledger /\ spoilt \subseteq spoilt'
  BY <1>7 DEF Replace, Scan, Reload, Crash, Purge, Inner, history, assetVars
<1> QED  BY <1>3, <1>4, <1>5, <1>6, <1>7 DEF AssetsNext, Handle

LEMMA KnowsAtAll == AssetsSpec => []Knows
<1>1. AssetsInit => Knows
  BY IdleIs DEF AssetsInit, Knows, Past
<1> QED  BY <1>1, KnowsStep, TypedKept, PTL DEF AssetsSpec

\* Whatever the sidecar answers, and whether it can be reached at all, the ledger never
\* gives up for good on a source that ffmpeg can convert, unless other bytes were read
\* than those of the key or ffmpeg was killed over them.
THEOREM NeverGivenUp == AssetsSpec => []FailedForGood
<1>1. AssetsInit => FailedForGood
  BY DEF AssetsInit, FailedForGood
<1> QED  BY <1>1, FailedStep, KnowsAtAll, TypedKept, PTL DEF AssetsSpec

-----------------------------------------------------------------------------
(* What is served.  Of a key whose bytes were those that were read, the    *)
(* inductive invariant follows both files of the cache directory: nothing  *)
(* else is written into them, and each is complete or is still being       *)
(* written by a request that found it empty.                               *)

Whole(k) == [of |-> {k}, whole |-> TRUE]

Pure(k) == /\ disk[k].partial # NoFile => disk[k].partial.of \subseteq {k}
           /\ disk[k].cache # NoFile => disk[k].cache.of \subseteq {k}

\* As long as no two have written at a time, there is one that writes, and into .partial.
Alone(k) == k \notin shared => /\ \A q, r \in Between(k) : q = r
                               /\ \A r \in Writing(k) : req[r].to = "partial"

\* Somebody who has found a file empty is still filling it.
Filling(k, place) == \E r \in Writing(k) : req[r].to = place /\ req[r].fresh

Complete(k) ==
  k \notin cut =>
    /\ Between(k) # {} /\ disk[k].partial # NoFile
         => disk[k].partial = Whole(k) \/ Filling(k, "partial")
    /\ disk[k].cache # NoFile => disk[k].cache = Whole(k) \/ Filling(k, "cache")

InOrder(k) == Pure(k) /\ Alone(k) /\ Complete(k)
Tidy       == \A k \in Keys \ spoilt : InOrder(k)

LEMMA TidyServes == Typed /\ Tidy => ServedIsRight
<1> SUFFICES ASSUME Typed, Tidy, NEW k \in Keys \ spoilt, Served(k),
                    k \notin shared \/ (k \notin cut /\ Writing(k) = {})
             PROVE  Right(k)
  BY DEF ServedIsRight
<1>1. InOrder(k) /\ cut \subseteq shared /\ disk[k].cache # NoFile
  BY DEF Tidy, Typed, Served
<1>2. ~Filling(k, "cache")
  BY <1>1 DEF InOrder, Alone, Filling
<1> QED  BY <1>1, <1>2 DEF InOrder, Complete, Right, Whole

\* Steps that leave a key's files and the writing of them alone; one that has written may
\* have gone.
LEMMA Elsewhere ==
  ASSUME NEW k \in Keys, InOrder(k), disk'[k] = disk[k],
         k \in shared => k \in shared', k \in cut => k \in cut',
         \A q \in Requests : /\ q \in Between(k)' => q \in Between(k)
                             /\ q \in Writing(k)' <=> q \in Writing(k)
                             /\ q \in Writing(k) => /\ req'[q].to = req[q].to
                                                    /\ req'[q].fresh = req[q].fresh
  PROVE  InOrder(k)'
<1>1. Between(k)' \subseteq Between(k) /\ Writing(k)' = Writing(k) /\ Writing(k) \subseteq Requests
  BY DEF Between, Writing, Doing
<1>2. Pure(k)'
  BY DEF InOrder, Pure
<1>3. Alone(k)'
  BY <1>1 DEF InOrder, Alone
<1>4. ASSUME NEW place, Filling(k, place)  PROVE Filling(k, place)'
  BY <1>1, <1>4 DEF Filling
<1>5. Complete(k)'
  BY <1>1, <1>4 DEF InOrder, Complete
<1> QED  BY <1>2, <1>3, <1>5 DEF InOrder

\* The same of a step of one request, when it is of another key or not at the files.
LEMMA OtherKey ==
  ASSUME NEW k \in Keys, InOrder(k), disk'[k] = disk[k], NEW r \in Requests,
         k \in shared => k \in shared', k \in cut => k \in cut',
         r \notin Between(k), r \notin Between(k)',
         \A q \in Requests \ {r} :
           /\ req'[q].at = req[q].at /\ req'[q].key = req[q].key
           /\ req[q].key = k => req'[q].to = req[q].to /\ req'[q].fresh = req[q].fresh
  PROVE  InOrder(k)'
<1>1. r \notin Writing(k) /\ r \notin Writing(k)'
  BY DoingIs
<1>2. ASSUME NEW q \in Requests
      PROVE  /\ q \in Between(k)' => q \in Between(k)
             /\ q \in Writing(k)' <=> q \in Writing(k)
             /\ q \in Writing(k) => req'[q].to = req[q].to /\ req'[q].fresh = req[q].fresh
  <2>1. CASE q = r
    BY <1>1, <2>1
  <2>2. CASE q # r
    BY <2>2, DoingIs
  <2> QED  BY <2>1, <2>2
<1> QED  BY <1>2, Elsewhere

LEMMA OpenTidies ==
  ASSUME Typed, NEW r \in Requests, Open(r), NEW k \in Keys, InOrder(k)  PROVE InOrder(k)'
<1>1. /\ req[r].at = "made"
      /\ disk' = [disk EXCEPT ![req[r].key].partial = NewFile]
      /\ req'[r].at = "writing" /\ req'[r].key = req[r].key
      /\ req'[r].to = "partial" /\ req'[r].fresh
      /\ Redirects(r)
      /\ \A q \in Requests \ {r} :
           /\ req'[q].to = req[q].to
           /\ q \notin Writing(req[r].key) \/ req[q].to # "partial" => req'[q] = req[q]
      /\ shared' = IF Between(req[r].key) = {} THEN shared ELSE shared \cup {req[r].key}
  BY OpenIs
<1>2. UNCHANGED cut
  BY DEF Open
<1>3. disk \in [Keys -> DiskType] /\ req[r].key \in Keys
  BY <1>1 DEF Typed
<1>4. CASE k # req[r].key
  <2>1. disk'[k] = disk[k] /\ (k \in shared => k \in shared')
    BY <1>1, <1>3, <1>4
  <2>2. r \notin Between(k) /\ r \notin Between(k)'
    BY <1>1, <1>4, DoingIs
  <2>3. ASSUME NEW q \in Requests \ {r}
        PROVE  /\ req'[q].at = req[q].at /\ req'[q].key = req[q].key
               /\ req[q].key = k => req'[q].to = req[q].to /\ req'[q].fresh = req[q].fresh
    BY <1>1, <1>4, DoingIs DEF Redirects
  <2> QED  BY <1>2, <2>1, <2>2, <2>3, OtherKey
<1>5. CASE k = req[r].key
  <2>1. disk'[k].partial = NewFile /\ disk'[k].cache = disk[k].cache
    BY <1>1, <1>3, <1>5 DEF DiskType
  <2>2. Pure(k)'
    BY <2>1 DEF InOrder, Pure, NewFile
  <2>3. r \in Writing(k)' /\ r \notin Writing(k)
    BY <1>1, <1>5, DoingIs
  <2>4. \A q \in Requests \ {r} : /\ q \in Writing(k)' <=> q \in Writing(k)
                                  /\ q \in Between(k)' <=> q \in Between(k)
    BY <1>1, DoingIs DEF Redirects
  <2>5. Alone(k)'
    <3> SUFFICES ASSUME k \notin shared'
                 PROVE  /\ \A q, p \in Between(k)' : q = p
                        /\ \A q \in Writing(k)' : req'[q].to = "partial"
      BY DEF Alone
    <3>1. Between(k) = {}
      BY <1>1, <1>5
    <3>2. Between(k)' \subseteq {r} /\ Writing(k)' \subseteq {r}
      BY <2>4, <3>1 DEF Between, Writing, Doing
    <3> QED  BY <1>1, <3>2
  <2>6. Complete(k)'
    <3>1. Filling(k, "partial")'
      BY <1>1, <2>3 DEF Filling
    <3>2. ASSUME Filling(k, "cache")  PROVE Filling(k, "cache")'
      <4>1. PICK q \in Writing(k) : req[q].to = "cache" /\ req[q].fresh
        BY <3>2 DEF Filling
      <4>2. q \in Requests \ {r}
        BY <2>3, <4>1 DEF Writing, Doing
      <4>3. req'[q] = req[q]
        BY <1>1, <4>1, <4>2
      <4> QED  BY <2>4, <4>1, <4>2, <4>3 DEF Filling
    <3> QED  BY <1>2, <2>1, <3>1, <3>2 DEF InOrder, Complete
  <2> QED  BY <2>2, <2>5, <2>6 DEF InOrder
<1> QED  BY <1>4, <1>5

\* The last byte: what is there is complete afterwards if the writer has found it empty.
LEMMA FilledRight ==
  ASSUME NEW k \in Keys, NEW f \in File, NEW g \in File, NEW b \in BOOLEAN,
         f.of \subseteq {k}, g.of = f.of \cup {k}, g.whole <=> f.whole \/ b
  PROVE  g.of \subseteq {k} /\ (f = Whole(k) \/ b => g = Whole(k))
<1>1. g.of = {k} /\ g = [of |-> g.of, whole |-> g.whole] /\ g.whole \in BOOLEAN
  BY DEF File
<1>2. f = Whole(k) \/ b => g.whole = TRUE
  BY <1>1 DEF Whole
<1> QED  BY <1>1, <1>2 DEF Whole

LEMMA WriteEndTidies ==
  ASSUME Typed, Held, Knows, NEW r \in Requests, WriteEnd(r),
         NEW k \in Keys, k \notin spoilt, InOrder(k)
  PROVE  InOrder(k)'
<1>1. /\ req[r].at \in {"writing", "left"}
      /\ \A q \in Requests \ {r} : req'[q] = req[q]
      /\ req'[r].at = "idle" \/ (req'[r].at = "written" /\ req'[r].key = req[r].key)
  BY ToIs, AnswerIs DEF WriteEnd, Stage
<1>2. UNCHANGED <<shared, cut>>
  BY DEF WriteEnd, history
<1>3. r \notin Writing(k)'
  BY <1>1, DoingIs
<1>4. /\ req[r].key \in Keys /\ \A o \in Keys \ {req[r].key} : disk'[o] = disk[o]
  BY WriteEndIs DEF Held, WriteEnd
<1>5. CASE k # req[r].key
  <2>1. r \notin Between(k) /\ r \notin Between(k)'
    BY <1>1, <1>5, DoingIs
  <2> QED  BY <1>1, <1>2, <1>4, <1>5, <2>1, OtherKey
<1>6. CASE k = req[r].key
  <2>1. req[r].made = k /\ req[r].fresh \in BOOLEAN
    BY <1>1, <1>6 DEF Knows, Past, Typed, ReqType
  <2>2. r \in Between(k)
    BY <1>1, <1>6, DoingIs
  <2>3. /\ req[r].to # "partial" => disk'[k].partial = disk[k].partial
        /\ req[r].to # "cache" => disk'[k].cache = disk[k].cache
        /\ req[r].to = "partial" =>
             /\ disk[k].partial \in File /\ disk'[k].partial \in File
             /\ disk'[k].partial.of = disk[k].partial.of \cup {k}
             /\ disk'[k].partial.whole <=> disk[k].partial.whole \/ req[r].fresh
        /\ req[r].to = "cache" =>
             /\ disk[k].cache \in File /\ disk'[k].cache \in File
             /\ disk'[k].cache.of = disk[k].cache.of \cup {k}
             /\ disk'[k].cache.whole <=> disk[k].cache.whole \/ req[r].fresh
    BY <1>1, <1>6, <2>1, WriteEndIs DEF Held
  <2>4. NoFile \notin File
    BY AssetsAssumption DEF File
  <2>5. /\ Between(k)' \subseteq Between(k)
        /\ Writing(k)' = Writing(k) \ {r}
    <3>1. ASSUME NEW q \in Requests
          PROVE  (q \in Between(k)' => q \in Between(k)) /\ (q \in Writing(k)' <=> q \in Writing(k) /\ q # r)
      BY <1>1, <1>3, <2>2, DoingIs
    <3> QED  BY <3>1 DEF Between, Writing, Doing
  <2>6. ASSUME NEW place, Filling(k, place), ~(req[r].to = place /\ req[r].fresh)
        PROVE  Filling(k, place)'
    <3>1. PICK q \in Writing(k) : req[q].to = place /\ req[q].fresh
      BY <2>6 DEF Filling
    <3>2. q # r /\ q \in Requests
      BY <2>6, <3>1 DEF Writing, Doing
    <3> QED  BY <1>1, <2>5, <3>1, <3>2 DEF Filling
  <2>7. req[r].to = "partial" =>
          /\ disk'[k].partial.of \subseteq {k}
          /\ disk[k].partial = Whole(k) \/ req[r].fresh => disk'[k].partial = Whole(k)
    BY <2>1, <2>3, <2>4, FilledRight DEF InOrder, Pure
  <2>8. req[r].to = "cache" =>
          /\ disk'[k].cache.of \subseteq {k}
          /\ disk[k].cache = Whole(k) \/ req[r].fresh => disk'[k].cache = Whole(k)
    BY <2>1, <2>3, <2>4, FilledRight DEF InOrder, Pure
  <2>9. Pure(k)'
    BY <2>3, <2>7, <2>8 DEF InOrder, Pure
  <2>10. Alone(k)'
    <3>1. \A q \in Writing(k)' : req'[q] = req[q] /\ q \in Writing(k)
      BY <1>1, <2>5 DEF Writing, Doing
    <3> QED  BY <1>2, <2>5, <3>1 DEF InOrder, Alone
  <2>11. ASSUME k \notin cut', disk'[k].partial # NoFile
         PROVE  disk'[k].partial = Whole(k) \/ Filling(k, "partial")'
    <3>1. disk[k].partial # NoFile
      BY <2>3, <2>4, <2>11
    <3>2. disk[k].partial = Whole(k) \/ Filling(k, "partial")
      BY <1>2, <2>2, <2>11, <3>1 DEF InOrder, Complete
    <3>3. CASE req[r].to = "partial"
      BY <2>6, <2>7, <3>2, <3>3
    <3>4. CASE req[r].to # "partial"
      BY <2>3, <2>6, <3>2, <3>4
    <3> QED  BY <3>3, <3>4
  <2>12. ASSUME k \notin cut', disk'[k].cache # NoFile
         PROVE  disk'[k].cache = Whole(k) \/ Filling(k, "cache")'
    <3>1. disk[k].cache # NoFile
      BY <2>3, <2>4, <2>12
    <3>2. disk[k].cache = Whole(k) \/ Filling(k, "cache")
      BY <1>2, <2>12, <3>1 DEF InOrder, Complete
    <3>3. CASE req[r].to = "cache"
      BY <2>6, <2>8, <3>2, <3>3
    <3>4. CASE req[r].to # "cache"
      BY <2>3, <2>6, <3>2, <3>4
    <3> QED  BY <3>3, <3>4
  <2>13. Complete(k)'
    BY <2>11, <2>12 DEF Complete
  <2> QED  BY <2>9, <2>10, <2>13 DEF InOrder
<1> QED  BY <1>5, <1>6

LEMMA RenameTidies ==
  ASSUME Typed, NEW r \in Requests, Rename(r), NEW k \in Keys, InOrder(k)  PROVE InOrder(k)'
<1>1. req[r].at = "written" /\ UNCHANGED <<shared, cut>> /\ disk \in [Keys -> DiskType]
  BY DEF Rename, At, history, Typed
<1>2. CASE disk[req[r].key].partial = NoFile
  <2>1. Answer(r) /\ UNCHANGED disk
    BY <1>2 DEF Rename, Name, Named
  <2>2. req'[r].at = "idle" /\ \A q \in Requests \ {r} : req'[q] = req[q]
    BY <2>1, AnswerIs
  <2>3. ASSUME NEW q \in Requests
        PROVE  /\ q \in Between(k)' => q \in Between(k)
               /\ q \in Writing(k)' <=> q \in Writing(k)
               /\ q \in Writing(k) => req'[q].to = req[q].to /\ req'[q].fresh = req[q].fresh
    BY <1>1, <2>2, DoingIs
  <2> QED  BY <1>1, <2>1, <2>3, Elsewhere
<1>3. CASE disk[req[r].key].partial # NoFile
  <2>1. /\ req[r].key \in Keys
        /\ disk' = [disk EXCEPT ![req[r].key] =
                      [cache |-> disk[req[r].key].partial, partial |-> NoFile]]
        /\ req'[r].at = "renamed"
        /\ Redirects(r)
        /\ \A q \in Requests \ {r} :
             /\ req'[q].fresh = req[q].fresh
             /\ q \notin Writing(req[r].key) => req'[q] = req[q]
             /\ q \in Writing(req[r].key)
                  => req'[q].to = IF req[q].to = "partial" THEN "cache" ELSE "gone"
    BY <1>3, RenameIs
  <2>2. CASE k # req[r].key
    <3>1. disk'[k] = disk[k]
      BY <1>1, <2>1, <2>2
    <3>2. r \notin Between(k) /\ r \notin Between(k)'
      BY <2>1, <2>2, DoingIs
    <3>3. ASSUME NEW q \in Requests \ {r}
          PROVE  /\ req'[q].at = req[q].at /\ req'[q].key = req[q].key
                 /\ req[q].key = k => req'[q].to = req[q].to /\ req'[q].fresh = req[q].fresh
      BY <2>1, <2>2, DoingIs DEF Redirects
    <3> QED  BY <1>1, <3>1, <3>2, <3>3, OtherKey
  <2>3. CASE k = req[r].key
    <3>1. disk'[k].cache = disk[k].partial /\ disk'[k].partial = NoFile
      BY <1>1, <2>1, <2>3
    <3>2. r \in Between(k) /\ r \notin Between(k)' /\ r \notin Writing(k) /\ r \notin Writing(k)'
      BY <1>1, <2>1, <2>3, DoingIs
    <3>3. \A q \in Requests \ {r} : /\ q \in Writing(k)' <=> q \in Writing(k)
                                    /\ q \in Between(k)' <=> q \in Between(k)
      BY <2>1, DoingIs DEF Redirects
    <3>4. Pure(k)'
      BY <3>1 DEF InOrder, Pure
    <3>5. Alone(k)'
      <4> SUFFICES ASSUME k \notin shared
                   PROVE  Between(k)' = {} /\ Writing(k)' = {}
        BY <1>1 DEF Alone
      <4>1. \A q \in Between(k) : q = r
        BY <3>2 DEF InOrder, Alone
      <4>2. Writing(k)' \subseteq Between(k)' /\ Between(k)' \subseteq Requests
        BY DEF Writing, Between, Doing
      <4> QED  BY <3>2, <3>3, <4>1, <4>2
    <3>6. Complete(k)'
      <4> SUFFICES ASSUME k \notin cut, disk[k].partial # NoFile
                   PROVE  disk'[k].cache = Whole(k) \/ Filling(k, "cache")'
        BY <1>1, <3>1 DEF Complete
      <4>1. disk[k].partial = Whole(k) \/ Filling(k, "partial")
        BY <3>2 DEF InOrder, Complete
      <4>2. ASSUME Filling(k, "partial")  PROVE Filling(k, "cache")'
        <5>1. PICK q \in Writing(k) : req[q].to = "partial" /\ req[q].fresh
          BY <4>2 DEF Filling
        <5>2. q \in Requests \ {r}
          BY <3>2, <5>1 DEF Writing, Doing
        <5>3. req'[q].to = "cache" /\ req'[q].fresh /\ q \in Writing(k)'
          BY <2>1, <2>3, <3>3, <5>1, <5>2
        <5> QED  BY <5>3 DEF Filling
      <4> QED  BY <3>1, <4>1, <4>2
    <3> QED  BY <3>4, <3>5, <3>6 DEF InOrder
  <2> QED  BY <2>2, <2>3
<1> QED  BY <1>2, <1>3

\* A write that is cut off alone leaves a .partial nobody writes, which the next one
\* truncates.
LEMMA WriteFailsTidies ==
  ASSUME Typed, NEW r \in Requests, WriteFails(r), NEW k \in Keys, InOrder(k)  PROVE InOrder(k)'
<1>1. /\ req[r].at = "writing" /\ UNCHANGED <<disk, shared>>
      /\ cut' = cut \cup (shared \cap {req[r].key})
      /\ req'[r].at = "idle" /\ \A q \in Requests \ {r} : req'[q] = req[q]
  BY AnswerIs DEF WriteFails, At, Name, Named
<1>2. CASE k # req[r].key
  <2>1. r \notin Between(k) /\ r \notin Between(k)'
    BY <1>1, <1>2, DoingIs
  <2> QED  BY <1>1, <2>1, OtherKey
<1>3. CASE k = req[r].key
  <2>1. r \in Writing(k) /\ r \in Between(k) /\ r \notin Between(k)' /\ r \notin Writing(k)'
    BY <1>1, <1>3, DoingIs
  <2>2. \A q \in Requests : (q \in Between(k)' => q \in Between(k))
                            /\ (q \in Writing(k)' => q \in Writing(k) /\ req'[q] = req[q])
    BY <1>1, <2>1, DoingIs
  <2>3. Between(k)' \subseteq Between(k) /\ \A q \in Writing(k)' : q \in Writing(k) /\ req'[q] = req[q]
    BY <2>2 DEF Between, Writing, Doing
  <2>4. Pure(k)' /\ Alone(k)'
    BY <1>1, <2>3 DEF InOrder, Pure, Alone
  <2>5. Complete(k)'
    <3> SUFFICES ASSUME k \notin cut'
                 PROVE  /\ Between(k)' = {}
                        /\ disk[k].cache # NoFile => disk[k].cache = Whole(k)
      BY <1>1 DEF Complete
    <3>1. k \notin shared /\ k \notin cut
      BY <1>1, <1>3
    <3>2. Between(k)' = {}
      BY <2>1, <2>3, <3>1 DEF InOrder, Alone
    <3>3. ~Filling(k, "cache")
      BY <3>1 DEF InOrder, Alone, Filling
    <3> QED  BY <3>1, <3>2, <3>3 DEF InOrder, Complete
  <2> QED  BY <2>4, <2>5 DEF InOrder
<1> QED  BY <1>2, <1>3

LEMMA LeaveTidies ==
  ASSUME Typed, NEW r \in Requests, Leave(r), NEW k \in Keys, InOrder(k)  PROVE InOrder(k)'
<1>1. UNCHANGED <<disk, shared, cut>> /\ req[r].at # "left"
        /\ (Answer(r) \/ To(r, "left"))
        /\ (req[r].at = "writing" => To(r, "left"))
        /\ (req[r].at # "writing" => Answer(r))
  BY Zenon DEF Leave, At, history
<1>2. \A q \in Requests \ {r} : req'[q] = req[q]
  BY <1>1, ToIs, AnswerIs DEF Stage
<1>3. /\ req[r].at = "writing" => /\ req'[r].at = "left" /\ req'[r].key = req[r].key
                                  /\ req'[r].to = req[r].to /\ req'[r].fresh = req[r].fresh
      /\ req[r].at # "writing" => req'[r].at = "idle"
  BY <1>1, ToIs, AnswerIs DEF Stage
<1>4. ASSUME NEW q \in Requests
      PROVE  /\ q \in Between(k)' => q \in Between(k)
             /\ q \in Writing(k)' <=> q \in Writing(k)
             /\ q \in Writing(k) => req'[q].to = req[q].to /\ req'[q].fresh = req[q].fresh
  BY <1>1, <1>2, <1>3, DoingIs
<1> QED  BY <1>1, <1>4, Elsewhere

LEMMA PurgeTidies ==
  ASSUME Typed, NEW o \in Keys, Purge(o), NEW k \in Keys, InOrder(k)  PROVE InOrder(k)'
<1>1. UNCHANGED <<shared, cut>> /\ disk \in [Keys -> DiskType]
  BY DEF Purge, history, Typed
<1>2. /\ disk' = [disk EXCEPT ![o].cache = NoFile]
      /\ \A q \in Requests :
           /\ req'[q].at = req[q].at /\ req'[q].key = req[q].key /\ req'[q].fresh = req[q].fresh
           /\ ~(q \in Writing(o) /\ req[q].to = "cache") => req'[q] = req[q]
  BY PurgeIs
<1>3. \A q \in Requests : /\ q \in Between(k)' <=> q \in Between(k)
                          /\ q \in Writing(k)' <=> q \in Writing(k)
  BY <1>2, DoingIs
<1>4. CASE k # o
  <2>1. disk'[k] = disk[k]
    BY <1>1, <1>2, <1>4
  <2>2. ASSUME NEW q \in Requests, q \in Writing(k)
        PROVE  req'[q].to = req[q].to /\ req'[q].fresh = req[q].fresh
    BY <1>2, <1>4, <2>2, DoingIs
  <2> QED  BY <1>1, <1>3, <2>1, <2>2, Elsewhere
<1>5. CASE k = o
  <2>1. disk'[k].cache = NoFile /\ disk'[k].partial = disk[k].partial
    BY <1>1, <1>2, <1>5 DEF DiskType
  <2>2. Between(k)' = Between(k) /\ Writing(k)' = Writing(k)
    BY <1>3 DEF Between, Writing, Doing
  <2>3. \A q \in Writing(k) : req[q].to = "partial" => req'[q] = req[q]
    BY <1>2 DEF Writing, Doing
  <2>4. Pure(k)'
    BY <2>1 DEF InOrder, Pure
  <2>5. Alone(k)'
    BY <1>1, <2>2, <2>3 DEF InOrder, Alone
  <2>6. Filling(k, "partial") => Filling(k, "partial")'
    BY <2>2, <2>3 DEF Filling
  <2>7. Complete(k)'
    BY <1>1, <2>1, <2>2, <2>6 DEF InOrder, Complete
  <2> QED  BY <2>4, <2>5, <2>7 DEF InOrder
<1> QED  BY <1>4, <1>5

LEMMA CrashTidies ==
  ASSUME Typed, Crash, NEW k \in Keys, InOrder(k)  PROVE InOrder(k)'
<1>1. UNCHANGED <<disk, shared>> /\ cut' = cut \cup {o \in shared : Writing(o) # {}}
        /\ \A q \in Requests : req'[q].at = "idle"
  BY IdleIs DEF Crash
<1>2. Between(k)' = {} /\ Writing(k)' = {}
  BY <1>1 DEF Between, Writing, Doing
<1>3. Pure(k)' /\ Alone(k)'
  BY <1>1, <1>2 DEF InOrder, Pure, Alone
<1>4. Complete(k)'
  <2> SUFFICES ASSUME k \notin cut', disk[k].cache # NoFile  PROVE disk[k].cache = Whole(k)
    BY <1>1, <1>2 DEF Complete
  <2>1. k \notin cut /\ (k \notin shared \/ Writing(k) = {})
    BY <1>1
  <2>2. ~Filling(k, "cache")
    BY <2>1 DEF InOrder, Alone, Filling
  <2> QED  BY <2>1, <2>2 DEF InOrder, Complete
<1> QED  BY <1>3, <1>4 DEF InOrder

LEMMA TidyStep == Typed /\ Held /\ Knows /\ Tidy /\ [AssetsNext]_assetVars => Tidy'
<1> SUFFICES ASSUME Typed, Held, Knows, Tidy, [AssetsNext]_assetVars,
                    NEW k \in Keys, k \notin spoilt'
             PROVE  InOrder(k)'
  BY DEF Tidy
<1>1. ASSUME k \notin spoilt  PROVE InOrder(k)
  BY <1>1 DEF Tidy
<1>2. ASSUME NEW r \in Requests, Light(r)  PROVE InOrder(k)'
  <2>1. /\ \A q \in Requests \ {r} : req'[q] = req[q]
        /\ r \notin Between(k) /\ r \notin Between(k)'
        /\ UNCHANGED <<disk, shared, cut>> /\ spoilt \subseteq spoilt'
    BY <1>2, LightIs, DoingIs
  <2> QED  BY <1>1, <2>1, OtherKey
<1>3. ASSUME NEW r \in Requests, Open(r) \/ WriteEnd(r) \/ Rename(r) \/ WriteFails(r) \/ Leave(r)
      PROVE  InOrder(k)'
  <2>1. UNCHANGED spoilt
    BY <1>3 DEF Open, WriteEnd, Rename, WriteFails, Leave, history
  <2> QED  BY <1>1, <1>3, <2>1, OpenTidies, WriteEndTidies, RenameTidies, WriteFailsTidies,
              LeaveTidies
<1>4. ASSUME Replace \/ Scan \/ Reload \/ UNCHANGED assetVars  PROVE InOrder(k)'
  <2>1. UNCHANGED <<disk, req, spoilt, shared, cut>>
    BY <1>4, AroundIs DEF assetVars, history
  <2>2. \A q \in Requests : /\ q \in Between(k)' <=> q \in Between(k)
                            /\ q \in Writing(k)' <=> q \in Writing(k)
    BY <2>1, DoingIs
  <2> QED  BY <1>1, <2>1, <2>2, Elsewhere
<1>5. ASSUME Crash  PROVE InOrder(k)'
  BY <1>1, <1>5, CrashTidies DEF Crash
<1>6. ASSUME NEW o \in Keys, Purge(o)  PROVE InOrder(k)'
  BY <1>1, <1>6, PurgeTidies DEF Purge, history
<1> QED  BY <1>2, <1>3, <1>4, <1>5, <1>6, NextIs

\* What is served is all of what the recipe makes of those bytes, whatever crashes, full
\* disks, purges, edits and clients that leave come in between, unless two requests were
\* writing it at a time or other bytes were read; and two that were leave it right when
\* they are done, unless a write of theirs was cut off.
THEOREM ServedAsAsked == AssetsSpec => []ServedIsRight
<1>1. AssetsInit => Tidy
  <2> SUFFICES ASSUME AssetsInit, NEW k \in Keys PROVE InOrder(k)
    BY DEF Tidy
  <2>1. Between(k) = {} /\ Writing(k) = {} /\ disk[k].cache = NoFile /\ disk[k].partial = NoFile
    BY IdleIs DEF AssetsInit, Between, Writing, Doing
  <2> QED  BY <2>1 DEF InOrder, Pure, Alone, Complete
<1> QED  BY <1>1, TidyStep, TidyServes, KnowsAtAll, TypedKept, PTL DEF AssetsSpec
=============================================================================
