------------------------------ MODULE Playback ------------------------------
(***************************************************************************)
(* The player store (player.svelte.ts) and its transport machine           *)
(* (transport-machine.ts), on the main thread, over the engine PcmPipeline *)
(* models in detail.                                                       *)
(*                                                                         *)
(* What an async function does after an await, and a fetch, is a job: it   *)
(* outlives what it was started for, the engine included.  The engine is   *)
(* the song its worker has loaded, carried out as soon as it is asked for; *)
(* what it posts back waits in two ports, and arrives after calls made     *)
(* meanwhile.  A track of the other format, or a stalled engine, has a new *)
(* one built; the old one goes on fetching and reporting.  `loading`       *)
(* settles into `playing` before the next task (startPlayback resolves at  *)
(* once), so it is not a state of its own here.  Repeat only keeps a song  *)
(* from ending, which none need do here.  Play counts are left out.        *)
(***************************************************************************)
EXTENDS Integers, SequencesExt

CONSTANTS
  Worlds,     \* what the hosts, the files and the network may be like, see below
  Orders,     \* what a shuffle may yield, of the indices of a list
  None,       \* no track
  Gestures,   \* what the user does
  MaxCalls,   \* bound: gestures
  MaxJobs,    \* bound: jobs that wait
  MaxEvents   \* bound: events that wait in a port of the engine

\* Of a world: the lists the user plays from; which tracks are for the SID engine,
\* the others being modules; what a track's file may turn out to be.  Does the host
\* hold its tracks (party), or fetch them (tracker)?  May a request be answered
\* before an earlier one of its kind?  May a selection be cued after the user's
\* first gesture?
Lists  == UNION {w.lists : w \in Worlds}
Tracks == UNION {Range(q) : q \in Lists}
MaxLen == Max({Len(q) : q \in Lists})
OrdersOf(q) == {o \in Orders : Len(o) = Len(q)}

\* What Fisher and Yates may make of n places: from the last one down, each is swapped
\* with itself or one before it.  run[i] is the order once those after i are settled.
Swap(o, i, j) == [o EXCEPT ![i] = o[j], ![j] = o[i]]
ShufflesTo(run, n) ==
  /\ run[n] = [i \in 1 .. n |-> i]
  /\ \A i \in 2 .. n : \E j \in 1 .. i : run[i - 1] = Swap(run[i], i, j)
ShuffledOrder(n) == {run[1] : run \in {r \in [1 .. n -> [1 .. n -> 1 .. n]] : ShufflesTo(r, n)}}

ASSUME PlaybackConstants ==
  /\ \A q \in Lists : /\ q \in Seq(Tracks) \ {<<>>} /\ IsInjective(q)
                      /\ Orders = {} \/ OrdersOf(q) # {}
                      /\ Len(q) <= MaxLen
  /\ MaxLen \in Nat
  /\ \A o \in Orders : o \in Seq(Nat) \ {<<>>} /\ o \in ShuffledOrder(Len(o))
  /\ None \notin Tracks
  /\ \A w \in Worlds : /\ w.sids \subseteq Tracks
                       /\ w.files \subseteq {"good", "corrupt", "missing"}
                       /\ {w.memory, w.overtaking, w.lateCue} \subseteq BOOLEAN
  /\ Gestures \subseteq {"click", "cue", "next", "prev", "seek", "toggle", "shuffle", "stop", "eject"}
  /\ {MaxCalls, MaxJobs, MaxEvents} \subseteq Nat

VARIABLES
  world, file, \* where we are, and what is on the server
  calls,      \* gestures made
  queue, index, planned,   \* queueRefs, queueIndex, plannedNextIdx (0 = none)
  shuffle, order,          \* order = <<>>: to be rebuilt by rollNext
  track,      \* playback.current
  pending,    \* pendingTrack: the last shown, ejected or not
  meta,       \* whose metadata is shown and saved as the track's
  transport,  \* state of the machine
  error,      \* playback.error is set
  failures,   \* consecutiveErrors
  skips,      \* timers of onError that are running
  far,        \* position is past the thresholds of playPrev and recreateEngine
  jobs,
  kind,       \* the engine's format, "none" before the first
  resume,     \* resumeSeek, as the track whose position it is
  tidy,       \* history: no engine was replaced under something under way
  astray,     \* history: tracks whose seek back was made in another one, all tidy
  song, over, silent,      \* engine: the song it has, at its end or idle; worklet paused
  loaded,                  \* engine: by a load, not by the decode of a cue
  fromWorker, fromNode     \* its two ports

list == <<queue, index, planned, shuffle, order>>
shown == <<track, pending, meta, transport, error, far>>
built == <<kind, resume, tidy>>
place == <<world, file>>
guards == <<failures, skips>>
engine == <<song, over, silent, loaded>>
ports == <<fromWorker, fromNode>>
vars == <<place, calls, list, shown, guards, jobs, built, astray, engine, ports>>

\* own: asked of the engine there is; fits: that one plays the track's format.
Job == [kind: {"resolve", "wake", "fetch", "decode"}, track: Tracks, own: BOOLEAN, fits: BOOLEAN]
WorkerEvent == [cmd: {"meta", "err"}, song: Tracks]
NodeEvent == [cmd: {"pos"}, song: Tracks, far: BOOLEAN] \cup [cmd: {"end"}, song: Tracks]
States == {"empty", "decoding", "ready", "playing", "paused", "stopped", "ended", "error"}

TypeOK ==
  /\ world \in Worlds /\ file \in [Tracks -> world.files] /\ calls \in 0 .. MaxCalls
  /\ queue \in world.lists \cup {<<>>} /\ index \in 0 .. MaxLen /\ planned \in 0 .. MaxLen
  /\ shuffle \in BOOLEAN /\ order \in OrdersOf(queue) \cup {<<>>}
  /\ {track, pending, meta, song, resume} \subseteq Tracks \cup {None} /\ astray \subseteq Tracks
  /\ transport \in States /\ {error, far, over, silent, loaded, tidy} \subseteq BOOLEAN
  /\ failures \in Nat /\ skips \in Nat /\ jobs \in Seq(Job)
  /\ kind \in {"none", "module", "sid"}
  /\ fromWorker \in Seq(WorkerEvent) /\ fromNode \in Seq(NodeEvent)

Init ==
  /\ world \in Worlds /\ file \in [Tracks -> world.files] /\ calls = 0
  /\ queue = <<>> /\ index = 0 /\ planned = 0
  /\ shuffle \in (IF Orders = {} THEN {FALSE} ELSE BOOLEAN) /\ order = <<>>
  /\ track = None /\ pending = None /\ meta = None /\ transport = "empty" /\ error = FALSE
  /\ failures = 0 /\ skips = 0 /\ far = FALSE
  /\ jobs = <<>> /\ kind = "none" /\ resume = None /\ tidy = TRUE /\ astray = {}
  /\ song = None /\ over = FALSE /\ silent = FALSE /\ loaded = FALSE
  /\ fromWorker = <<>> /\ fromNode = <<>>

-----------------------------------------------------------------------------
(* queue.ts, with 0 for null and indices from 1.                           *)

Place(o, i) == SelectInSeq(o, LAMBDA j : j = i)

\* Mutant: the end of the list is one off.
NextOfPastEnd(q, i, random, o) ==
  IF q = <<>> \/ i = 0 THEN 0
  ELSE IF random /\ Len(q) > 1 THEN o[(Place(o, i) % Len(q)) + 1]
  ELSE IF i <= Len(q) THEN i + 1 ELSE 0

NextOf(q, i, random, o) ==
  IF q = <<>> \/ i = 0 THEN 0
  ELSE IF random /\ Len(q) > 1 THEN o[(Place(o, i) % Len(q)) + 1]
  ELSE IF i < Len(q) THEN i + 1 ELSE 0

PrevOf(q, i, random, o) ==
  IF q = <<>> \/ i = 0 THEN 0
  ELSE IF random /\ Len(q) > 1 /\ o # <<>>
  THEN o[IF Place(o, i) > 1 THEN Place(o, i) - 1 ELSE Len(q)]
  ELSE i - 1

\* What rollNext plans of queue q at i, with the order o or, without one, a new one.
RollNext(q, i, random, o) ==
  /\ order' \in (IF random /\ q # <<>> /\ o = <<>> THEN OrdersOf(q) ELSE {o})
  /\ planned' = NextOf(q, i, random, order')

CanNext == index > 0 /\ (IF shuffle THEN Len(queue) > 1 ELSE index < Len(queue))

-----------------------------------------------------------------------------
(* transport-machine.ts                                                    *)

Takes(event) ==
  CASE event = "LOAD"   -> "playing"
    [] event = "CUE"    -> "decoding"
    [] event = "TOGGLE" /\ transport = "playing" -> "paused"
    [] event = "TOGGLE" /\ transport = "paused"  -> "playing"
    [] event = "ENDED"  /\ transport = "playing" -> "ended"
    [] event = "STOP"   /\ transport \in {"decoding", "ready", "playing", "paused"} -> "stopped"
    [] event = "ERROR"  /\ transport \in {"decoding", "ready", "playing"} -> "error"
    [] OTHER -> transport

Send(event) == transport' = Takes(event)

\* playback.playing
Playing == transport \in {"playing", "paused"}

-----------------------------------------------------------------------------
(* The steps the store's functions share.                                  *)

KindOf(t) == IF t \in world.sids THEN "sid" ELSE "module"
JobFor(k, t) == [kind |-> k, track |-> t, own |-> TRUE, fits |-> TRUE]

EngineStop == song' = None /\ over' = FALSE /\ loaded' = FALSE /\ UNCHANGED silent

\* teardownEngine, and another engine in its place: the jobs that wait go on.
Replace(k, waiting) ==
  /\ kind' = k
  /\ song' = None /\ over' = FALSE /\ loaded' = FALSE /\ silent' = FALSE
  /\ tidy' = (tidy /\ (kind = "none" \/ (waiting = <<>> /\ fromWorker = <<>> /\ skips = 0)))

Orphaned(waiting) ==
  [i \in DOMAIN waiting |-> [waiting[i] EXCEPT !.own = @ /\ waiting[i].kind \notin {"wake", "fetch"}]]

\* resetForTrack
Show(t) == track' = t /\ pending' = t /\ meta' = None /\ error' = FALSE /\ far' = FALSE

\* playTrack up to its first await, with ensurePlayer.
PlayTrack(t, waiting) ==
  /\ Show(t) /\ Send("LOAD")
  /\ \/ /\ kind = KindOf(t)
        /\ EngineStop /\ UNCHANGED <<kind, tidy>>
        /\ jobs' = Append(waiting, JobFor("wake", t))
     \/ /\ kind # KindOf(t)
        /\ Replace(KindOf(t), waiting)
        /\ jobs' = Append(Orphaned(waiting), JobFor("wake", t))
  /\ UNCHANGED resume

\* recreateEngine: the track again, on a new engine, from where it stalled.
Recreate ==
  /\ resume' = IF far THEN track ELSE None
  /\ Show(track) /\ Send("LOAD")
  /\ Replace(kind, jobs)
  /\ jobs' = Append(Orphaned(jobs), JobFor("wake", track))

\* setPos: the song it has goes on from there.
SetPos == over' = (over /\ ~loaded) /\ UNCHANGED <<song, loaded, silent>>

\* playNext and the last lines of playPrev: the track may have to be fetched first.
StepTo(i) ==
  /\ index' = i
  /\ Len(jobs) < MaxJobs
  /\ \/ i <= Len(queue) /\ PlayTrack(queue[i], jobs)
     \/ /\ i <= Len(queue) /\ ~world.memory
        /\ jobs' = Append(jobs, JobFor("resolve", queue[i]))
        /\ UNCHANGED <<shown, built, engine>>
     \/ i > Len(queue) /\ UNCHANGED <<jobs, shown, built, engine>>

PlayNext ==
  IF planned = 0 THEN UNCHANGED <<index, jobs, built, shown, engine>>
  ELSE StepTo(planned)

\* Mutant: failures are not counted.
OnErrorForever ==
  /\ UNCHANGED failures
  /\ error' = TRUE
  /\ IF CanNext /\ failures + 1 <= Len(queue)
     THEN skips' = skips + 1 /\ UNCHANGED transport
     ELSE Send("ERROR") /\ UNCHANGED skips
  /\ UNCHANGED <<track, pending, meta, far>>

OnError ==
  /\ failures' = failures + 1
  /\ error' = TRUE
  /\ IF CanNext /\ failures + 1 <= Len(queue)
     THEN skips' = skips + 1 /\ UNCHANGED transport
     ELSE Send("ERROR") /\ UNCHANGED skips
  /\ UNCHANGED <<track, pending, meta, far>>

-----------------------------------------------------------------------------
(* The user.                                                               *)

Gesture(g) ==
  /\ g \in Gestures /\ calls < MaxCalls
  /\ calls' = calls + 1
  /\ UNCHANGED <<place, astray, ports>>

\* Mutant: the row the user picks is played without moving the index there.
ClickElsewhere(q, i) ==
  /\ Gesture("click") /\ Len(jobs) < MaxJobs
  /\ queue' = q /\ order' = <<>>
  /\ PlayTrack(q[i], jobs)
  /\ UNCHANGED <<index, planned, shuffle, guards>>

\* playRefs and playInOrder.  The page puts the row that was clicked in its cache before
\* it calls playRefs (playFromList), so that resolving it neither waits nor fails.
Click(q, i) ==
  /\ Gesture("click") /\ Len(jobs) < MaxJobs
  /\ queue' = q /\ order' = <<>> /\ index' = i
  /\ PlayTrack(q[i], jobs)
  /\ UNCHANGED <<planned, shuffle, guards>>

\* cueRefs and cueInOrder, when the page's address names a track, with the start
\* of the decode actor: a SID has nothing to decode.
Cue(q, i) ==
  /\ Gesture("cue") /\ (world.lateCue \/ calls = 0) /\ track # q[i]
  /\ Len(jobs) < MaxJobs
  /\ queue' = q /\ index' = i
  /\ Show(q[i])
  /\ transport' = IF q[i] \in world.sids THEN "ready" ELSE Takes("CUE")
  /\ RollNext(q, i, shuffle, <<>>)
  /\ LET waiting == IF kind = KindOf(q[i]) THEN jobs ELSE Orphaned(jobs) IN
     jobs' = IF q[i] \in world.sids THEN waiting ELSE Append(waiting, JobFor("decode", q[i]))
  /\ IF kind = KindOf(q[i]) THEN UNCHANGED <<kind, tidy, engine>> ELSE Replace(KindOf(q[i]), jobs)
  /\ UNCHANGED <<shuffle, guards, resume>>

NextTrack ==
  /\ Gesture("next") /\ planned # 0
  /\ PlayNext
  /\ UNCHANGED <<queue, planned, shuffle, order, guards>>

\* Past ten seconds, or with nothing before it, the track restarts.
PrevTrack ==
  /\ Gesture("prev") /\ track # None
  /\ LET prev == PrevOf(queue, index, shuffle, order) IN
     \/ /\ far \/ prev = 0
        /\ far' = FALSE /\ SetPos
        /\ UNCHANGED <<index, jobs, built, track, pending, meta, transport, error>>
     \/ ~far /\ prev # 0 /\ StepTo(prev)
  /\ UNCHANGED <<queue, planned, shuffle, order, guards>>

\* seekSeconds, seekToOrder
Seek ==
  /\ Gesture("seek") /\ track # None
  /\ far' \in BOOLEAN /\ SetPos
  /\ UNCHANGED <<list, guards, jobs, built, track, pending, meta, transport, error>>

\* transportToggle, and togglePause: while frames arrive, and after two seconds
\* without one, or hidden while paused.
Toggle ==
  /\ Gesture("toggle") /\ track # None
  /\ \/ /\ Playing
        /\ silent' = ~silent /\ Send("TOGGLE")
        /\ UNCHANGED <<jobs, built, track, pending, meta, error, far, song, over, loaded>>
     \/ Playing /\ Len(jobs) < MaxJobs /\ Recreate
     \/ ~Playing /\ Len(jobs) < MaxJobs /\ PlayTrack(track, jobs)
  /\ UNCHANGED <<list, guards>>

ToggleShuffle ==
  /\ Gesture("shuffle") /\ Orders # {}
  /\ shuffle' = ~shuffle
  /\ RollNext(queue, index, ~shuffle, IF shuffle THEN order ELSE <<>>)
  /\ UNCHANGED <<queue, index, shown, guards, jobs, built, engine>>

Stop ==
  /\ Gesture("stop") /\ track # None
  /\ EngineStop
  /\ far' = FALSE /\ Send("STOP")
  /\ UNCHANGED <<list, guards, jobs, built, track, pending, meta, error>>

Eject ==
  /\ Gesture("eject") /\ track # None
  /\ EngineStop
  /\ far' = FALSE /\ Send("STOP") /\ track' = None /\ meta' = None
  /\ queue' = <<>> /\ order' = <<>> /\ index' = 0 /\ planned' = 0
  /\ UNCHANGED <<shuffle, guards, jobs, built, pending, error>>

User ==
  \/ \E q \in world.lists : \E i \in DOMAIN q : Click(q, i) \/ Cue(q, i)
  \/ NextTrack \/ PrevTrack \/ Seek \/ Toggle \/ ToggleShuffle \/ Stop \/ Eject

-----------------------------------------------------------------------------
(* What goes on after an await, and a timer.                               *)

Without(i) == RemoveAt(jobs, i)

\* Once an engine was replaced under them, in any order: two engines come up, and
\* two workers answer, independently.
Done(i, k) ==
  /\ jobs[i].kind = k
  /\ world.overtaking \/ ~tidy \/ \A j \in 1 .. i - 1 : jobs[j].kind # k
  /\ UNCHANGED <<place, calls, astray>>

Resolved(i) ==
  /\ Done(i, "resolve")
  /\ PlayTrack(jobs[i].track, Without(i))
  /\ UNCHANGED <<list, guards, ports>>

ResolveFailed(i) ==
  /\ Done(i, "resolve")
  /\ jobs' = Without(i)
  /\ UNCHANGED <<list, shown, guards, built, engine, ports>>

\* playTrack after its awaits: load, by whichever engine there is now, and the
\* next track planned.
Awake(i) ==
  /\ Done(i, "wake")
  /\ LET t == jobs[i].track IN
     jobs' = Append(Without(i), [JobFor("fetch", t) EXCEPT !.fits = (kind = KindOf(t))])
  /\ RollNext(queue, index, shuffle, order)
  /\ UNCHANGED <<queue, index, shuffle, shown, guards, built, engine, ports>>

\* An engine that was replaced before it was up may never be.
NeverUp(i) ==
  /\ Done(i, "wake") /\ ~jobs[i].own
  /\ jobs' = Without(i)
  /\ UNCHANGED <<list, shown, guards, built, engine, ports>>

\* load() with an answer: play, and what the worker makes of the bytes.  An
\* engine that was replaced does not sound, but reports.
Fetched(i) ==
  /\ Done(i, "fetch")
  /\ file[jobs[i].track] # "missing" /\ Len(fromWorker) < MaxEvents
  /\ jobs' = Without(i)
  /\ LET t == jobs[i].track
         good == file[t] = "good" /\ jobs[i].fits IN
     /\ IF jobs[i].own
        THEN song' = (IF good THEN t ELSE None) /\ loaded' = good /\ over' = FALSE
        ELSE UNCHANGED <<song, loaded, over>>
     /\ fromWorker' = Append(fromWorker, [cmd |-> IF good THEN "meta" ELSE "err", song |-> t])
  /\ UNCHANGED <<list, shown, guards, built, silent, fromNode>>

FetchFailed(i) ==
  /\ Done(i, "fetch")
  /\ file[jobs[i].track] = "missing"
  /\ jobs' = Without(i)
  /\ OnError
  /\ UNCHANGED <<list, built, engine, ports>>

\* The decode actor.  The machine hears of the last one started only, and only
\* while it decodes; the engine keeps the module unless one was loaded.
Decoded(i) ==
  /\ Done(i, "decode")
  /\ jobs' = Without(i)
  /\ LET t == jobs[i].track
         wanted == pending = t
         good == file[t] = "good"
         heard == transport = "decoding" /\ \A j \in i + 1 .. Len(jobs) : jobs[j].kind # "decode"
         kept == wanted /\ good /\ ~loaded IN
     /\ meta' = IF track = t /\ wanted /\ good THEN t ELSE meta
     /\ transport' = IF ~heard THEN transport
                     ELSE IF wanted /\ ~good THEN "error" ELSE "ready"
     /\ song' = IF kept THEN t ELSE song
     /\ over' = (kept \/ over)
  /\ UNCHANGED <<list, track, pending, error, far, guards, built, silent, loaded, ports>>

DecodeTimeout ==
  /\ transport = "decoding" /\ transport' = "error"
  /\ UNCHANGED <<place, calls, list, track, pending, meta, error, far, guards, jobs, built, astray, engine, ports>>

\* The delayed skip past an unplayable track.
Skip ==
  /\ skips > 0 /\ skips' = skips - 1
  /\ IF error THEN PlayNext ELSE UNCHANGED <<index, jobs, built, shown, engine>>
  /\ UNCHANGED <<place, calls, astray, queue, planned, shuffle, order, failures, ports>>

\* The timer that finds the audio clock behind by seconds seeks to where it was.
Watchdog ==
  /\ Playing /\ track # None /\ loaded /\ over
  /\ SetPos
  /\ UNCHANGED <<place, calls, list, shown, guards, jobs, built, astray, ports>>

Resolves(i) == Resolved(i) \/ ResolveFailed(i)
Wakes(i)    == Awake(i) \/ NeverUp(i)
Answered(i) == Fetched(i) \/ FetchFailed(i)

Later ==
  \/ \E i \in DOMAIN jobs : Resolves(i) \/ Wakes(i) \/ Answered(i) \/ Decoded(i)
  \/ DecodeTimeout \/ Skip \/ Watchdog

-----------------------------------------------------------------------------
(* The engine, and the events it posts.                                    *)

Sounding == song # None /\ ~over /\ ~silent

Sound(past) ==
  /\ Sounding /\ Len(fromNode) < MaxEvents
  /\ fromNode' = Append(fromNode, [cmd |-> "pos", song |-> song, far |-> past])
  /\ UNCHANGED <<place, calls, list, shown, guards, jobs, built, astray, engine, fromWorker>>

PlayOut ==
  /\ Sounding /\ Len(fromNode) < MaxEvents
  /\ over' = TRUE
  /\ fromNode' = Append(fromNode, [cmd |-> "end", song |-> song])
  /\ UNCHANGED <<place, calls, list, shown, guards, jobs, built, astray, song, silent, loaded, fromWorker>>

\* onMetadata: applyMeta and saveMeta, and the seek back after a rebuild.
OnMetadataAs(m, left) ==
  /\ fromWorker # <<>> /\ Head(fromWorker).cmd = "meta"
  /\ fromWorker' = Tail(fromWorker)
  /\ meta' = m
  /\ astray' = astray \cup (IF tidy THEN {resume} \ {None, Head(fromWorker).song} ELSE {})
  /\ IF resume # None THEN SetPos ELSE UNCHANGED engine
  /\ resume' = left
  /\ UNCHANGED <<place, calls, list, track, pending, transport, error, far, guards, jobs, kind, tidy, fromNode>>

MetaShown == IF track = None THEN meta ELSE Head(fromWorker).song

\* Mutant: metadata already shown are not replaced.
OnMetadataIfNew == OnMetadataAs(IF meta # None THEN meta ELSE MetaShown, None)

OnMetadata == OnMetadataAs(MetaShown, None)

OnLoadError ==
  /\ fromWorker # <<>> /\ Head(fromWorker).cmd = "err"
  /\ fromWorker' = Tail(fromWorker)
  /\ OnError
  /\ UNCHANGED <<place, calls, list, jobs, built, astray, engine, fromNode>>

\* onProgress
OnProgress ==
  /\ fromNode # <<>> /\ Head(fromNode).cmd = "pos"
  /\ fromNode' = Tail(fromNode)
  /\ failures' = 0
  /\ far' = Head(fromNode).far
  /\ UNCHANGED <<place, calls, list, track, pending, meta, transport, error, skips, jobs, built, astray, engine, fromWorker>>

OnEnded ==
  /\ fromNode # <<>> /\ Head(fromNode).cmd = "end"
  /\ fromNode' = Tail(fromNode)
  /\ IF CanNext THEN PlayNext
     ELSE Send("ENDED") /\ UNCHANGED <<index, jobs, built, track, pending, meta, error, far, engine>>
  /\ UNCHANGED <<place, calls, astray, queue, planned, shuffle, order, guards, fromWorker>>

FromWorker == OnMetadata \/ OnLoadError
FromNode == OnProgress \/ OnEnded
Engine == PlayOut \/ \E past \in BOOLEAN : Sound(past)

Next == User \/ Later \/ FromWorker \/ FromNode \/ Engine

\* Promises settle, timers fire and events are delivered, in whatever order: while
\* there are any, one of them does.  No user need act, and no song need end.
Fairness == WF_vars(Later \/ FromWorker \/ FromNode)

Spec == Init /\ [][Next]_vars
FairSpec == Spec /\ Fairness

-----------------------------------------------------------------------------
(* Properties.                                                             *)

\* Nothing that was asked for is still under way.
Quiet == jobs = <<>> /\ fromWorker = <<>> /\ skips = 0

\* Once nothing is under way, what sounds is the track shown, under its own
\* metadata, whatever was picked, skipped or failed to parse in between: the
\* answers load() waits for, onMetadata and the skip timer do not say what
\* they are about, and only their order keeps them apart.  And what the transport
\* shows as playing or paused, if it can be played at all, is loaded: no stop, end
\* or failure of an earlier track took it away.  A seek back to where a track
\* stalled (resumeSeek) is made in that track, if it can be played again.
NowPlaying ==
  /\ tidy /\ Quiet /\ track # None =>
       /\ Sounding => song = track /\ meta = track
       /\ Playing /\ file[track] = "good" => song = track
  /\ \A t \in astray : file[t] # "good"

\* With the tracks in memory the queue's index is at any time that of the track
\* shown, also when next follows a click that the plan has not caught up with:
\* from it playPrev, rollNext and onEnded go on (queueIndex and current).
IndexNamesTrack ==
  world.memory /\ track # None => index \in DOMAIN queue /\ queue[index] = track

\* A queue of which nothing can be played is given up for good, however it is
\* shuffled and whatever was picked meanwhile (consecutiveErrors in onError).
GivesUp ==
  (\A t \in Tracks : file[t] # "good") => <>[](skips = 0 /\ jobs = <<>>)

\* A track that is shown as playing and is loaded is not held by the worklet's
\* pause flag (player.svelte.ts:303-305; no load or stop resets that flag).
PauseShown == Quiet /\ transport = "playing" /\ song = track => ~silent
=============================================================================
