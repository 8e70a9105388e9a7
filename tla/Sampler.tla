------------------------------- MODULE Sampler -------------------------------
(***************************************************************************)
(* The sampler (jam.ts) and who plays it: the keyboard, the waveform, the  *)
(* pattern editor's auditions and its sequencer, next to the song.         *)
(*                                                                         *)
(* A note is asked for, wakes the audio, asks the worker for the sample    *)
(* unless it is cached, and sounds, whatever has happened meanwhile: the   *)
(* key is up, another sample is selected, another track is shown, edit     *)
(* mode is left.  The worker answers in the order it is asked, from the    *)
(* module it has then, so an answer is settled when it is asked for.       *)
(***************************************************************************)
EXTENDS Integers, Sequences, FiniteSets, SequencesExt

CONSTANTS Tracks,   \* files, all with the same sample numbers
          Idx,      \* sample numbers
          First,    \* the one selected when a song comes
          Looped,   \* the samples that sound until they are stopped
          Keys,     \* of the keyboard
          Plays,    \* calls of seqPlay that may be under way at a time
          None,     \* no track, no module, no song
          Unread, Null,  \* not in the cache; cached as nothing
          MaxCalls  \* bound: gestures

ASSUME SamplerAssumption ==
  /\ First \in Idx /\ Looped \subseteq Idx /\ IsFiniteSet(Idx) /\ MaxCalls \in Nat
  /\ {None, Unread} \cap Tracks = {}
  /\ Keys \cap Plays = {} /\ {"wave", "edit"} \cap (Keys \cup Plays) = {}

VARIABLES shown, show, song,  \* playback.current, the transport, playback.song
          eng,       \* the engine: module, playing, over, the worklet's pause
          coming,    \* files being fetched, to be played or decoded
          replies,   \* port of the worker to the main thread
          cache, gen,    \* bufCache, bufGen
          waking,    \* notes and seqPlays that wait for wakeAudio
          voices, nextVoice,
          open,      \* whether the samples view is open
          mount,     \* how often its keyboard and waveform have gone
          sel, active,   \* selected sample; what the keyboard holds by key
          wave,      \* SampleWave: auditionId, and whether it is pressed
          audition,  \* auditionNote: the last voice, and those with a timer
          editing, resume,   \* edit mode, editResumeSong
          plays,     \* of each seqPlay the samples it waits for
          seq,       \* the sequencer: seqPlaying, seqOut, what it sounds
          history,   \* see below
          calls

player   == <<shown, show, song, eng, coming>>
sampler  == <<cache, gen, voices, nextVoice>>
panes    == <<open, mount, sel, active, wave>>
holders  == <<panes, audition>>
editor   == <<editing, resume, plays, seq>>
jamVars  == <<player, replies, waking, sampler, holders, editor, history, calls>>

Jobs    == Keys \cup {"wave", "edit"} \cup Plays
Job     == [by : Jobs, idx : Idx, mount : Nat]
Waiting == [at |-> "off", left |-> {}]

Reply   == [what : {"meta", "decoded"}, of : Tracks]
             \cup [what : {"pcm"}, of : Tracks \cup {Null}, gen : Nat, job : Job]

JamTypeOK ==
  /\ shown \in Tracks \cup {None} /\ song \in Tracks \cup {None}
  /\ show \in {"empty", "cued", "playing", "paused", "ended", "stopped"}
  /\ eng \in [mod : Tracks \cup {None}, on : BOOLEAN, over : BOOLEAN, muted : BOOLEAN]
  /\ coming \in Seq([of : Tracks, to : {"load", "decode"}])
  /\ cache \in [Idx -> Tracks \cup {Unread, Null}] /\ gen \in Nat
  /\ replies \in Seq(Reply) /\ waking \in Seq(Job)
  /\ nextVoice \in Nat \ {0}
  /\ voices \subseteq [id : 1..(nextVoice - 1), by : Jobs \ Plays, idx : Idx, mount : Nat]
  /\ open \in BOOLEAN /\ mount \in Nat
  /\ sel \in Idx /\ active \in [Keys -> -1..(nextVoice - 1)]
  /\ wave \in [id : {-1} \cup 1..(nextVoice - 1), down : BOOLEAN]
  /\ audition \in [last : {-1} \cup 1..(nextVoice - 1), timers : SUBSET (1..(nextVoice - 1))]
  /\ editing \in BOOLEAN /\ resume \in BOOLEAN
  /\ plays \in [Plays -> [at : {"off", "wake", "read"}, left : SUBSET Idx]]
  /\ seq \in [on : BOOLEAN, out : BOOLEAN, voice : Tracks \cup {None}]
  /\ history \in [early : SUBSET Idx, quick : BOOLEAN, strayed : BOOLEAN, overlap : BOOLEAN, lost : BOOLEAN]
  /\ calls \in 0..MaxCalls

Silence == [on |-> FALSE, out |-> FALSE, voice |-> None]

JamInit ==
  /\ shown = None /\ show = "empty" /\ song = None
  /\ eng = [mod |-> None, on |-> FALSE, over |-> FALSE, muted |-> FALSE]
  /\ coming = <<>> /\ replies = <<>> /\ waking = <<>>
  /\ cache = [i \in Idx |-> Unread] /\ gen = 0
  /\ voices = {} /\ nextVoice = 1
  /\ open \in BOOLEAN /\ mount = 0
  /\ sel = First /\ active = [k \in Keys |-> 0]
  /\ wave = [id |-> -1, down |-> FALSE]
  /\ audition = [last |-> -1, timers |-> {}]
  /\ editing = FALSE /\ resume = FALSE
  /\ plays = [p \in Plays |-> Waiting] /\ seq = Silence
  /\ history = [early |-> {}, quick |-> FALSE, strayed |-> FALSE, overlap |-> FALSE, lost |-> FALSE]
  /\ calls = MaxCalls

Call     == calls > 0 /\ calls' = calls - 1
Underway == \E p \in Plays : plays[p].at # "off"
Sounding == eng.mod # None /\ eng.on /\ ~eng.over /\ ~eng.muted

\* History: that a seqPlay which waits loses its edit mode, or edit mode has not
\* silenced the song.
Stray(bad) == [history EXCEPT !.strayed = @ \/ bad]

-----------------------------------------------------------------------------
(* Shared parts.                                                            *)

\* seqStop: the graph goes, the timer with it.
SeqStop == seq' = Silence

ClearEdits == editing' = FALSE /\ SeqStop

\* jamStopAll, and the keyboard holds nothing.
Hush == voices' = {} /\ active' = [k \in Keys |-> 0]

\* Keyboard and waveform are there while the view is open and shows a song.
Mounted == open /\ song # None

\* They go: what sounds is cut, what they hold or wait for is nobody's.
Unmount == Hush /\ mount' = mount + 1 /\ wave' = [id |-> -1, down |-> FALSE]

\* playback.song changes: the samples view goes back to the first sample.  Without a
\* song keyboard and waveform go, with one they come, or the keyboard drops what it
\* holds if the sample is another one.
SongShown(s, vs) ==
  /\ song' = s /\ sel' = First
  /\ \/ /\ Mounted /\ s = None
        /\ Unmount
     \/ /\ open /\ s # None /\ (song = None \/ sel # First)
        /\ Hush /\ UNCHANGED <<mount, wave>>
     \/ /\ ~open \/ (song = None /\ s = None) \/ (Mounted /\ s # None /\ sel = First)
        /\ voices' = vs /\ UNCHANGED <<active, mount, wave>>

EngineStop == eng' = [eng EXCEPT !.mod = None, !.on = FALSE, !.over = FALSE]

Without(id) == {v \in voices : v.id # id}

\* Another call of wakeAudio.
Await(job) == waking' = Append(waking, job)

\* Mutant: without a module it is an answer like any other.
AskAnyway(job) == [what |-> "pcm", of |-> eng.mod, gen |-> gen, job |-> job]

\* eng.readSample: what the answer will be, and, for the history, whether the module
\* is the one of the track shown.
Ask(job) ==
  [what |-> "pcm", of |-> IF eng.mod = None THEN Null ELSE eng.mod, gen |-> gen, job |-> job]
Misread(is) == [history EXCEPT !.early = IF eng.mod = shown THEN @ ELSE @ \cup is]

-----------------------------------------------------------------------------
(* The song.                                                                *)

Play(t) ==
  /\ Len(coming) < 2
  /\ shown' = t /\ show' = "playing"
  /\ EngineStop
  /\ SongShown(None, {})
  /\ gen' = gen + 1 /\ cache' = [i \in Idx |-> Unread]
  /\ ClearEdits
  /\ coming' = Append(coming, [of |-> t, to |-> "load"])
  /\ history' = [Stray(Underway) EXCEPT !.early = {}]
  /\ UNCHANGED <<replies, waking, nextVoice, open, audition, resume, plays>>

\* A track is picked, or the one shown is played again from a transport at rest.
PlayTrack(t) == Call /\ Play(t)

\* cueTrack: nothing is stopped but the editor, and the samples stay cached.
Cue(t) ==
  /\ Call
  /\ Len(coming) < 2
  /\ shown' = t /\ show' = "cued"
  /\ SongShown(None, voices)
  /\ ClearEdits
  /\ coming' = Append(coming, [of |-> t, to |-> "decode"])
  /\ history' = [Stray(Underway) EXCEPT !.early = Idx]
  /\ UNCHANGED <<eng, replies, waking, cache, gen, nextVoice, open, audition, resume, plays>>

\* A file is there, whichever of those on their way.
Fetched(i) ==
  /\ coming' = RemoveAt(coming, i)
  /\ LET t == coming[i].of
     IN  \/ /\ coming[i].to = "load"
            /\ eng' = [eng EXCEPT !.mod = t, !.on = TRUE, !.over = FALSE]
            /\ replies' = Append(replies, [what |-> "meta", of |-> t])
         \/ /\ coming[i].to = "decode" /\ shown = t
            /\ eng' = IF eng.on THEN eng ELSE [eng EXCEPT !.mod = t]
            /\ replies' = Append(replies, [what |-> "decoded", of |-> t])
         \/ coming[i].to = "decode" /\ shown # t /\ UNCHANGED <<eng, replies>>
  /\ UNCHANGED <<shown, show, song, waking, sampler, holders, editor, history, calls>>

Ends ==
  /\ Sounding
  /\ eng' = [eng EXCEPT !.over = TRUE]
  /\ show' = IF show = "playing" THEN "ended" ELSE show
  /\ UNCHANGED <<shown, song, coming, replies, waking, sampler, holders, editor, history, calls>>

\* togglePause; in edit mode it stops the pattern loop.
TogglePause ==
  /\ Call
  /\ \/ /\ editing /\ SeqStop
        /\ UNCHANGED <<show, eng>>
     \/ /\ ~editing /\ show \in {"playing", "paused"}
        /\ eng' = [eng EXCEPT !.muted = ~@]
        /\ show' = IF show = "playing" THEN "paused" ELSE "playing"
        /\ UNCHANGED seq
  /\ UNCHANGED <<shown, song, coming, replies, waking, sampler, holders, editing, resume, plays, history>>

Stop ==
  /\ Call
  /\ shown # None
  /\ show' = "stopped"
  /\ EngineStop
  /\ IF seq.on THEN SeqStop ELSE UNCHANGED seq
  /\ UNCHANGED <<shown, song, coming, replies, waking, sampler, holders, editing, resume, plays, history>>

-----------------------------------------------------------------------------
(* The keyboard, the waveform, the auditions.                               *)

Down(k) ==
  /\ Call
  /\ Mounted /\ active[k] = 0
  /\ active' = [active EXCEPT ![k] = -1]
  /\ Await([by |-> k, idx |-> sel, mount |-> mount])
  /\ UNCHANGED <<player, replies, sampler, open, mount, sel, wave, audition, editor, history>>

Up(k) ==
  /\ active[k] # 0
  /\ active' = [active EXCEPT ![k] = 0]
  /\ voices' = Without(active[k])
  /\ UNCHANGED <<player, replies, waking, cache, gen, nextVoice, open, mount, sel, wave, audition, editor, history, calls>>

\* Another sample is selected: what sounds is cut.
Select(i) ==
  /\ Call
  /\ Mounted /\ i # sel
  /\ sel' = i
  /\ Hush
  /\ UNCHANGED <<player, replies, waking, cache, gen, nextVoice, open, mount, wave, audition, editor, history>>

\* The samples view is opened, or another in its place.
OpenSamples ==
  /\ Call
  /\ ~open /\ open' = TRUE
  /\ sel' = First
  /\ IF song # None THEN Hush ELSE UNCHANGED <<voices, active>>
  /\ UNCHANGED <<player, replies, waking, cache, gen, nextVoice, mount, wave, audition, editor, history>>

LeaveSamples ==
  /\ Call
  /\ open /\ open' = FALSE
  /\ IF song # None THEN Unmount ELSE UNCHANGED <<voices, active, mount, wave>>
  /\ UNCHANGED <<player, replies, waking, cache, gen, nextVoice, sel, audition, editor, history>>

\* Whether one who asked is still there.
Here(job) == job.mount = mount

WaveBusy ==
  \/ \E i \in DOMAIN waking : waking[i].by = "wave" /\ Here(waking[i])
  \/ \E i \in DOMAIN replies : /\ replies[i].what = "pcm" /\ replies[i].job.by = "wave"
                               /\ Here(replies[i].job)

WaveDown ==
  /\ Call
  /\ Mounted
  /\ wave' = [wave EXCEPT !.down = TRUE]
  /\ Await([by |-> "wave", idx |-> sel, mount |-> mount])
  /\ history' = [history EXCEPT !.quick = @ \/ WaveBusy \/ wave.id # -1]
  /\ UNCHANGED <<player, replies, sampler, open, mount, sel, active, audition, editor>>

\* Released before it sounds it goes on sounding, and so does the first of two presses:
\* the history has it as quick.
WaveUp ==
  /\ wave.down
  /\ wave' = [id |-> -1, down |-> FALSE]
  /\ voices' = Without(wave.id)
  /\ history' = [history EXCEPT !.quick = @ \/ WaveBusy]
  /\ UNCHANGED <<player, replies, waking, cache, gen, nextVoice, open, mount, sel, active, audition, editor, calls>>

\* enterNote in the pattern view, with the instrument of the cell.
EnterNote(i) ==
  /\ Call
  /\ ~open /\ editing /\ song # None
  /\ voices' = Without(audition.last)
  /\ Await([by |-> "edit", idx |-> i, mount |-> mount])
  /\ UNCHANGED <<player, replies, cache, gen, nextVoice, holders, editor, history>>

\* The end of an audition, 350 ms after it began.
AuditionOver(id) ==
  /\ id \in audition.timers
  /\ audition' = [audition EXCEPT !.timers = @ \ {id}]
  /\ voices' = Without(id)
  /\ UNCHANGED <<player, replies, waking, cache, gen, nextVoice, panes, editor, history, calls>>

\* A sample without a loop ends by itself.
VoiceEnds(v) ==
  /\ v \in voices /\ v.idx \notin Looped
  /\ voices' = voices \ {v}
  /\ UNCHANGED <<player, replies, waking, cache, gen, nextVoice, holders, editor, history, calls>>

\* jamNote has its sample, or there is none: the rest of it, and of its caller.
NoSound(job) ==
  /\ wave' = IF job.by = "wave" /\ Here(job) THEN [wave EXCEPT !.id = -1] ELSE wave
  /\ audition' = IF job.by = "edit" THEN [audition EXCEPT !.last = -1] ELSE audition
  /\ UNCHANGED <<voices, nextVoice, active>>

SoundUnless(job, late) ==
  LET id    == nextVoice
      voice == [id |-> id, by |-> job.by, idx |-> job.idx, mount |-> job.mount]
  IN  /\ nextVoice' = id + 1
      /\ voices' = IF late THEN voices ELSE voices \cup {voice}
      /\ active' = IF job.by \in Keys /\ Here(job) /\ active[job.by] = -1
                   THEN [active EXCEPT ![job.by] = id] ELSE active
      /\ wave' = IF job.by = "wave" /\ Here(job) THEN [wave EXCEPT !.id = id] ELSE wave
      /\ audition' = IF job.by = "edit" THEN [last |-> id, timers |-> audition.timers \cup {id}] ELSE audition

\* Mutant: a key released before its voice came back is not looked at.
SoundRegardless(job) == SoundUnless(job, FALSE)

\* A key that is not held by then, or has gone with its keyboard, stops the voice at once.
Sound(job) == SoundUnless(job, job.by \in Keys /\ ~(Here(job) /\ active[job.by] = -1))

Played(job, of) == IF of = Null THEN NoSound(job) ELSE Sound(job)

-----------------------------------------------------------------------------
(* Edit mode and the sequencer.                                             *)

LoadComing == \E i \in DOMAIN coming : coming[i].to = "load"

EnterEdit ==
  /\ Call
  /\ ~editing /\ editing' = TRUE
  /\ resume' = (show = "playing")
  /\ eng' = [eng EXCEPT !.muted = @ \/ resume']
  /\ history' = Stray(~eng'.muted /\ (Sounding \/ LoadComing))
  /\ UNCHANGED <<shown, show, song, coming, replies, waking, sampler, holders, plays, seq>>

\* Mutant: the song is resumed, the pattern goes on.
LeaveEditPlaying ==
  /\ Call
  /\ editing /\ editing' = FALSE
  /\ eng' = [eng EXCEPT !.muted = @ /\ ~resume]
  /\ resume' = FALSE
  /\ history' = Stray(Underway)
  /\ UNCHANGED <<seq, shown, show, song, coming, replies, waking, sampler, holders, plays>>

LeaveEdit ==
  /\ Call
  /\ editing /\ editing' = FALSE
  /\ SeqStop
  /\ eng' = [eng EXCEPT !.muted = @ /\ ~resume]
  /\ resume' = FALSE
  /\ history' = Stray(Underway)
  /\ UNCHANGED <<shown, show, song, coming, replies, waking, sampler, holders, plays>>

\* seqToggle while the pattern plays.
SeqToggleOff ==
  /\ Call
  /\ editing /\ seq.on
  /\ SeqStop
  /\ UNCHANGED <<player, replies, waking, sampler, holders, editing, resume, plays, history>>

\* seqPlay, up to its first await.
SeqPlay(p) ==
  /\ Call
  /\ editing /\ ~seq.on /\ song # None
  /\ plays[p].at = "off"
  /\ plays' = [plays EXCEPT ![p].at = "wake"]
  /\ Await([by |-> p, idx |-> First, mount |-> mount])
  /\ history' = [history EXCEPT !.overlap = @ \/ Underway]
  /\ UNCHANGED <<player, replies, sampler, holders, editing, resume, seq>>

\* seqSetup and the start of the timer, over whatever graph there is.
SeqStart(p, before, h) ==
  /\ plays' = [plays EXCEPT ![p] = Waiting]
  /\ seq' = [on |-> TRUE, out |-> TRUE, voice |-> None]
  /\ history' = [h EXCEPT !.lost = @ \/ before.out]

\* seqSchedule: a looped note of the pattern begins.
SeqTick ==
  /\ seq.out /\ song # None
  /\ \E i \in Looped : /\ cache[i] \in Tracks
                        /\ seq' = [seq EXCEPT !.voice = cache[i]]
  /\ UNCHANGED <<player, replies, waking, sampler, holders, editing, resume, plays, history, calls>>

-----------------------------------------------------------------------------
(* What follows.                                                            *)

\* wakeAudio has ended for one of those who wait.
Awake(n) ==
  LET job  == waking[n]
      need == SetToSeq({i \in Idx : cache[i] = Unread})
  IN
  /\ waking' = RemoveAt(waking, n)
  /\ \/ /\ job.by \in Plays /\ need # <<>>
        /\ SeqStop
        /\ plays' = [plays EXCEPT ![job.by] = [at |-> "read", left |-> ToSet(need)]]
        /\ replies' = replies \o [j \in DOMAIN need |-> Ask([job EXCEPT !.idx = need[j]])]
        /\ history' = Misread(ToSet(need))
        /\ UNCHANGED <<voices, nextVoice, active, wave, audition>>
     \/ /\ job.by \in Plays /\ need = <<>>
        /\ SeqStart(job.by, Silence, history)
        /\ UNCHANGED <<replies, voices, nextVoice, active, wave, audition>>
     \/ /\ job.by \notin Plays /\ cache[job.idx] # Unread
        /\ Played(job, cache[job.idx])
        /\ UNCHANGED <<replies, plays, seq, history>>
     \/ /\ job.by \notin Plays /\ cache[job.idx] = Unread
        /\ replies' = Append(replies, Ask(job))
        /\ history' = Misread({job.idx})
        /\ UNCHANGED <<voices, nextVoice, active, wave, audition, plays, seq>>
  /\ UNCHANGED <<player, cache, gen, open, mount, sel, editing, resume, calls>>

\* applyMeta: of whatever module the report is, or of the track that was cued.
OnMeta ==
  /\ replies # <<>> /\ Head(replies).what \in {"meta", "decoded"}
  /\ LET t == Head(replies).of
     IN  IF Head(replies).what = "meta" \/ shown = t
         THEN SongShown(t, voices)
         ELSE UNCHANGED <<song, sel, active, voices, mount, wave>>
  /\ replies' = Tail(replies)
  /\ UNCHANGED <<shown, show, eng, coming, waking, cache, gen, nextVoice, open, audition, editor, history, calls>>

\* Mutant: cached whatever was loaded meanwhile.
OnPcmAnyGen ==
  /\ replies # <<>> /\ Head(replies).what = "pcm"
  /\ LET r == Head(replies)
         p == r.job.by
     IN  /\ cache' = [cache EXCEPT ![r.job.idx] = r.of]
         /\ p \notin Plays /\ Played(r.job, r.of)
         /\ UNCHANGED <<plays, seq, history>>
  /\ replies' = Tail(replies)
  /\ UNCHANGED <<player, waking, gen, open, mount, sel, editing, resume, calls>>

\* sampleBuffer has its answer, and caches it unless a track was loaded meanwhile.
OnPcm ==
  /\ replies # <<>> /\ Head(replies).what = "pcm"
  /\ LET r    == Head(replies)
         p    == r.job.by
         left == IF p \in Plays THEN plays[p].left \ {r.job.idx} ELSE {}
     IN  /\ cache' = IF r.gen = gen THEN [cache EXCEPT ![r.job.idx] = r.of] ELSE cache
         /\ \/ /\ p \notin Plays /\ Played(r.job, r.of)
               /\ UNCHANGED <<plays, seq, history>>
            \/ /\ p \in Plays /\ left # {}
               /\ plays' = [plays EXCEPT ![p].left = left]
               /\ UNCHANGED <<voices, nextVoice, active, wave, audition, seq, history>>
            \/ /\ p \in Plays /\ left = {}
               /\ SeqStart(p, seq, history)
               /\ UNCHANGED <<voices, nextVoice, active, wave, audition>>
  /\ replies' = Tail(replies)
  /\ UNCHANGED <<player, waking, gen, open, mount, sel, editing, resume, calls>>

-----------------------------------------------------------------------------
JamNext ==
  \/ \E t \in Tracks : PlayTrack(t) \/ Cue(t)
  \/ \E i \in DOMAIN coming : Fetched(i)
  \/ Ends \/ TogglePause \/ Stop
  \/ \E k \in Keys : Down(k) \/ Up(k)
  \/ \E i \in Idx : Select(i) \/ EnterNote(i)
  \/ OpenSamples \/ LeaveSamples \/ WaveDown \/ WaveUp
  \/ \E id \in audition.timers : AuditionOver(id)
  \/ \E v \in voices : VoiceEnds(v)
  \/ EnterEdit \/ LeaveEdit \/ SeqToggleOff \/ SeqTick
  \/ \E p \in Plays : SeqPlay(p)
  \/ \E n \in DOMAIN waking : Awake(n)
  \/ OnMeta \/ OnPcm

JamSpec == JamInit /\ [][JamNext]_jamVars

-----------------------------------------------------------------------------
(* Properties *)

\* A cached sample is one of the track shown, although a read of the last track's
\* may be answered after the next was loaded (bufGen): unless it was read while
\* the worker had another module, or none, or a track was cued since.
CacheIsTracks == \A i \in Idx \ history.early : cache[i] \in {Unread, shown}

\* Whatever sounds can be silenced: by the key that holds it, by the pointer on the
\* waveform, or by the timer of the audition, in whatever order keys, selections,
\* tracks and answers come.  Three notes of the waveform are excepted, which SampleWave
\* does not look after: one released before it sounds, the first of two that overlap
\* (both quick), and one it still waits for when it goes with its song or its view.
VoicesAreHeld ==
  \A v \in voices :
    CASE v.by \in Keys  -> active[v.by] = v.id
      [] v.by = "wave"  -> \/ v.mount # mount \/ history.quick
                           \/ wave.down /\ wave.id = v.id
      [] OTHER          -> v.id \in audition.timers

\* "Switching samples shouldn't leave the old (possibly looping) one playing": what keys
\* and waveform sound is the sample selected.  A note that is waited for while the
\* selection changes sounds as the old one: on the waveform, and on a key pressed again.
PlaysSelected ==
  \A v \in voices : v.by \in Keys \cup {"wave"} /\ v.mount = mount => v.idx = sel

\* "Pauses libopenmpt so you don't hear both": the song and the pattern never sound
\* together, if edit mode was entered with the song paused or pausable and not left
\* while the samples were being read.  And a graph of the sequencer is there only
\* while it is shown as playing, and never abandoned, unless two were being set up; and
\* what it plays are samples of the track shown, unless a looped one was read too early
\* (see early above).
SongXorPattern ==
  /\ ~history.strayed => ~(seq.on /\ Sounding)
  /\ seq.out => seq.on
  /\ history.lost => history.overlap
  /\ Looped \cap history.early = {} => seq.voice \in {None, shown}
=============================================================================
