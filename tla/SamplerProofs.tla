----------------------------- MODULE SamplerProofs -----------------------------
(* What holds of Sampler for any tracks, samples, keys and number of        *)
(* gestures, in whatever order audio wakes and the worker's answers come.   *)
EXTENDS Sampler, FiniteSetTheorems, SequenceTheorems, TLAPS

-----------------------------------------------------------------------------
(* Sequences.                                                              *)

LEMMA RemoveAtProperties ==
  ASSUME NEW S, NEW s \in Seq(S), NEW i \in DOMAIN s
  PROVE  /\ RemoveAt(s, i) \in Seq(S)
         /\ Len(RemoveAt(s, i)) = Len(s) - 1
         /\ \A j \in 1 .. Len(s) - 1 :
              RemoveAt(s, i)[j] = IF j < i THEN s[j] ELSE s[j + 1]
<1> DEFINE a == SubSeq(s, 1, i - 1)
           b == SubSeq(s, i + 1, Len(s))
<1>1. i \in 1 .. Len(s) /\ Len(s) \in Nat
  BY LenProperties
<1>2. /\ a \in Seq(S) /\ Len(a) = i - 1 /\ \A j \in 1 .. i - 1 : a[j] = s[j]
      /\ b \in Seq(S) /\ Len(b) = Len(s) - i
      /\ \A j \in 1 .. Len(s) - i : b[j] = s[i + j]
  BY <1>1
<1>3. RemoveAt(s, i) = a \o b
  BY DEF RemoveAt
<1> HIDE DEF a, b
<1>4. /\ a \o b \in Seq(S) /\ Len(a \o b) = Len(s) - 1
      /\ \A j \in 1 .. Len(s) - 1 : (a \o b)[j] = IF j < i THEN a[j] ELSE b[j - (i - 1)]
  <2>1. Len(a) + Len(b) = Len(s) - 1
    BY <1>1, <1>2
  <2>2. a \o b \in Seq(S) /\ Len(a \o b) = Len(a) + Len(b)
        /\ \A j \in 1 .. Len(a) + Len(b) :
             (a \o b)[j] = IF j <= Len(a) THEN a[j] ELSE b[j - Len(a)]
    BY <1>2, ConcatProperties
  <2>3. ASSUME NEW j \in 1 .. Len(s) - 1
        PROVE  (a \o b)[j] = IF j < i THEN a[j] ELSE b[j - (i - 1)]
    <3>1. Len(a) = i - 1 /\ j \in 1 .. Len(a) + Len(b) /\ (j <= i - 1 <=> j < i)
      BY <1>1, <1>2, <2>1, SMTT(30)
    <3>2. (a \o b)[j] = IF j <= i - 1 THEN a[j] ELSE b[j - (i - 1)]
      BY <2>2, <3>1, Zenon
    <3> QED  BY <3>1, <3>2, Zenon
  <2>4. a \o b \in Seq(S) /\ Len(a \o b) = Len(s) - 1
    BY <2>1, <2>2, Zenon
  <2> QED  BY <2>3, <2>4
<1>5. ASSUME NEW j \in 1 .. Len(s) - 1, ~(j < i)  PROVE b[j - (i - 1)] = s[j + 1]
  <2>1. j - (i - 1) \in 1 .. Len(s) - i /\ i + (j - (i - 1)) = j + 1
    BY <1>1, <1>5
  <2> QED  BY <1>2, <2>1
<1> QED  BY <1>1, <1>2, <1>3, <1>4, <1>5

\* r holds entries of s, none of them twice.
Picks(f, r, s) ==
  /\ f \in [DOMAIN r -> DOMAIN s]
  /\ \A i \in DOMAIN r : r[i] = s[f[i]]
  /\ \A i, j \in DOMAIN r : f[i] = f[j] => i = j

\* RemoveAt leaves the other entries, and entry n is none of them.
LEMMA Removed ==
  ASSUME NEW S, NEW s \in Seq(S), NEW n \in DOMAIN s
  PROVE  /\ RemoveAt(s, n) \in Seq(S)
         /\ \E f : /\ Picks(f, RemoveAt(s, n), s)
                   /\ \A i \in DOMAIN RemoveAt(s, n) : f[i] # n
<1> DEFINE r == RemoveAt(s, n)
           f == [i \in 1 .. Len(s) - 1 |-> IF i < n THEN i ELSE i + 1]
<1>1. n \in 1 .. Len(s) /\ Len(s) \in Nat /\ DOMAIN s = 1 .. Len(s)
  BY LenProperties
<1>2. /\ r \in Seq(S) /\ DOMAIN r = 1 .. Len(s) - 1
      /\ \A i \in 1 .. Len(s) - 1 : r[i] = IF i < n THEN s[i] ELSE s[i + 1]
  BY <1>1, RemoveAtProperties, LenProperties
<1> HIDE DEF r
<1>3. Picks(f, r, s) /\ \A i \in DOMAIN r : f[i] # n
  BY <1>1, <1>2 DEF Picks
<1> QED  BY <1>2, <1>3 DEF r

\* Tail leaves all entries but the first.
LEMMA Tailed ==
  ASSUME NEW S, NEW s \in Seq(S), s # <<>>
  PROVE  /\ Head(s) = s[1] /\ 1 \in DOMAIN s /\ Tail(s) \in Seq(S) /\ s[1] \in S
         /\ \E f : /\ Picks(f, Tail(s), s)
                   /\ \A i \in DOMAIN Tail(s) : f[i] # 1
<1> DEFINE f == [i \in 1 .. Len(s) - 1 |-> i + 1]
<1>1. Len(s) \in Nat /\ Len(s) # 0 /\ DOMAIN s = 1 .. Len(s)
  BY LenProperties, EmptySeq
<1>2. /\ Head(s) = s[1] /\ Tail(s) \in Seq(S)
      /\ DOMAIN Tail(s) = 1 .. Len(s) - 1 /\ \A i \in 1 .. Len(s) - 1 : Tail(s)[i] = s[i + 1]
  BY <1>1, HeadTailProperties, LenProperties
<1>3. Picks(f, Tail(s), s) /\ \A i \in DOMAIN Tail(s) : f[i] # 1
  BY <1>1, <1>2 DEF Picks
<1> QED  BY <1>1, <1>2, <1>3

LEMMA Appended ==
  ASSUME NEW S, NEW s \in Seq(S), NEW x \in S
  PROVE  /\ Append(s, x) \in Seq(S) /\ Len(s) \in Nat /\ DOMAIN s = 1 .. Len(s)
         /\ DOMAIN Append(s, x) = 1 .. Len(s) + 1
         /\ \A i \in 1 .. Len(s) : Append(s, x)[i] = s[i]
         /\ Append(s, x)[Len(s) + 1] = x
  BY AppendProperties, LenProperties

\* SetToSeq lists each element of a finite set once.
LEMMA Listed ==
  ASSUME NEW S, IsFiniteSet(S)
  PROVE  /\ SetToSeq(S) \in Seq(S)
         /\ \A i, j \in DOMAIN SetToSeq(S) : SetToSeq(S)[i] = SetToSeq(S)[j] => i = j
<1>1. Cardinality(S) \in Nat
  BY FS_CardinalityType
<1> DEFINE F == [1 .. Cardinality(S) -> S]
           q == SetToSeq(S)
<1>2. \E f \in F : IsInjective(f)
  BY FS_CardinalityType DEF ExistsBijection, Bijection, Injection
<1>3. q \in F /\ IsInjective(q)
  BY <1>2 DEF SetToSeq
<1>4. F \subseteq Seq(S)
  BY <1>1, SeqDef
<1> QED  BY <1>3, <1>4 DEF IsInjective

-----------------------------------------------------------------------------
(* Type correctness.                                                       *)

Event == [what : {"meta", "decoded"}, of : Tracks]
Read  == [what : {"pcm"}, of : Tracks \cup {Null}, gen : Nat, job : Job]

PlayerOK ==
  /\ shown \in Tracks \cup {None} /\ song \in Tracks \cup {None}
  /\ show \in {"empty", "cued", "playing", "paused", "ended", "stopped"}
  /\ eng \in [mod : Tracks \cup {None}, on : BOOLEAN, over : BOOLEAN, muted : BOOLEAN]
  /\ coming \in Seq([of : Tracks, to : {"load", "decode"}])

CacheOK == cache \in [Idx -> Tracks \cup {Unread, Null}] /\ gen \in Nat

PortsOK == replies \in Seq(Reply) /\ waking \in Seq(Job)

VoicesOK ==
  /\ nextVoice \in Nat \ {0}
  /\ voices \subseteq [id : 1..(nextVoice - 1), by : Jobs \ Plays, idx : Idx, mount : Nat]
  /\ open \in BOOLEAN /\ mount \in Nat
  /\ active \in [Keys -> -1..(nextVoice - 1)]
  /\ wave \in [id : {-1} \cup 1..(nextVoice - 1), down : BOOLEAN]
  /\ audition \in [last : {-1} \cup 1..(nextVoice - 1), timers : SUBSET (1..(nextVoice - 1))]

EditorOK ==
  /\ sel \in Idx /\ editing \in BOOLEAN /\ resume \in BOOLEAN
  /\ plays \in [Plays -> [at : {"off", "wake", "read"}, left : SUBSET Idx]]
  /\ seq \in [on : BOOLEAN, out : BOOLEAN, voice : Tracks \cup {None}]

HistoryOK ==
  history \in [early : SUBSET Idx, quick : BOOLEAN, strayed : BOOLEAN, overlap : BOOLEAN, lost : BOOLEAN]

Parts == /\ PlayerOK /\ CacheOK /\ PortsOK /\ VoicesOK /\ EditorOK /\ HistoryOK
         /\ calls \in 0..MaxCalls

LEMMA TypeParts == (JamTypeOK <=> Parts) /\ (JamTypeOK' <=> Parts')
  BY DEF JamTypeOK, Parts, PlayerOK, CacheOK, PortsOK, VoicesOK, EditorOK, HistoryOK

\* What happens to one note of those that sound, or that are to sound.
LEMMA CutTyped ==
  ASSUME VoicesOK, voices' \subseteq voices, UNCHANGED <<nextVoice, audition>>,
         open' \in BOOLEAN, mount' = mount \/ mount' = mount + 1,
         wave' = wave \/ wave' = [id |-> -1, down |-> FALSE],
         \/ UNCHANGED active
         \/ active' = [k \in Keys |-> 0]
         \/ \E k \in Keys, n \in {-1, 0} : active' = [active EXCEPT ![k] = n]
  PROVE  VoicesOK'
<1>1. 0 \in -1..(nextVoice - 1) /\ -1 \in -1..(nextVoice - 1)
  BY DEF VoicesOK
<1>2. active' \in [Keys -> -1..(nextVoice - 1)]
  BY <1>1 DEF VoicesOK
<1>3. wave' \in [id : {-1} \cup 1..(nextVoice - 1), down : BOOLEAN]
  <2>1. CASE wave' = wave
    BY <2>1 DEF VoicesOK
  <2>2. CASE wave' = [id |-> -1, down |-> FALSE]
    BY <2>2
  <2> QED  BY <2>1, <2>2
<1>4. mount' \in Nat
  BY DEF VoicesOK
<1> QED  BY <1>2, <1>3, <1>4 DEF VoicesOK

LEMMA PlayedTyped ==
  ASSUME VoicesOK, NEW job \in Job, job.by \notin Plays, NEW of, Played(job, of),
         UNCHANGED <<open, mount>>
  PROVE  VoicesOK'
<1> DEFINE n == nextVoice
<1>1. n \in Nat \ {0} /\ job.by \in Jobs \ Plays /\ job.idx \in Idx /\ job.mount \in Nat
  BY DEF VoicesOK, Job
<1>2. CASE NoSound(job)
  <2>1. UNCHANGED <<voices, nextVoice, active>>
        /\ wave' \in {wave, [wave EXCEPT !.id = -1]}
        /\ audition' \in {audition, [audition EXCEPT !.last = -1]}
    BY <1>2, Zenon DEF NoSound
  <2> QED  BY <2>1 DEF VoicesOK
<1>3. CASE Sound(job)
  <2> DEFINE v == [id |-> n, by |-> job.by, idx |-> job.idx, mount |-> job.mount]
  <2>1. /\ nextVoice' = n + 1 /\ voices' \subseteq voices \cup {v}
        /\ active' = active \/ (job.by \in Keys /\ active' = [active EXCEPT ![job.by] = n])
        /\ wave' \in {wave, [wave EXCEPT !.id = n]}
        /\ audition' \in {audition, [last |-> n, timers |-> audition.timers \cup {n}]}
    BY <1>3, Zenon DEF Sound, SoundUnless
  <2>2. 1..(n - 1) \subseteq 1..n /\ -1..(n - 1) \subseteq -1..n /\ n \in 1..n /\ n \in -1..n
        /\ nextVoice' - 1 = n /\ nextVoice' \in Nat \ {0}
    BY <1>1, <2>1
  <2>3. v \in [id : 1..n, by : Jobs \ Plays, idx : Idx, mount : Nat]
    BY <1>1, <2>2
  <2>4. voices' \subseteq [id : 1..n, by : Jobs \ Plays, idx : Idx, mount : Nat]
    <3>1. voices \subseteq [id : 1..(n - 1), by : Jobs \ Plays, idx : Idx, mount : Nat]
      BY DEF VoicesOK
    <3>2. [id : 1..(n - 1), by : Jobs \ Plays, idx : Idx, mount : Nat]
            \subseteq [id : 1..n, by : Jobs \ Plays, idx : Idx, mount : Nat]
      BY <2>2
    <3> HIDE DEF v, n
    <3> QED  BY <2>1, <2>3, <3>1, <3>2
  <2>5. active' \in [Keys -> -1..n]
    BY <2>1, <2>2 DEF VoicesOK
  <2>6. wave' \in [id : {-1} \cup 1..n, down : BOOLEAN]
    BY <2>1, <2>2 DEF VoicesOK
  <2>7. audition' \in [last : {-1} \cup 1..n, timers : SUBSET (1..n)]
    BY <2>1, <2>2 DEF VoicesOK
  <2> QED  BY <2>2, <2>4, <2>5, <2>6, <2>7 DEF VoicesOK
<1> QED  BY <1>2, <1>3 DEF Played

LEMMA SameTyped ==
  /\ PlayerOK /\ UNCHANGED player => PlayerOK'
  /\ CacheOK /\ UNCHANGED <<cache, gen>> => CacheOK'
  /\ PortsOK /\ UNCHANGED <<replies, waking>> => PortsOK'
  /\ VoicesOK /\ UNCHANGED <<voices, nextVoice, open, mount, active, wave, audition>> => VoicesOK'
  /\ EditorOK /\ UNCHANGED <<sel, editor>> => EditorOK'
  /\ HistoryOK /\ UNCHANGED history => HistoryOK'
<1>1. PlayerOK /\ UNCHANGED player => PlayerOK'
  BY DEF PlayerOK, player
<1>2. CacheOK /\ UNCHANGED <<cache, gen>> => CacheOK'
  BY DEF CacheOK
<1>3. PortsOK /\ UNCHANGED <<replies, waking>> => PortsOK'
  BY DEF PortsOK
<1>4. VoicesOK /\ UNCHANGED <<voices, nextVoice, open, mount, active, wave, audition>> => VoicesOK'
  BY DEF VoicesOK
<1>5. EditorOK /\ UNCHANGED <<sel, editor>> => EditorOK'
  BY DEF EditorOK, editor
<1>6. HistoryOK /\ UNCHANGED history => HistoryOK'
  BY DEF HistoryOK
<1> QED  BY <1>1, <1>2, <1>3, <1>4, <1>5, <1>6

LEMMA SilenceTyped == Silence \in [on : BOOLEAN, out : BOOLEAN, voice : Tracks \cup {None}]
  BY DEF Silence

\* Something more is asked for, or comes from the worker.
LEMMA ToldTyped ==
  ASSUME PortsOK, NEW x \in Reply, replies' = Append(replies, x)
  PROVE  replies' \in Seq(Reply)
  BY AppendProperties DEF PortsOK

LEMMA AwaitTyped ==
  ASSUME PortsOK, NEW x \in Job, waking' = Append(waking, x)
  PROVE  waking' \in Seq(Job)
  BY AppendProperties DEF PortsOK

LEMMA AskTyped ==
  ASSUME JamTypeOK, NEW job \in Job
  PROVE  Ask(job) \in Reply
  BY DEF JamTypeOK, Ask, Reply

LEMMA HistoryTyped ==
  ASSUME HistoryOK, NEW b \in BOOLEAN, NEW is \in SUBSET Idx
  PROVE  /\ Stray(b) \in [early : SUBSET Idx, quick : BOOLEAN, strayed : BOOLEAN, overlap : BOOLEAN, lost : BOOLEAN]
         /\ Misread(is) \in [early : SUBSET Idx, quick : BOOLEAN, strayed : BOOLEAN, overlap : BOOLEAN, lost : BOOLEAN]
  BY DEF HistoryOK, Stray, Misread

LEMMA ShowTyped ==
  ASSUME JamTypeOK, NEW s \in Tracks \cup {None}, NEW vs \in SUBSET voices, SongShown(s, vs),
         UNCHANGED <<nextVoice, open, audition>>
  PROVE  song' \in Tracks \cup {None} /\ sel' \in Idx /\ VoicesOK'
<1>1. song' = s /\ sel' = First /\ voices' \subseteq voices
      /\ (UNCHANGED active \/ active' = [k \in Keys |-> 0])
      /\ (mount' = mount \/ mount' = mount + 1)
      /\ (wave' = wave \/ wave' = [id |-> -1, down |-> FALSE])
  BY DEF SongShown, Hush, Unmount
<1>2. VoicesOK'
  <2>1. VoicesOK /\ open' \in BOOLEAN
    BY TypeParts DEF Parts, VoicesOK
  <2> QED  BY <1>1, <2>1, CutTyped
<1> QED  BY <1>1, <1>2, SamplerAssumption

\* The main thread starts a track, the user plays a note, edit mode is entered or left.
LEMMA PlayerTyped ==
  ASSUME JamTypeOK, \/ \E t \in Tracks : PlayTrack(t) \/ Cue(t)
                    \/ \E i \in DOMAIN coming : Fetched(i)
                    \/ Ends \/ TogglePause \/ Stop
  PROVE  JamTypeOK'
<1>0. PlayerOK /\ CacheOK /\ PortsOK /\ VoicesOK /\ EditorOK /\ HistoryOK /\ calls \in 0..MaxCalls
  BY TypeParts DEF Parts
<1>1. MaxCalls \in Nat /\ Underway \in BOOLEAN /\ (Call => calls' \in 0..MaxCalls)
  BY <1>0, SamplerAssumption DEF Underway, Call
<1>2. [i \in Idx |-> Unread] \in [Idx -> Tracks \cup {Unread, Null}]
  OBVIOUS
<1>3. ASSUME NEW t \in Tracks, PlayTrack(t)  PROVE JamTypeOK'
  <2>1. coming' \in Seq([of : Tracks, to : {"load", "decode"}])
    BY <1>0, <1>3 DEF PlayTrack, Play, PlayerOK
  <2>2. eng' \in [mod : Tracks \cup {None}, on : BOOLEAN, over : BOOLEAN, muted : BOOLEAN]
    BY <1>0, <1>3 DEF PlayTrack, Play, PlayerOK, EngineStop
  <2>3. SongShown(None, {}) /\ UNCHANGED <<nextVoice, open, audition>>
    BY <1>3 DEF PlayTrack, Play
  <2>4. song' \in Tracks \cup {None} /\ sel' \in Idx /\ VoicesOK'
    BY <2>3, ShowTyped
  <2>5. PlayerOK'
    BY <1>0, <1>3, <2>1, <2>2, <2>4 DEF PlayTrack, Play, PlayerOK
  <2>6. CacheOK' /\ PortsOK'
    BY <1>0, <1>2, <1>3 DEF PlayTrack, Play, CacheOK, PortsOK
  <2>7. EditorOK'
    BY <1>0, <1>3, <2>4 DEF PlayTrack, Play, EditorOK, ClearEdits, SeqStop, Silence
  <2>8. HistoryOK'
    <3>1. history' = [Stray(Underway) EXCEPT !.early = {}]
      BY <1>3 DEF PlayTrack, Play
    <3> QED  BY <1>0, <1>1, <3>1, HistoryTyped DEF HistoryOK
  <2>9. calls' \in 0..MaxCalls
    BY <1>1, <1>3 DEF PlayTrack
  <2> QED  BY <2>4, <2>5, <2>6, <2>7, <2>8, <2>9, TypeParts DEF Parts
<1>4. ASSUME NEW t \in Tracks, Cue(t)  PROVE JamTypeOK'
  <2>1. coming' \in Seq([of : Tracks, to : {"load", "decode"}])
    BY <1>0, <1>4 DEF Cue, PlayerOK
  <2>2. SongShown(None, voices) /\ UNCHANGED <<nextVoice, open, audition>>
    BY <1>4 DEF Cue
  <2>3. song' \in Tracks \cup {None} /\ sel' \in Idx /\ VoicesOK'
    BY <2>2, ShowTyped
  <2>4. PlayerOK'
    BY <1>0, <1>4, <2>1, <2>3 DEF Cue, PlayerOK
  <2>5. CacheOK' /\ PortsOK' /\ calls' \in 0..MaxCalls
    BY <1>0, <1>1, <1>4 DEF Cue, CacheOK, PortsOK
  <2>6. EditorOK'
    BY <1>0, <1>4, <2>3 DEF Cue, EditorOK, ClearEdits, SeqStop, Silence
  <2>7. HistoryOK'
    <3>1. history' = [Stray(Underway) EXCEPT !.early = Idx]
      BY <1>4 DEF Cue
    <3> QED  BY <1>0, <1>1, <3>1, HistoryTyped DEF HistoryOK
  <2> QED  BY <2>3, <2>4, <2>5, <2>6, <2>7, TypeParts DEF Parts
<1>5. ASSUME NEW i \in DOMAIN coming, Fetched(i)  PROVE JamTypeOK'
  <2>1. coming[i] \in [of : Tracks, to : {"load", "decode"}]
        /\ coming' \in Seq([of : Tracks, to : {"load", "decode"}])
    <3> DEFINE C == [of : Tracks, to : {"load", "decode"}]
    <3>1. coming \in Seq(C)
      BY <1>0 DEF PlayerOK
    <3>2. RemoveAt(coming, i) \in Seq(C)
      BY <3>1, Removed
    <3>3. i \in 1 .. Len(coming)
      BY <3>1, LenProperties
    <3>4. coming[i] \in C
      BY <3>1, <3>3, ElementOfSeq
    <3> QED  BY <1>5, <3>2, <3>4 DEF Fetched
  <2>2. PICK t \in Tracks : t = coming[i].of
    BY <2>1
  <2>3. eng' \in [mod : Tracks \cup {None}, on : BOOLEAN, over : BOOLEAN, muted : BOOLEAN]
    BY <1>0, <1>5, <2>2 DEF Fetched, PlayerOK
  <2>4. PortsOK'
    <3>1. /\ UNCHANGED waking
          /\ \/ UNCHANGED replies
             \/ \E w \in {"meta", "decoded"} : replies' = Append(replies, [what |-> w, of |-> t])
      BY <1>5, <2>2 DEF Fetched
    <3>2. \A w \in {"meta", "decoded"} : [what |-> w, of |-> t] \in Reply
      BY DEF Reply
    <3>3. replies' \in Seq(Reply)
      BY <1>0, <3>1, <3>2, ToldTyped DEF PortsOK
    <3> QED  BY <1>0, <3>1, <3>3 DEF PortsOK
  <2>5. PlayerOK'
    BY <1>0, <1>5, <2>1, <2>3 DEF Fetched, PlayerOK
  <2>6. UNCHANGED <<sampler, holders, editor, history, calls>>
    BY <1>5 DEF Fetched
  <2>7. CacheOK' /\ VoicesOK' /\ EditorOK' /\ HistoryOK' /\ calls' \in 0..MaxCalls
    BY <1>0, <2>6, SameTyped DEF sampler, holders, panes
  <2> QED  BY <2>4, <2>5, <2>7, TypeParts DEF Parts
<1>6. CASE Ends \/ TogglePause \/ Stop
  <2>1. eng' \in [mod : Tracks \cup {None}, on : BOOLEAN, over : BOOLEAN, muted : BOOLEAN]
    BY <1>0, <1>6 DEF Ends, TogglePause, Stop, EngineStop, PlayerOK
  <2>2. show' \in {"empty", "cued", "playing", "paused", "ended", "stopped"}
    BY <1>0, <1>6 DEF Ends, TogglePause, Stop, PlayerOK
  <2>3. /\ UNCHANGED <<shown, song, coming, replies, waking, sampler, holders, editing, resume, plays, history>>
        /\ seq' \in {seq, Silence} /\ calls' \in 0..MaxCalls
    BY <1>0, <1>1, <1>6 DEF Ends, TogglePause, Stop, SeqStop, editor
  <2>4. PlayerOK'
    BY <1>0, <2>1, <2>2, <2>3 DEF PlayerOK
  <2>5. CacheOK' /\ PortsOK' /\ VoicesOK' /\ EditorOK' /\ HistoryOK'
    <3>1. EditorOK'
      <4>1. UNCHANGED <<sel, editing, resume, plays>>
        BY <2>3 DEF holders, panes
      <4>2. seq' \in [on : BOOLEAN, out : BOOLEAN, voice : Tracks \cup {None}]
        BY <1>0, <2>3, SilenceTyped DEF EditorOK
      <4> QED  BY <1>0, <4>1, <4>2 DEF EditorOK
    <3> QED  BY <1>0, <2>3, <3>1, SameTyped DEF sampler, holders, panes
  <2> QED  BY <2>3, <2>4, <2>5, TypeParts DEF Parts
<1> QED  BY <1>3, <1>4, <1>5, <1>6

LEMMA NotesTyped ==
  ASSUME JamTypeOK, \/ \E k \in Keys : Down(k) \/ Up(k)
                    \/ \E i \in Idx : Select(i) \/ EnterNote(i)
                    \/ OpenSamples \/ LeaveSamples \/ WaveDown \/ WaveUp
                    \/ \E id \in audition.timers : AuditionOver(id)
                    \/ \E v \in voices : VoiceEnds(v)
  PROVE  JamTypeOK'
<1>0. PlayerOK /\ CacheOK /\ PortsOK /\ VoicesOK /\ EditorOK /\ HistoryOK /\ calls \in 0..MaxCalls
  BY TypeParts DEF Parts
<1>1. MaxCalls \in Nat /\ (Call => calls' \in 0..MaxCalls)
  BY <1>0, SamplerAssumption DEF Call
<1>2. /\ UNCHANGED <<player, replies, cache, gen, nextVoice, editor>>
      /\ calls' \in 0..MaxCalls
  BY <1>0, <1>1 DEF Down, Up, Select, OpenSamples, LeaveSamples, EnterNote, WaveDown, WaveUp, AuditionOver,
     VoiceEnds, sampler, holders
<1>3. PlayerOK' /\ CacheOK'
  BY <1>0, <1>2, SameTyped
<1>4. PortsOK'
  <2>1. \/ UNCHANGED waking
        \/ \E b \in Keys \cup {"wave", "edit"}, i \in Idx :
              waking' = Append(waking, [by |-> b, idx |-> i, mount |-> mount])
    BY <1>0 DEF Down, Up, Select, OpenSamples, LeaveSamples, EnterNote, WaveDown, WaveUp, AuditionOver,
       VoiceEnds, Await, EditorOK
  <2>2. \A b \in Keys \cup {"wave", "edit"}, i \in Idx : [by |-> b, idx |-> i, mount |-> mount] \in Job
    BY <1>0 DEF VoicesOK, Job, Jobs
  <2>3. waking' \in Seq(Job)
    BY <1>0, <2>1, <2>2, AwaitTyped DEF PortsOK
  <2> QED  BY <1>0, <1>2, <2>3 DEF PortsOK
<1>5. EditorOK'
  <2>1. UNCHANGED <<editing, resume, plays, seq>> /\ sel' \in Idx
    BY <1>0, <1>2, SamplerAssumption DEF Down, Up, Select, OpenSamples, LeaveSamples, EnterNote,
       WaveDown, WaveUp, AuditionOver, VoiceEnds, holders, panes, editor, EditorOK
  <2> QED  BY <1>0, <2>1 DEF EditorOK
<1>6. HistoryOK'
  <2>1. UNCHANGED history \/ \E b \in BOOLEAN : history' = [history EXCEPT !.quick = b]
    BY <1>0 DEF Down, Up, Select, OpenSamples, LeaveSamples, EnterNote, WaveDown, WaveUp, AuditionOver,
       VoiceEnds, WaveBusy, HistoryOK
  <2> QED  BY <1>0, <2>1 DEF HistoryOK
<1>7. VoicesOK'
  <2>1. CASE (\E k \in Keys : Down(k) \/ Up(k)) \/ \E i \in Idx : Select(i) \/ EnterNote(i)
    <3>1. voices' \subseteq voices /\ UNCHANGED <<open, mount, wave, audition>>
      BY <2>1 DEF Down, Up, Select, EnterNote, Hush, Without, sampler, holders, panes
    <3>2. \/ UNCHANGED active
          \/ active' = [k \in Keys |-> 0]
          \/ \E k \in Keys, n \in {-1, 0} : active' = [active EXCEPT ![k] = n]
      BY <2>1 DEF Down, Up, Select, EnterNote, Hush, holders, panes
    <3>3. open' \in BOOLEAN
      BY <1>0, <3>1 DEF VoicesOK
    <3> QED  BY <1>0, <1>2, <3>1, <3>2, <3>3, CutTyped
  <2>2. CASE WaveDown \/ WaveUp
    <3>1. /\ voices' \subseteq voices /\ UNCHANGED <<open, mount, active, audition>>
          /\ wave' \in {[wave EXCEPT !.down = TRUE], [id |-> -1, down |-> FALSE]}
      BY <2>2 DEF WaveDown, WaveUp, Without, sampler
    <3>2. wave' \in [id : {-1} \cup 1..(nextVoice - 1), down : BOOLEAN]
      <4>1. CASE wave' = [wave EXCEPT !.down = TRUE]
        BY <1>0, <4>1 DEF VoicesOK
      <4>2. CASE wave' = [id |-> -1, down |-> FALSE]
        BY <4>2
      <4> QED  BY <3>1, <4>1, <4>2
    <3> QED  BY <1>0, <1>2, <3>1, <3>2 DEF VoicesOK
  <2>3. ASSUME NEW id \in audition.timers, AuditionOver(id)  PROVE VoicesOK'
    <3>1. /\ voices' \subseteq voices /\ UNCHANGED <<open, mount, active, wave>>
          /\ audition' = [audition EXCEPT !.timers = @ \ {id}]
      BY <2>3 DEF AuditionOver, Without, panes
    <3> QED  BY <1>0, <1>2, <3>1 DEF VoicesOK
  <2>4. ASSUME NEW v \in voices, VoiceEnds(v)  PROVE VoicesOK'
    <3>1. voices' \subseteq voices /\ UNCHANGED <<nextVoice, open, mount, active, wave, audition>>
      BY <2>4 DEF VoiceEnds, holders, panes
    <3>2. open' \in BOOLEAN
      BY <1>0, <3>1 DEF VoicesOK
    <3> QED  BY <1>0, <3>1, <3>2, CutTyped
  <2>5. CASE OpenSamples \/ LeaveSamples
    <3>1. /\ voices' \subseteq voices /\ UNCHANGED audition /\ open' \in BOOLEAN
          /\ mount' = mount \/ mount' = mount + 1
          /\ wave' = wave \/ wave' = [id |-> -1, down |-> FALSE]
          /\ UNCHANGED active \/ active' = [k \in Keys |-> 0]
      BY <2>5 DEF OpenSamples, LeaveSamples, Hush, Unmount
    <3> QED  BY <1>0, <1>2, <3>1, CutTyped
  <2> QED  BY <2>1, <2>2, <2>3, <2>4, <2>5
<1> QED  BY <1>2, <1>3, <1>4, <1>5, <1>6, <1>7, TypeParts DEF Parts

LEMMA EditTyped ==
  ASSUME JamTypeOK, \/ EnterEdit \/ LeaveEdit \/ SeqToggleOff \/ SeqTick
                    \/ \E p \in Plays : SeqPlay(p)
  PROVE  JamTypeOK'
<1>0. PlayerOK /\ CacheOK /\ PortsOK /\ VoicesOK /\ EditorOK /\ HistoryOK /\ calls \in 0..MaxCalls
  BY TypeParts DEF Parts
<1>1. MaxCalls \in Nat /\ (Call => calls' \in 0..MaxCalls)
  BY <1>0, SamplerAssumption DEF Call
<1>2. /\ UNCHANGED <<shown, show, song, coming, replies, sampler, holders>>
      /\ calls' \in 0..MaxCalls
  BY <1>0, <1>1 DEF EnterEdit, LeaveEdit, SeqToggleOff, SeqTick, SeqPlay, player
<1>3. CacheOK' /\ VoicesOK'
  BY <1>0, <1>2, SameTyped DEF sampler, holders, panes
<1>4. PlayerOK'
  <2>1. UNCHANGED eng \/ \E b \in BOOLEAN : eng' = [eng EXCEPT !.muted = b]
    <3>1. CASE EnterEdit
      <4>1. eng' = [eng EXCEPT !.muted = eng.muted \/ resume'] /\ (eng.muted \/ resume') \in BOOLEAN
        BY <3>1 DEF EnterEdit
      <4> QED  BY <4>1
    <3>2. CASE LeaveEdit
      <4>1. eng' = [eng EXCEPT !.muted = eng.muted /\ ~resume] /\ (eng.muted /\ ~resume) \in BOOLEAN
        BY <3>2 DEF LeaveEdit
      <4> QED  BY <4>1
    <3>3. CASE SeqToggleOff \/ SeqTick \/ \E p \in Plays : SeqPlay(p)
      BY <3>3 DEF SeqToggleOff, SeqTick, SeqPlay, player
    <3> QED  BY <3>1, <3>2, <3>3
  <2>2. eng' \in [mod : Tracks \cup {None}, on : BOOLEAN, over : BOOLEAN, muted : BOOLEAN]
    BY <1>0, <2>1 DEF PlayerOK
  <2> QED  BY <1>0, <1>2, <2>2 DEF PlayerOK
<1>5. PortsOK'
  <2>1. \/ UNCHANGED waking
        \/ \E p \in Plays : waking' = Append(waking, [by |-> p, idx |-> First, mount |-> mount])
    BY DEF EnterEdit, LeaveEdit, SeqToggleOff, SeqTick, SeqPlay, Await
  <2>2. \A p \in Plays : [by |-> p, idx |-> First, mount |-> mount] \in Job
    BY <1>0, SamplerAssumption DEF VoicesOK, Job, Jobs
  <2>3. waking' \in Seq(Job)
    BY <1>0, <2>1, <2>2, AwaitTyped DEF PortsOK
  <2> QED  BY <1>0, <1>2, <2>3 DEF PortsOK
<1>6. EditorOK'
  <2>1. sel' = sel
    BY <1>2 DEF holders, panes
  <2>2. plays' \in [Plays -> [at : {"off", "wake", "read"}, left : SUBSET Idx]]
    <3>1. UNCHANGED plays \/ \E p \in Plays : plays' = [plays EXCEPT ![p].at = "wake"]
      BY DEF EnterEdit, LeaveEdit, SeqToggleOff, SeqTick, SeqPlay
    <3> QED  BY <1>0, <3>1 DEF EditorOK
  <2>3. seq' \in [on : BOOLEAN, out : BOOLEAN, voice : Tracks \cup {None}]
    <3>1. \/ UNCHANGED seq \/ seq' = Silence \/ \E t \in Tracks : seq' = [seq EXCEPT !.voice = t]
      BY DEF EnterEdit, LeaveEdit, SeqToggleOff, SeqTick, SeqPlay, SeqStop
    <3>2. \A t \in Tracks : seq \in [on : BOOLEAN, out : BOOLEAN, voice : Tracks \cup {None}]
            => [seq EXCEPT !.voice = t] \in [on : BOOLEAN, out : BOOLEAN, voice : Tracks \cup {None}]
      OBVIOUS
    <3> QED  BY <1>0, <3>1, <3>2, SilenceTyped DEF EditorOK
  <2>4. editing' \in BOOLEAN /\ resume' \in BOOLEAN
    BY <1>0 DEF EnterEdit, LeaveEdit, SeqToggleOff, SeqTick, SeqPlay, EditorOK
  <2> QED  BY <1>0, <2>1, <2>2, <2>3, <2>4 DEF EditorOK
<1>7. HistoryOK'
  <2>1. \/ UNCHANGED history
        \/ \E b \in BOOLEAN : history' = Stray(b) \/ history' = [history EXCEPT !.overlap = b]
    <3>1. CASE EnterEdit
      <4>1. history' = Stray(~eng'.muted /\ (Sounding \/ LoadComing))
            /\ (~eng'.muted /\ (Sounding \/ LoadComing)) \in BOOLEAN
        BY <3>1 DEF EnterEdit
      <4> QED  BY <4>1
    <3>2. CASE LeaveEdit
      BY <3>2 DEF LeaveEdit, Underway
    <3>3. ASSUME NEW p \in Plays, SeqPlay(p)
          PROVE \E b \in BOOLEAN : history' = [history EXCEPT !.overlap = b]
      <4>1. history' = [history EXCEPT !.overlap = history.overlap \/ Underway]
            /\ (history.overlap \/ Underway) \in BOOLEAN
        BY <3>3 DEF SeqPlay
      <4> QED  BY <4>1
    <3>4. CASE SeqToggleOff \/ SeqTick
      BY <3>4 DEF SeqToggleOff, SeqTick
    <3> QED  BY <3>1, <3>2, <3>3, <3>4
  <2> QED  BY <1>0, <2>1, HistoryTyped DEF HistoryOK
<1> QED  BY <1>2, <1>3, <1>4, <1>5, <1>6, <1>7, TypeParts DEF Parts

\* A seqPlay that waits for some samples gets one.
LEMMA ReadOn ==
  ASSUME EditorOK, NEW p \in Plays, NEW l \in SUBSET Idx
  PROVE  /\ [plays EXCEPT ![p].left = l] \in [Plays -> [at : {"off", "wake", "read"}, left : SUBSET Idx]]
         /\ [plays EXCEPT ![p] = [at |-> "read", left |-> l]] \in [Plays -> [at : {"off", "wake", "read"}, left : SUBSET Idx]]
         /\ [plays EXCEPT ![p] = Waiting] \in [Plays -> [at : {"off", "wake", "read"}, left : SUBSET Idx]]
  BY DEF EditorOK, Waiting

LEMMA StartTyped ==
  ASSUME EditorOK, HistoryOK, NEW p \in Plays, NEW before, before.out \in BOOLEAN,
         SeqStart(p, before, history), UNCHANGED <<sel, editing, resume>>
  PROVE  EditorOK' /\ HistoryOK'
<1>1. seq' \in [on : BOOLEAN, out : BOOLEAN, voice : Tracks \cup {None}]
  BY DEF SeqStart
<1>2. EditorOK'
  BY <1>1, ReadOn DEF SeqStart, EditorOK
<1>3. history' = [history EXCEPT !.lost = history.lost \/ before.out] /\ (history.lost \/ before.out) \in BOOLEAN
  BY DEF SeqStart
<1> QED  BY <1>2, <1>3 DEF HistoryOK

Needed == SetToSeq({i \in Idx : cache[i] = Unread})
Reads(job) == [j \in DOMAIN Needed |-> Ask([job EXCEPT !.idx = Needed[j]])]

LEMMA NeededIs ==
  /\ Needed \in Seq(Idx) /\ ToSet(Needed) \in SUBSET Idx
  /\ \A i, j \in DOMAIN Needed : Needed[i] = Needed[j] => i = j
<1> DEFINE S == {i \in Idx : cache[i] = Unread}
<1>1. IsFiniteSet(S) /\ S \subseteq Idx
  BY SamplerAssumption, FS_Subset
<1>2. Needed \in Seq(S) /\ \A i, j \in DOMAIN Needed : Needed[i] = Needed[j] => i = j
  BY <1>1, Listed DEF Needed
<1>3. DOMAIN Needed = 1 .. Len(Needed) /\ \A i \in DOMAIN Needed : Needed[i] \in S
  BY <1>2, LenProperties, ElementOfSeq
<1>4. Needed \in Seq(Idx)
  <2>1. Len(Needed) \in Nat /\ Needed = [i \in 1 .. Len(Needed) |-> Needed[i]]
    BY <1>2, LenProperties
  <2>2. Needed \in [1 .. Len(Needed) -> Idx]
    BY <1>1, <1>3, <2>1
  <2> QED  BY <2>1, <2>2, SeqDef
<1>5. ToSet(Needed) \in SUBSET Idx
  BY <1>1, <1>3 DEF ToSet
<1> QED  BY <1>2, <1>4, <1>5

LEMMA ReadsAre ==
  ASSUME JamTypeOK, NEW job \in Job
  PROVE  /\ Reads(job) \in Seq(Reply) /\ DOMAIN Reads(job) = DOMAIN Needed
         /\ replies \o Reads(job) \in Seq(Reply)
         /\ \A j \in DOMAIN Needed : [job EXCEPT !.idx = Needed[j]] \in Job
<1>1. DOMAIN Needed = 1 .. Len(Needed) /\ Len(Needed) \in Nat
  BY NeededIs, LenProperties
<1>2. ASSUME NEW j \in DOMAIN Needed
      PROVE  [job EXCEPT !.idx = Needed[j]] \in Job /\ Ask([job EXCEPT !.idx = Needed[j]]) \in Reply
  <2>1. Needed[j] \in Idx
    BY <1>1, NeededIs, ElementOfSeq
  <2>2. [job EXCEPT !.idx = Needed[j]] \in Job
    BY <2>1 DEF Job
  <2> QED  BY <2>2, AskTyped
<1>3. Reads(job) \in [1 .. Len(Needed) -> Reply]
  BY <1>1, <1>2 DEF Reads
<1>4. Reads(job) \in Seq(Reply)
  BY <1>1, <1>3, SeqDef
<1> QED  BY <1>1, <1>2, <1>3, <1>4, ConcatProperties, TypeParts DEF Parts, PortsOK

LEMMA AnswersTyped ==
  ASSUME JamTypeOK, OnMeta \/ OnPcm
  PROVE  JamTypeOK'
<1>0. PlayerOK /\ CacheOK /\ PortsOK /\ VoicesOK /\ EditorOK /\ HistoryOK /\ calls \in 0..MaxCalls
  BY TypeParts DEF Parts
<1>1. replies # <<>> /\ replies' = Tail(replies) /\ waking' = waking
  BY DEF OnMeta, OnPcm
<1>2. Head(replies) = replies[1] /\ replies[1] \in Reply /\ Tail(replies) \in Seq(Reply)
  BY <1>0, <1>1, Tailed DEF PortsOK
<1>3. PortsOK'
  BY <1>0, <1>1, <1>2 DEF PortsOK
<1>4. CASE OnMeta
  <2>1. PICK t \in Tracks : t = Head(replies).of
    BY <1>2, <1>4 DEF OnMeta, Reply
  <2>2. UNCHANGED <<shown, show, eng, coming, cache, gen, nextVoice, open, audition, editor, history, calls>>
    BY <1>4 DEF OnMeta
  <2>3. SongShown(t, voices) \/ UNCHANGED <<song, sel, active, voices, mount, wave>>
    BY <1>4, <2>1 DEF OnMeta
  <2>4. song' \in Tracks \cup {None} /\ sel' \in Idx /\ VoicesOK'
    <3>1. CASE SongShown(t, voices)
      BY <2>2, <3>1, ShowTyped
    <3>2. CASE UNCHANGED <<song, sel, active, voices, mount, wave>>
      BY <1>0, <2>2, <3>2, SameTyped DEF PlayerOK, EditorOK
    <3> QED  BY <2>3, <3>1, <3>2
  <2>6. PlayerOK' /\ EditorOK'
    BY <1>0, <2>2, <2>4 DEF PlayerOK, EditorOK, editor
  <2>7. CacheOK' /\ HistoryOK' /\ calls' \in 0..MaxCalls
    BY <1>0, <2>2, SameTyped
  <2> QED  BY <1>3, <2>4, <2>6, <2>7, TypeParts DEF Parts
<1>5. CASE OnPcm
  <2>1. PICK x \in Reply : x = Head(replies)
    BY <1>2
  <2>2. x.job \in Job /\ x.of \in Tracks \cup {Null} /\ x.job.idx \in Idx /\ x.job.by \in Jobs
    BY <1>5, <2>1 DEF OnPcm, Reply, Job
  <2>3. UNCHANGED <<player, gen, open, mount, sel, editing, resume, calls>>
    BY <1>5 DEF OnPcm
  <2>4. cache' = cache \/ cache' = [cache EXCEPT ![x.job.idx] = x.of]
    BY <1>5, <2>1 DEF OnPcm
  <2>5. CacheOK'
    BY <1>0, <2>2, <2>3, <2>4 DEF CacheOK
  <2>6. CASE x.job.by \notin Plays
    <3>1. Played(x.job, x.of) /\ UNCHANGED <<plays, seq, history>>
      BY <1>5, <2>1, <2>6 DEF OnPcm
    <3>2. VoicesOK'
      BY <1>0, <2>2, <2>3, <2>6, <3>1, PlayedTyped
    <3>3. EditorOK' /\ HistoryOK'
      BY <1>0, <2>3, <3>1 DEF EditorOK, HistoryOK
    <3> QED  BY <1>0, <1>3, <2>3, <2>5, <3>2, <3>3, SameTyped, TypeParts DEF Parts
  <2>7. CASE x.job.by \in Plays
    <3>1. PICK p \in Plays : p = x.job.by
      BY <2>7
    <3>2. plays[p].left \ {x.job.idx} \in SUBSET Idx /\ seq.out \in BOOLEAN
      BY <1>0 DEF EditorOK
    <3>3. /\ UNCHANGED <<voices, nextVoice, active, wave, audition>>
          /\ \/ /\ plays' = [plays EXCEPT ![p].left = plays[p].left \ {x.job.idx}]
                /\ UNCHANGED <<seq, history>>
             \/ SeqStart(p, seq, history)
      BY <1>5, <2>1, <2>7, <3>1 DEF OnPcm
    <3>4. EditorOK' /\ HistoryOK'
      <4>1. CASE SeqStart(p, seq, history)
        BY <1>0, <2>3, <3>2, <4>1, StartTyped
      <4>2. CASE plays' = [plays EXCEPT ![p].left = plays[p].left \ {x.job.idx}] /\ UNCHANGED <<seq, history>>
        BY <1>0, <2>3, <3>2, <4>2, ReadOn DEF EditorOK, HistoryOK
      <4> QED  BY <3>3, <4>1, <4>2
    <3> QED  BY <1>0, <1>3, <2>3, <2>5, <3>3, <3>4, SameTyped, TypeParts DEF Parts
  <2> QED  BY <2>6, <2>7
<1> QED  BY <1>4, <1>5

LEMMA AwakeTyped ==
  ASSUME JamTypeOK, NEW n \in DOMAIN waking, Awake(n)
  PROVE  JamTypeOK'
<1>0. PlayerOK /\ CacheOK /\ PortsOK /\ VoicesOK /\ EditorOK /\ HistoryOK /\ calls \in 0..MaxCalls
  BY TypeParts DEF Parts
<1>1. PICK job \in Job : job = waking[n]
  <2>1. n \in 1 .. Len(waking)
    BY <1>0, LenProperties DEF PortsOK
  <2> QED  BY <1>0, <2>1, ElementOfSeq DEF PortsOK
<1>2. job.by \in Jobs /\ job.idx \in Idx
  BY DEF Job
<1>3. waking' \in Seq(Job) /\ UNCHANGED <<player, cache, gen, open, mount, sel, editing, resume, calls>>
  BY <1>0, Removed DEF Awake, PortsOK
<1>4. PlayerOK' /\ CacheOK'
  BY <1>0, <1>3, SameTyped
<1>5. CASE job.by \in Plays /\ Needed # <<>>
  <2>1. PICK p \in Plays : p = job.by
    BY <1>5
  <2>2. /\ SeqStop
        /\ plays' = [plays EXCEPT ![p] = [at |-> "read", left |-> ToSet(Needed)]]
        /\ replies' = replies \o Reads(job)
        /\ history' = Misread(ToSet(Needed))
        /\ UNCHANGED <<voices, nextVoice, active, wave, audition>>
    BY <1>1, <1>5, <2>1, Zenon DEF Awake, Needed, Reads, SeqStart, Played
  <2>3. PortsOK'
    BY <1>3, <2>2, ReadsAre DEF PortsOK
  <2>4. EditorOK'
    BY <1>0, <1>3, <2>2, ReadOn, NeededIs, SilenceTyped DEF EditorOK, SeqStop
  <2>5. HistoryOK'
    BY <1>0, <2>2, HistoryTyped, NeededIs DEF HistoryOK
  <2> QED  BY <1>0, <1>3, <1>4, <2>2, <2>3, <2>4, <2>5, SameTyped, TypeParts DEF Parts
<1>6. CASE job.by \in Plays /\ Needed = <<>>
  <2>1. PICK p \in Plays : p = job.by
    BY <1>6
  <2>2. /\ SeqStart(p, Silence, history)
        /\ UNCHANGED <<replies, voices, nextVoice, active, wave, audition>>
    BY <1>1, <1>6, <2>1 DEF Awake, Needed
  <2>3. PortsOK'
    BY <1>0, <1>3, <2>2 DEF PortsOK
  <2>4. EditorOK' /\ HistoryOK'
    BY <1>0, <1>3, <2>2, StartTyped, SilenceTyped
  <2> QED  BY <1>0, <1>3, <1>4, <2>2, <2>3, <2>4, SameTyped, TypeParts DEF Parts
<1>7. CASE job.by \notin Plays /\ cache[job.idx] # Unread
  <2>1. Played(job, cache[job.idx]) /\ UNCHANGED <<replies, plays, seq, history>>
    BY <1>1, <1>7 DEF Awake
  <2>2. VoicesOK'
    BY <1>0, <1>3, <1>7, <2>1, PlayedTyped
  <2>3. PortsOK' /\ EditorOK' /\ HistoryOK'
    BY <1>0, <1>3, <2>1 DEF PortsOK, EditorOK, HistoryOK
  <2> QED  BY <1>0, <1>3, <1>4, <2>2, <2>3, TypeParts DEF Parts
<1>8. CASE job.by \notin Plays /\ cache[job.idx] = Unread
  <2>1. /\ replies' = Append(replies, Ask(job)) /\ history' = Misread({job.idx})
        /\ UNCHANGED <<voices, nextVoice, active, wave, audition, plays, seq>>
    BY <1>1, <1>8 DEF Awake
  <2>2. PortsOK'
    BY <1>0, <1>3, <2>1, AskTyped, ToldTyped DEF PortsOK
  <2>3. EditorOK' /\ VoicesOK'
    BY <1>0, <1>3, <2>1, SameTyped DEF EditorOK
  <2>4. HistoryOK'
    BY <1>0, <1>2, <2>1, HistoryTyped DEF HistoryOK
  <2> QED  BY <1>0, <1>3, <1>4, <2>2, <2>3, <2>4, TypeParts DEF Parts
<1> QED  BY <1>5, <1>6, <1>7, <1>8

\* Player, worker, sampler, editor and sequencer keep their types, in whatever order
\* audio wakes and the answers come: whatever a key, the waveform or a timer holds is the
\* number of a voice given out before, and every answer that comes can be handled.
THEOREM JamTypeCorrect == JamSpec => []JamTypeOK
<1>1. JamInit => JamTypeOK
  <2> SUFFICES ASSUME JamInit  PROVE JamTypeOK
    OBVIOUS
  <2>1. <<>> \in Seq([of : Tracks, to : {"load", "decode"}]) /\ <<>> \in Seq(Reply) /\ <<>> \in Seq(Job)
    BY EmptySeq
  <2>2. PlayerOK
    BY <2>1 DEF JamInit, PlayerOK
  <2>3. CacheOK /\ PortsOK /\ calls \in 0..MaxCalls
    BY <2>1, SamplerAssumption DEF JamInit, CacheOK, PortsOK
  <2>4. VoicesOK
    BY SamplerAssumption DEF JamInit, VoicesOK
  <2>5. EditorOK
    BY SilenceTyped, SamplerAssumption DEF JamInit, EditorOK, Waiting
  <2>6. HistoryOK
    BY DEF JamInit, HistoryOK
  <2> QED  BY <2>2, <2>3, <2>4, <2>5, <2>6, TypeParts DEF Parts
<1>2. JamTypeOK /\ [JamNext]_jamVars => JamTypeOK'
  <2> SUFFICES ASSUME JamTypeOK, [JamNext]_jamVars  PROVE JamTypeOK'
    OBVIOUS
  <2>1. CASE UNCHANGED jamVars
    <3>1. Parts'
      BY <2>1, TypeParts, SameTyped DEF Parts, jamVars, sampler, holders, panes
    <3> QED  BY <3>1, TypeParts
  <2>2. CASE JamNext
    BY <2>2, PlayerTyped, NotesTyped, EditTyped, AwakeTyped, AnswersTyped DEF JamNext
  <2> QED  BY <2>1, <2>2
<1> QED  BY <1>1, <1>2, PTL DEF JamSpec

-----------------------------------------------------------------------------
(* What is cached.                                                         *)

\* Before the first track there is nothing to wait for.
Begun == shown = None => song = None /\ waking = <<>> /\ replies = <<>> /\ coming = <<>>

\* An answer that will be cached is of the track shown, or the history knows.
Fresh(x) ==
  x.what = "pcm" => /\ x.gen <= gen
                    /\ x.gen = gen => x.job.idx \in history.early \/ x.of = shown
FreshReads == \A i \in DOMAIN replies : Fresh(replies[i])

CacheInv == Begun /\ FreshReads /\ CacheIsTracks

\* The answers there are when one more is asked for, several are, or one is taken.
LEMMA RepliesAppended ==
  ASSUME PortsOK, NEW x \in Reply, replies' = Append(replies, x)
  PROVE  /\ Len(replies) \in Nat /\ DOMAIN replies = 1 .. Len(replies)
         /\ DOMAIN replies' = 1 .. Len(replies) + 1
         /\ \A i \in DOMAIN replies : replies'[i] = replies[i]
         /\ replies'[Len(replies) + 1] = x
         /\ \A i \in DOMAIN replies' : i \in DOMAIN replies \/ i = Len(replies) + 1
  BY Appended DEF PortsOK

LEMMA RepliesAdded ==
  ASSUME JamTypeOK, NEW job \in Job, replies' = replies \o Reads(job)
  PROVE  /\ Len(replies) \in Nat /\ DOMAIN replies = 1 .. Len(replies)
         /\ \A i \in DOMAIN replies : i \in DOMAIN replies' /\ replies'[i] = replies[i]
         /\ \A i \in DOMAIN replies' :
              \/ i \in DOMAIN replies
              \/ /\ i \notin DOMAIN replies /\ i - Len(replies) \in DOMAIN Needed
                 /\ replies'[i] = Ask([job EXCEPT !.idx = Needed[i - Len(replies)]])
<1> DEFINE m == Len(replies)
           k == Len(Reads(job))
<1>1. /\ replies \in Seq(Reply) /\ Reads(job) \in Seq(Reply) /\ replies' \in Seq(Reply)
      /\ m \in Nat /\ k \in Nat /\ DOMAIN replies = 1 .. m /\ DOMAIN Needed = 1 .. k
  BY TypeParts, ReadsAre, LenProperties DEF Parts, PortsOK
<1>2. /\ DOMAIN replies' = 1 .. m + k
      /\ \A i \in 1 .. m + k : replies'[i] = IF i <= m THEN replies[i] ELSE Reads(job)[i - m]
  BY <1>1, ConcatProperties, LenProperties
<1>3. \A j \in DOMAIN Needed : Reads(job)[j] = Ask([job EXCEPT !.idx = Needed[j]])
  BY DEF Reads
<1> HIDE DEF m, k
<1>4. ASSUME NEW i \in DOMAIN replies  PROVE i \in DOMAIN replies' /\ replies'[i] = replies[i]
  BY <1>1, <1>2
<1>5. ASSUME NEW i \in DOMAIN replies', i \notin DOMAIN replies
      PROVE  /\ i - m \in DOMAIN Needed
             /\ replies'[i] = Ask([job EXCEPT !.idx = Needed[i - m]])
  <2>1. i - m \in 1 .. k /\ ~(i <= m)
    BY <1>1, <1>2, <1>5
  <2> QED  BY <1>1, <1>2, <1>3, <2>1
<1> QED  BY <1>1, <1>4, <1>5 DEF m

LEMMA RepliesTaken ==
  ASSUME PortsOK, replies # <<>>, replies' = Tail(replies)
  PROVE  /\ Head(replies) = replies[1] /\ 1 \in DOMAIN replies /\ replies[1] \in Reply
         /\ \E f : Picks(f, replies', replies) /\ \A i \in DOMAIN replies' : f[i] # 1
  BY Tailed DEF PortsOK

\* A sample that is asked for is of the track shown, or the history knows.
LEMMA AskFresh ==
  ASSUME JamTypeOK, shown # None, NEW job \in Job, NEW is \in SUBSET Idx, job.idx \in is,
         history' = Misread(is), UNCHANGED <<gen, shown>>,
         NEW x, x = Ask(job)
  PROVE  Fresh(x)'
<1>1. /\ history.early \subseteq history'.early
      /\ eng.mod # shown => is \subseteq history'.early
  BY TypeParts DEF Parts, HistoryOK, Misread
<1>2. /\ x.gen = gen /\ x.job = job /\ gen \in Nat
      /\ eng.mod = shown => x.of = shown
  BY TypeParts DEF Parts, CacheOK, Ask
<1> QED  BY <1>1, <1>2 DEF Fresh

\* What is on its way stays fresh while the history grows and the generation is the same.
LEMMA StaysFresh ==
  ASSUME NEW x, Fresh(x), UNCHANGED <<gen, shown>>, history.early \subseteq history'.early
  PROVE  Fresh(x)'
  BY DEF Fresh

LEMMA CacheSame ==
  ASSUME JamTypeOK, CacheInv, UNCHANGED <<shown, song, replies, cache, gen>>,
         history'.early = history.early, waking' = waking \/ shown # None,
         coming' = coming \/ shown # None
  PROVE  CacheInv'
<1>1. Begun' /\ CacheIsTracks'
  BY DEF CacheInv, Begun, CacheIsTracks
<1>2. FreshReads'
  BY DEF CacheInv, FreshReads, Fresh
<1> QED  BY <1>1, <1>2 DEF CacheInv

LEMMA CacheKept == JamTypeOK /\ CacheInv /\ JamNext => CacheInv'
<1> SUFFICES ASSUME JamTypeOK, CacheInv, JamNext  PROVE CacheInv'
  OBVIOUS
<1>0. /\ PlayerOK /\ CacheOK /\ PortsOK /\ EditorOK /\ HistoryOK
      /\ Begun /\ FreshReads /\ CacheIsTracks
  BY TypeParts DEF Parts, CacheInv
<1>1. \A i \in DOMAIN replies : replies[i] \in Reply
  BY <1>0, LenProperties, ElementOfSeq DEF PortsOK
<1>2. \A i \in DOMAIN coming : coming # <<>>
  BY <1>0, LenProperties, EmptySeq DEF PlayerOK
<1>3. \A i \in DOMAIN waking : waking # <<>> /\ waking[i] \in Job
  BY <1>0, LenProperties, EmptySeq, ElementOfSeq DEF PortsOK
<1>4. ASSUME NEW t \in Tracks, PlayTrack(t)  PROVE CacheInv'
  <2>1. /\ shown' = t /\ gen' = gen + 1 /\ gen \in Nat /\ UNCHANGED replies
        /\ cache' = [i \in Idx |-> Unread] /\ history'.early = {}
    BY <1>0, <1>4 DEF PlayTrack, Play, CacheOK, HistoryOK, Stray
  <2>2. FreshReads'
    <3> SUFFICES ASSUME NEW i \in DOMAIN replies, replies[i].what = "pcm"
                 PROVE  replies[i].gen <= gen + 1 /\ replies[i].gen # gen + 1
      BY <2>1 DEF FreshReads, Fresh
    <3>1. replies[i].gen \in Nat /\ replies[i].gen <= gen
      BY <1>0, <1>1 DEF FreshReads, Fresh, Reply
    <3> QED  BY <2>1, <3>1
  <2> QED  BY <2>1, <2>2, SamplerAssumption DEF CacheInv, Begun, CacheIsTracks
<1>5. ASSUME NEW t \in Tracks, Cue(t)  PROVE CacheInv'
  <2>1. shown' = t /\ UNCHANGED <<replies, cache, gen>> /\ history'.early = Idx
    BY <1>0, <1>5 DEF Cue, HistoryOK, Stray
  <2>2. FreshReads'
    <3> SUFFICES ASSUME NEW i \in DOMAIN replies, replies[i].what = "pcm"
                 PROVE  replies[i].gen <= gen /\ replies[i].job.idx \in Idx
      BY <2>1 DEF FreshReads, Fresh
    <3> QED  BY <1>0, <1>1 DEF FreshReads, Fresh, Reply, Job
  <2> QED  BY <2>1, <2>2, SamplerAssumption DEF CacheInv, Begun, CacheIsTracks
<1>6. ASSUME NEW i \in DOMAIN coming, Fetched(i)  PROVE CacheInv'
  <2>1. shown # None
    BY <1>0, <1>2 DEF Begun
  <2>2. UNCHANGED <<shown, cache, gen, history>>
    BY <1>6 DEF Fetched, sampler
  <2>3. FreshReads'
    <3>1. CASE UNCHANGED replies
      BY <1>0, <2>2, <3>1 DEF FreshReads, Fresh
    <3>2. ASSUME NEW x \in Reply, x.what # "pcm", replies' = Append(replies, x)  PROVE FreshReads'
      <4> SUFFICES ASSUME NEW j \in DOMAIN replies'  PROVE Fresh(replies[j])' 
        BY DEF FreshReads
      <4>1. (j \in DOMAIN replies /\ replies'[j] = replies[j]) \/ replies'[j] = x
        BY <1>0, <3>2, RepliesAppended
      <4> QED  BY <1>0, <2>2, <3>2, <4>1 DEF FreshReads, Fresh
    <3>3. CASE ~UNCHANGED replies
      <4>1. coming[i].of \in Tracks
        <5>1. i \in 1 .. Len(coming)
          BY <1>0, LenProperties DEF PlayerOK
        <5>2. coming[i] \in [of : Tracks, to : {"load", "decode"}]
          BY <1>0, <5>1, ElementOfSeq DEF PlayerOK
        <5> QED  BY <5>2
      <4>2. \E w \in {"meta", "decoded"} : replies' = Append(replies, [what |-> w, of |-> coming[i].of])
        BY <1>6, <3>3 DEF Fetched
      <4> QED  BY <3>2, <4>1, <4>2 DEF Reply
    <3> QED  BY <3>1, <3>3
  <2>4. Begun' /\ CacheIsTracks'
    BY <1>0, <2>1, <2>2 DEF Begun, CacheIsTracks
  <2> QED  BY <2>3, <2>4 DEF CacheInv
<1>7. CASE \/ Ends \/ TogglePause \/ Stop \/ WaveUp
           \/ EnterEdit \/ LeaveEdit \/ SeqToggleOff \/ SeqTick
           \/ OpenSamples \/ LeaveSamples
           \/ \E k \in Keys : Up(k)
           \/ \E i \in Idx : Select(i)
           \/ \E id \in audition.timers : AuditionOver(id)
           \/ \E v \in voices : VoiceEnds(v)
  <2>1. UNCHANGED <<shown, song, coming, replies, waking, cache, gen>>
    BY <1>7 DEF Ends, TogglePause, Stop, WaveUp, EnterEdit, LeaveEdit, SeqToggleOff, SeqTick, Up,
       Select, OpenSamples, LeaveSamples, AuditionOver, VoiceEnds, player, sampler
  <2>2. history'.early = history.early
    BY <1>0, <1>7 DEF Ends, TogglePause, Stop, WaveUp, EnterEdit, LeaveEdit, SeqToggleOff, SeqTick, Up,
       Select, OpenSamples, LeaveSamples, AuditionOver, VoiceEnds, Stray, HistoryOK
  <2> QED  BY <2>1, <2>2, CacheSame
<1>8. CASE \/ \E k \in Keys : Down(k)
           \/ \E i \in Idx : EnterNote(i)
           \/ \E p \in Plays : SeqPlay(p)
           \/ WaveDown
  <2>1. UNCHANGED <<shown, song, coming, replies, cache, gen>> /\ song # None
    BY <1>8 DEF Down, EnterNote, SeqPlay, WaveDown, Mounted, player, sampler
  <2>2. history'.early = history.early
    BY <1>0, <1>8 DEF Down, EnterNote, SeqPlay, WaveDown, HistoryOK
  <2>3. shown # None
    BY <1>0, <2>1 DEF Begun
  <2> QED  BY <2>1, <2>2, <2>3, CacheSame
<1>9. ASSUME NEW n \in DOMAIN waking, Awake(n)  PROVE CacheInv'
  <2>1. shown # None /\ UNCHANGED <<player, cache, gen>>
    BY <1>0, <1>3, <1>9 DEF Awake, Begun
  <2>2. UNCHANGED shown
    BY <2>1 DEF player
  <2>3. ASSUME history.early \subseteq history'.early, FreshReads'  PROVE CacheInv'
    BY <1>0, <2>1, <2>2, <2>3 DEF CacheInv, Begun, CacheIsTracks
  <2>4. PICK job \in Job : job = waking[n]
    BY <1>3
  <2>5. ASSUME NEW is \in SUBSET Idx, history' = Misread(is)
        PROVE  history.early \subseteq history'.early
    BY <1>0, <2>5 DEF HistoryOK, Misread
  <2>6. CASE job.by \in Plays /\ Needed # <<>>
    <3>2. replies' = replies \o Reads(job) /\ history' = Misread(ToSet(Needed))
      BY <1>9, <2>4, <2>6, Zenon DEF Awake, Needed, Reads, SeqStart, Played
    <3>3. history.early \subseteq history'.early
      BY <2>5, <3>2, NeededIs
    <3>4. FreshReads'
      <4> SUFFICES ASSUME NEW j \in DOMAIN replies'  PROVE Fresh(replies[j])'
        BY DEF FreshReads
      <4>1. CASE j \in DOMAIN replies
        BY <1>0, <2>1, <2>2, <3>2, <3>3, <4>1, RepliesAdded, StaysFresh DEF FreshReads, Fresh
      <4>2. CASE j \notin DOMAIN replies
        <5>1. PICK l \in DOMAIN Needed : replies'[j] = Ask([job EXCEPT !.idx = Needed[l]])
          BY <3>2, <4>2, RepliesAdded
        <5>2. PICK a \in Job : a = [job EXCEPT !.idx = Needed[l]]
          BY ReadsAre
        <5>3. PICK x : x = Ask(a)
          OBVIOUS
        <5>4. a.idx \in ToSet(Needed)
          BY <5>2 DEF ToSet, Job
        <5>5. Fresh(x)'
          BY <2>1, <2>2, <3>2, <5>3, <5>4, NeededIs, AskFresh
        <5> QED  BY <5>1, <5>2, <5>3, <5>5 DEF Fresh
      <4> QED  BY <4>1, <4>2
    <3> QED  BY <2>3, <3>3, <3>4
  <2>7. CASE UNCHANGED <<replies, history>>
    BY <1>0, <2>1, <2>2, <2>3, <2>7 DEF FreshReads, Fresh
  <2>8. CASE replies' = Append(replies, Ask(job)) /\ history' = Misread({job.idx})
    <3>1. {job.idx} \in SUBSET Idx
      BY DEF Job
    <3>2. PICK x \in Reply : x = Ask(job)
      BY AskTyped
    <3>3. Fresh(x)' /\ history.early \subseteq history'.early
      BY <2>1, <2>2, <2>5, <2>8, <3>1, <3>2, AskFresh
    <3>4. FreshReads'
      <4> SUFFICES ASSUME NEW j \in DOMAIN replies'  PROVE Fresh(replies[j])'
        BY DEF FreshReads
      <4>1. (j \in DOMAIN replies /\ replies'[j] = replies[j]) \/ replies'[j] = x
        BY <1>0, <2>8, <3>2, RepliesAppended
      <4> QED  BY <1>0, <2>1, <2>2, <3>3, <4>1 DEF FreshReads, Fresh
    <3> QED  BY <2>3, <3>3, <3>4
  <2>9. CASE job.by \in Plays /\ Needed = <<>>
    <3>1. UNCHANGED replies /\ history'.early = history.early
      BY <1>0, <1>9, <2>4, <2>9 DEF Awake, Needed, SeqStart, HistoryOK
    <3> QED  BY <1>0, <2>1, <2>2, <2>3, <3>1 DEF FreshReads, Fresh
  <2> QED  BY <1>9, <2>4, <2>6, <2>7, <2>8, <2>9 DEF Awake
<1>10. CASE OnMeta \/ OnPcm
  <2>1. replies # <<>> /\ replies' = Tail(replies)
    BY <1>10 DEF OnMeta, OnPcm
  <2>2. shown # None /\ UNCHANGED <<shown, gen>> /\ history'.early = history.early
    BY <1>0, <1>10, <2>1 DEF OnMeta, OnPcm, Begun, player, SeqStart, HistoryOK
  <2>3. PICK f : Picks(f, replies', replies)
    BY <1>0, <2>1, RepliesTaken
  <2>4. FreshReads'
    <3> SUFFICES ASSUME NEW j \in DOMAIN replies'  PROVE Fresh(replies[j])'
      BY DEF FreshReads
    <3>1. f[j] \in DOMAIN replies /\ replies'[j] = replies[f[j]]
      BY <2>3 DEF Picks
    <3> QED  BY <1>0, <2>2, <3>1 DEF FreshReads, Fresh
  <2>5. CacheIsTracks'
    <3>1. CASE OnMeta
      BY <1>0, <2>2, <3>1 DEF OnMeta, CacheIsTracks
    <3>2. CASE OnPcm
      <4>1. PICK x \in Reply : x = Head(replies) /\ x = replies[1] /\ 1 \in DOMAIN replies
        BY <1>0, <2>1, RepliesTaken
      <4>2. /\ x.what = "pcm" /\ Fresh(x)
            /\ cache' = IF x.gen = gen THEN [cache EXCEPT ![x.job.idx] = x.of] ELSE cache
        BY <1>0, <3>2, <4>1 DEF OnPcm, FreshReads
      <4> QED  BY <1>0, <2>2, <4>2 DEF Fresh, CacheIsTracks, CacheOK
    <3> QED  BY <1>10, <3>1, <3>2
  <2> QED  BY <2>2, <2>4, <2>5 DEF CacheInv, Begun
<1> QED  BY <1>4, <1>5, <1>6, <1>7, <1>8, <1>9, <1>10 DEF JamNext

\* A cached sample is one of the track shown, whatever was being read when that came:
\* the reads of an earlier generation are not kept.
THEOREM CacheIsOfTrack == JamSpec => []CacheIsTracks
<1>1. JamInit => CacheInv
  BY DEF JamInit, CacheInv, Begun, FreshReads, CacheIsTracks
<1>2. JamTypeOK /\ CacheInv /\ [JamNext]_jamVars => CacheInv'
  <2> SUFFICES ASSUME JamTypeOK, CacheInv, UNCHANGED jamVars  PROVE CacheInv'
    BY CacheKept
  <2> QED  BY CacheSame DEF jamVars, player, sampler
<1>3. CacheInv => CacheIsTracks
  BY DEF CacheInv
<1> QED  BY <1>1, <1>2, <1>3, JamTypeCorrect, PTL DEF JamSpec

-----------------------------------------------------------------------------
(* Who waits for audio or for a sample.                                    *)

\* One of those of a set of jobs.
Waits(i, J) == i \in DOMAIN waking /\ waking[i] \in J
Asked(i, J) == i \in DOMAIN replies /\ replies[i].what = "pcm" /\ replies[i].job \in J

\* A step that starts none of J: what waits of J has done so before.
Carries(J, f, g) ==
  /\ \A i : Waits(i, J)' => Waits(f[i], J) /\ waking'[i] = waking[f[i]]
  /\ \A i, j : Waits(i, J)' /\ Waits(j, J)' /\ f[i] = f[j] => i = j
  /\ \A i : Asked(i, J)' => Asked(g[i], J) /\ replies'[i] = replies[g[i]]
  /\ \A i, j : Asked(i, J)' /\ Asked(j, J)' /\ g[i] = g[j] => i = j
Others(J) == \E f, g : Carries(J, f, g)

\* The two queues apart.
LEMMA CarriedBy ==
  ASSUME NEW J, NEW f, NEW g,
         Picks(f, waking', waking) \/ (\A i : Waits(i, J)' => Waits(i, J) /\ waking'[i] = waking[i]),
         Picks(g, replies', replies) \/ (\A i : Asked(i, J)' => Asked(i, J) /\ replies'[i] = replies[i])
  PROVE  Others(J)
<1> DEFINE ff == IF Picks(f, waking', waking) THEN f ELSE [i \in DOMAIN waking' |-> i]
           gg == IF Picks(g, replies', replies) THEN g ELSE [i \in DOMAIN replies' |-> i]
<1>1. /\ \A i : Waits(i, J)' => Waits(ff[i], J) /\ waking'[i] = waking[ff[i]]
      /\ \A i, j : Waits(i, J)' /\ Waits(j, J)' /\ ff[i] = ff[j] => i = j
  <2>1. CASE Picks(f, waking', waking)
    BY <2>1 DEF Picks, Waits
  <2>2. CASE ~Picks(f, waking', waking)
    BY <2>2 DEF Waits
  <2> QED  BY <2>1, <2>2
<1>2. /\ \A i : Asked(i, J)' => Asked(gg[i], J) /\ replies'[i] = replies[gg[i]]
      /\ \A i, j : Asked(i, J)' /\ Asked(j, J)' /\ gg[i] = gg[j] => i = j
  <2>1. CASE Picks(g, replies', replies)
    BY <2>1 DEF Picks, Asked
  <2>2. CASE ~Picks(g, replies', replies)
    BY <2>2 DEF Asked
  <2> QED  BY <2>1, <2>2
<1> HIDE DEF ff, gg
<1> QED  BY <1>1, <1>2 DEF Others, Carries

LEMMA NothingNew == UNCHANGED <<waking, replies>> => \A J : Others(J)
<1> SUFFICES ASSUME UNCHANGED <<waking, replies>>, NEW J  PROVE Others(J)
  OBVIOUS
<1>1. /\ \A i : Waits(i, J)' => Waits(i, J) /\ waking'[i] = waking[i]
      /\ \A i : Asked(i, J)' => Asked(i, J) /\ replies'[i] = replies[i]
  BY DEF Waits, Asked
<1> QED  BY <1>1, CarriedBy

LEMMA MoreWait ==
  ASSUME PortsOK, NEW x \in Job, waking' = Append(waking, x), UNCHANGED replies, NEW J, x \notin J
  PROVE  Others(J)
<1>1. \A i : Waits(i, J)' => Waits(i, J) /\ waking'[i] = waking[i]
  <2>1. /\ Len(waking) \in Nat /\ DOMAIN waking = 1 .. Len(waking)
        /\ DOMAIN waking' = 1 .. Len(waking) + 1 /\ waking'[Len(waking) + 1] = x
        /\ \A i \in 1 .. Len(waking) : waking'[i] = waking[i]
    BY Appended DEF PortsOK
  <2> QED  BY <2>1 DEF Waits
<1>2. \A i : Asked(i, J)' => Asked(i, J) /\ replies'[i] = replies[i]
  BY DEF Asked
<1> QED  BY <1>1, <1>2, CarriedBy

LEMMA FetchedCarries ==
  ASSUME JamTypeOK, NEW i \in DOMAIN coming, Fetched(i), NEW J
  PROVE  Others(J)
<1>1. UNCHANGED waking
  BY DEF Fetched
<1>2. CASE UNCHANGED replies
  BY <1>1, <1>2, NothingNew
<1>3. ASSUME NEW x \in Reply, x.what # "pcm", replies' = Append(replies, x)  PROVE Others(J)
  <2>1. \A j : Asked(j, J)' => Asked(j, J) /\ replies'[j] = replies[j]
    BY <1>3, TypeParts, RepliesAppended DEF Parts, Asked
  <2>2. \A j : Waits(j, J)' => Waits(j, J) /\ waking'[j] = waking[j]
    BY <1>1 DEF Waits
  <2> QED  BY <2>1, <2>2, CarriedBy
<1>4. CASE ~UNCHANGED replies
  <2>1. coming[i].of \in Tracks
    <3>1. coming \in Seq([of : Tracks, to : {"load", "decode"}])
      BY TypeParts DEF Parts, PlayerOK
    <3>2. i \in 1 .. Len(coming)
      BY <3>1, LenProperties
    <3>3. coming[i] \in [of : Tracks, to : {"load", "decode"}]
      BY <3>1, <3>2, ElementOfSeq
    <3> QED  BY <3>3
  <2>2. \E w \in {"meta", "decoded"} : replies' = Append(replies, [what |-> w, of |-> coming[i].of])
    BY <1>4 DEF Fetched
  <2> QED  BY <1>3, <2>1, <2>2 DEF Reply
<1> QED  BY <1>2, <1>4

LEMMA TakenCarries ==
  ASSUME JamTypeOK, OnMeta \/ OnPcm, NEW J
  PROVE  Others(J)
<1>1. UNCHANGED waking /\ replies # <<>> /\ replies' = Tail(replies)
  BY DEF OnMeta, OnPcm
<1>2. PICK g : Picks(g, replies', replies)
  BY <1>1, RepliesTaken, TypeParts DEF Parts
<1>3. \A j : Waits(j, J)' => Waits(j, J) /\ waking'[j] = waking[j]
  BY <1>1 DEF Waits
<1> QED  BY <1>2, <1>3, CarriedBy

LEMMA WokenIs ==
  ASSUME JamTypeOK, NEW n \in DOMAIN waking
  PROVE  /\ waking[n] \in Job
         /\ \E f : Picks(f, RemoveAt(waking, n), waking) /\ \A i \in DOMAIN RemoveAt(waking, n) : f[i] # n
<1>1. waking \in Seq(Job)
  BY TypeParts DEF Parts, PortsOK
<1>2. n \in 1 .. Len(waking)
  BY <1>1, LenProperties
<1> QED  BY <1>1, <1>2, ElementOfSeq, Removed

LEMMA AwakeCarries ==
  ASSUME JamTypeOK, NEW n \in DOMAIN waking, Awake(n), NEW J,
         \A a \in Job : a.by = waking[n].by /\ a.mount = waking[n].mount => a \notin J
  PROVE  Others(J)
<1>0. PortsOK
  BY TypeParts DEF Parts
<1>1. PICK job \in Job : job = waking[n]
  BY WokenIs
<1>2. PICK f : Picks(f, waking', waking)
  BY WokenIs DEF Awake
<1>3. \A j : Asked(j, J)' => Asked(j, J) /\ replies'[j] = replies[j]
  <2>1. CASE UNCHANGED replies
    BY <2>1 DEF Asked
  <2>2. CASE replies' = Append(replies, Ask(job))
    <3>1. PICK x \in Reply : x = Ask(job)
      BY AskTyped
    <3>2. x.job = job
      BY <3>1 DEF Ask
    <3>3. \A j \in DOMAIN replies' : (j \in DOMAIN replies /\ replies'[j] = replies[j]) \/ replies'[j] = x
      BY <1>0, <2>2, <3>1, RepliesAppended
    <3> QED  BY <1>1, <3>2, <3>3 DEF Asked
  <2>3. CASE replies' = replies \o Reads(job)
    <3>1. ASSUME NEW j \in DOMAIN replies', j \notin DOMAIN replies
          PROVE  replies'[j].job \notin J
      <4>1. PICK a \in Job : a.by = job.by /\ a.mount = job.mount /\ replies'[j] = Ask(a)
        <5>1. PICK l \in DOMAIN Needed : replies'[j] = Ask([job EXCEPT !.idx = Needed[l]])
          BY <2>3, <3>1, RepliesAdded
        <5>2. [job EXCEPT !.idx = Needed[l]] \in Job
          BY ReadsAre
        <5> QED  BY <5>1, <5>2 DEF Job
      <4> QED  BY <1>1, <4>1 DEF Ask
    <3>2. \A j \in DOMAIN replies : j \in DOMAIN replies' /\ replies'[j] = replies[j]
      BY <2>3, RepliesAdded
    <3> QED  BY <3>1, <3>2 DEF Asked
  <2> QED  BY <1>1, <2>1, <2>2, <2>3, Zenon DEF Awake, Needed, Reads
<1> QED  BY <1>2, <1>3, CarriedBy

-----------------------------------------------------------------------------
(* What sounds.                                                            *)

KeyHeld  == \A v \in voices : v.by \in Keys => active[v.by] = v.id
WaveHeld ==
  ~history.quick =>
    \A v \in voices : v.by = "wave" /\ v.mount = mount => wave.down /\ wave.id = v.id
EditHeld == \A v \in voices : v.by = "edit" => v.id \in audition.timers

Once(J) ==
  /\ \A i, j : Waits(i, J) /\ Waits(j, J) => i = j
  /\ \A i, j : Asked(i, J) /\ Asked(j, J) => i = j
  /\ \A i, j : ~(Waits(i, J) /\ Asked(j, J))
Busy(J) == \E i : Waits(i, J) \/ Asked(i, J)

\* The waveform as it is now, unless it was pressed or released in haste, waits for one
\* voice at a time, with the pointer down and none sounding; and nothing waits yet for
\* one that is still to come.
OfWave(m) == {a \in Job : a.by = "wave" /\ a.mount = m}
Later(m)  == {a \in Job : a.mount > m}

Pressed ==
  ~history.quick => Once(OfWave(mount)) /\ (Busy(OfWave(mount)) => wave.down /\ wave.id = -1)
Past == ~Busy(Later(mount))

VoiceInv == KeyHeld /\ WaveHeld /\ EditHeld /\ Pressed /\ Past

\* The same of a set that does not change with the step.
LEMMA PressedNow ==
  ASSUME NEW J, J = OfWave(mount)
  PROVE  Pressed <=> (~history.quick => Once(J) /\ (Busy(J) => wave.down /\ wave.id = -1))
  BY DEF Pressed

LEMMA PressedThen ==
  ASSUME NEW J, J = OfWave(mount')
  PROVE  Pressed' <=> (~history'.quick => Once(J)' /\ (Busy(J)' => wave'.down /\ wave'.id = -1))
  BY DEF Pressed, Once, Busy, Waits, Asked, OfWave

LEMMA PastThen ==
  ASSUME NEW J, J = Later(mount'), ~Busy(J)'
  PROVE  Past'
  BY DEF Past, Busy, Waits, Asked, Later

LEMMA HeldIs == VoicesOK => (VoicesAreHeld <=> KeyHeld /\ WaveHeld /\ EditHeld)
<1> SUFFICES ASSUME VoicesOK  PROVE VoicesAreHeld <=> KeyHeld /\ WaveHeld /\ EditHeld
  OBVIOUS
<1>1. \A v \in voices : v.by \in Keys \cup {"wave", "edit"}
  BY DEF VoicesOK, Jobs
<1>2. "wave" \notin Keys /\ "edit" \notin Keys
  BY SamplerAssumption
<1> QED  BY <1>1, <1>2 DEF VoicesAreHeld, KeyHeld, WaveHeld, EditHeld

LEMMA WaveBusyIs ==
  ASSUME PortsOK, NEW J, J = OfWave(mount)
  PROVE  WaveBusy <=> Busy(J)
<1>1. \A i \in DOMAIN waking : waking[i] \in Job
  BY LenProperties, ElementOfSeq DEF PortsOK
<1>2. \A i \in DOMAIN replies : replies[i] \in Reply
  BY LenProperties, ElementOfSeq DEF PortsOK
<1>3. \A i \in DOMAIN replies : replies[i].what = "pcm" => replies[i].job \in Job
  BY <1>2 DEF Reply
<1> QED  BY <1>1, <1>3 DEF WaveBusy, Here, Busy, Waits, Asked, OfWave

LEMMA OnceKept ==
  ASSUME NEW J, Others(J)
  PROVE  (Once(J) => Once(J)') /\ (Busy(J)' => Busy(J))
<1>1. PICK f, g : Carries(J, f, g)
  BY DEF Others
<1>2. Once(J) => Once(J)'
  <2> SUFFICES ASSUME Once(J)  PROVE Once(J)'
    OBVIOUS
  <2>1. \A i, j : Waits(i, J)' /\ Waits(j, J)' => i = j
    BY <1>1 DEF Carries, Once
  <2>2. \A i, j : Asked(i, J)' /\ Asked(j, J)' => i = j
    BY <1>1 DEF Carries, Once
  <2>3. \A i, j : ~(Waits(i, J)' /\ Asked(j, J)')
    BY <1>1 DEF Carries, Once
  <2> QED  BY <2>1, <2>2, <2>3 DEF Once
<1>3. Busy(J)' => Busy(J)
  BY <1>1 DEF Carries, Busy
<1> QED  BY <1>2, <1>3

\* A step that starts none of these.
StartsNone == \A J \in {OfWave(mount), Later(mount)} : Others(J)

LEMMA PressedSame ==
  ASSUME Pressed, Past, StartsNone, UNCHANGED <<mount, wave>>, history.quick => history'.quick
  PROVE  Pressed' /\ Past'
<1>1. PICK J, L : J = OfWave(mount) /\ L = Later(mount)
  OBVIOUS
<1>2. J = OfWave(mount') /\ L = Later(mount') /\ Others(J) /\ Others(L)
  BY <1>1 DEF StartsNone
<1>3. Pressed'
  BY <1>1, <1>2, OnceKept, PressedNow, PressedThen
<1>4. ~Busy(L)
  BY <1>1 DEF Past
<1> QED  BY <1>2, <1>3, <1>4, OnceKept, PastThen

\* Nothing new sounds.
LEMMA VoicesLess ==
  ASSUME VoiceInv, voices' \subseteq voices, UNCHANGED <<mount, wave, audition>>,
         UNCHANGED active \/ voices' = {}, history'.quick = history.quick, StartsNone
  PROVE  VoiceInv'
<1>1. Pressed' /\ Past'
  BY PressedSame DEF VoiceInv
<1>2. KeyHeld' /\ WaveHeld' /\ EditHeld'
  BY DEF VoiceInv, KeyHeld, WaveHeld, EditHeld
<1> QED  BY <1>1, <1>2 DEF VoiceInv

\* Keyboard and waveform go.
LEMMA VoicesGone ==
  ASSUME JamTypeOK, VoiceInv, Unmount, UNCHANGED <<waking, replies>>
  PROVE  VoiceInv'
<1>1. mount \in Nat /\ mount' = mount + 1 /\ voices' = {}
  BY TypeParts DEF Parts, VoicesOK, Unmount, Hush
<1>2. PICK J, L, M : J = OfWave(mount') /\ L = Later(mount') /\ M = Later(mount)
  OBVIOUS
<1>3. J \subseteq M /\ L \subseteq M
  BY <1>1, <1>2 DEF OfWave, Later, Job
<1>4. \A i : ~Waits(i, M)' /\ ~Asked(i, M)'
  BY <1>2 DEF VoiceInv, Past, Busy, Waits, Asked
<1>5. (\A i : ~Waits(i, J)' /\ ~Asked(i, J)') /\ (\A i : ~Waits(i, L)' /\ ~Asked(i, L)')
  BY <1>3, <1>4 DEF Waits, Asked
<1>6. ~Busy(J)' /\ Once(J)' /\ ~Busy(L)'
  BY <1>5 DEF Busy, Once
<1>7. Pressed' /\ Past'
  BY <1>2, <1>6, PressedThen, PastThen
<1> QED  BY <1>1, <1>7 DEF VoiceInv, KeyHeld, WaveHeld, EditHeld

\* A note that waited sounds, or there is no sample for it.
LEMMA PlayedHeld ==
  ASSUME VoiceInv, VoicesOK, NEW job \in Job, job.by \notin Plays, NEW of, Played(job, of),
         UNCHANGED <<history, mount>>, Past',
         NEW J, J = OfWave(mount),
         job \notin J => Others(J),
         job \in J => Busy(J) /\ (Once(J) => ~Busy(J)' /\ Once(J)')
  PROVE  VoiceInv'
<1> DEFINE n == nextVoice
<1>0. /\ n \in Nat \ {0} /\ n # -1 /\ job.by \in Keys \cup {"wave", "edit"}
      /\ "wave" \notin Keys /\ "edit" \notin Keys
      /\ \A v \in voices : v.id \in Nat /\ v.id # 0 /\ v.id # -1 /\ v.id # n
      /\ \A k \in Keys : active[k] # n
      /\ job \in J <=> job.by = "wave" /\ Here(job)
  BY SamplerAssumption DEF VoicesOK, Job, Jobs, OfWave, Here
<1> USE DEF Here
<1>1. J = OfWave(mount')
  OBVIOUS
<1>2. ASSUME job \notin J, UNCHANGED wave  PROVE Pressed'
  <2>1. Others(J) /\ (~history.quick => Once(J) /\ (Busy(J) => wave.down /\ wave.id = -1))
    BY <1>2, PressedNow DEF VoiceInv
  <2> QED  BY <1>1, <1>2, <2>1, OnceKept, PressedThen
<1>3. ASSUME job \in J
      PROVE  Pressed' /\ (~history.quick => wave.down /\ wave.id = -1)
  <2>1. Busy(J) /\ (~history.quick => Once(J) /\ wave.down /\ wave.id = -1)
    BY <1>3, PressedNow DEF VoiceInv
  <2> QED  BY <1>1, <1>3, <2>1, PressedThen
<1>4. CASE NoSound(job)
  <2>1. UNCHANGED <<voices, active>>
        /\ wave' = (IF job \in J THEN [wave EXCEPT !.id = -1] ELSE wave)
        /\ audition'.timers = audition.timers
    BY <1>0, <1>4 DEF NoSound, VoicesOK
  <2>2. CASE job \notin J
    BY <1>2, <2>1, <2>2 DEF VoiceInv, KeyHeld, WaveHeld, EditHeld
  <2>3. CASE job \in J
    <3>1. WaveHeld'
      BY <1>0, <1>3, <2>1, <2>3 DEF WaveHeld, VoiceInv
    <3> QED  BY <1>3, <2>1, <2>3, <3>1 DEF VoiceInv, KeyHeld, EditHeld
  <2> QED  BY <2>2, <2>3
<1>5. CASE Sound(job)
  <2> DEFINE v == [id |-> n, by |-> job.by, idx |-> job.idx, mount |-> job.mount]
             held == job.by \in Keys /\ Here(job) /\ active[job.by] = -1
  <2>1. /\ voices' = IF job.by \in Keys /\ ~held THEN voices ELSE voices \cup {v}
        /\ active' = IF held THEN [active EXCEPT ![job.by] = n] ELSE active
        /\ wave' = IF job \in J THEN [wave EXCEPT !.id = n] ELSE wave
        /\ audition' = IF job.by = "edit" THEN [last |-> n, timers |-> audition.timers \cup {n}] ELSE audition
    BY <1>0, <1>5, Zenon DEF Sound, SoundUnless
  <2>2. v.id = n /\ v.by = job.by /\ v.mount = job.mount
    OBVIOUS
  <2> HIDE DEF v
  <2>3. CASE job.by \in Keys
    <3>1. Pressed' /\ UNCHANGED <<wave, audition>>
      BY <1>0, <1>2, <2>1, <2>3
    <3>2. WaveHeld' /\ EditHeld'
      BY <1>0, <2>1, <2>2, <2>3, <3>1 DEF VoiceInv, WaveHeld, EditHeld
    <3>3. KeyHeld'
      <4>1. CASE ~held
        BY <2>1, <2>3, <4>1 DEF VoiceInv, KeyHeld
      <4>2. CASE held
        <5>1. \A u \in voices : u.by # job.by
          BY <1>0, <2>3, <4>2 DEF VoiceInv, KeyHeld
        <5>2. active' = [active EXCEPT ![job.by] = n] /\ voices' = voices \cup {v}
          BY <2>1, <2>3, <4>2
        <5> QED  BY <2>2, <2>3, <5>1, <5>2 DEF VoiceInv, KeyHeld, VoicesOK
      <4> QED  BY <4>1, <4>2
    <3> QED  BY <3>1, <3>2, <3>3 DEF VoiceInv
  <2>4. CASE job.by = "wave"
    <3>1. UNCHANGED <<active, audition>> /\ voices' = voices \cup {v}
      BY <1>0, <2>1, <2>4
    <3>2. KeyHeld' /\ EditHeld'
      BY <1>0, <2>2, <2>4, <3>1 DEF VoiceInv, KeyHeld, EditHeld
    <3>3. CASE job \in J
      <4>1. wave'.id = n /\ wave'.down = wave.down
        BY <2>1, <3>3 DEF VoicesOK
      <4>2. WaveHeld'
        BY <1>0, <1>3, <2>2, <3>1, <3>3, <4>1 DEF WaveHeld, VoiceInv
      <4> QED  BY <1>3, <3>2, <3>3, <4>2 DEF VoiceInv
    <3>4. CASE job \notin J
      <4>1. UNCHANGED wave /\ v.mount # mount
        BY <1>0, <2>1, <2>2, <2>4, <3>4
      <4>2. WaveHeld'
        BY <3>1, <4>1 DEF WaveHeld, VoiceInv
      <4> QED  BY <1>2, <3>2, <3>4, <4>1, <4>2 DEF VoiceInv
    <3> QED  BY <3>3, <3>4
  <2>5. CASE job.by = "edit"
    <3>1. /\ UNCHANGED <<active, wave>> /\ voices' = voices \cup {v} /\ job \notin J
          /\ audition' = [last |-> n, timers |-> audition.timers \cup {n}]
      BY <1>0, <2>1, <2>5
    <3>2. KeyHeld' /\ WaveHeld' /\ EditHeld'
      BY <1>0, <2>2, <2>5, <3>1 DEF VoiceInv, KeyHeld, WaveHeld, EditHeld
    <3> QED  BY <1>2, <3>1, <3>2 DEF VoiceInv
  <2> QED  BY <1>0, <2>3, <2>4, <2>5
<1> QED  BY <1>4, <1>5 DEF Played

\* The only job of J, woken: it goes on, or asks for its sample.
LEMMA WokenOnce ==
  ASSUME JamTypeOK, NEW n \in DOMAIN waking, Awake(n), NEW J, waking[n] \in J, Once(J)
  PROVE  /\ \A i : ~Waits(i, J)' /\ ~Asked(i, J)
         /\ UNCHANGED replies => ~Busy(J)' /\ Once(J)'
         /\ replies' = Append(replies, Ask(waking[n])) => Once(J)'
<1>1. waking[n] \in Job /\ Waits(n, J)
  BY WokenIs DEF Waits
<1>2. \A i : ~Waits(i, J)'
  <2>1. PICK f : Picks(f, waking', waking) /\ \A i \in DOMAIN waking' : f[i] # n
    BY WokenIs DEF Awake
  <2> SUFFICES ASSUME NEW i, Waits(i, J)'  PROVE FALSE
    OBVIOUS
  <2>2. f[i] # n /\ Waits(f[i], J)
    BY <2>1 DEF Picks, Waits
  <2> QED  BY <1>1, <2>2 DEF Once
<1>3. \A i : ~Asked(i, J)
  BY <1>1 DEF Once
<1>4. UNCHANGED replies => ~Busy(J)' /\ Once(J)'
  <2> SUFFICES ASSUME UNCHANGED replies  PROVE ~Busy(J)' /\ Once(J)'
    OBVIOUS
  <2>1. \A i : ~Asked(i, J)'
    BY <1>3 DEF Asked
  <2> QED  BY <1>2, <2>1 DEF Busy, Once
<1>5. replies' = Append(replies, Ask(waking[n])) => Once(J)'
  <2> SUFFICES ASSUME replies' = Append(replies, Ask(waking[n]))  PROVE Once(J)'
    OBVIOUS
  <2>1. PICK x \in Reply : x = Ask(waking[n])
    BY <1>1, AskTyped
  <2>2. \A i \in DOMAIN replies' : (i \in DOMAIN replies /\ replies'[i] = replies[i]) \/ i = Len(replies) + 1
    BY <2>1, RepliesAppended, TypeParts DEF Parts
  <2>3. \A i : Asked(i, J)' => i = Len(replies) + 1
    BY <1>3, <2>2 DEF Asked
  <2> QED  BY <1>2, <2>3 DEF Once
<1> QED  BY <1>2, <1>3, <1>4, <1>5

LEMMA TakenOnce ==
  ASSUME JamTypeOK, OnPcm, NEW J, Head(replies).job \in J, Once(J)
  PROVE  Busy(J) /\ ~Busy(J)' /\ Once(J)'
<1>1. UNCHANGED waking /\ replies # <<>> /\ replies' = Tail(replies) /\ Head(replies).what = "pcm"
  BY DEF OnPcm
<1>2. PICK g : Picks(g, replies', replies) /\ \A i \in DOMAIN replies' : g[i] # 1
  BY <1>1, RepliesTaken, TypeParts DEF Parts
<1>3. Asked(1, J)
  BY <1>1, RepliesTaken, TypeParts DEF Parts, Asked
<1>4. \A i : ~Asked(i, J)'
  BY <1>2, <1>3 DEF Picks, Asked, Once
<1>5. \A i : ~Waits(i, J)'
  BY <1>1, <1>3 DEF Waits, Once
<1> QED  BY <1>3, <1>4, <1>5 DEF Busy, Once

\* Who waits and who comes to wait is of the keyboard and the waveform there are.
LEMMA NoneStarted == UNCHANGED <<waking, replies>> => StartsNone
  BY NothingNew DEF StartsNone

LEMMA PastSame ==
  ASSUME Past, UNCHANGED mount, \A J \in {Later(mount)} : Others(J)
  PROVE  Past'
<1>1. PICK L : L = Later(mount)
  OBVIOUS
<1>2. L = Later(mount') /\ Others(L) /\ ~Busy(L)
  BY <1>1 DEF Past
<1> QED  BY <1>2, OnceKept, PastThen

LEMMA AwaitStarts ==
  ASSUME PortsOK, VoicesOK, NEW x \in Job, x.mount = mount,
         waking' = Append(waking, x), UNCHANGED replies
  PROVE  /\ \A J \in {Later(mount)} : Others(J)
         /\ x.by # "wave" => StartsNone
<1>1. x \notin Later(mount) /\ (x.by # "wave" => x \notin OfWave(mount))
  BY DEF Later, OfWave, VoicesOK
<1> QED  BY <1>1, MoreWait DEF StartsNone

LEMMA AwakeStarts ==
  ASSUME JamTypeOK, Past, NEW n \in DOMAIN waking, Awake(n)
  PROVE  /\ \A J \in {Later(mount)} : Others(J)
         /\ waking[n] \notin OfWave(mount) => StartsNone
<1>1. waking[n] \in Job /\ waking[n] \notin Later(mount)
  BY WokenIs DEF Past, Busy, Waits
<1>2. ASSUME NEW a \in Job, a.by = waking[n].by, a.mount = waking[n].mount
      PROVE  a \notin Later(mount) /\ (waking[n] \notin OfWave(mount) => a \notin OfWave(mount))
  BY <1>1, <1>2 DEF Later, OfWave
<1>3. ASSUME NEW J \in {Later(mount)}  PROVE Others(J)
  BY <1>2, <1>3, AwakeCarries
<1>4. ASSUME waking[n] \notin OfWave(mount), NEW J \in {OfWave(mount)}  PROVE Others(J)
  BY <1>2, <1>4, AwakeCarries
<1> QED  BY <1>3, <1>4 DEF StartsNone

LEMMA NotesHeld ==
  ASSUME JamTypeOK, VoiceInv,
         \/ \E k \in Keys : Down(k) \/ Up(k)
         \/ WaveDown \/ WaveUp
         \/ \E id \in audition.timers : AuditionOver(id)
  PROVE  VoiceInv'
<1>0. /\ PortsOK /\ VoicesOK /\ EditorOK /\ HistoryOK
      /\ KeyHeld /\ WaveHeld /\ EditHeld /\ Pressed /\ Past
  BY TypeParts DEF Parts, VoiceInv
<1>1. \A v \in voices : v.id \in Nat /\ v.id # 0 /\ v.by \in Keys \cup {"wave", "edit"}
  BY <1>0 DEF VoicesOK, Jobs
<1>2. "wave" \notin Keys /\ "edit" \notin Keys
  BY SamplerAssumption
<1>3. ASSUME NEW k \in Keys, Down(k)  PROVE VoiceInv'
  <2>1. /\ active[k] = 0 /\ active' = [active EXCEPT ![k] = -1]
        /\ UNCHANGED <<voices, mount, wave, audition, replies, history>>
    BY <1>3 DEF Down, sampler
  <2>2. StartsNone
    <3>1. PICK x \in Job : x.by = k /\ x.mount = mount /\ waking' = Append(waking, x)
      BY <1>0, <1>3 DEF Down, Await, Job, Jobs, EditorOK, VoicesOK
    <3> QED  BY <1>0, <1>2, <2>1, <3>1, AwaitStarts
  <2>3. KeyHeld'
    BY <1>0, <1>1, <2>1 DEF KeyHeld, VoicesOK
  <2>4. Pressed' /\ Past'
    BY <1>0, <2>1, <2>2, PressedSame
  <2> QED  BY <1>0, <2>1, <2>3, <2>4 DEF VoiceInv, WaveHeld, EditHeld
<1>4. ASSUME NEW k \in Keys, Up(k)  PROVE VoiceInv'
  <2>1. /\ active' = [active EXCEPT ![k] = 0] /\ voices' = {v \in voices : v.id # active[k]}
        /\ UNCHANGED <<mount, wave, audition, waking, replies, history>>
    BY <1>4 DEF Up, Without
  <2>2. KeyHeld'
    BY <1>0, <2>1 DEF KeyHeld, VoicesOK
  <2>3. Pressed' /\ Past'
    BY <1>0, <2>1, NoneStarted, PressedSame
  <2> QED  BY <1>0, <2>1, <2>2, <2>3 DEF VoiceInv, WaveHeld, EditHeld
<1> DEFINE Now == OfWave(mount)
<1>5. CASE WaveDown
  <2>1. /\ wave' = [wave EXCEPT !.down = TRUE] /\ UNCHANGED <<voices, mount, active, audition, replies>>
        /\ history' = [history EXCEPT !.quick = @ \/ WaveBusy \/ wave.id # -1]
    BY <1>5 DEF WaveDown, sampler
  <2>2. wave'.down /\ wave'.id = wave.id
    BY <1>0, <2>1 DEF VoicesOK
  <2>3. PICK J : J = Now /\ J = OfWave(mount')
    BY <2>1
  <2>4. ~history'.quick => ~history.quick /\ ~Busy(J) /\ wave.id = -1
    BY <1>0, <2>1, <2>3, WaveBusyIs DEF HistoryOK
  <2>5. WaveHeld'
    BY <1>0, <1>1, <2>1, <2>4 DEF WaveHeld
  <2>6. PICK x \in Job : x.mount = mount /\ waking' = Append(waking, x)
    BY <1>0, <1>5 DEF WaveDown, Await, Job, Jobs, EditorOK, VoicesOK
  <2>7. Pressed'
    <3>1. ASSUME ~history'.quick  PROVE Once(J)' /\ wave'.down /\ wave'.id = -1
      <4>1. \A i \in DOMAIN waking' : (i \in DOMAIN waking /\ waking'[i] = waking[i]) \/ i = Len(waking) + 1
        <5>1. /\ Len(waking) \in Nat /\ DOMAIN waking = 1 .. Len(waking)
              /\ DOMAIN waking' = 1 .. Len(waking) + 1
              /\ \A i \in 1 .. Len(waking) : waking'[i] = waking[i]
          BY <1>0, <2>6, Appended DEF PortsOK
        <5> QED  BY <5>1
      <4>2. \A i : Waits(i, J)' => i = Len(waking) + 1
        BY <2>4, <3>1, <4>1 DEF Busy, Waits
      <4>3. \A i : ~Asked(i, J)'
        BY <2>1, <2>4, <3>1 DEF Busy, Asked
      <4> QED  BY <2>2, <2>4, <3>1, <4>2, <4>3 DEF Once
    <3> QED  BY <2>3, <3>1, PressedThen
  <2>8. Past'
    BY <1>0, <2>1, <2>6, AwaitStarts, PastSame
  <2> QED  BY <1>0, <2>1, <2>5, <2>7, <2>8 DEF VoiceInv, KeyHeld, EditHeld
<1>6. CASE WaveUp
  <2>1. /\ voices' = {v \in voices : v.id # wave.id}
        /\ UNCHANGED <<mount, active, audition, waking, replies>>
        /\ history' = [history EXCEPT !.quick = @ \/ WaveBusy]
    BY <1>6 DEF WaveUp, Without
  <2>2. PICK J : J = Now /\ J = OfWave(mount')
    BY <2>1
  <2>3. ~history'.quick => ~history.quick /\ ~Busy(J)
    BY <1>0, <2>1, <2>2, WaveBusyIs DEF HistoryOK
  <2>4. WaveHeld'
    BY <1>0, <2>1, <2>3 DEF WaveHeld
  <2>5. Pressed'
    <3>1. (Busy(J)' => Busy(J)) /\ (Once(J) => Once(J)')
      BY <2>1, NothingNew, OnceKept
    <3>2. ~history.quick => Once(J)
      BY <1>0, <2>2, PressedNow
    <3> QED  BY <2>2, <2>3, <3>1, <3>2, PressedThen
  <2>6. Past'
    BY <1>0, <2>1, NothingNew, PastSame
  <2> QED  BY <1>0, <2>1, <2>4, <2>5, <2>6 DEF VoiceInv, KeyHeld, EditHeld
<1>7. ASSUME NEW id \in audition.timers, AuditionOver(id)  PROVE VoiceInv'
  <2>1. /\ audition'.timers = audition.timers \ {id} /\ voices' = {v \in voices : v.id # id}
        /\ UNCHANGED <<mount, active, wave, waking, replies, history>>
    BY <1>0, <1>7 DEF AuditionOver, Without, VoicesOK, panes
  <2>2. Pressed' /\ Past'
    BY <1>0, <2>1, NoneStarted, PressedSame
  <2> QED  BY <1>0, <2>1, <2>2 DEF VoiceInv, KeyHeld, WaveHeld, EditHeld
<1> QED  BY <1>3, <1>4, <1>5, <1>6, <1>7

LEMMA ContinuedHeld ==
  ASSUME JamTypeOK, VoiceInv, OnPcm \/ \E n \in DOMAIN waking : Awake(n)
  PROVE  VoiceInv'
<1>0. PortsOK /\ VoicesOK /\ HistoryOK /\ "wave" \notin Plays /\ Past
  BY TypeParts, SamplerAssumption DEF Parts, VoiceInv
<1>1. UNCHANGED mount
  BY DEF OnPcm, Awake
<1>2. ASSUME UNCHANGED <<voices, active, wave, audition>>, history'.quick = history.quick, StartsNone
      PROVE  VoiceInv'
  BY <1>1, <1>2, VoicesLess
<1>3. PICK J : J = OfWave(mount)
  OBVIOUS
<1>4. CASE OnPcm
  <2>1. PICK x \in Reply : x = Head(replies) /\ x.what = "pcm" /\ x.job \in Job
    <3>1. Head(replies) \in Reply /\ Head(replies).what = "pcm"
      BY <1>0, <1>4, RepliesTaken DEF OnPcm
    <3> QED  BY <3>1 DEF Reply
  <2>2. StartsNone /\ Past' /\ Others(J)
    <3>1. \A S : Others(S)
      BY <1>4, TakenCarries
    <3> QED  BY <1>0, <1>1, <3>1, PastSame DEF StartsNone
  <2>3. CASE x.job.by \notin Plays
    <3>1. Played(x.job, x.of) /\ UNCHANGED history
      BY <1>4, <2>1, <2>3 DEF OnPcm
    <3>2. x.job \in J => Busy(J) /\ (Once(J) => ~Busy(J)' /\ Once(J)')
      <4>1. x.job \in J => Asked(1, J)
        BY <1>0, <1>4, <2>1, RepliesTaken DEF Asked, OnPcm
      <4> QED  BY <1>4, <2>1, <4>1, TakenOnce DEF Busy
    <3> QED  BY <1>0, <1>1, <1>3, <2>1, <2>2, <2>3, <3>1, <3>2, PlayedHeld
  <2>4. CASE x.job.by \in Plays
    <3>1. UNCHANGED <<voices, active, wave, audition>> /\ history'.quick = history.quick
      BY <1>0, <1>4, <2>1, <2>4 DEF OnPcm, SeqStart, HistoryOK
    <3> QED  BY <1>2, <2>2, <3>1
  <2> QED  BY <2>3, <2>4
<1>5. ASSUME NEW n \in DOMAIN waking, Awake(n)  PROVE VoiceInv'
  <2>1. PICK job \in Job : job = waking[n]
    BY WokenIs
  <2>2. (job \notin J => StartsNone /\ Others(J)) /\ Past'
    BY <1>0, <1>1, <1>3, <1>5, <2>1, AwakeStarts, PastSame DEF StartsNone
  <2>3. CASE job.by \in Plays
    <3>1. UNCHANGED <<voices, active, wave, audition>>
      BY <1>5, <2>1, <2>3 DEF Awake
    <3>2. history'.quick = history.quick
      BY <1>0, <1>5, <2>1, <2>3 DEF Awake, SeqStart, Misread, HistoryOK
    <3>3. job \notin J
      BY <1>0, <1>3, <2>3 DEF OfWave
    <3> QED  BY <1>2, <2>2, <3>1, <3>2, <3>3
  <2>4. CASE job.by \notin Plays /\ cache[job.idx] # Unread
    <3>1. Played(job, cache[job.idx]) /\ UNCHANGED <<replies, history>>
      BY <1>5, <2>1, <2>4 DEF Awake
    <3>2. job \in J => Busy(J) /\ (Once(J) => ~Busy(J)' /\ Once(J)')
      <4>1. job \in J => Waits(n, J)
        BY <2>1 DEF Waits
      <4> QED  BY <1>5, <2>1, <3>1, <4>1, WokenOnce DEF Busy
    <3> QED  BY <1>0, <1>1, <1>3, <2>2, <2>4, <3>1, <3>2, PlayedHeld
  <2>5. CASE job.by \notin Plays /\ cache[job.idx] = Unread
    <3>1. /\ UNCHANGED <<voices, active, wave, audition>> /\ history' = Misread({job.idx})
          /\ replies' = Append(replies, Ask(job))
      BY <1>5, <2>1, <2>5 DEF Awake
    <3>2. history'.quick = history.quick
      BY <1>0, <3>1 DEF Misread, HistoryOK
    <3>3. CASE job \notin J
      BY <1>2, <2>2, <3>1, <3>2, <3>3
    <3>4. CASE job \in J
      <4>1. Busy(J) /\ (Once(J) => Once(J)')
        BY <1>5, <2>1, <3>1, <3>4, WokenOnce DEF Busy, Waits
      <4>2. Pressed'
        <5>1. J = OfWave(mount')
          BY <1>1, <1>3
        <5>2. ~history.quick => Once(J) /\ wave.down /\ wave.id = -1
          BY <1>3, <4>1, PressedNow DEF VoiceInv
        <5> QED  BY <3>1, <3>2, <4>1, <5>1, <5>2, PressedThen
      <4> QED  BY <1>1, <2>2, <3>1, <3>2, <4>2 DEF VoiceInv, KeyHeld, WaveHeld, EditHeld
    <3> QED  BY <3>3, <3>4
  <2> QED  BY <2>3, <2>4, <2>5
<1> QED  BY <1>4, <1>5

LEMMA VoicesKept == JamTypeOK /\ VoiceInv /\ JamNext => VoiceInv'
<1> SUFFICES ASSUME JamTypeOK, VoiceInv, JamNext  PROVE VoiceInv'
  OBVIOUS
<1>0. PortsOK /\ HistoryOK /\ EditorOK /\ VoicesOK /\ "wave" \notin Plays /\ None \notin Tracks
  BY TypeParts, SamplerAssumption DEF Parts
<1>1. ASSUME \/ \E t \in Tracks : PlayTrack(t) \/ Cue(t)
             \/ Ends \/ TogglePause \/ Stop
             \/ \E i \in Idx : Select(i)
             \/ OpenSamples \/ LeaveSamples
             \/ \E v \in voices : VoiceEnds(v)
             \/ EnterEdit \/ LeaveEdit \/ SeqToggleOff \/ SeqTick
      PROVE  VoiceInv'
  <2>1. UNCHANGED <<waking, replies>>
    BY <1>1 DEF PlayTrack, Play, Cue, Ends, TogglePause, Stop, Select, OpenSamples, LeaveSamples,
       VoiceEnds, EnterEdit, LeaveEdit, SeqToggleOff, SeqTick
  <2>2. Unmount \/ /\ UNCHANGED <<mount, wave, audition>> /\ voices' \subseteq voices
                   /\ UNCHANGED active \/ voices' = {}
    BY <1>1 DEF PlayTrack, Play, Cue, Ends, TogglePause, Stop, Select, OpenSamples, LeaveSamples,
       VoiceEnds, EnterEdit, LeaveEdit, SeqToggleOff, SeqTick, SongShown, Hush, sampler, holders, panes
  <2>3. history'.quick = history.quick
    BY <1>0, <1>1 DEF PlayTrack, Play, Cue, Ends, TogglePause, Stop, Select, OpenSamples, LeaveSamples,
       VoiceEnds, EnterEdit, LeaveEdit, SeqToggleOff, SeqTick, Stray, HistoryOK
  <2> QED  BY <2>1, <2>2, <2>3, NoneStarted, VoicesLess, VoicesGone
<1>2. ASSUME NEW i \in DOMAIN coming, Fetched(i)  PROVE VoiceInv'
  <2>1. UNCHANGED <<voices, mount, active, wave, audition, history>>
    BY <1>2 DEF Fetched, sampler, holders, panes
  <2>2. StartsNone
    BY <1>2, FetchedCarries DEF StartsNone
  <2> QED  BY <2>1, <2>2, VoicesLess
<1>3. CASE OnMeta
  <2>1. PICK x \in Reply : x = Head(replies) /\ x.what \in {"meta", "decoded"}
    BY <1>0, <1>3, RepliesTaken DEF OnMeta
  <2>2. x.of # None
    BY <1>0, <2>1 DEF Reply
  <2>3. UNCHANGED <<mount, wave, audition, history>> /\ voices' \subseteq voices
        /\ (UNCHANGED active \/ voices' = {})
    BY <1>3, <2>1, <2>2 DEF OnMeta, SongShown, Hush
  <2>4. StartsNone
    BY <1>3, TakenCarries DEF StartsNone
  <2> QED  BY <2>3, <2>4, VoicesLess
<1>4. ASSUME (\E i \in Idx : EnterNote(i)) \/ \E p \in Plays : SeqPlay(p)  PROVE VoiceInv'
  <2>1. UNCHANGED <<mount, active, wave, audition, replies>> /\ voices' \subseteq voices
        /\ history'.quick = history.quick
    BY <1>0, <1>4 DEF EnterNote, SeqPlay, Without, sampler, holders, panes, HistoryOK
  <2>2. PICK b \in Plays \cup {"edit"}, i \in Idx : waking' = Append(waking, [by |-> b, idx |-> i, mount |-> mount])
    BY <1>4, SamplerAssumption DEF EnterNote, SeqPlay, Await
  <2>3. PICK x \in Job : x = [by |-> b, idx |-> i, mount |-> mount]
    BY <1>0 DEF Job, Jobs, VoicesOK
  <2>4. x.by # "wave" /\ x.mount = mount
    BY <1>0, <2>3
  <2> QED  BY <1>0, <2>1, <2>2, <2>3, <2>4, AwaitStarts, VoicesLess
<1> QED  BY <1>1, <1>2, <1>3, <1>4, NotesHeld, ContinuedHeld DEF JamNext

\* Whatever sounds is held by its key, by the pointer on the waveform or by the timer of
\* the audition, however keys, selections, tracks and answers cross; excepted are a
\* waveform that is pressed again or released before it sounded, and one that goes with
\* its song or its view while it still waits for its note.
THEOREM VoicesStayHeld == JamSpec => []VoicesAreHeld
<1>1. JamInit => VoiceInv
  BY DEF JamInit, VoiceInv, KeyHeld, WaveHeld, EditHeld, Pressed, Past, Once, Busy, Waits, Asked
<1>2. JamTypeOK /\ VoiceInv /\ [JamNext]_jamVars => VoiceInv'
  <2> SUFFICES ASSUME JamTypeOK, VoiceInv, UNCHANGED jamVars  PROVE VoiceInv'
    BY VoicesKept
  <2> QED  BY NoneStarted, VoicesLess DEF jamVars, sampler, holders, panes
<1>3. JamTypeOK /\ VoiceInv => VoicesAreHeld
  BY TypeParts, HeldIs DEF Parts, VoiceInv
<1> QED  BY <1>1, <1>2, <1>3, JamTypeCorrect, PTL DEF JamSpec

-----------------------------------------------------------------------------
(* The sequencer and the song.                                             *)

Of(p) == {a \in Job : a.by = p}

\* A seqPlay waits for audio once, or else once for each sample it still needs.
Pending(p) ==
  /\ \A i : Waits(i, Of(p)) => plays[p].at = "wake"
  /\ \A i, j : Waits(i, Of(p)) /\ Waits(j, Of(p)) => i = j
  /\ \A i : Asked(i, Of(p)) => plays[p].at = "read" /\ replies[i].job.idx \in plays[p].left
  /\ \A i, j : Asked(i, Of(p)) /\ Asked(j, Of(p)) /\ replies[i].job.idx = replies[j].job.idx => i = j
AllPending == \A p \in Plays : Pending(p)

\* Unless two seqPlays overlapped, one at a time sets up a graph, and none is there then.
OneGraph ==
  /\ seq.out => seq.on
  /\ ~history.overlap =>
       /\ \A p, q \in Plays : plays[p].at # "off" /\ plays[q].at # "off" => p = q
       /\ Underway => ~seq.on
       /\ ~history.lost

\* Only edit mode has a pattern, and there the song is silent and stays it.
Edited ==
  ~history.strayed =>
    /\ Underway \/ seq.on => editing
    /\ editing => eng.muted \/ ~(Sounding \/ LoadComing)

OfTrack == Looped \cap history.early = {} => seq.voice \in {None, shown}

SeqInv == AllPending /\ OneGraph /\ Edited /\ OfTrack

LEMMA PendingSame ==
  ASSUME NEW p, Pending(p), Others(Of(p)), plays'[p] = plays[p]
  PROVE  Pending(p)'
<1>1. PICK f, g : Carries(Of(p), f, g)
  BY DEF Others
<1>2. \A i : Waits(i, Of(p))' => plays'[p].at = "wake"
  BY <1>1 DEF Carries, Pending
<1>3. \A i, j : Waits(i, Of(p))' /\ Waits(j, Of(p))' => i = j
  BY <1>1 DEF Carries, Pending
<1>4. \A i : Asked(i, Of(p))' => plays'[p].at = "read" /\ replies'[i].job.idx \in plays'[p].left
  BY <1>1 DEF Carries, Pending
<1>5. ASSUME NEW i, NEW j, Asked(i, Of(p))', Asked(j, Of(p))', replies'[i].job.idx = replies'[j].job.idx
      PROVE  i = j
  <2>1. /\ Asked(g[i], Of(p)) /\ Asked(g[j], Of(p)) /\ replies'[i] = replies[g[i]] /\ replies'[j] = replies[g[j]]
        /\ g[i] = g[j] => i = j
    BY <1>1, <1>5 DEF Carries
  <2> QED  BY <1>5, <2>1 DEF Pending
<1> QED  BY <1>2, <1>3, <1>4, <1>5 DEF Pending

LEMMA PendingWoken ==
  ASSUME JamTypeOK, AllPending, NEW n \in DOMAIN waking, Awake(n), NEW p \in Plays, p = waking[n].by
  PROVE  Pending(p)' /\ plays[p].at = "wake"
<1>0. plays \in [Plays -> [at : {"off", "wake", "read"}, left : SUBSET Idx]]
  BY TypeParts DEF Parts, EditorOK
<1>1. waking[n] \in Job /\ Waits(n, Of(p)) /\ Pending(p)
  BY WokenIs DEF Waits, AllPending, Of
<1>2. plays[p].at = "wake" /\ \A i : ~Asked(i, Of(p))
  BY <1>1 DEF Pending
<1>3. \A i : ~Waits(i, Of(p))'
  <2>1. PICK f : Picks(f, waking', waking) /\ \A i \in DOMAIN waking' : f[i] # n
    BY WokenIs DEF Awake
  <2>2. ASSUME NEW i, Waits(i, Of(p))'  PROVE FALSE
    <3>1. f[i] # n /\ Waits(f[i], Of(p))
      BY <2>1, <2>2 DEF Picks, Waits
    <3> QED  BY <1>1, <3>1 DEF Pending
  <2> QED  BY <2>2
<1>4. CASE UNCHANGED replies
  <2>1. \A i : ~Asked(i, Of(p))'
    BY <1>2, <1>4 DEF Asked
  <2> QED  BY <1>2, <1>3, <2>1 DEF Pending
<1>5. CASE /\ replies' = replies \o Reads(waking[n])
           /\ plays' = [plays EXCEPT ![p] = [at |-> "read", left |-> ToSet(Needed)]]
  <2>1. plays'[p].at = "read" /\ plays'[p].left = ToSet(Needed)
    BY <1>0, <1>5
  <2> DEFINE m == Len(replies)
  <2>2. ASSUME NEW i, Asked(i, Of(p))'
        PROVE  i - m \in DOMAIN Needed /\ replies'[i].job.idx = Needed[i - m] /\ i \in Nat /\ m \in Nat
    <3>1. i \in DOMAIN replies' /\ i \notin DOMAIN replies
      BY <1>1, <1>2, <1>5, <2>2, RepliesAdded DEF Asked
    <3>2. i - m \in DOMAIN Needed /\ replies'[i] = Ask([waking[n] EXCEPT !.idx = Needed[i - m]])
      BY <1>1, <1>5, <3>1, RepliesAdded
    <3>3. replies' \in Seq(Reply)
      BY <1>1, <1>5, ReadsAre
    <3>4. i \in Nat /\ m \in Nat
      BY <1>1, <1>5, <3>1, <3>3, RepliesAdded, LenProperties
    <3> HIDE DEF m
    <3>5. replies'[i].job.idx = Needed[i - m]
      BY <1>1, <3>2 DEF Ask, Job
    <3> QED  BY <3>2, <3>4, <3>5
  <2>3. \A i : Asked(i, Of(p))' => replies'[i].job.idx \in plays'[p].left
    BY <2>1, <2>2 DEF ToSet
  <2>4. ASSUME NEW i, NEW j, Asked(i, Of(p))', Asked(j, Of(p))', replies'[i].job.idx = replies'[j].job.idx
        PROVE  i = j
    <3>1. i - m = j - m /\ i \in Nat /\ j \in Nat /\ m \in Nat
      BY <2>2, <2>4, NeededIs
    <3> HIDE DEF m
    <3> QED  BY <3>1
  <2> QED  BY <1>2, <1>3, <2>1, <2>3, <2>4 DEF Pending
<1> QED  BY <1>1, <1>2, <1>4, <1>5, Zenon DEF Awake, Needed, Reads, SeqStart

LEMMA PendingTaken ==
  ASSUME JamTypeOK, AllPending, OnPcm, NEW p \in Plays, p = Head(replies).job.by
  PROVE  Pending(p)' /\ plays[p].at = "read"
<1>0. /\ plays \in [Plays -> [at : {"off", "wake", "read"}, left : SUBSET Idx]]
      /\ PortsOK /\ Pending(p) /\ UNCHANGED waking
  BY TypeParts DEF Parts, EditorOK, AllPending, OnPcm
<1>1. PICK x \in Reply : x = Head(replies) /\ x.what = "pcm" /\ x = replies[1] /\ 1 \in DOMAIN replies
  BY <1>0, RepliesTaken DEF OnPcm
<1>2. PICK g : Picks(g, replies', replies) /\ \A i \in DOMAIN replies' : g[i] # 1
  BY <1>0, RepliesTaken DEF OnPcm
<1>3. Asked(1, Of(p)) /\ plays[p].at = "read" /\ x.job.idx \in plays[p].left
  BY <1>0, <1>1 DEF Asked, Pending, Of, Reply
<1>4. \A i : ~Waits(i, Of(p))'
  BY <1>0, <1>3 DEF Waits, Pending
<1>5. ASSUME NEW i, Asked(i, Of(p))'
      PROVE  /\ g[i] \in DOMAIN replies /\ replies'[i] = replies[g[i]] /\ Asked(g[i], Of(p))
             /\ replies'[i].job.idx \in plays[p].left \ {x.job.idx}
  <2>1. i \in DOMAIN replies' /\ g[i] \in DOMAIN replies /\ replies'[i] = replies[g[i]] /\ g[i] # 1
    BY <1>2, <1>5 DEF Picks, Asked
  <2>2. Asked(g[i], Of(p))
    BY <1>5, <2>1 DEF Asked
  <2> QED  BY <1>0, <1>1, <1>3, <2>1, <2>2 DEF Pending
<1>6. ASSUME NEW i, NEW j, Asked(i, Of(p))', Asked(j, Of(p))', replies'[i].job.idx = replies'[j].job.idx
      PROVE  i = j
  <2>1. g[i] = g[j]
    <3>1. Asked(g[i], Of(p)) /\ Asked(g[j], Of(p)) /\ replies[g[i]].job.idx = replies[g[j]].job.idx
      BY <1>5, <1>6
    <3> QED  BY <1>0, <3>1 DEF Pending
  <2>2. i \in DOMAIN replies' /\ j \in DOMAIN replies'
    BY <1>6 DEF Asked
  <2> QED  BY <1>2, <2>1, <2>2 DEF Picks
<1> DEFINE l == plays[p].left \ {x.job.idx}
<1>7. (l # {} /\ plays' = [plays EXCEPT ![p].left = l]) \/ (l = {} /\ plays' = [plays EXCEPT ![p] = Waiting])
  BY <1>1, Zenon DEF OnPcm, SeqStart
<1>8. CASE l # {} /\ plays' = [plays EXCEPT ![p].left = l]
  <2>1. plays'[p].at = "read" /\ plays'[p].left = l
    BY <1>0, <1>3, <1>8
  <2> QED  BY <1>3, <1>4, <1>5, <1>6, <2>1 DEF Pending
<1>9. CASE l = {}
  <2>1. \A i : ~Asked(i, Of(p))'
    BY <1>5, <1>9
  <2> QED  BY <1>3, <1>4, <2>1 DEF Pending
<1> QED  BY <1>7, <1>8, <1>9

LEMMA PendingKept == JamTypeOK /\ AllPending /\ JamNext => AllPending'
<1> SUFFICES ASSUME JamTypeOK, AllPending, JamNext, NEW p \in Plays  PROVE Pending(p)'
  BY DEF AllPending
<1>0. /\ plays \in [Plays -> [at : {"off", "wake", "read"}, left : SUBSET Idx]]
      /\ PortsOK /\ Pending(p) /\ EditorOK
  BY TypeParts DEF Parts, EditorOK, AllPending
<1>1. ASSUME \/ \E t \in Tracks : PlayTrack(t) \/ Cue(t)
             \/ Ends \/ TogglePause \/ Stop \/ WaveUp
             \/ EnterEdit \/ LeaveEdit \/ SeqToggleOff \/ SeqTick
             \/ OpenSamples \/ LeaveSamples
             \/ \E k \in Keys : Up(k)
             \/ \E i \in Idx : Select(i)
             \/ \E id \in audition.timers : AuditionOver(id)
             \/ \E v \in voices : VoiceEnds(v)
      PROVE  Pending(p)'
  <2>1. UNCHANGED <<plays, waking, replies>>
    BY <1>1 DEF PlayTrack, Play, Cue, Ends, TogglePause, Stop, WaveUp, EnterEdit, LeaveEdit, SeqToggleOff,
       SeqTick, Up, Select, OpenSamples, LeaveSamples, AuditionOver, VoiceEnds, editor
  <2> QED  BY <1>0, <2>1, NothingNew, PendingSame
<1>2. ASSUME (\E k \in Keys : Down(k)) \/ (\E i \in Idx : EnterNote(i)) \/ WaveDown  PROVE Pending(p)'
  <2>1. UNCHANGED <<plays, replies>>
    BY <1>2 DEF Down, EnterNote, WaveDown, editor
  <2>2. PICK b \in Keys \cup {"wave", "edit"}, i \in Idx :
          waking' = Append(waking, [by |-> b, idx |-> i, mount |-> mount])
    BY <1>0, <1>2 DEF Down, EnterNote, WaveDown, Await, EditorOK
  <2>3. PICK x \in Job : x = [by |-> b, idx |-> i, mount |-> mount]
    BY TypeParts DEF Parts, VoicesOK, Job, Jobs
  <2>4. x \notin Of(p)
    BY <2>3, SamplerAssumption DEF Of
  <2> QED  BY <1>0, <2>1, <2>2, <2>3, <2>4, MoreWait, PendingSame
<1>3. ASSUME NEW i \in DOMAIN coming, Fetched(i)  PROVE Pending(p)'
  <2>1. UNCHANGED plays
    BY <1>3 DEF Fetched, editor
  <2> QED  BY <1>0, <1>3, <2>1, FetchedCarries, PendingSame
<1>4. ASSUME NEW q \in Plays, SeqPlay(q)  PROVE Pending(p)'
  <2>1. PICK x \in Job : x.by = q /\ waking' = Append(waking, x)
    BY <1>4, SamplerAssumption, TypeParts DEF Parts, VoicesOK, SeqPlay, Await, Job, Jobs
  <2>2. plays[q].at = "off" /\ plays' = [plays EXCEPT ![q].at = "wake"] /\ UNCHANGED replies
    BY <1>4 DEF SeqPlay
  <2>3. CASE q # p
    <3>1. x \notin Of(p)
      BY <2>1, <2>3 DEF Of
    <3> QED  BY <1>0, <2>1, <2>2, <2>3, <3>1, MoreWait, PendingSame
  <2>4. CASE q = p
    <3>1. \A i : ~Waits(i, Of(p)) /\ ~Asked(i, Of(p))
      BY <1>0, <2>2, <2>4 DEF Pending
    <3>2. \A i \in DOMAIN waking' : (i \in DOMAIN waking /\ waking'[i] = waking[i]) \/ i = Len(waking) + 1
      <4>1. /\ Len(waking) \in Nat /\ DOMAIN waking = 1 .. Len(waking)
            /\ DOMAIN waking' = 1 .. Len(waking) + 1
            /\ \A i \in 1 .. Len(waking) : waking'[i] = waking[i]
        BY <1>0, <2>1, Appended DEF PortsOK
      <4> QED  BY <4>1
    <3>3. \A i : Waits(i, Of(p))' => i = Len(waking) + 1
      BY <3>1, <3>2 DEF Waits
    <3>4. \A i : ~Asked(i, Of(p))'
      BY <2>2, <3>1 DEF Asked
    <3>5. plays'[p].at = "wake"
      BY <1>0, <2>2, <2>4
    <3> QED  BY <3>3, <3>4, <3>5 DEF Pending
  <2> QED  BY <2>3, <2>4
<1>5. ASSUME NEW n \in DOMAIN waking, Awake(n)  PROVE Pending(p)'
  <2>1. CASE waking[n].by = p
    BY <1>5, <2>1, PendingWoken
  <2>2. CASE waking[n].by # p
    <3>1. plays'[p] = plays[p]
      BY <1>0, <1>5, <2>2 DEF Awake, SeqStart
    <3>2. Others(Of(p))
      BY <1>5, <2>2, AwakeCarries DEF Of
    <3> QED  BY <1>0, <3>1, <3>2, PendingSame
  <2> QED  BY <2>1, <2>2
<1>6. CASE OnMeta
  <2>1. UNCHANGED plays
    BY <1>6 DEF OnMeta, editor
  <2> QED  BY <1>0, <1>6, <2>1, TakenCarries, PendingSame
<1>7. CASE OnPcm
  <2>1. CASE Head(replies).job.by = p
    BY <1>7, <2>1, PendingTaken
  <2>2. CASE Head(replies).job.by # p
    <3>1. plays'[p] = plays[p]
      BY <1>0, <1>7, <2>2 DEF OnPcm, SeqStart
    <3> QED  BY <1>0, <1>7, <3>1, TakenCarries, PendingSame
  <2> QED  BY <2>1, <2>2
<1> QED  BY <1>1, <1>2, <1>3, <1>4, <1>5, <1>6, <1>7 DEF JamNext

\* What the graph of the sequencer is, whichever sample it sounds.
SameGraph == seq'.on = seq.on /\ seq'.out = seq.out

LEMMA GraphSame ==
  ASSUME OneGraph, SameGraph \/ seq' = Silence,
         \A p \in Plays : plays'[p].at # "off" => plays[p].at # "off",
         history'.overlap = history.overlap, history'.lost = history.lost
  PROVE  OneGraph'
<1>1. (seq'.on => seq.on) /\ (seq'.out => seq'.on)
  BY DEF OneGraph, SameGraph, Silence
<1>2. Underway' => Underway
  BY DEF Underway
<1> QED  BY <1>1, <1>2 DEF OneGraph

\* The only seqPlay under way has its samples: the graph is the first, and none is to come.
LEMMA GraphStarts ==
  ASSUME JamTypeOK, OneGraph, NEW p \in Plays, plays[p].at # "off",
         NEW before \in {Silence, seq}, SeqStart(p, before, history)
  PROVE  OneGraph'
<1>0. EditorOK /\ HistoryOK
  BY TypeParts DEF Parts
<1>1. /\ plays' = [plays EXCEPT ![p] = Waiting] /\ seq'.on /\ seq'.out
      /\ history'.overlap = history.overlap /\ history'.lost = (history.lost \/ before.out)
  BY <1>0 DEF SeqStart, HistoryOK
<1>2. CASE history.overlap
  BY <1>1, <1>2 DEF OneGraph
<1>3. CASE ~history.overlap
  <2>1. ~seq.out /\ ~before.out /\ ~history.lost
    BY <1>3 DEF OneGraph, Underway, Silence
  <2>2. \A q \in Plays : plays'[q].at = "off"
    BY <1>0, <1>1, <1>3 DEF OneGraph, EditorOK, Waiting
  <2> QED  BY <1>1, <1>3, <2>1, <2>2 DEF OneGraph, Underway
<1> QED  BY <1>2, <1>3

LEMMA GraphKept == JamTypeOK /\ AllPending /\ OneGraph /\ JamNext => OneGraph'
<1> SUFFICES ASSUME JamTypeOK, AllPending, OneGraph, JamNext  PROVE OneGraph'
  OBVIOUS
<1>0. EditorOK /\ HistoryOK
  BY TypeParts DEF Parts
<1>1. ASSUME \/ \E t \in Tracks : PlayTrack(t) \/ Cue(t)
             \/ TogglePause \/ Stop \/ EnterEdit \/ LeaveEdit \/ SeqToggleOff \/ WaveDown \/ WaveUp
             \/ OpenSamples \/ LeaveSamples
      PROVE  OneGraph'
  <2>1. UNCHANGED plays /\ (UNCHANGED seq \/ seq' = Silence)
    BY <1>1 DEF PlayTrack, Play, Cue, ClearEdits, TogglePause, Stop, EnterEdit, LeaveEdit, SeqToggleOff,
       SeqStop, WaveDown, WaveUp, OpenSamples, LeaveSamples, editor
  <2>2. history'.overlap = history.overlap /\ history'.lost = history.lost
    BY <1>0, <1>1 DEF PlayTrack, Play, Cue, TogglePause, Stop, EnterEdit, LeaveEdit, SeqToggleOff,
       WaveDown, WaveUp, OpenSamples, LeaveSamples, Stray, HistoryOK
  <2> QED  BY <2>1, <2>2, GraphSame DEF SameGraph
<1>2. ASSUME \/ \E i \in DOMAIN coming : Fetched(i)
             \/ \E k \in Keys : Down(k) \/ Up(k)
             \/ \E i \in Idx : Select(i) \/ EnterNote(i)
             \/ \E id \in audition.timers : AuditionOver(id)
             \/ \E v \in voices : VoiceEnds(v)
             \/ Ends \/ OnMeta
      PROVE  OneGraph'
  <2>1. UNCHANGED <<plays, seq, history>>
    BY <1>2 DEF Fetched, Down, Up, Select, EnterNote, AuditionOver, VoiceEnds, Ends, OnMeta, editor
  <2> QED  BY <2>1, GraphSame DEF SameGraph
<1>3. CASE SeqTick
  <2>1. SameGraph /\ UNCHANGED <<plays, history>>
    BY <1>0, <1>3 DEF SeqTick, SameGraph, EditorOK
  <2> QED  BY <2>1, GraphSame
<1>4. ASSUME NEW p \in Plays, SeqPlay(p)  PROVE OneGraph'
  <2>1. /\ plays' = [plays EXCEPT ![p].at = "wake"] /\ ~seq.on /\ UNCHANGED seq
        /\ history'.overlap = (history.overlap \/ Underway) /\ history'.lost = history.lost
    BY <1>0, <1>4 DEF SeqPlay, HistoryOK
  <2>2. CASE history.overlap \/ Underway
    BY <2>1, <2>2 DEF OneGraph
  <2>3. CASE ~(history.overlap \/ Underway)
    <3>1. \A q \in Plays : plays'[q].at # "off" => q = p
      BY <1>0, <2>1, <2>3 DEF Underway, EditorOK
    <3> QED  BY <2>1, <2>3, <3>1 DEF OneGraph
  <2> QED  BY <2>2, <2>3
<1>5. ASSUME NEW n \in DOMAIN waking, Awake(n)  PROVE OneGraph'
  <2>1. PICK job \in Job : job = waking[n]
    BY WokenIs
  <2>2. CASE job.by \notin Plays
    <3>1. UNCHANGED <<plays, seq>>
      BY <1>5, <2>1, <2>2 DEF Awake
    <3>2. history'.overlap = history.overlap /\ history'.lost = history.lost
      BY <1>0, <1>5, <2>1, <2>2 DEF Awake, Misread, HistoryOK
    <3> QED  BY <3>1, <3>2, GraphSame DEF SameGraph
  <2>3. CASE job.by \in Plays
    <3>1. PICK p \in Plays : p = job.by /\ plays[p].at = "wake"
      BY <1>5, <2>1, <2>3, PendingWoken
    <3>2. CASE SeqStart(p, Silence, history)
      BY <3>1, <3>2, GraphStarts
    <3>3. CASE /\ seq' = Silence /\ plays' = [plays EXCEPT ![p] = [at |-> "read", left |-> ToSet(Needed)]]
               /\ history' = Misread(ToSet(Needed))
      <4>1. \A q \in Plays : plays'[q].at # "off" => plays[q].at # "off"
        BY <1>0, <3>1, <3>3 DEF EditorOK
      <4>2. history'.overlap = history.overlap /\ history'.lost = history.lost
        BY <1>0, <3>3 DEF Misread, HistoryOK
      <4> QED  BY <3>3, <4>1, <4>2, GraphSame
    <3> QED  BY <1>5, <2>1, <3>1, <3>2, <3>3, Zenon DEF Awake, Needed, SeqStop
  <2> QED  BY <2>2, <2>3
<1>6. CASE OnPcm
  <2>1. PICK b : b = Head(replies).job.by
    OBVIOUS
  <2>2. CASE b \notin Plays
    <3>1. UNCHANGED <<plays, seq, history>>
      BY <1>6, <2>1, <2>2 DEF OnPcm
    <3> QED  BY <3>1, GraphSame DEF SameGraph
  <2>3. CASE b \in Plays
    <3>1. plays[b].at = "read"
      BY <1>6, <2>1, <2>3, PendingTaken
    <3>2. CASE SeqStart(b, seq, history)
      BY <2>3, <3>1, <3>2, GraphStarts
    <3>3. CASE UNCHANGED <<seq, history>> /\ \E l : plays' = [plays EXCEPT ![b].left = l]
      <4>1. \A q \in Plays : plays'[q].at # "off" => plays[q].at # "off"
        BY <1>0, <3>1, <3>3 DEF EditorOK
      <4> QED  BY <3>3, <4>1, GraphSame DEF SameGraph
    <3> QED  BY <1>6, <2>1, <2>3, <3>2, <3>3, Zenon DEF OnPcm
  <2> QED  BY <2>2, <2>3
<1> QED  BY <1>1, <1>2, <1>3, <1>4, <1>5, <1>6 DEF JamNext

\* Nothing starts to play, to be set up or to sound, and edit mode stays as it is.
LEMMA EditedSame ==
  ASSUME Edited, history'.strayed = history.strayed, UNCHANGED editing,
         Underway' \/ seq'.on => Underway \/ seq.on,
         eng.muted => eng'.muted,
         Sounding' \/ LoadComing' => Sounding \/ LoadComing \/ eng'.muted
  PROVE  Edited'
  BY DEF Edited

LEMMA UnderwaySame == UNCHANGED plays => Underway' = Underway
  BY DEF Underway

LEMMA LoadSame == UNCHANGED coming => LoadComing' = LoadComing
  BY DEF LoadComing

LEMMA FetchedEdited ==
  ASSUME JamTypeOK, Edited, NEW i \in DOMAIN coming, Fetched(i)
  PROVE  Edited'
<1>0. PlayerOK
  BY TypeParts DEF Parts
<1>1. UNCHANGED <<editing, seq, history>> /\ Underway' = Underway
  BY UnderwaySame DEF Fetched, editor
<1>2. LoadComing' => LoadComing
  <2>1. coming \in Seq([of : Tracks, to : {"load", "decode"}]) /\ coming' = RemoveAt(coming, i)
    BY <1>0 DEF PlayerOK, Fetched
  <2>2. PICK f : Picks(f, coming', coming)
    BY <2>1, Removed
  <2> QED  BY <2>2 DEF LoadComing, Picks
<1>3. eng'.muted = eng.muted
  BY <1>0 DEF Fetched, PlayerOK
<1>4. CASE coming[i].to = "load"
  <2>1. LoadComing
    BY <1>4 DEF LoadComing
  <2> QED  BY <1>1, <1>2, <1>3, <2>1, EditedSame
<1>5. CASE coming[i].to = "decode"
  <2>1. eng' = eng \/ eng'.on = FALSE
    BY <1>0, <1>5 DEF Fetched, PlayerOK
  <2>2. Sounding' => Sounding
    BY <2>1 DEF Sounding
  <2> QED  BY <1>1, <1>2, <1>3, <2>2, EditedSame
<1> QED  BY <1>4, <1>5 DEF Fetched

LEMMA ModeEdited ==
  ASSUME JamTypeOK, Edited,
         (\E t \in Tracks : PlayTrack(t) \/ Cue(t)) \/ TogglePause \/ Stop \/ EnterEdit \/ LeaveEdit
  PROVE  Edited'
<1>0. PlayerOK /\ EditorOK /\ HistoryOK /\ Underway \in BOOLEAN
  BY TypeParts DEF Parts, Underway
<1>1. UNCHANGED plays /\ Underway' = Underway
  <2>1. UNCHANGED plays
    BY DEF PlayTrack, Play, Cue, TogglePause, Stop, EnterEdit, LeaveEdit
  <2> QED  BY <2>1, UnderwaySame
<1>2. ASSUME (\E t \in Tracks : PlayTrack(t) \/ Cue(t)) \/ LeaveEdit  PROVE Edited'
  <2>1. ~editing' /\ seq' = Silence /\ (history'.strayed <=> history.strayed \/ Underway)
    BY <1>0, <1>2 DEF PlayTrack, Play, Cue, LeaveEdit, ClearEdits, SeqStop, Stray, HistoryOK
  <2> QED  BY <1>1, <2>1 DEF Edited, Silence
<1>3. CASE EnterEdit
  <2>1. /\ editing' /\ UNCHANGED <<coming, seq>>
        /\ (history'.strayed <=> history.strayed \/ (~eng'.muted /\ (Sounding \/ LoadComing)))
        /\ eng' = [eng EXCEPT !.muted = @ \/ resume']
    BY <1>0, <1>3 DEF EnterEdit, Stray, HistoryOK
  <2>2. LoadComing' = LoadComing /\ (Sounding' => Sounding)
    BY <1>0, <2>1, LoadSame DEF Sounding, PlayerOK
  <2> QED  BY <2>1, <2>2 DEF Edited
<1>4. CASE TogglePause
  <2>1. UNCHANGED <<coming, editing, history>> /\ LoadComing' = LoadComing
    BY <1>4, LoadSame DEF TogglePause
  <2>2. CASE editing /\ seq' = Silence /\ UNCHANGED eng
    BY <1>1, <2>1, <2>2, EditedSame DEF Silence, Sounding
  <2>3. CASE ~editing /\ UNCHANGED seq
    BY <1>1, <2>1, <2>3 DEF Edited
  <2> QED  BY <1>4, <2>2, <2>3 DEF TogglePause, SeqStop
<1>5. CASE Stop
  <2>1. UNCHANGED <<coming, editing, history>> /\ LoadComing' = LoadComing
        /\ (UNCHANGED seq \/ seq' = Silence)
    BY <1>5, LoadSame DEF Stop, SeqStop
  <2>2. ~Sounding' /\ eng'.muted = eng.muted
    BY <1>0, <1>5 DEF Stop, EngineStop, Sounding, PlayerOK
  <2> QED  BY <1>1, <2>1, <2>2, EditedSame DEF Silence
<1> QED  BY <1>2, <1>3, <1>4, <1>5

LEMMA EditedKept == JamTypeOK /\ AllPending /\ Edited /\ JamNext => Edited'
<1> SUFFICES ASSUME JamTypeOK, AllPending, Edited, JamNext  PROVE Edited'
  OBVIOUS
<1>0. PlayerOK /\ EditorOK /\ HistoryOK
  BY TypeParts DEF Parts
<1>1. ASSUME UNCHANGED <<eng, coming, editing>>, history'.strayed = history.strayed,
             Underway' \/ seq'.on => Underway \/ seq.on
      PROVE  Edited'
  <2>1. LoadComing' = LoadComing /\ Sounding' = Sounding
    BY <1>1, LoadSame DEF Sounding
  <2> QED  BY <1>1, <2>1, EditedSame
<1>2. ASSUME \/ \E k \in Keys : Down(k) \/ Up(k)
             \/ \E i \in Idx : Select(i) \/ EnterNote(i)
             \/ OpenSamples \/ LeaveSamples \/ WaveDown \/ WaveUp
             \/ \E id \in audition.timers : AuditionOver(id)
             \/ \E v \in voices : VoiceEnds(v)
             \/ SeqToggleOff \/ SeqTick \/ OnMeta
      PROVE  Edited'
  <2>1. UNCHANGED <<eng, coming, editing, plays>>
    BY <1>2 DEF Down, Up, Select, EnterNote, OpenSamples, LeaveSamples, WaveDown, WaveUp, AuditionOver,
       VoiceEnds, SeqToggleOff, SeqTick, OnMeta, player, editor
  <2>2. history'.strayed = history.strayed
    BY <1>0, <1>2 DEF Down, Up, Select, EnterNote, OpenSamples, LeaveSamples, WaveDown, WaveUp, AuditionOver,
       VoiceEnds, SeqToggleOff, SeqTick, OnMeta, HistoryOK
  <2>3. seq'.on => seq.on
    BY <1>0, <1>2 DEF Down, Up, Select, EnterNote, OpenSamples, LeaveSamples, WaveDown, WaveUp, AuditionOver,
       VoiceEnds, SeqToggleOff, SeqTick, OnMeta, editor, SeqStop, Silence, EditorOK
  <2> QED  BY <1>1, <2>1, <2>2, <2>3, UnderwaySame
<1>3. CASE Ends
  <2>1. UNCHANGED <<coming, editor, history>> /\ ~Sounding' /\ eng'.muted = eng.muted
    BY <1>0, <1>3 DEF Ends, Sounding, PlayerOK
  <2>2. Underway' = Underway /\ LoadComing' = LoadComing /\ UNCHANGED <<editing, seq>>
    BY <2>1, UnderwaySame, LoadSame DEF editor
  <2> QED  BY <2>1, <2>2, EditedSame
<1>4. ASSUME NEW p \in Plays, SeqPlay(p)  PROVE Edited'
  <2>1. UNCHANGED <<player, editing>> /\ editing /\ history'.strayed = history.strayed
    BY <1>0, <1>4 DEF SeqPlay, HistoryOK
  <2>2. Sounding' = Sounding /\ LoadComing' = LoadComing /\ UNCHANGED eng
    BY <2>1, LoadSame DEF player, Sounding
  <2> QED  BY <2>1, <2>2 DEF Edited
<1>5. ASSUME NEW n \in DOMAIN waking, Awake(n)  PROVE Edited'
  <2>1. UNCHANGED <<eng, coming, editing>> /\ history'.strayed = history.strayed
    BY <1>0, <1>5 DEF Awake, player, SeqStart, Misread, HistoryOK
  <2>2. CASE waking[n].by \notin Plays
    <3>1. UNCHANGED <<plays, seq>>
      BY <1>5, <2>2 DEF Awake
    <3> QED  BY <1>1, <2>1, <3>1, UnderwaySame
  <2>3. CASE waking[n].by \in Plays
    <3>1. Underway
      BY <1>5, <2>3, PendingWoken DEF Underway
    <3> QED  BY <1>1, <2>1, <3>1
  <2> QED  BY <2>2, <2>3
<1>6. CASE OnPcm
  <2>1. UNCHANGED <<eng, coming, editing>> /\ history'.strayed = history.strayed
    BY <1>0, <1>6 DEF OnPcm, player, SeqStart, HistoryOK
  <2>2. CASE Head(replies).job.by \notin Plays
    <3>1. UNCHANGED <<plays, seq>>
      BY <1>6, <2>2 DEF OnPcm
    <3> QED  BY <1>1, <2>1, <3>1, UnderwaySame
  <2>3. CASE Head(replies).job.by \in Plays
    <3>1. Underway
      BY <1>6, <2>3, PendingTaken DEF Underway
    <3> QED  BY <1>1, <2>1, <3>1
  <2> QED  BY <2>2, <2>3
<1> QED  BY <1>2, <1>3, <1>4, <1>5, <1>6, FetchedEdited, ModeEdited DEF JamNext

LEMMA OfTrackKept == JamTypeOK /\ CacheIsTracks /\ OfTrack /\ JamNext => OfTrack'
<1> SUFFICES ASSUME JamTypeOK, CacheIsTracks, OfTrack, JamNext  PROVE OfTrack'
  OBVIOUS
<1>0. CacheOK /\ EditorOK /\ HistoryOK /\ Looped \subseteq Idx /\ Unread \notin Tracks
  BY TypeParts, SamplerAssumption DEF Parts
<1>1. ASSUME seq' = Silence  PROVE OfTrack'
  BY <1>1 DEF OfTrack, Silence
<1>2. ASSUME UNCHANGED <<shown, seq>>, history.early \subseteq history'.early  PROVE OfTrack'
  BY <1>2 DEF OfTrack
<1>3. ASSUME (\E t \in Tracks : PlayTrack(t) \/ Cue(t)) \/ LeaveEdit \/ SeqToggleOff  PROVE OfTrack'
  BY <1>1, <1>3 DEF PlayTrack, Play, Cue, LeaveEdit, SeqToggleOff, ClearEdits, SeqStop
<1>4. ASSUME \/ \E i \in DOMAIN coming : Fetched(i)
             \/ Ends \/ TogglePause \/ Stop
             \/ \E k \in Keys : Down(k) \/ Up(k)
             \/ \E i \in Idx : Select(i) \/ EnterNote(i)
             \/ OpenSamples \/ LeaveSamples \/ WaveDown \/ WaveUp
             \/ \E id \in audition.timers : AuditionOver(id)
             \/ \E v \in voices : VoiceEnds(v)
             \/ EnterEdit \/ OnMeta \/ \E p \in Plays : SeqPlay(p)
      PROVE  OfTrack'
  <2>1. UNCHANGED shown /\ (UNCHANGED seq \/ seq' = Silence)
    BY <1>4 DEF Fetched, Ends, TogglePause, Stop, Down, Up, Select, EnterNote, OpenSamples,
       LeaveSamples, WaveDown, WaveUp, AuditionOver, VoiceEnds, EnterEdit, OnMeta, SeqPlay, SeqStop, player, editor
  <2>2. history'.early = history.early
    BY <1>0, <1>4 DEF Fetched, Ends, TogglePause, Stop, Down, Up, Select, EnterNote, OpenSamples,
       LeaveSamples, WaveDown, WaveUp, AuditionOver, VoiceEnds, EnterEdit, OnMeta, SeqPlay, Stray, HistoryOK
  <2> QED  BY <1>1, <1>2, <2>1, <2>2
<1>5. CASE SeqTick
  <2>1. PICK i \in Looped : cache[i] \in Tracks /\ seq' = [seq EXCEPT !.voice = cache[i]]
    BY <1>5 DEF SeqTick
  <2>2. UNCHANGED <<shown, history>> /\ seq'.voice = cache[i]
    BY <1>0, <1>5, <2>1 DEF SeqTick, player, EditorOK
  <2>3. Looped \cap history.early = {} => cache[i] = shown
    BY <1>0, <2>1 DEF CacheIsTracks
  <2> QED  BY <2>2, <2>3 DEF OfTrack
<1>6. ASSUME OnPcm \/ \E n \in DOMAIN waking : Awake(n)  PROVE OfTrack'
  <2>1. UNCHANGED shown
    BY <1>6 DEF OnPcm, Awake, player
  <2>2. UNCHANGED seq \/ seq' = Silence \/ seq' = [on |-> TRUE, out |-> TRUE, voice |-> None]
    <3>1. CASE OnPcm
      BY <3>1, Zenon DEF OnPcm, SeqStart
    <3>2. ASSUME NEW n \in DOMAIN waking, Awake(n)
          PROVE  UNCHANGED seq \/ seq' = Silence \/ seq' = [on |-> TRUE, out |-> TRUE, voice |-> None]
      BY <3>2, Zenon DEF Awake, SeqStart, SeqStop
    <3> QED  BY <1>6, <3>1, <3>2
  <2>3. history.early \subseteq history'.early
    <3>1. CASE OnPcm
      BY <1>0, <3>1 DEF OnPcm, SeqStart, HistoryOK
    <3>2. ASSUME NEW n \in DOMAIN waking, Awake(n)  PROVE history.early \subseteq history'.early
      <4>1. \/ UNCHANGED history
            \/ \E p : SeqStart(p, Silence, history)
            \/ \E is : history' = Misread(is)
        BY <3>2, Zenon DEF Awake
      <4> QED  BY <1>0, <4>1 DEF SeqStart, Misread, HistoryOK
    <3> QED  BY <1>6, <3>1, <3>2
  <2> QED  BY <1>2, <2>1, <2>2, <2>3 DEF OfTrack, Silence
<1> QED  BY <1>3, <1>4, <1>5, <1>6 DEF JamNext

\* The song and the pattern do not sound together, a graph of the sequencer is never
\* left behind, and what it sounds is of the track shown, whatever is pressed, cued,
\* stopped or answered while a seqPlay waits; what the exceptions are is history's.
THEOREM SongOrPattern == JamSpec => []SongXorPattern
<1>1. JamInit => SeqInv
  <2> SUFFICES ASSUME JamInit  PROVE SeqInv
    OBVIOUS
  <2>1. /\ \A p \in Plays : plays[p].at = "off"
        /\ ~seq.on /\ ~seq.out /\ seq.voice = None /\ ~editing /\ ~history.lost
    BY DEF JamInit, Waiting, Silence
  <2>2. AllPending
    BY DEF JamInit, AllPending, Pending, Waits, Asked
  <2> QED  BY <2>1, <2>2 DEF SeqInv, OneGraph, Edited, OfTrack, Underway
<1>2. JamTypeOK /\ CacheIsTracks /\ SeqInv /\ [JamNext]_jamVars => SeqInv'
  <2>1. JamTypeOK /\ CacheIsTracks /\ SeqInv /\ JamNext => SeqInv'
    BY PendingKept, GraphKept, EditedKept, OfTrackKept DEF SeqInv
  <2>2. SeqInv /\ UNCHANGED jamVars => SeqInv'
    BY DEF jamVars, player, editor, SeqInv, AllPending, Pending, Waits, Asked, OneGraph, Edited, OfTrack,
       Underway, Sounding, LoadComing
  <2> QED  BY <2>1, <2>2
<1>3. SeqInv => SongXorPattern
  <2> SUFFICES ASSUME SeqInv  PROVE SongXorPattern
    OBVIOUS
  <2>1. ~history.strayed => ~(seq.on /\ Sounding)
    BY DEF SeqInv, Edited, Sounding
  <2> QED  BY <2>1 DEF SeqInv, OneGraph, OfTrack, SongXorPattern
<1> QED  BY <1>1, <1>2, <1>3, JamTypeCorrect, CacheIsOfTrack, PTL DEF JamSpec
=============================================================================
