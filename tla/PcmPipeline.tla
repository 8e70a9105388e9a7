---------------------------- MODULE PcmPipeline ----------------------------
(***************************************************************************)
(* How decoded audio gets from the decoder Worker to the sound card: the   *)
(* wrapper ChiptuneJsPlayer (main thread), decoder.worker.js (libopenmpt), *)
(* chiptune3.worklet.js (audio thread) and the four message ports between  *)
(* them.                                                                   *)
(*                                                                         *)
(*      main --toWorker--> worker --pcm--> worklet                         *)
(*      main --toNode----------------------> worklet                       *)
(*                         worker <--acks-- worklet                        *)
(*                                                                         *)
(* Each port is FIFO; nothing orders one port against another, unless      *)
(* Causal is TRUE.  The module starts where onInitialized fires: the       *)
(* library is up and pcmport has reached both ends.  A chunk is its        *)
(* generation, song and position (its ordinal in the song); samples, VU    *)
(* and timing are left out.  What the two threads post back to the main    *)
(* thread is recorded (heard, ends), not delivered.                        *)
(***************************************************************************)
EXTENDS Integers, Sequences, FiniteSets

CONSTANTS
  Songs,       \* files the user can play
  Unparsable,  \* those of them create_from_memory rejects
  Length,      \* chunks a song renders before libopenmpt returns 0 frames
  None,        \* no song
  Target,      \* TARGET: chunks kept in flight (72 in the source)
  Quanta,      \* process() calls that drain one chunk (1024/128 = 8)
  Seeks,       \* positions the user can seek to
  Decoded,     \* files shown without being played (a cold reload)
  PauseCalls,  \* the pause commands the user issues
  MaxGen,      \* bound: generations the wrapper hands out
  MaxCalls,    \* bound: messages waiting at the worker or at the worklet
  Causal       \* does a worklet message posted first arrive first?

ASSUME ConstantsOK ==
  /\ Unparsable \subseteq Songs /\ Decoded \subseteq Songs
  /\ Length \in [Songs -> Nat]
  /\ None \notin Songs
  /\ Target \in Nat \ {0}
  /\ Quanta \in Nat \ {0}
  /\ Seeks \subseteq Nat \ {0}
  /\ PauseCalls \subseteq {"pause", "unpause", "togglePause"}
  /\ MaxGen \in Nat
  /\ MaxCalls \in Nat
  /\ Causal \in BOOLEAN

Gens == 0 .. MaxGen

VARIABLES
  gen,         \* wrapper: this.gen
  toWorker, toNode, pcm, acks,
  wGen,        \* worker: gen
  module,      \* worker: modulePtr (None = 0)
  next,        \* worker: the chunk the module renders next
  playing, eof, inflight,
  currentGen,  \* worklet
  queue, read, paused, eofPending, endSent, primed, inUnderrun,
  asked,       \* ghost: the song and start asked for, by generation
  cut,         \* ghost: generations stop() was called on
  heard,       \* ghost: last position reported since the last flush, 0 = none
  ends         \* ghost: how many times `end` was posted, by generation

ports == <<toWorker, toNode, pcm, acks>>
worker == <<wGen, module, next, playing, eof, inflight>>
worklet == <<currentGen, queue, read, paused, eofPending, endSent, primed,
             inUnderrun, heard, ends>>
main == <<gen, asked, cut>>
vars == <<main, ports, worker, worklet>>

-----------------------------------------------------------------------------
WorkerCall ==
  [cmd: {"load"}, gen: Gens, song: Songs]
    \cup [cmd: {"setPos"}, gen: Gens, pos: Seeks]
    \cup [cmd: {"decodeSong"}, song: Songs]
    \cup [cmd: {"stop"}]

NodeCall == [cmd: {"flush"}, gen: Gens]
              \cup [cmd: {"pause", "unpause", "togglePause"}]

\* What the worker posts on the pcm port: a chunk, or the end-of-file mark.
Chunk == [gen: Gens, song: Songs \cup {None}, pos: Nat, eof: {FALSE}]
Packet == Chunk \cup [gen: Gens, song: Songs \cup {None}, pos: Nat, eof: {TRUE}]
Ack == [gen: Gens, eof: {FALSE}]

MainOK ==
  /\ gen \in Gens
  /\ asked \in Seq([song: Songs \cup {None}, start: Nat]) /\ Len(asked) = gen
  /\ cut \subseteq Gens

PortsOK ==
  /\ toWorker \in Seq(WorkerCall)
  /\ toNode \in Seq(NodeCall)
  /\ pcm \in Seq(Packet)
  /\ acks \in Seq(Ack)

WorkerOK ==
  /\ wGen \in Gens
  /\ module \in (Songs \ Unparsable) \cup {None}
  /\ next \in Nat
  /\ inflight \in Int

WorkletOK ==
  /\ currentGen \in Gens \cup {-1}
  /\ queue \in Seq(Chunk)
  /\ read \in 0 .. Quanta - 1
  /\ heard \in Nat
  /\ ends \in [Gens -> Nat]

FlagsOK ==
  /\ playing \in BOOLEAN /\ eof \in BOOLEAN
  /\ paused \in BOOLEAN /\ eofPending \in BOOLEAN /\ endSent \in BOOLEAN
  /\ primed \in BOOLEAN /\ inUnderrun \in BOOLEAN

TypeOK == MainOK /\ PortsOK /\ WorkerOK /\ WorkletOK /\ FlagsOK

Init ==
  /\ gen = 0
  /\ toWorker = <<>> /\ toNode = <<>> /\ pcm = <<>> /\ acks = <<>>
  /\ wGen = 0 /\ module = None /\ next = 1
  /\ playing = FALSE /\ eof = FALSE /\ inflight = 0
  /\ currentGen = -1 /\ queue = <<>> /\ read = 0
  /\ paused = FALSE /\ eofPending = FALSE /\ endSent = FALSE
  /\ primed = FALSE /\ inUnderrun = FALSE
  /\ asked = <<>> /\ cut = {}
  /\ heard = 0 /\ ends = [g \in Gens |-> 0]

-----------------------------------------------------------------------------
(* The wrapper, called by the player store.                                *)

Room == Len(toWorker) < MaxCalls /\ Len(toNode) < MaxCalls

Post(workerCall, nodeCall) ==
  /\ toWorker' = Append(toWorker, workerCall)
  /\ toNode' = Append(toNode, nodeCall)
  /\ UNCHANGED <<pcm, acks>>

Flush(g) == [cmd |-> "flush", gen |-> g]

Play(s) ==
  /\ Room /\ gen < MaxGen
  /\ gen' = gen + 1
  /\ Post([cmd |-> "load", gen |-> gen + 1, song |-> s], Flush(gen + 1))
  /\ asked' = Append(asked, [song |-> s, start |-> 1])
  /\ UNCHANGED <<cut, worker, worklet>>

\* stop() flushes without a new generation.
Stop ==
  /\ Room
  /\ Post([cmd |-> "stop"], Flush(gen))
  /\ cut' = cut \cup {gen}
  /\ UNCHANGED <<gen, asked, worker, worklet>>

\* The song the main thread believes is loaded.
Loaded == IF gen = 0 \/ gen \in cut THEN None ELSE asked[gen].song

\* setPos, and setOrderRow alike.
SetPos(p) ==
  /\ Room /\ gen < MaxGen
  /\ gen' = gen + 1
  /\ Post([cmd |-> "setPos", gen |-> gen + 1, pos |-> p], Flush(gen + 1))
  /\ asked' = Append(asked, [song |-> Loaded, start |-> p])
  /\ UNCHANGED <<cut, worker, worklet>>

PauseCall(cmd) ==
  /\ Room
  /\ toNode' = Append(toNode, [cmd |-> cmd])
  /\ UNCHANGED <<toWorker, pcm, acks, main, worker, worklet>>

DecodeSong(s) ==
  /\ Room
  /\ toWorker' = Append(toWorker, [cmd |-> "decodeSong", song |-> s])
  /\ UNCHANGED <<toNode, pcm, acks, main, worker, worklet>>

Main ==
  \/ \E s \in Songs : Play(s)
  \/ \E s \in Decoded : DecodeSong(s)
  \/ \E p \in Seeks : SetPos(p)
  \/ Stop
  \/ \E cmd \in PauseCalls : PauseCall(cmd)

-----------------------------------------------------------------------------
(* The decoder worker.  pump() runs inside a handler until its loop ends;  *)
(* each turn of the loop is a step here, because the worklet may receive   *)
(* one chunk while the next is rendered.  No other handler starts before.  *)

Pumping == playing /\ ~eof /\ inflight < Target

Packets(isEof) == [gen |-> wGen, song |-> module, pos |-> next, eof |-> isEof]

RenderChunk ==
  /\ Pumping
  /\ next <= Length[module]
  /\ pcm' = Append(pcm, Packets(FALSE))
  /\ next' = next + 1
  /\ inflight' = inflight + 1
  /\ UNCHANGED <<main, toWorker, toNode, acks, worklet, wGen, module, playing, eof>>

RenderNothing ==
  /\ Pumping
  /\ next > Length[module]
  /\ pcm' = Append(pcm, Packets(TRUE))
  /\ eof' = TRUE
  /\ UNCHANGED <<main, toWorker, toNode, acks, worklet, wGen, module, next, playing, inflight>>

Render == RenderChunk \/ RenderNothing

Receive(cmd) ==
  /\ ~Pumping
  /\ toWorker # <<>> /\ Head(toWorker).cmd = cmd
  /\ toWorker' = Tail(toWorker)
  /\ UNCHANGED <<main, toNode, pcm, acks, worklet>>

\* Mutant: a seek or load that forgets what was in flight was flushed.
RestartOwing(g) == wGen' = g /\ eof' = FALSE /\ inflight' = inflight

\* Mutant: a seek back into a song that has ended does not unset eof.
RestartAtEof(g) == wGen' = g /\ eof' = eof /\ inflight' = 0

\* A new generation of whatever module is loaded, with all its credit.
Restart(g) == wGen' = g /\ eof' = FALSE /\ inflight' = 0

WorkerLoad ==
  /\ Receive("load")
  /\ Restart(Head(toWorker).gen)
  /\ LET s == Head(toWorker).song IN
     /\ module' = IF s \in Unparsable THEN None ELSE s
     /\ playing' = (s \notin Unparsable)
  /\ next' = 1

WorkerStop ==
  /\ Receive("stop")
  /\ playing' = FALSE /\ eof' = TRUE /\ inflight' = 0 /\ module' = None
  /\ UNCHANGED <<wGen, next>>

\* libopenmpt clamps a position past the end to the end.
WorkerSetPos ==
  /\ Receive("setPos")
  /\ module # None
  /\ Restart(Head(toWorker).gen)
  /\ LET p == Head(toWorker).pos IN
     next' = IF p <= Length[module] THEN p ELSE Length[module] + 1
  /\ UNCHANGED <<module, playing>>

\* Not even the generation is taken over when there is no module.
WorkerSetPosIgnored ==
  /\ Receive("setPos")
  /\ module = None
  /\ UNCHANGED worker

\* Idle, the decoded module stays resident as modulePtr.
WorkerDecodeSong ==
  /\ Receive("decodeSong")
  /\ LET s == Head(toWorker).song IN
     IF s \in Unparsable \/ playing
     THEN UNCHANGED <<module, next>>
     ELSE module' = s /\ next' = 1
  /\ UNCHANGED <<wGen, playing, eof, inflight>>

\* Mutant: acks of flushed generations are credited too.
OnPcmAckAnyGen ==
  /\ ~Pumping
  /\ acks # <<>>
  /\ acks' = Tail(acks)
  /\ inflight' = inflight - 1
  /\ UNCHANGED <<main, toWorker, toNode, pcm, worklet, wGen, module, next, playing, eof>>

OnPcmAck ==
  /\ ~Pumping
  /\ acks # <<>>
  /\ acks' = Tail(acks)
  /\ inflight' = IF Head(acks).gen = wGen THEN inflight - 1 ELSE inflight
  /\ UNCHANGED <<main, toWorker, toNode, pcm, worklet, wGen, module, next, playing, eof>>

WorkerMessage ==
  WorkerLoad \/ WorkerStop \/ WorkerSetPos \/ WorkerSetPosIgnored \/ WorkerDecodeSong

-----------------------------------------------------------------------------
(* The worklet: onControl, onPcm and process on the audio thread.          *)

Control(cmd) ==
  /\ toNode # <<>> /\ Head(toNode).cmd = cmd
  /\ toNode' = Tail(toNode)
  /\ UNCHANGED <<main, toWorker, pcm, acks, worker>>

\* Mutant: the flush takes the generation over but keeps what is queued.
NodeFlushKeepsQueue ==
  /\ Control("flush")
  /\ currentGen' = Head(toNode).gen
  /\ eofPending' = FALSE /\ endSent' = FALSE
  /\ primed' = FALSE
  /\ heard' = 0
  /\ UNCHANGED <<queue, read, paused, inUnderrun, ends>>

NodeFlush ==
  /\ Control("flush")
  /\ currentGen' = Head(toNode).gen
  /\ queue' = <<>> /\ read' = 0
  /\ eofPending' = FALSE /\ endSent' = FALSE
  /\ primed' = FALSE
  /\ heard' = 0
  /\ UNCHANGED <<paused, inUnderrun, ends>>

NodePause ==
  /\ \/ Control("pause") /\ paused' = TRUE
     \/ Control("unpause") /\ paused' = FALSE
     \/ Control("togglePause") /\ paused' = ~paused
  /\ UNCHANGED <<currentGen, queue, read, eofPending, endSent, primed,
                 inUnderrun, heard, ends>>

\* With Causal, the flush that opened a generation, posted before its load,
\* has arrived before the generation's first chunk.
Arrival ==
  /\ pcm # <<>>
  /\ Causal => Head(pcm).gen <= currentGen
  /\ pcm' = Tail(pcm)
  /\ UNCHANGED <<main, toWorker, toNode, acks, worker>>

DropPacket ==
  /\ Arrival
  /\ Head(pcm).gen # currentGen
  /\ UNCHANGED worklet

TakeEof ==
  /\ Arrival
  /\ Head(pcm).gen = currentGen
  /\ Head(pcm).eof
  /\ eofPending' = TRUE
  /\ UNCHANGED <<currentGen, queue, read, paused, endSent, primed, inUnderrun, heard, ends>>

\* Mutant: a straggler of an older generation is queued.
TakeChunkAnyGen ==
  /\ Arrival
  /\ ~Head(pcm).eof
  /\ queue' = Append(queue, Head(pcm))
  /\ UNCHANGED <<currentGen, read, paused, eofPending, endSent, primed, inUnderrun, heard, ends>>

TakeChunk ==
  /\ Arrival
  /\ Head(pcm).gen = currentGen
  /\ ~Head(pcm).eof
  /\ queue' = Append(queue, Head(pcm))
  /\ UNCHANGED <<currentGen, read, paused, eofPending, endSent, primed, inUnderrun, heard, ends>>

OnPcm == DropPacket \/ TakeEof \/ TakeChunk

\* The last lines of process().
ReportEnd(left) ==
  IF left = <<>> /\ eofPending /\ ~endSent
  THEN endSent' = TRUE /\ ends' = [ends EXCEPT ![currentGen] = @ + 1]
  ELSE UNCHANGED <<endSent, ends>>

\* A quantum taken from the head chunk, which reports its position when new.
DrainHead ==
  /\ ~paused
  /\ queue # <<>>
  /\ heard' = Head(queue).pos
  /\ primed' = TRUE
  /\ inUnderrun' = FALSE
  /\ UNCHANGED <<main, toWorker, toNode, pcm, worker, currentGen, paused, eofPending>>

\* Mutant: a chunk is drained once too often.
PlayPartPastEnd ==
  /\ DrainHead
  /\ read + 1 <= Quanta
  /\ read' = read + 1
  /\ UNCHANGED <<queue, acks, endSent, ends>>

PlayPart ==
  /\ DrainHead
  /\ read + 1 < Quanta
  /\ read' = read + 1
  /\ UNCHANGED <<queue, acks, endSent, ends>>

FinishChunk ==
  /\ DrainHead
  /\ read + 1 = Quanta
  /\ read' = 0
  /\ queue' = Tail(queue)
  /\ acks' = Append(acks, [gen |-> Head(queue).gen, eof |-> FALSE])
  /\ ReportEnd(Tail(queue))

\* A quantum of silence: a dropout is counted once per dry spell.
RunDry ==
  /\ ~paused
  /\ queue = <<>>
  /\ IF eofPending THEN ~endSent ELSE primed /\ ~inUnderrun
  /\ inUnderrun' = (inUnderrun \/ ~eofPending)
  /\ ReportEnd(queue)
  /\ UNCHANGED <<main, ports, worker, currentGen, queue, read, paused, eofPending, primed, heard>>

Process == PlayPart \/ FinishChunk \/ RunDry

-----------------------------------------------------------------------------
Worker == Render \/ WorkerMessage \/ OnPcmAck
Worklet == NodeFlush \/ NodePause \/ OnPcm \/ Process

Next == Main \/ Worker \/ Worklet

\* The user may stop calling; the two threads keep serving what is posted.
Fairness ==
  /\ WF_vars(Render) /\ WF_vars(WorkerMessage) /\ WF_vars(OnPcmAck)
  /\ WF_vars(NodeFlush \/ NodePause) /\ WF_vars(OnPcm) /\ WF_vars(Process)

Spec == Init /\ [][Next]_vars
FairSpec == Spec /\ Fairness
-----------------------------------------------------------------------------
(* Safety.                                                                 *)

\* Chunks of generation g, or acks of them, in a port or in the queue.
Counts(x, g) == x.gen = g /\ ~x.eof
Count(s, g) == Cardinality({i \in DOMAIN s : Counts(s[i], g)})

\* A stop() has been carried out and no generation opened since.
WorkerStopped == eof /\ ~playing

(* "We keep at most TARGET chunks in flight" (decoder.worker.js:13): of no  *)
(* generation are there ever more than Target chunks on their way to the   *)
(* sound card, and the chunks and acks of the current one never exceed the *)
(* credit the worker has spent, whatever is lost, flushed or reordered.    *)
CreditBound ==
  /\ \A g \in Gens : Count(pcm, g) + Count(queue, g) <= Target
  /\ ~WorkerStopped =>
       Count(pcm, wGen) + Count(queue, wGen) + Count(acks, wGen) <= inflight

(* What the worklet holds is one unbroken run of the song the main thread   *)
(* asked for in that generation, at or after the position it asked for, and *)
(* continues what it has played of it: no stale, foreign, repeated or       *)
(* reordered chunk survives a load, a seek or a stop (onPcm, flush).  And   *)
(* the end of a generation is reported at most once, although a stop()      *)
(* flushes the worklet's record of having reported it (process, flush).     *)
RightStream ==
  /\ \A i \in DOMAIN queue :
       /\ queue[i].gen = currentGen
       /\ queue[i].song = asked[currentGen].song
       /\ queue[i].pos = queue[1].pos + i - 1
       /\ IF heard = 0 THEN queue[1].pos >= asked[currentGen].start
          ELSE queue[1].pos = heard + (IF read = 0 THEN 1 ELSE 0)
  /\ \A g \in Gens : ends[g] <= 1

\* No message that will reset the credit of the current generation is under way.
Settled ==
  /\ currentGen = wGen /\ ~WorkerStopped
  /\ \A i \in DOMAIN toWorker : toWorker[i].cmd = "decodeSong"
  /\ \A i \in DOMAIN toNode : toNode[i].cmd # "flush"

(* If a flush overtakes no chunk, every chunk the worker has spent a credit *)
(* on is on its way, in the queue, or acked: no credit leaks (pump, onPcm).  *)
NoCreditLost ==
  Causal /\ Settled =>
    Count(pcm, wGen) + Count(queue, wGen) + Count(acks, wGen) = inflight

-----------------------------------------------------------------------------
(* Refinement.                                                             *)

Stream == INSTANCE PcmStream WITH
  Playable <- Songs \ Unparsable,
  Starts <- Seeks \cup {1},
  cur <- currentGen,
  ended <- {g \in Gens : ends[g] > 0}

(* If a flush overtakes no chunk, the worker, the worklet and their ports   *)
(* together are PcmStream: loads, seeks and stops that overlap in any way   *)
(* leave the listener with the streams asked for, in order, each from its   *)
(* start, gapless, and with an end reported only after the last chunk.      *)
ImplementsStream == Stream!StreamSpec

-----------------------------------------------------------------------------
(* Liveness.                                                               *)

\* Generation g is the one wanted now, and it has something to play.
Wanted(g) ==
  /\ gen = g /\ g \notin cut
  /\ asked[g].song \in Songs \ Unparsable

(* A song or a seek the user leaves alone plays to its end: the credit loop *)
(* never starves (onPcmAck, pump, process).                                 *)
StreamEnds ==
  \A g \in Gens \ {0} : Wanted(g) ~> (ends[g] = 1 \/ ~Wanted(g) \/ paused)
=============================================================================
