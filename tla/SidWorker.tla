----------------------------- MODULE SidWorker -----------------------------
(***************************************************************************)
(* The second decoder, sid.worker.ts (libsidplayfp), behind the wrapper,   *)
(* the worklet and the ports of PcmPipeline, which are the same for both.  *)
(*                                                                         *)
(* Unlike the module decoder it opens a tune, and seeks in it, across an   *)
(* await: a load takes its generation over at once, and the tune when the  *)
(* engine has opened it.  Until then the one before is in the engine, and  *)
(* acks, a seek, or an earlier load that is through render it.  The engine *)
(* is external: it is asked to open and to seek, does either kind in the   *)
(* order asked, and plays what it has for ever.  selectSubsong is called   *)
(* by nobody, and left out, as are the trace, mutes and the answers that   *)
(* parse and decodeSong get at once.                                       *)
(***************************************************************************)
EXTENDS PcmPipeline, SequencesExt

\* A tune that opens has something to render.
ASSUME TunesOK == \A s \in Songs \ Unparsable : Length[s] # 0

VARIABLES
  asks,     \* calls of the engine that are not through
  pumping,  \* pump() is in its loop
  spoilt    \* history: a tune failed to open with a later one already being opened

sid == <<asks, pumping, spoilt>>
sidVars == <<vars, sid>>

Asked == [call: {"open"}, song: Songs] \cup [call: {"seek"}, pos: Seeks]

SidTypeOK ==
  /\ TypeOK
  /\ asks \in Seq(Asked)
  /\ {pumping, spoilt} \subseteq BOOLEAN

SidInit == Init /\ asks = <<>> /\ pumping = FALSE /\ spoilt = FALSE

-----------------------------------------------------------------------------
\* pump(), called at the end of a handler or after an await.
Pump == pumping' = (playing' /\ ~eof' /\ inflight' < Target)

SidRender ==
  /\ pumping
  /\ pcm' = Append(pcm, Packets(FALSE))
  /\ next' = (next % Length[module]) + 1
  /\ inflight' = inflight + 1
  /\ UNCHANGED <<main, toWorker, toNode, acks, worklet, wGen, module, playing, eof, asks, spoilt>>
  /\ Pump

Handles(cmd) ==
  /\ ~pumping
  /\ toWorker # <<>> /\ Head(toWorker).cmd = cmd
  /\ toWorker' = Tail(toWorker)
  /\ UNCHANGED <<main, toNode, pcm, acks, worklet, pumping, module, next>>

SidLoad ==
  /\ Handles("load")
  /\ Restart(Head(toWorker).gen)
  /\ asks' = Append(asks, [call |-> "open", song |-> Head(toWorker).song])
  /\ spoilt' = FALSE /\ UNCHANGED playing

\* Mutant: a stop does not outlast the opening of a tune.
SidStopPlaying ==
  /\ Handles("stop")
  /\ playing' = FALSE /\ inflight' = 0
  /\ UNCHANGED <<asks, spoilt, wGen, eof>>

SidStop ==
  /\ Handles("stop")
  /\ playing' = FALSE /\ eof' = TRUE /\ inflight' = 0
  /\ UNCHANGED <<asks, spoilt, wGen>>

SidSetPos ==
  /\ Handles("setPos")
  /\ Restart(Head(toWorker).gen)
  /\ asks' = Append(asks, [call |-> "seek", pos |-> Head(toWorker).pos])
  /\ UNCHANGED <<playing, spoilt>>

-----------------------------------------------------------------------------
\* What follows an await: the engine is through with its call i.
Through(i, call) ==
  /\ ~pumping
  /\ asks[i].call = call /\ \A j \in 1 .. i - 1 : asks[j].call # call
  /\ asks' = RemoveAt(asks, i)
  /\ UNCHANGED <<main, ports, worklet, wGen, inflight>>

\* Mutant: that a tune could not be opened goes unnoticed.
OpenedAnyhow(i) ==
  /\ Through(i, "open")
  /\ module' = asks[i].song /\ next' = 1
  /\ playing' = TRUE
  /\ UNCHANGED <<eof, spoilt>>
  /\ Pump

Opened(i) ==
  /\ Through(i, "open")
  /\ asks[i].song \notin Unparsable
  /\ module' = asks[i].song /\ next' = 1
  /\ playing' = TRUE
  /\ UNCHANGED <<eof, spoilt>>
  /\ Pump

\* The catch of reload().  What the engine has then is open.
NotOpened(i) ==
  /\ Through(i, "open")
  /\ asks[i].song \in Unparsable
  /\ module' \in {module, None} /\ UNCHANGED next
  /\ playing' = FALSE /\ eof' = TRUE
  /\ spoilt' = \E j \in DOMAIN asks' : asks'[j].call = "open"
  /\ UNCHANGED pumping

Sought(i) ==
  /\ Through(i, "seek")
  /\ next' = asks[i].pos
  /\ UNCHANGED <<module, playing, eof, spoilt>>
  /\ Pump

\* Mutant: an ack gives its credit back, but does not set the pump going.
SidAckIdle ==
  /\ ~pumping
  /\ acks # <<>>
  /\ acks' = Tail(acks)
  /\ inflight' = IF Head(acks).gen = wGen THEN inflight - 1 ELSE inflight
  /\ UNCHANGED <<main, toWorker, toNode, pcm, worklet, wGen, module, next, playing, eof, sid>>

SidAck ==
  /\ ~pumping
  /\ acks # <<>>
  /\ acks' = Tail(acks)
  /\ UNCHANGED <<main, toWorker, toNode, pcm, worklet, wGen, module, next, playing, eof, asks, spoilt>>
  /\ \/ Head(acks).gen = wGen /\ inflight' = inflight - 1 /\ Pump
     \/ Head(acks).gen # wGen /\ UNCHANGED <<inflight, pumping>>

SidMessage == SidLoad \/ SidStop \/ SidSetPos
SidEngine == \E i \in DOMAIN asks : Opened(i) \/ NotOpened(i) \/ Sought(i)
SidDecoder == SidRender \/ SidMessage \/ SidEngine \/ SidAck

SidNext == SidDecoder \/ ((Main \/ Worklet) /\ UNCHANGED sid)

\* The user may stop calling; the two threads and the engine go on.  What waits for
\* pump() to leave its loop gets its turn (SF): an event loop starves no port.
SidFairness ==
  /\ WF_sidVars(SidRender) /\ SF_sidVars(SidMessage) /\ SF_sidVars(SidEngine) /\ SF_sidVars(SidAck)
  /\ WF_sidVars((NodeFlush \/ NodePause) /\ UNCHANGED sid)
  /\ WF_sidVars(OnPcm /\ UNCHANGED sid) /\ WF_sidVars(Process /\ UNCHANGED sid)

SidSpec == SidInit /\ [][SidNext]_sidVars /\ SidFairness

-----------------------------------------------------------------------------
(* Properties.                                                             *)

\* What the main thread wants to hear, if it can be opened at all.
Wished == IF Loaded \in Songs \ Unparsable THEN Loaded ELSE None

\* Once the worker has done what it was asked, it plays the tune asked for last, in
\* its generation, however its opening met other loads, seeks and stops; and after a
\* stop it renders nothing, although a tune that was being opened is opened, and set
\* to play, all the same.  The one way out is a tune that fails to open after a
\* later load: its failure stops that one (sid.worker.ts, load and reload).
LastAskedPlays ==
  toWorker = <<>> /\ asks = <<>> =>
    /\ Wished # None /\ ~spoilt => module = Wished /\ playing /\ ~eof /\ wGen = gen
    /\ gen \in cut => ~pumping

\* A tune that is left alone is heard for ever: an ack counted for the wrong
\* generation, a credit reset in the middle of a seek or an opening that ends late
\* never starve it (onmessage of the pcm port, pump).
HeardForEver ==
  \A s \in Songs \ Unparsable :
    <>[](Wished = s /\ ~spoilt) => []<>(queue # <<>> /\ Head(queue).song = s /\ currentGen = gen)
=============================================================================
