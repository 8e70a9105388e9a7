----------------------------- MODULE PipelineProofs -----------------------------
(* What holds of PcmPipeline for every value of its constants: any number  *)
(* of songs and generations, any credit, any order of delivery.  First its *)
(* types and the bound on its credit; then what it gives the listener: the *)
(* stream asked for, whatever is posted, lost or late.  Last what holds of *)
(* SidWorker, the other worker in the same pipeline, for any tunes, any    *)
(* credit and any number of loads, seeks and stops, however late the       *)
(* engine is through with them.                                            *)
EXTENDS SidWorker, FiniteSetTheorems, FunctionTheorems, SequenceTheorems, TLAPS

-----------------------------------------------------------------------------
(* Type correctness.                                                       *)

LEMMA TailTyped ==
  ASSUME NEW S, NEW s \in Seq(S), s # <<>>
  PROVE  Tail(s) \in Seq(S) /\ Head(s) \in S
  BY HeadTailProperties

LEMMA AppendTyped ==
  ASSUME NEW S, NEW s \in Seq(S), NEW x \in S
  PROVE  Append(s, x) \in Seq(S) /\ Len(Append(s, x)) = Len(s) + 1
  BY AppendProperties

LEMMA MainStays == MainOK /\ UNCHANGED main => MainOK'
  BY DEF MainOK, main
LEMMA PortsStay == PortsOK /\ UNCHANGED ports => PortsOK'
  BY DEF PortsOK, ports
LEMMA WorkerStays == WorkerOK /\ UNCHANGED worker => WorkerOK'
  BY DEF WorkerOK, worker
LEMMA FlagsStay ==
  FlagsOK /\ UNCHANGED <<playing, eof, paused, eofPending, endSent, primed, inUnderrun>>
    => FlagsOK'
  BY DEF FlagsOK
LEMMA WorkletStays == WorkletOK /\ UNCHANGED worklet => WorkletOK'
  BY DEF WorkletOK, worklet

\* The flags are assigned truth values only.
LEMMA FlagsTyped == FlagsOK /\ Next => FlagsOK'
<1> SUFFICES ASSUME FlagsOK, Next PROVE FlagsOK'
  OBVIOUS
<1>1. ASSUME Main  PROVE FlagsOK'
  BY <1>1, FlagsStay
  DEF Main, Play, DecodeSong, SetPos, Stop, PauseCall, worker, worklet
<1>2. ASSUME Worker  PROVE FlagsOK'
  <2>1. UNCHANGED <<paused, eofPending, endSent, primed, inUnderrun>>
    BY <1>2 DEF Worker, Render, RenderChunk, RenderNothing, WorkerMessage, WorkerLoad,
       WorkerStop, WorkerSetPos, WorkerSetPosIgnored, WorkerDecodeSong, Receive,
       OnPcmAck, worklet
  <2>2. playing' \in BOOLEAN /\ eof' \in BOOLEAN
    BY <1>2, Zenon DEF Worker, Render, RenderChunk, RenderNothing, WorkerMessage,
       WorkerLoad, WorkerStop, WorkerSetPos, WorkerSetPosIgnored, WorkerDecodeSong,
       Restart, OnPcmAck, worker, FlagsOK
  <2> QED  BY <2>1, <2>2, Zenon DEF FlagsOK
<1>3. ASSUME Worklet  PROVE FlagsOK'
  <2>1. UNCHANGED <<playing, eof>>
    BY <1>3 DEF Worklet, NodeFlush, NodePause, Control, OnPcm, DropPacket, TakeEof,
       TakeChunk, Arrival, Process, PlayPart, FinishChunk, RunDry, DrainHead, worker
  <2>2. paused' \in BOOLEAN /\ eofPending' \in BOOLEAN /\ endSent' \in BOOLEAN
    BY <1>3, Zenon DEF Worklet, NodeFlush, NodePause, OnPcm, DropPacket, TakeEof,
       TakeChunk, Process, PlayPart, FinishChunk, RunDry, DrainHead, ReportEnd,
       worklet, FlagsOK
  <2>3. primed' \in BOOLEAN /\ inUnderrun' \in BOOLEAN
    BY <1>3, Zenon DEF Worklet, NodeFlush, NodePause, OnPcm, DropPacket, TakeEof,
       TakeChunk, Process, PlayPart, FinishChunk, RunDry, DrainHead, worklet, FlagsOK
  <2> QED  BY <2>1, <2>2, <2>3, Zenon DEF FlagsOK
<1> QED  BY <1>1, <1>2, <1>3 DEF Next

\* A call of the main thread appends to its two ports and opens a generation.
LEMMA MainTyped == TypeOK /\ Main => TypeOK'
<1> SUFFICES ASSUME MainOK, PortsOK, WorkerOK, WorkletOK, FlagsOK, Main PROVE TypeOK'
  BY DEF TypeOK
<1>1. UNCHANGED <<worker, worklet>>
  BY DEF Main, Play, DecodeSong, SetPos, Stop, PauseCall
<1> USE ConstantsOK
<1>2. ASSUME NEW s \in Songs, Play(s)  PROVE MainOK' /\ PortsOK'
  <2>1. /\ gen + 1 \in Gens
        /\ [cmd |-> "load", gen |-> gen + 1, song |-> s] \in WorkerCall
        /\ Flush(gen + 1) \in NodeCall
        /\ [song |-> s, start |-> 1] \in [song: Songs \cup {None}, start: Nat]
    BY <1>2 DEF MainOK, Gens, Play, WorkerCall, NodeCall, Flush
  <2>2. MainOK'
    BY <1>2, <2>1, AppendTyped DEF MainOK, Play
  <2>3. PortsOK'
    BY <1>2, <2>1, AppendTyped DEF PortsOK, Play, Post
  <2> QED  BY <2>2, <2>3
<1>3. ASSUME NEW s \in Decoded, DecodeSong(s)  PROVE MainOK' /\ PortsOK'
  <2>1. [cmd |-> "decodeSong", song |-> s] \in WorkerCall
    BY DEF WorkerCall
  <2>2. PortsOK'
    BY <1>3, <2>1, AppendTyped DEF PortsOK, DecodeSong
  <2> QED  BY <1>3, <2>2, MainStays DEF DecodeSong
<1>4. ASSUME NEW p \in Seeks, SetPos(p)  PROVE MainOK' /\ PortsOK'
  <2>1. /\ gen + 1 \in Gens
        /\ [cmd |-> "setPos", gen |-> gen + 1, pos |-> p] \in WorkerCall
        /\ Flush(gen + 1) \in NodeCall
    BY <1>4 DEF MainOK, Gens, SetPos, WorkerCall, NodeCall, Flush
  <2>2. Loaded \in Songs \cup {None}
    <3>1. CASE gen = 0 \/ gen \in cut
      BY <3>1 DEF Loaded
    <3>2. CASE gen # 0 /\ gen \notin cut
      <4>1. gen \in 1 .. Len(asked)
        BY <3>2 DEF MainOK, Gens
      <4>2. asked[gen] \in [song: Songs \cup {None}, start: Nat]
        BY <4>1, ElementOfSeq DEF MainOK
      <4> QED  BY <3>2, <4>2 DEF Loaded
    <3> QED  BY <3>1, <3>2
  <2>3. [song |-> Loaded, start |-> p] \in [song: Songs \cup {None}, start: Nat]
    BY <2>2
  <2>4. MainOK'
    BY <1>4, <2>1, <2>3, AppendTyped DEF MainOK, SetPos
  <2>5. PortsOK'
    BY <1>4, <2>1, AppendTyped DEF PortsOK, SetPos, Post
  <2> QED  BY <2>4, <2>5
<1>5. ASSUME Stop  PROVE MainOK' /\ PortsOK'
  <2>1. [cmd |-> "stop"] \in WorkerCall /\ Flush(gen) \in NodeCall
    BY DEF MainOK, WorkerCall, NodeCall, Flush
  <2>2. PortsOK'
    BY <1>5, <2>1, AppendTyped DEF PortsOK, Stop, Post
  <2> QED  BY <1>5, <2>2 DEF Stop, MainOK
<1>6. ASSUME NEW cmd \in PauseCalls, PauseCall(cmd)  PROVE MainOK' /\ PortsOK'
  <2>1. [cmd |-> cmd] \in NodeCall
    BY DEF NodeCall
  <2>2. PortsOK'
    BY <1>6, <2>1, AppendTyped DEF PortsOK, PauseCall
  <2> QED  BY <1>6, <2>2, MainStays DEF PauseCall
<1> QED
  BY <1>1, <1>2, <1>3, <1>4, <1>5, <1>6, WorkerStays, WorkletStays, FlagsTyped
  DEF Main, TypeOK, Next

\* A handler of the worker takes a message and changes the worker's state.
LEMMA WorkerTyped == TypeOK /\ Worker => TypeOK'
<1> SUFFICES ASSUME MainOK, PortsOK, WorkerOK, WorkletOK, FlagsOK, Worker PROVE TypeOK'
  BY DEF TypeOK
<1>1. UNCHANGED <<main, worklet>>
  BY DEF Worker, Render, RenderChunk, RenderNothing, WorkerMessage, WorkerLoad,
         WorkerStop, WorkerSetPos, WorkerSetPosIgnored, WorkerDecodeSong, Receive,
         OnPcmAck
<1> USE ConstantsOK
<1>2. ASSUME NEW cmd, Receive(cmd)
      PROVE  PortsOK' /\ Head(toWorker) \in WorkerCall /\ Head(toWorker).cmd = cmd
  BY <1>2, TailTyped DEF Receive, PortsOK
<1>3. ASSUME Render  PROVE PortsOK' /\ WorkerOK'
  <2>1. Packets(TRUE) \in Packet /\ Packets(FALSE) \in Packet
    BY DEF Packets, Packet, Chunk, WorkerOK
  <2>2. CASE RenderChunk
    <3>1. pcm' \in Seq(Packet)
      BY <2>1, <2>2, AppendTyped DEF RenderChunk, PortsOK
    <3>2. UNCHANGED <<toWorker, toNode, acks>>
      BY <2>2 DEF RenderChunk
    <3>3. WorkerOK'
      BY <2>2 DEF RenderChunk, WorkerOK
    <3> QED  BY <3>1, <3>2, <3>3 DEF PortsOK
  <2>3. CASE RenderNothing
    <3>1. pcm' \in Seq(Packet)
      <4>1. pcm' = Append(pcm, Packets(TRUE))
        BY <2>3 DEF RenderNothing
      <4> QED  BY <2>1, <4>1, AppendTyped DEF PortsOK
    <3>2. UNCHANGED <<toWorker, toNode, acks>>
      BY <2>3 DEF RenderNothing
    <3>3. WorkerOK'
      <4>1. UNCHANGED <<wGen, module, next, inflight>>
        BY <2>3 DEF RenderNothing
      <4> QED  BY <4>1 DEF WorkerOK
    <3> QED  BY <3>1, <3>2, <3>3 DEF PortsOK
  <2> QED  BY <1>3, <2>2, <2>3 DEF Render
<1>4. ASSUME WorkerLoad  PROVE PortsOK' /\ WorkerOK'
  <2>1. PortsOK' /\ Head(toWorker) \in WorkerCall /\ Head(toWorker).cmd = "load"
    BY <1>2, <1>4 DEF WorkerLoad
  <2>2. Head(toWorker).gen \in Gens /\ Head(toWorker).song \in Songs
    BY <2>1 DEF WorkerCall
  <2>3. WorkerOK'
    BY <1>4, <2>2 DEF WorkerLoad, Restart, WorkerOK
  <2> QED  BY <2>1, <2>3
<1>5. ASSUME WorkerStop  PROVE PortsOK' /\ WorkerOK'
  BY <1>2, <1>5 DEF WorkerStop, WorkerOK
<1>6. ASSUME WorkerSetPos  PROVE PortsOK' /\ WorkerOK'
  <2>1. PortsOK' /\ Head(toWorker) \in WorkerCall /\ Head(toWorker).cmd = "setPos"
    BY <1>2, <1>6 DEF WorkerSetPos
  <2>2. Head(toWorker).gen \in Gens /\ Head(toWorker).pos \in Nat
    BY <2>1 DEF WorkerCall
  <2>3. WorkerOK'
    BY <1>6, <2>2 DEF WorkerSetPos, Restart, WorkerOK
  <2> QED  BY <2>1, <2>3
<1>7. ASSUME WorkerSetPosIgnored  PROVE PortsOK' /\ WorkerOK'
  BY <1>2, <1>7, WorkerStays DEF WorkerSetPosIgnored
<1>8. ASSUME WorkerDecodeSong  PROVE PortsOK' /\ WorkerOK'
  <2>1. PortsOK' /\ Head(toWorker) \in WorkerCall /\ Head(toWorker).cmd = "decodeSong"
    BY <1>2, <1>8 DEF WorkerDecodeSong
  <2>2. Head(toWorker).song \in Songs
    BY <2>1 DEF WorkerCall
  <2>3. WorkerOK'
    BY <1>8, <2>2 DEF WorkerDecodeSong, WorkerOK
  <2> QED  BY <2>1, <2>3
<1>9. ASSUME OnPcmAck  PROVE PortsOK' /\ WorkerOK'
  <2>1. PortsOK'
    BY <1>9, TailTyped DEF OnPcmAck, PortsOK
  <2>2. WorkerOK'
    BY <1>9 DEF OnPcmAck, WorkerOK
  <2> QED  BY <2>1, <2>2
<1> QED
  BY <1>1, <1>3, <1>4, <1>5, <1>6, <1>7, <1>8, <1>9, MainStays, WorkletStays,
     FlagsTyped
  DEF Worker, WorkerMessage, TypeOK, Next

\* A handler of the worklet takes a message or a quantum of audio.
LEMMA WorkletTyped == TypeOK /\ Worklet => TypeOK'
<1> SUFFICES ASSUME MainOK, PortsOK, WorkerOK, WorkletOK, FlagsOK, Worklet PROVE TypeOK'
  BY DEF TypeOK
<1>1. UNCHANGED <<main, worker>>
  BY DEF Worklet, NodeFlush, NodePause, Control, OnPcm, DropPacket, TakeEof,
         TakeChunk, Arrival, Process, PlayPart, FinishChunk, RunDry, DrainHead
<1> USE ConstantsOK
<1>2. ASSUME NEW cmd, Control(cmd)
      PROVE  PortsOK' /\ Head(toNode) \in NodeCall /\ Head(toNode).cmd = cmd
  BY <1>2, TailTyped DEF Control, PortsOK
<1>3. ASSUME NodeFlush  PROVE PortsOK' /\ WorkletOK'
  <2>1. PortsOK' /\ Head(toNode) \in NodeCall /\ Head(toNode).cmd = "flush"
    BY <1>2, <1>3 DEF NodeFlush
  <2>2. Head(toNode).gen \in Gens
    BY <2>1 DEF NodeCall
  <2>3. WorkletOK'
    BY <1>3, <2>2 DEF NodeFlush, WorkletOK
  <2> QED  BY <2>1, <2>3
<1>4. ASSUME NodePause  PROVE PortsOK' /\ WorkletOK'
  BY <1>2, <1>4 DEF NodePause, WorkletOK
<1>5. ASSUME Arrival  PROVE PortsOK' /\ Head(pcm) \in Packet
  BY <1>5, TailTyped DEF Arrival, PortsOK
<1>6. ASSUME DropPacket  PROVE PortsOK' /\ WorkletOK'
  BY <1>5, <1>6, WorkletStays DEF DropPacket
<1>7. ASSUME TakeEof  PROVE PortsOK' /\ WorkletOK'
  BY <1>5, <1>7 DEF TakeEof, WorkletOK
<1>8. ASSUME TakeChunk  PROVE PortsOK' /\ WorkletOK'
  <2>1. Head(pcm) \in Chunk
    BY <1>5, <1>8 DEF TakeChunk, Packet
  <2> QED  BY <1>5, <1>8, <2>1, AppendTyped DEF TakeChunk, WorkletOK
<1>9. ASSUME Process  PROVE PortsOK' /\ WorkletOK'
  <2>1. ASSUME NEW left, ReportEnd(left)
        PROVE  ends' \in [Gens -> Nat]
    <3>1. ends \in [Gens -> Nat]
      BY DEF WorkletOK
    <3>2. ends' = [ends EXCEPT ![currentGen] = @ + 1] \/ ends' = ends
      BY <2>1, Zenon DEF ReportEnd
    <3> QED  BY <3>1, <3>2
  <2>2. ASSUME DrainHead  PROVE Head(queue) \in Chunk /\ Tail(queue) \in Seq(Chunk)
    BY <2>2, TailTyped DEF DrainHead, WorkletOK
  <2>3. ASSUME PlayPart  PROVE PortsOK' /\ WorkletOK'
    <3>1. Head(queue).pos \in Nat
      BY <2>2, <2>3 DEF PlayPart, Chunk
    <3> QED  BY <2>3, <3>1 DEF PlayPart, DrainHead, PortsOK, WorkletOK
  <2>4. ASSUME FinishChunk  PROVE PortsOK' /\ WorkletOK'
    <3>1. /\ Head(queue).pos \in Nat
          /\ [gen |-> Head(queue).gen, eof |-> FALSE] \in Ack
      BY <2>2, <2>4 DEF FinishChunk, Chunk, Ack
    <3>2. PortsOK'
      BY <2>4, <3>1, AppendTyped DEF FinishChunk, DrainHead, PortsOK
    <3>3. WorkletOK'
      BY <2>1, <2>2, <2>4, <3>1 DEF FinishChunk, DrainHead, WorkletOK
    <3> QED  BY <3>2, <3>3
  <2>5. ASSUME RunDry  PROVE PortsOK' /\ WorkletOK'
    <3>1. PortsOK'
      BY <2>5, PortsStay DEF RunDry
    <3>2. WorkletOK'
      BY <2>1, <2>5 DEF RunDry, WorkletOK
    <3> QED  BY <3>1, <3>2
  <2> QED  BY <1>9, <2>3, <2>4, <2>5 DEF Process
<1> QED
  BY <1>1, <1>3, <1>4, <1>6, <1>7, <1>8, <1>9, MainStays, WorkerStays,
     FlagsTyped
  DEF Worklet, OnPcm, TypeOK, Next

(* Every variable of the pipeline keeps its type, whatever the user calls   *)
(* and in whatever order the ports deliver.                                 *)
THEOREM TypeCorrect == Spec => []TypeOK
<1>1. Init => TypeOK
  BY ConstantsOK DEF Init, TypeOK, MainOK, PortsOK, WorkerOK, WorkletOK, FlagsOK, Gens
<1>2. TypeOK /\ [Next]_vars => TypeOK'
  <2>1. TypeOK /\ UNCHANGED vars => TypeOK'
    BY MainStays, PortsStay, WorkerStays, WorkletStays, FlagsStay
    DEF vars, worker, worklet, TypeOK
  <2> QED  BY <2>1, MainTyped, WorkerTyped, WorkletTyped DEF Next
<1> QED  BY <1>1, <1>2, PTL DEF Spec

-----------------------------------------------------------------------------
(* The credit loop between decoder.worker.js and chiptune3.worklet.js keeps *)
(* its bound for every Target, every song and every order of delivery.      *)

(* Counting the chunks of a generation in a sequence.                      *)

LEMMA CountType ==
  ASSUME NEW S, NEW s \in Seq(S), NEW g
  PROVE  /\ IsFiniteSet({i \in DOMAIN s : Counts(s[i], g)})
         /\ Count(s, g) \in Nat
<1> DEFINE C == {i \in DOMAIN s : Counts(s[i], g)}
<1>1. Len(s) \in Nat /\ DOMAIN s = 1 .. Len(s)
  BY LenProperties
<1>2. IsFiniteSet(1 .. Len(s)) /\ C \in SUBSET (1 .. Len(s))
  BY <1>1, FS_Interval
<1>3. IsFiniteSet(C)
  BY <1>2, FS_Subset
<1>4. Cardinality(C) \in Nat
  BY <1>3, FS_CardinalityType
<1> QED  BY <1>3, <1>4 DEF Count

LEMMA CountEmpty == \A g : Count(<<>>, g) = 0
<1> TAKE g
<1>1. {i \in DOMAIN <<>> : Counts(<<>>[i], g)} = {}
  OBVIOUS
<1> QED  BY <1>1, FS_EmptySet DEF Count

LEMMA CountAppend ==
  ASSUME NEW S, NEW s \in Seq(S), NEW x \in S, NEW g
  PROVE  Count(Append(s, x), g) = Count(s, g) + (IF Counts(x, g) THEN 1 ELSE 0)
<1> DEFINE t == Append(s, x)
           C == {i \in DOMAIN s : Counts(s[i], g)}
           D == {i \in DOMAIN t : Counts(t[i], g)}
           n == Len(s) + 1
<1>1. /\ Len(s) \in Nat /\ DOMAIN s = 1 .. Len(s)
      /\ DOMAIN t = 1 .. n
      /\ \A i \in 1 .. Len(s) : t[i] = s[i]
      /\ t[n] = x
  <2>1. t \in Seq(S) /\ Len(t) = n
    BY AppendProperties
  <2>2. DOMAIN t = 1 .. n
    BY <2>1, LenProperties
  <2> QED  BY <2>2, AppendProperties, LenProperties
<1>2. IsFiniteSet(C) /\ n \notin C /\ Cardinality(C) \in Nat
  <2>1. IsFiniteSet(C)
    BY CountType
  <2>2. n \notin C
    BY <1>1
  <2>3. Cardinality(C) \in Nat
    BY <2>1, FS_CardinalityType
  <2> QED  BY <2>1, <2>2, <2>3
<1>3. CASE Counts(x, g)
  <2>1. D = C \cup {n}
    <3> HIDE DEF t
    <3> QED  BY <1>1, <1>3
  <2>2. Cardinality(D) = Cardinality(C) + 1
    BY <1>2, <2>1, FS_AddElement
  <2> QED  BY <1>3, <2>2 DEF Count
<1>4. CASE ~Counts(x, g)
  <2>1. D = C
    <3> HIDE DEF t
    <3> QED  BY <1>1, <1>4
  <2>2. Cardinality(D) = Cardinality(C) + 0
    <3> HIDE DEF C, D
    <3> QED  BY <1>2, <2>1
  <2> QED  BY <1>4, <2>2 DEF Count
<1> QED  BY <1>3, <1>4

LEMMA CountTail ==
  ASSUME NEW S, NEW s \in Seq(S), s # <<>>, NEW g
  PROVE  Count(s, g) = Count(Tail(s), g) + (IF Counts(Head(s), g) THEN 1 ELSE 0)
<1> DEFINE t == Tail(s)
           C == {i \in DOMAIN s : Counts(s[i], g)}
           D == {i \in DOMAIN t : Counts(t[i], g)}
           f == [i \in C \ {1} |-> i - 1]
<1>1. /\ Len(s) \in Nat \ {0} /\ DOMAIN s = 1 .. Len(s)
      /\ DOMAIN t = 1 .. Len(s) - 1
      /\ \A i \in 1 .. Len(s) - 1 : t[i] = s[i + 1]
      /\ Head(s) = s[1]
  <2>1. t \in Seq(S) /\ Len(t) = Len(s) - 1
    BY HeadTailProperties
  <2>2. DOMAIN t = 1 .. Len(s) - 1
    BY <2>1, LenProperties
  <2>3. Len(s) \in Nat \ {0} /\ DOMAIN s = 1 .. Len(s)
    BY LenProperties, EmptySeq
  <2> QED  BY <2>1, <2>2, <2>3, HeadTailProperties
<1>2. IsFiniteSet(C) /\ IsFiniteSet(D)
      /\ Cardinality(C) \in Nat /\ Cardinality(D) \in Nat
  <2>1. t \in Seq(S)
    BY HeadTailProperties
  <2> QED  BY <2>1, CountType, FS_CardinalityType
<1>3. Cardinality(D) = Cardinality(C \ {1})
  <2>1. f \in Bijection(C \ {1}, D)
    <3> HIDE DEF t
    <3>1. \A i \in C \ {1} : i - 1 \in D
      BY <1>1
    <3>2. \A j \in D : j + 1 \in C \ {1} /\ f[j + 1] = j
      BY <1>1
    <3>3. \A a, b \in C \ {1} : f[a] = f[b] => a = b
      BY <1>1
    <3> HIDE DEF C, D
    <3>4. f \in [C \ {1} -> D]
      BY <3>1
    <3> HIDE DEF f
    <3>5. \A y \in D : \E x \in C \ {1} : f[x] = y
      BY <3>2
    <3> QED  BY <3>3, <3>4, <3>5, Fun_IsBij
  <2>2. ExistsBijection(C \ {1}, D)
    BY <2>1 DEF ExistsBijection
  <2>3. IsFiniteSet(C \ {1})
    BY <1>2, FS_RemoveElement
  <2> HIDE DEF C, D
  <2> QED  BY <2>2, <2>3, FS_Bijection
<1>4. 1 \in C <=> Counts(Head(s), g)
  BY <1>1
<1>5. Cardinality(C \ {1}) = IF 1 \in C THEN Cardinality(C) - 1 ELSE Cardinality(C)
  BY <1>2, FS_RemoveElement
<1>6. Cardinality(C) = Cardinality(D) + (IF Counts(Head(s), g) THEN 1 ELSE 0)
  <2> HIDE DEF C, D
  <2> QED  BY <1>2, <1>3, <1>4, <1>5
<1> QED  BY <1>6 DEF Count

-----------------------------------------------------------------------------
(* The inductive invariant.                                                *)

Opens(c) == c.cmd \in {"load", "setPos"}

\* The generations the worker is about to open are new to it, and increasing.
GensAhead ==
  /\ wGen <= gen
  /\ \A i \in DOMAIN toWorker : Opens(toWorker[i]) =>
       /\ wGen < toWorker[i].gen /\ toWorker[i].gen <= gen
       /\ \A j \in 1 .. i - 1 :
            Opens(toWorker[j]) => toWorker[j].gen < toWorker[i].gen

\* Nothing has been rendered of a generation the worker has not opened yet.
Fresh ==
  \A g \in Gens : g > wGen =>
    Count(pcm, g) = 0 /\ Count(queue, g) = 0 /\ Count(acks, g) = 0

CreditInv == TypeOK /\ GensAhead /\ Fresh /\ inflight <= Target /\ CreditBound

\* The counts of what a port or the queue may hold are natural numbers.
LEMMA Counted ==
  ASSUME TypeOK, NEW g
  PROVE  Count(pcm, g) \in Nat /\ Count(queue, g) \in Nat /\ Count(acks, g) \in Nat
<1>1. pcm \in Seq(Packet) /\ queue \in Seq(Chunk) /\ acks \in Seq(Ack)
  BY DEF TypeOK, PortsOK, WorkletOK
<1> QED  BY <1>1, CountType

\* What is on its way of any generation does not grow, credit by credit.
Recedes ==
  \A g \in Gens :
    /\ Count(pcm', g) <= Count(pcm, g)
    /\ Count(pcm', g) + Count(queue', g) <= Count(pcm, g) + Count(queue, g)
    /\ Count(pcm', g) + Count(queue', g) + Count(acks', g)
         <= Count(pcm, g) + Count(queue, g) + Count(acks, g)

\* A step that opens no generation and posts no chunk keeps the bounds.
LEMMA NothingNew ==
  ASSUME TypeOK, TypeOK', Fresh, UNCHANGED wGen, Recedes
  PROVE  /\ Fresh'
         /\ \A n \in Nat, g \in Gens :
              Count(pcm, g) + Count(queue, g) <= n => Count(pcm', g) + Count(queue', g) <= n
         /\ \A n \in Int :
              Count(pcm, wGen) + Count(queue, wGen) + Count(acks, wGen) <= n
                => Count(pcm', wGen) + Count(queue', wGen) + Count(acks', wGen) <= n
<1>1. ASSUME NEW g \in Gens
      PROVE  /\ Count(pcm, g) \in Nat /\ Count(queue, g) \in Nat /\ Count(acks, g) \in Nat
             /\ Count(pcm', g) \in Nat /\ Count(queue', g) \in Nat /\ Count(acks', g) \in Nat
  <2>1. Count(pcm, g) \in Nat /\ Count(queue, g) \in Nat /\ Count(acks, g) \in Nat
    BY Counted
  <2>2. pcm' \in Seq(Packet) /\ queue' \in Seq(Chunk) /\ acks' \in Seq(Ack)
    BY DEF TypeOK, PortsOK, WorkletOK
  <2>3. Count(pcm', g) \in Nat /\ Count(queue', g) \in Nat /\ Count(acks', g) \in Nat
    BY <2>2, CountType
  <2> QED  BY <2>1, <2>3
<1>2. wGen \in Gens
  BY DEF TypeOK, WorkerOK
<1> QED  BY <1>1, <1>2 DEF Fresh, Recedes

-----------------------------------------------------------------------------
(* The generations ahead.                                                  *)

LEMMA AheadType ==
  ASSUME TypeOK, NEW i \in DOMAIN toWorker, Opens(toWorker[i])
  PROVE  toWorker[i].gen \in Gens
<1>1. toWorker[i] \in WorkerCall
  BY ElementOfSeq, LenProperties DEF TypeOK, PortsOK
<1> QED  BY <1>1 DEF WorkerCall, Opens

\* A call that opens no generation, or the next one, keeps them increasing.
LEMMA AheadAfterPost ==
  ASSUME TypeOK, GensAhead, NEW c \in WorkerCall,
         toWorker' = Append(toWorker, c), UNCHANGED wGen, gen' \in Nat, gen <= gen',
         Opens(c) => gen < c.gen /\ c.gen <= gen'
  PROVE  GensAhead'
<1> DEFINE n == Len(toWorker) + 1
<1>1. /\ DOMAIN toWorker = 1 .. Len(toWorker) /\ Len(toWorker) \in Nat
      /\ DOMAIN toWorker' = 1 .. n
      /\ \A i \in 1 .. Len(toWorker) : toWorker'[i] = toWorker[i]
      /\ toWorker'[n] = c
  <2>1. toWorker \in Seq(WorkerCall)
    BY DEF TypeOK, PortsOK
  <2>2. toWorker' \in Seq(WorkerCall) /\ Len(toWorker') = n
    BY <2>1, AppendProperties
  <2> QED  BY <2>1, <2>2, AppendProperties, LenProperties
<1>2. wGen \in Int /\ gen \in Int
  BY ConstantsOK DEF TypeOK, WorkerOK, MainOK, Gens
<1>3. \A i \in DOMAIN toWorker : Opens(toWorker[i]) => toWorker[i].gen \in Int
  BY AheadType, ConstantsOK DEF Gens
<1>4. ASSUME NEW i \in DOMAIN toWorker', Opens(toWorker'[i])
      PROVE  /\ wGen < toWorker'[i].gen /\ toWorker'[i].gen <= gen'
             /\ \A j \in 1 .. i - 1 :
                  Opens(toWorker'[j]) => toWorker'[j].gen < toWorker'[i].gen
  <2>1. CASE i \in DOMAIN toWorker
    BY <1>1, <1>2, <1>3, <1>4, <2>1 DEF GensAhead
  <2>2. CASE i = n
    <3>1. c.gen \in Int
      BY <1>1, <1>4, <2>2, ConstantsOK DEF WorkerCall, Opens, Gens
    <3> QED  BY <1>1, <1>2, <1>3, <1>4, <2>2, <3>1 DEF GensAhead
  <2> QED  BY <1>1, <2>1, <2>2
<1>5. wGen <= gen'
  BY <1>2 DEF GensAhead
<1> QED  BY <1>4, <1>5 DEF GensAhead

\* The worker opens the first of them, or none.
LEMMA AheadAfterReceive ==
  ASSUME TypeOK, GensAhead, toWorker # <<>>, toWorker' = Tail(toWorker),
         UNCHANGED gen, wGen' \in Gens,
         wGen' = wGen \/ (Opens(Head(toWorker)) /\ wGen' = Head(toWorker).gen)
  PROVE  GensAhead'
<1>1. /\ Len(toWorker) \in Nat \ {0} /\ DOMAIN toWorker = 1 .. Len(toWorker)
      /\ DOMAIN toWorker' = 1 .. Len(toWorker) - 1
      /\ \A i \in 1 .. Len(toWorker) - 1 : toWorker'[i] = toWorker[i + 1]
      /\ Head(toWorker) = toWorker[1]
  <2>1. toWorker \in Seq(WorkerCall)
    BY DEF TypeOK, PortsOK
  <2>2. toWorker' \in Seq(WorkerCall) /\ Len(toWorker') = Len(toWorker) - 1
    BY <2>1, HeadTailProperties
  <2>3. Len(toWorker) \in Nat \ {0}
    BY <2>1, EmptySeq, LenProperties
  <2> QED  BY <2>1, <2>2, <2>3, HeadTailProperties, LenProperties
<1>2. wGen \in Int /\ gen \in Int /\ wGen' \in Int
  BY ConstantsOK DEF TypeOK, WorkerOK, MainOK, Gens
<1>3. \A i \in DOMAIN toWorker : Opens(toWorker[i]) => toWorker[i].gen \in Int
  BY AheadType, ConstantsOK DEF Gens
<1>4. ASSUME NEW i \in DOMAIN toWorker', Opens(toWorker'[i])
      PROVE  /\ wGen' < toWorker'[i].gen /\ toWorker'[i].gen <= gen
             /\ \A j \in 1 .. i - 1 :
                  Opens(toWorker'[j]) => toWorker'[j].gen < toWorker'[i].gen
  <2>1. /\ i + 1 \in DOMAIN toWorker /\ toWorker'[i] = toWorker[i + 1]
        /\ 1 \in 1 .. (i + 1) - 1
    BY <1>1, <1>4
  <2>2. /\ wGen < toWorker[i + 1].gen /\ toWorker[i + 1].gen <= gen
        /\ \A j \in 1 .. (i + 1) - 1 :
             Opens(toWorker[j]) => toWorker[j].gen < toWorker[i + 1].gen
    BY <1>4, <2>1 DEF GensAhead
  <2>3. wGen' < toWorker'[i].gen
    BY <1>1, <2>1, <2>2
  <2>4. ASSUME NEW j \in 1 .. i - 1, Opens(toWorker'[j])
        PROVE  toWorker'[j].gen < toWorker'[i].gen
    <3>1. j + 1 \in 1 .. (i + 1) - 1 /\ toWorker'[j] = toWorker[j + 1]
      BY <1>1, <1>4
    <3> QED  BY <2>1, <2>2, <2>4, <3>1
  <2> QED  BY <2>1, <2>2, <2>3, <2>4
<1>5. wGen' <= gen
  <2>1. 1 \in DOMAIN toWorker
    BY <1>1
  <2> QED  BY <1>1, <1>2, <2>1 DEF GensAhead
<1> QED  BY <1>4, <1>5 DEF GensAhead

LEMMA AheadStays == GensAhead /\ UNCHANGED <<gen, toWorker, wGen>> => GensAhead'
  BY DEF GensAhead

-----------------------------------------------------------------------------
(* Every step keeps the invariant.                                         *)

LEMMA MainAhead ==
  TypeOK /\ TypeOK' /\ GensAhead /\ Main
    => GensAhead' /\ UNCHANGED <<pcm, acks, worker, worklet>>
<1> SUFFICES ASSUME TypeOK, TypeOK', GensAhead, Main
             PROVE  GensAhead' /\ UNCHANGED <<pcm, acks, worker, worklet>>
  OBVIOUS
<1>1. UNCHANGED <<pcm, acks, worker, worklet>>
  BY DEF Main, Play, DecodeSong, SetPos, Stop, PauseCall, Post
<1>2. UNCHANGED wGen /\ gen' \in Nat /\ gen \in Nat
  BY <1>1 DEF TypeOK, MainOK, Gens, worker
<1>3. ASSUME NEW s \in Songs, Play(s)  PROVE GensAhead'
  <2> DEFINE c == [cmd |-> "load", gen |-> gen + 1, song |-> s]
  <2>1. c \in WorkerCall
    BY <1>3, ConstantsOK DEF TypeOK, MainOK, Play, WorkerCall, Gens
  <2>2. toWorker' = Append(toWorker, c) /\ gen' = gen + 1
    BY <1>3 DEF Play, Post
  <2> QED  BY <1>2, <2>1, <2>2, AheadAfterPost
<1>4. ASSUME NEW s \in Decoded, DecodeSong(s)  PROVE GensAhead'
  <2> DEFINE c == [cmd |-> "decodeSong", song |-> s]
  <2>1. c \in WorkerCall /\ ~Opens(c)
    BY ConstantsOK DEF WorkerCall, Opens
  <2>2. toWorker' = Append(toWorker, c) /\ gen' = gen
    BY <1>4 DEF DecodeSong, main
  <2> QED  BY <1>2, <2>1, <2>2, AheadAfterPost
<1>5. ASSUME NEW p \in Seeks, SetPos(p)  PROVE GensAhead'
  <2> DEFINE c == [cmd |-> "setPos", gen |-> gen + 1, pos |-> p]
  <2>1. c \in WorkerCall
    BY <1>5, ConstantsOK DEF TypeOK, MainOK, SetPos, WorkerCall, Gens
  <2>2. toWorker' = Append(toWorker, c) /\ gen' = gen + 1
    BY <1>5 DEF SetPos, Post
  <2> QED  BY <1>2, <2>1, <2>2, AheadAfterPost
<1>6. ASSUME Stop  PROVE GensAhead'
  <2> DEFINE c == [cmd |-> "stop"]
  <2>1. c \in WorkerCall /\ ~Opens(c)
    BY DEF WorkerCall, Opens
  <2>2. toWorker' = Append(toWorker, c) /\ gen' = gen
    BY <1>6 DEF Stop, Post
  <2> QED  BY <1>2, <2>1, <2>2, AheadAfterPost
<1>7. ASSUME NEW cmd \in PauseCalls, PauseCall(cmd)  PROVE GensAhead'
  BY <1>7, AheadStays DEF PauseCall, main, worker
<1> QED  BY <1>1, <1>2, <1>3, <1>4, <1>5, <1>6, <1>7 DEF Main

LEMMA MainCredit == CreditInv /\ TypeOK' /\ Main => CreditInv'
<1> SUFFICES ASSUME CreditInv, TypeOK', Main PROVE CreditInv'
  OBVIOUS
<1>1. GensAhead' /\ UNCHANGED <<pcm, acks, worker, worklet>>
  BY MainAhead DEF CreditInv
<1> QED  BY <1>1 DEF CreditInv, Fresh, CreditBound, WorkerStopped, worker, worklet

\* The chunk posted is one more of the current generation, and of no other.
LEMMA PostedCounts ==
  ASSUME TypeOK, pcm' = Append(pcm, Packets(FALSE)), NEW g \in Gens
  PROVE  Count(pcm', g) = Count(pcm, g) + (IF g = wGen THEN 1 ELSE 0)
<1>1. Counts(Packets(FALSE), g) <=> g = wGen
  BY DEF Counts, Packets
<1>2. pcm \in Seq(Packet) /\ Packets(FALSE) \in Packet
  BY DEF TypeOK, PortsOK, WorkerOK, Packets, Packet, Chunk
<1> QED  BY <1>1, <1>2, CountAppend

\* Opening a generation, the worker has all its credit and owes nothing.
LEMMA OpenedFresh ==
  ASSUME TypeOK, TypeOK', GensAhead, Fresh,
         toWorker # <<>>, toWorker' = Tail(toWorker), UNCHANGED <<gen, pcm, acks, queue>>,
         Opens(Head(toWorker)), Restart(Head(toWorker).gen)
  PROVE  /\ GensAhead' /\ Fresh' /\ inflight' = 0
         /\ Count(pcm', wGen') + Count(queue', wGen') + Count(acks', wGen') = 0
<1>1. wGen \in Gens /\ wGen' \in Gens
  BY DEF TypeOK, WorkerOK
<1>2. GensAhead'
  BY <1>1, AheadAfterReceive DEF Restart
<1>3. wGen < wGen'
  <2>1. 1 \in DOMAIN toWorker /\ Head(toWorker) = toWorker[1]
    <3>1. toWorker \in Seq(WorkerCall)
      BY DEF TypeOK, PortsOK
    <3> QED  BY <3>1, EmptySeq, LenProperties
  <2> QED  BY <2>1 DEF GensAhead, Restart
<1>4. Fresh'
  BY <1>1, <1>3, ConstantsOK DEF Fresh, Gens
<1>5. Count(pcm, wGen') = 0 /\ Count(queue, wGen') = 0 /\ Count(acks, wGen') = 0
  BY <1>1, <1>3 DEF Fresh
<1> QED  BY <1>2, <1>4, <1>5 DEF Restart

\* The ack taken is one less of its generation, and of no other.
LEMMA AckedCounts ==
  ASSUME TypeOK, acks # <<>>, acks' = Tail(acks), NEW g \in Gens
  PROVE  /\ Count(acks, g) = Count(acks', g) + (IF Head(acks).gen = g THEN 1 ELSE 0)
         /\ Count(acks', g) \in Nat
<1>1. acks \in Seq(Ack) /\ Head(acks) \in Ack /\ acks' \in Seq(Ack)
  BY TailTyped DEF TypeOK, PortsOK
<1>2. Counts(Head(acks), g) <=> Head(acks).gen = g
  BY <1>1 DEF Counts, Ack
<1> QED  BY <1>1, <1>2, CountTail, CountType

\* A chunk is rendered only while there is credit, and takes one.
LEMMA RenderCredit == CreditInv /\ TypeOK' /\ Render => CreditInv'
<1> SUFFICES ASSUME CreditInv, TypeOK', Render PROVE CreditInv'
  OBVIOUS
<1>1. UNCHANGED <<gen, toWorker, acks, queue, wGen, playing>> /\ playing
  BY DEF Render, RenderChunk, RenderNothing, Pumping, main, worklet
<1>2. ~WorkerStopped /\ ~WorkerStopped'
  BY <1>1 DEF WorkerStopped
<1>3. GensAhead'
  BY <1>1, AheadStays DEF CreditInv
<1>4. pcm \in Seq(Packet) /\ wGen \in Gens /\ inflight \in Int /\ Target \in Nat
  BY ConstantsOK DEF CreditInv, TypeOK, PortsOK, WorkerOK
<1>5. Packets(TRUE) \in Packet /\ Packets(FALSE) \in Packet
  BY DEF CreditInv, TypeOK, WorkerOK, Packets, Packet, Chunk
<1>6. CASE RenderChunk
  <2>1. \A g \in Gens : Count(pcm', g) = Count(pcm, g) + (IF g = wGen THEN 1 ELSE 0)
    BY <1>6, PostedCounts DEF RenderChunk, CreditInv
  <2>2. inflight' = inflight + 1 /\ inflight < Target
    BY <1>6 DEF RenderChunk, Pumping
  <2>3. \A g \in Gens :
          Count(pcm, g) \in Nat /\ Count(queue, g) \in Nat /\ Count(acks, g) \in Nat
    BY Counted DEF CreditInv
  <2>4. Fresh'
    BY <1>1, <1>4, <2>1, <2>3, ConstantsOK DEF CreditInv, Fresh, Gens
  <2>5. Count(pcm, wGen) + Count(queue, wGen) + Count(acks, wGen) <= inflight
    BY <1>2 DEF CreditInv, CreditBound
  <2>6. Count(pcm', wGen) + Count(queue, wGen) + Count(acks, wGen) <= inflight'
    BY <1>4, <2>1, <2>2, <2>3, <2>5
  <2>7. ASSUME NEW g \in Gens  PROVE Count(pcm', g) + Count(queue, g) <= Target
    <3>1. CASE g = wGen
      <4>1. Count(pcm', g) \in Nat
        BY <2>1, <2>3
      <4> QED  BY <1>4, <2>2, <2>3, <2>6, <3>1, <4>1
    <3>2. CASE g # wGen
      <4>1. Count(pcm', g) = Count(pcm, g)
        BY <2>1, <2>3, <3>2
      <4> QED  BY <4>1 DEF CreditInv, CreditBound
    <3> QED  BY <3>1, <3>2
  <2>8. CreditBound'
    BY <1>1, <2>6, <2>7 DEF CreditBound
  <2> QED  BY <1>3, <1>4, <2>2, <2>4, <2>8 DEF CreditInv
<1>7. CASE RenderNothing
  <2>1. ASSUME NEW g \in Gens  PROVE Count(pcm', g) = Count(pcm, g)
    <3>1. ~Counts(Packets(TRUE), g)
      BY DEF Counts, Packets
    <3>2. pcm' = Append(pcm, Packets(TRUE))
      BY <1>7 DEF RenderNothing
    <3>3. Count(pcm, g) \in Nat
      BY Counted DEF CreditInv
    <3>4. Count(pcm', g) = Count(pcm, g) + (IF Counts(Packets(TRUE), g) THEN 1 ELSE 0)
      BY <1>4, <1>5, <3>2, CountAppend
    <3> QED  BY <3>1, <3>3, <3>4
  <2>2. UNCHANGED inflight
    BY <1>7 DEF RenderNothing
  <2> QED
    BY <1>1, <1>2, <1>3, <1>4, <2>1, <2>2 DEF CreditInv, Fresh, CreditBound
<1> QED  BY <1>6, <1>7 DEF Render

LEMMA WorkerCredit == CreditInv /\ TypeOK' /\ WorkerMessage => CreditInv'
<1> SUFFICES ASSUME CreditInv, TypeOK', WorkerMessage PROVE CreditInv'
  OBVIOUS
<1>1. /\ UNCHANGED <<gen, pcm, acks, queue>>
      /\ toWorker # <<>> /\ toWorker' = Tail(toWorker)
  BY DEF WorkerMessage, WorkerLoad, WorkerStop, WorkerSetPos, WorkerSetPosIgnored,
         WorkerDecodeSong, Receive, main, worklet
<1>2. wGen \in Gens /\ wGen' \in Gens /\ inflight \in Int /\ Target \in Nat
  BY ConstantsOK DEF CreditInv, TypeOK, WorkerOK
<1>3. \A g \in Gens :
        Count(pcm, g) \in Nat /\ Count(queue, g) \in Nat /\ Count(acks, g) \in Nat
  BY Counted DEF CreditInv
<1>4. ASSUME Opens(Head(toWorker)), Restart(Head(toWorker).gen)  PROVE CreditInv'
  <2>1. /\ GensAhead' /\ Fresh' /\ inflight' = 0
        /\ Count(pcm', wGen') + Count(queue', wGen') + Count(acks', wGen') = 0
    BY <1>1, <1>4, OpenedFresh DEF CreditInv
  <2> QED  BY <1>1, <1>2, <2>1 DEF CreditInv, CreditBound
<1>5. ASSUME UNCHANGED wGen  PROVE GensAhead' /\ Fresh'
  BY <1>1, <1>2, <1>5, AheadAfterReceive DEF CreditInv, Fresh
<1>6. CASE WorkerLoad
  BY <1>4, <1>6 DEF WorkerLoad, Receive, Opens
<1>7. CASE WorkerSetPos
  BY <1>4, <1>7 DEF WorkerSetPos, Receive, Opens
<1>8. CASE WorkerStop
  <2>1. UNCHANGED wGen /\ inflight' = 0 /\ WorkerStopped'
    BY <1>8 DEF WorkerStop, WorkerStopped
  <2> QED  BY <1>1, <1>2, <1>5, <2>1 DEF CreditInv, CreditBound
<1>9. CASE WorkerSetPosIgnored \/ WorkerDecodeSong
  <2>1. UNCHANGED <<wGen, inflight, playing, eof>>
    BY <1>9 DEF WorkerSetPosIgnored, WorkerDecodeSong, worker
  <2> QED  BY <1>1, <1>5, <2>1 DEF CreditInv, CreditBound, WorkerStopped
<1> QED  BY <1>6, <1>7, <1>8, <1>9 DEF WorkerMessage

\* An ack of the current generation gives back the credit it stands for.
LEMMA AckCredit == CreditInv /\ TypeOK' /\ OnPcmAck => CreditInv'
<1> SUFFICES ASSUME CreditInv, TypeOK', OnPcmAck PROVE CreditInv'
  OBVIOUS
<1>1. /\ UNCHANGED <<gen, toWorker, pcm, queue, wGen, playing, eof>>
      /\ acks # <<>> /\ acks' = Tail(acks)
      /\ inflight' = IF Head(acks).gen = wGen THEN inflight - 1 ELSE inflight
  BY DEF OnPcmAck, main, worklet
<1>2. wGen \in Gens /\ inflight \in Int /\ Target \in Nat /\ acks \in Seq(Ack)
  BY ConstantsOK DEF CreditInv, TypeOK, WorkerOK, PortsOK
<1>3. \A g \in Gens :
        /\ Count(acks, g) = Count(acks', g) + (IF Head(acks).gen = g THEN 1 ELSE 0)
        /\ Count(acks', g) \in Nat
  BY <1>1, AckedCounts DEF CreditInv
<1>4. \A g \in Gens :
        Count(pcm, g) \in Nat /\ Count(queue, g) \in Nat /\ Count(acks, g) \in Nat
  BY Counted DEF CreditInv
<1>5. GensAhead'
  BY <1>1, AheadStays DEF CreditInv
<1>6. Fresh'
  BY <1>1, <1>3, <1>4 DEF CreditInv, Fresh
<1>7. CreditBound' /\ inflight' <= Target
  BY <1>1, <1>2, <1>3, <1>4 DEF CreditInv, CreditBound, WorkerStopped
<1> QED  BY <1>5, <1>6, <1>7 DEF CreditInv

\* The worklet moves chunks on, drops them, or turns them into acks.
LEMMA WorkletRecedes ==
  TypeOK /\ TypeOK' /\ Worklet
    => Recedes /\ UNCHANGED <<gen, toWorker, wGen, playing, eof, inflight>>
<1> SUFFICES ASSUME TypeOK, TypeOK', Worklet
             PROVE  Recedes /\ UNCHANGED <<gen, toWorker, wGen, playing, eof, inflight>>
  OBVIOUS
<1>1. UNCHANGED <<gen, toWorker, wGen, playing, eof, inflight>>
  BY DEF Worklet, NodeFlush, NodePause, Control, OnPcm, DropPacket, TakeEof,
         TakeChunk, Arrival, Process, PlayPart, FinishChunk, RunDry, DrainHead,
         main, ports, worker
<1>2. pcm \in Seq(Packet) /\ queue \in Seq(Chunk) /\ acks \in Seq(Ack)
  BY DEF TypeOK, PortsOK, WorkletOK
<1>3. ASSUME NEW g \in Gens
      PROVE  Count(pcm, g) \in Nat /\ Count(queue, g) \in Nat /\ Count(acks, g) \in Nat
  BY Counted
<1>4. ASSUME UNCHANGED <<pcm, queue, acks>>  PROVE Recedes
  BY <1>3, <1>4 DEF Recedes
<1>5. ASSUME NodeFlush  PROVE Recedes
  <2>1. UNCHANGED <<pcm, acks>> /\ queue' = <<>>
    BY <1>5 DEF NodeFlush, Control
  <2> QED  BY <1>3, <2>1, CountEmpty DEF Recedes
<1>6. ASSUME Arrival, NEW g \in Gens
      PROVE  Count(pcm, g) = Count(pcm', g) + (IF Counts(Head(pcm), g) THEN 1 ELSE 0)
             /\ Count(pcm', g) \in Nat
  <2>1. pcm # <<>> /\ pcm' = Tail(pcm)
    BY <1>6 DEF Arrival
  <2>2. Tail(pcm) \in Seq(Packet)
    BY <1>2, <2>1, TailTyped
  <2> QED  BY <1>2, <2>1, <2>2, CountTail, CountType
<1>7. ASSUME DropPacket \/ TakeEof  PROVE Recedes
  <2>1. Arrival /\ UNCHANGED <<acks, queue>>
    BY <1>7 DEF DropPacket, TakeEof, Arrival, worklet
  <2> QED  BY <1>3, <1>6, <2>1 DEF Recedes
<1>8. ASSUME TakeChunk  PROVE Recedes
  <2>1. /\ Arrival /\ UNCHANGED acks /\ pcm # <<>> /\ ~Head(pcm).eof
        /\ queue' = Append(queue, Head(pcm))
    BY <1>8 DEF TakeChunk, Arrival
  <2>2. Head(pcm) \in Chunk
    <3>1. Head(pcm) \in Packet
      BY <1>2, <2>1, TailTyped
    <3> QED  BY <2>1, <3>1 DEF Packet
  <2>3. \A g \in Gens : Count(queue', g)
                          = Count(queue, g) + (IF Counts(Head(pcm), g) THEN 1 ELSE 0)
    BY <1>2, <2>1, <2>2, CountAppend
  <2> QED  BY <1>3, <1>6, <2>1, <2>3 DEF Recedes
<1>9. ASSUME FinishChunk  PROVE Recedes
  <2> DEFINE a == [gen |-> Head(queue).gen, eof |-> FALSE]
  <2>1. /\ UNCHANGED pcm /\ queue # <<>> /\ queue' = Tail(queue)
        /\ acks' = Append(acks, a)
    BY <1>9 DEF FinishChunk, DrainHead
  <2>2. Head(queue) \in Chunk /\ Tail(queue) \in Seq(Chunk)
    BY <1>2, <2>1, TailTyped
  <2>3. a \in Ack /\ \A g : Counts(a, g) <=> Counts(Head(queue), g)
    BY <2>2 DEF Chunk, Ack, Counts
  <2> HIDE DEF a
  <2>4. ASSUME NEW g \in Gens
        PROVE  /\ Count(queue, g)
                    = Count(queue', g) + (IF Counts(Head(queue), g) THEN 1 ELSE 0)
               /\ Count(acks', g)
                    = Count(acks, g) + (IF Counts(Head(queue), g) THEN 1 ELSE 0)
               /\ Count(queue', g) \in Nat
    BY <1>2, <2>1, <2>2, <2>3, CountTail, CountAppend, CountType
  <2>5. ASSUME NEW g \in Gens
        PROVE  /\ Count(pcm', g) = Count(pcm, g)
               /\ Count(queue', g) <= Count(queue, g)
               /\ Count(queue', g) + Count(acks', g) = Count(queue, g) + Count(acks, g)
    <3>1. Count(pcm', g) = Count(pcm, g)
      BY <2>1
    <3> QED  BY <1>3, <2>4, <3>1
  <2>6. \A g \in Gens :
          /\ Count(pcm', g) \in Nat /\ Count(pcm, g) \in Nat
          /\ Count(queue', g) \in Nat /\ Count(queue, g) \in Nat
          /\ Count(acks', g) \in Nat /\ Count(acks, g) \in Nat
    <3>1. acks' \in Seq(Ack)
      BY DEF TypeOK, PortsOK
    <3> QED  BY <1>3, <2>4, <2>5, <3>1, CountType
  <2> QED  BY <2>5, <2>6 DEF Recedes
<1>10. ASSUME NodePause \/ PlayPart \/ RunDry  PROVE Recedes
  BY <1>4, <1>10 DEF NodePause, Control, PlayPart, DrainHead, RunDry, ports
<1> QED
  BY <1>1, <1>5, <1>7, <1>8, <1>9, <1>10 DEF Worklet, OnPcm, Process

LEMMA WorkletCredit == CreditInv /\ TypeOK' /\ Worklet => CreditInv'
<1> SUFFICES ASSUME CreditInv, TypeOK', Worklet PROVE CreditInv'
  OBVIOUS
<1>1. Recedes /\ UNCHANGED <<gen, toWorker, wGen, playing, eof, inflight>>
  BY WorkletRecedes DEF CreditInv
<1>2. GensAhead' /\ (WorkerStopped => WorkerStopped')
  BY <1>1, AheadStays DEF CreditInv, WorkerStopped
<1>3. Target \in Nat /\ inflight \in Int
  BY ConstantsOK DEF CreditInv, TypeOK, WorkerOK
<1>4. Fresh' /\ CreditBound'
  BY <1>1, <1>2, <1>3, NothingNew DEF CreditInv, CreditBound
<1> QED  BY <1>1, <1>2, <1>4 DEF CreditInv

\* The credit is never more than spent, and generations only go on.
LEMMA CreditKept == Spec => []CreditInv
<1>1. Init => CreditInv
  <2> SUFFICES ASSUME Init PROVE CreditInv
    OBVIOUS
  <2>1. TypeOK
    BY ConstantsOK DEF Init, TypeOK, MainOK, PortsOK, WorkerOK, WorkletOK, FlagsOK, Gens
  <2>2. GensAhead
    BY DEF Init, GensAhead
  <2>3. Fresh /\ inflight <= Target /\ CreditBound
    BY CountEmpty, ConstantsOK DEF Init, Fresh, CreditBound
  <2> QED  BY <2>1, <2>2, <2>3 DEF CreditInv
<1>2. CreditInv /\ TypeOK' /\ [Next]_vars => CreditInv'
  <2>1. CreditInv /\ TypeOK' /\ UNCHANGED vars => CreditInv'
    BY DEF vars, main, ports, worker, worklet, CreditInv, GensAhead, Fresh, CreditBound,
           WorkerStopped
  <2> QED
    BY <2>1, MainCredit, RenderCredit, WorkerCredit, AckCredit, WorkletCredit
    DEF Next, Worker
<1> QED  BY <1>1, <1>2, TypeCorrect, PTL DEF Spec

(* "We keep at most TARGET chunks in flight" (decoder.worker.js:13) for     *)
(* every Target, song and number of generations, whatever is lost, flushed  *)
(* or reordered.                                                            *)
THEOREM CreditBounded == Spec => []CreditBound
<1>1. CreditInv => CreditBound
  BY DEF CreditInv
<1> QED  BY <1>1, CreditKept, PTL

-----------------------------------------------------------------------------
(* Sequences, message by message.                                          *)

LEMMA Appended ==
  ASSUME NEW S, NEW s \in Seq(S), NEW x \in S
  PROVE  /\ Append(s, x) \in Seq(S) /\ Len(s) \in Nat /\ Len(Append(s, x)) = Len(s) + 1
         /\ DOMAIN s = 1 .. Len(s) /\ DOMAIN Append(s, x) = 1 .. Len(s) + 1
         /\ \A i \in 1 .. Len(s) : Append(s, x)[i] = s[i]
         /\ Append(s, x)[Len(s) + 1] = x
  BY AppendProperties, LenProperties

LEMMA Tailed ==
  ASSUME NEW S, NEW s \in Seq(S), s # <<>>
  PROVE  /\ Tail(s) \in Seq(S) /\ Len(s) \in Nat \ {0} /\ Len(Tail(s)) = Len(s) - 1
         /\ DOMAIN s = 1 .. Len(s) /\ DOMAIN Tail(s) = 1 .. Len(s) - 1
         /\ \A i \in 1 .. Len(s) - 1 : Tail(s)[i] = s[i + 1]
         /\ Head(s) = s[1]
<1>1. Tail(s) \in Seq(S) /\ Len(Tail(s)) = Len(s) - 1
  BY HeadTailProperties
<1>2. Len(s) \in Nat \ {0} /\ DOMAIN s = 1 .. Len(s)
  BY LenProperties, EmptySeq
<1>3. DOMAIN Tail(s) = 1 .. Len(s) - 1
  BY <1>1, LenProperties
<1> QED  BY <1>1, <1>2, <1>3, HeadTailProperties

\* What the messages, chunks and marks are made of.
LEMMA CallsAre ==
  ASSUME TypeOK
  PROVE  /\ toWorker \in Seq(WorkerCall) /\ Len(toWorker) \in Nat
         /\ DOMAIN toWorker = 1 .. Len(toWorker)
         /\ \A i \in DOMAIN toWorker :
              /\ toWorker[i].cmd \in {"load", "setPos", "decodeSong", "stop"}
              /\ Opens(toWorker[i]) => toWorker[i].gen \in Gens
              /\ toWorker[i].cmd = "load" => toWorker[i].song \in Songs
              /\ toWorker[i].cmd = "setPos" => toWorker[i].pos \in Seeks
<1>1. toWorker \in Seq(WorkerCall)
  BY DEF TypeOK, PortsOK
<1>2. \A i \in DOMAIN toWorker : toWorker[i] \in WorkerCall
  BY <1>1, ElementOfSeq, LenProperties
<1> QED  BY <1>1, <1>2, LenProperties DEF WorkerCall, Opens

LEMMA PacketsAre ==
  ASSUME TypeOK
  PROVE  /\ pcm \in Seq(Packet) /\ Len(pcm) \in Nat /\ DOMAIN pcm = 1 .. Len(pcm)
         /\ \A i \in DOMAIN pcm : pcm[i].gen \in Nat /\ pcm[i].pos \in Nat /\ pcm[i].eof \in BOOLEAN
         /\ queue \in Seq(Chunk) /\ Len(queue) \in Nat /\ DOMAIN queue = 1 .. Len(queue)
         /\ \A i \in DOMAIN queue : queue[i].gen \in Nat /\ queue[i].pos \in Nat /\ ~queue[i].eof
<1>1. pcm \in Seq(Packet) /\ queue \in Seq(Chunk)
  BY DEF TypeOK, PortsOK, WorkletOK
<1>2. /\ \A i \in DOMAIN pcm : pcm[i] \in Packet
      /\ \A i \in DOMAIN queue : queue[i] \in Chunk
  BY <1>1, ElementOfSeq, LenProperties
<1>3. Gens \subseteq Nat
  BY ConstantsOK DEF Gens
<1> QED  BY <1>1, <1>2, <1>3, LenProperties DEF Packet, Chunk

-----------------------------------------------------------------------------
(* What the wrapper has asked for, and what the worker makes of it.        *)

\* The calls on their way say what was asked for in their generation.
Asks ==
  /\ \A g \in 1 .. gen : asked[g].start >= 1
  /\ \A g \in cut : g <= gen
  /\ \A i \in DOMAIN toWorker :
       /\ toWorker[i].cmd = "load" =>
            /\ asked[toWorker[i].gen].song = toWorker[i].song
            /\ asked[toWorker[i].gen].start = 1
       /\ toWorker[i].cmd = "setPos" => asked[toWorker[i].gen].start = toWorker[i].pos

Sets(c) == c.cmd \in {"load", "stop"}

\* s is the song the worker plays, if it plays at all, once it has taken what comes before
\* the n-th call.
Follows(n, s) ==
  /\ playing /\ (\A j \in 1 .. n - 1 : ~Sets(toWorker[j])) => s = module
  /\ \A j \in 1 .. n - 1 :
       toWorker[j].cmd = "load" /\ (\A k \in j + 1 .. n - 1 : ~Sets(toWorker[k]))
         => s = toWorker[j].song

\* A seek is of the song the wrapper believes loaded, which is the one it will find.
Believes ==
  /\ \A n \in DOMAIN toWorker :
       toWorker[n].cmd = "setPos" => Follows(n, asked[toWorker[n].gen].song)
  /\ Follows(Len(toWorker) + 1, Loaded)

Rendering == playing /\ ~eof

\* What is decoded is the song of the current generation, from where it was asked.
Decodes ==
  /\ playing => /\ wGen >= 1 /\ module \in Songs \ Unparsable
                /\ asked[wGen].song = module
  /\ Rendering => /\ 1 <= next /\ next <= Length[module] + 1
                  /\ next >= asked[wGen].start \/ next > Length[module]

AskInv == Asks /\ Believes /\ Decodes

\* The main thread's calls leave what was asked for before as it was.
Keeps == /\ gen <= gen' /\ gen' \in Nat /\ gen \in Nat
         /\ \A g \in 1 .. gen : asked'[g] = asked[g]
         /\ cut \subseteq cut' /\ \A g \in cut' : g \in cut \/ g = gen

LEMMA FollowsPost ==
  ASSUME TypeOK, NEW c, toWorker' = Append(toWorker, c), c \in WorkerCall,
         UNCHANGED <<playing, module>>, NEW n \in 1 .. Len(toWorker) + 1, NEW s, Follows(n, s)
  PROVE  Follows(n, s)'
<1>1. Len(toWorker) \in Nat /\ \A i \in 1 .. Len(toWorker) : toWorker'[i] = toWorker[i]
  BY Appended, CallsAre
<1>2. n - 1 <= Len(toWorker) /\ n \in Nat
  BY <1>1
<1>3. \A j \in 1 .. n - 1 : toWorker'[j] = toWorker[j]
  BY <1>1, <1>2
<1> QED  BY <1>2, <1>3 DEF Follows

\* A call on its way and what was asked in its generation.
AskOf(c) ==
  /\ c.cmd = "load" => asked'[c.gen].song = c.song /\ asked'[c.gen].start = 1
  /\ c.cmd = "setPos" => asked'[c.gen].start = c.pos /\ asked'[c.gen].song = Loaded

\* What follows a call that is posted.
LEMMA AskPost ==
  ASSUME TypeOK, GensAhead, AskInv, NEW c \in WorkerCall, toWorker' = Append(toWorker, c),
         UNCHANGED worker, Keeps, \A g \in gen + 1 .. gen' : asked'[g].start >= 1,
         AskOf(c), c.cmd = "load" => Loaded' = c.song, ~Sets(c) => Loaded' = Loaded
  PROVE  AskInv'
<1>0. PICK L \in Nat : L = Len(toWorker)
  BY CallsAre
<1>1. /\ Len(toWorker) = L /\ DOMAIN toWorker = 1 .. L /\ DOMAIN toWorker' = 1 .. L + 1
      /\ Len(toWorker') = L + 1 /\ toWorker'[L + 1] = c
      /\ \A i \in 1 .. L : toWorker'[i] = toWorker[i]
  BY <1>0, Appended, CallsAre
<1>2. UNCHANGED <<playing, module, wGen, next, eof>>
  BY DEF worker
<1>3. gen \in Nat /\ wGen \in Nat /\ wGen <= gen
  BY ConstantsOK DEF TypeOK, MainOK, WorkerOK, Gens, GensAhead
<1>4. ASSUME NEW i \in 1 .. L, Opens(toWorker[i])
      PROVE  toWorker[i].gen \in 1 .. gen /\ asked'[toWorker[i].gen] = asked[toWorker[i].gen]
  <2>1. toWorker[i].gen \in Nat /\ wGen < toWorker[i].gen /\ toWorker[i].gen <= gen
    BY <1>1, <1>4, CallsAre, ConstantsOK DEF GensAhead, Gens
  <2> QED  BY <1>3, <2>1 DEF Keeps
<1>5. Asks'
  <2>1. \A g \in 1 .. gen' : asked'[g].start >= 1
    <3> TAKE g \in 1 .. gen'
    <3>1. CASE g <= gen
      BY <1>3, <3>1 DEF AskInv, Asks, Keeps
    <3>2. CASE g > gen
      BY <1>3, <3>2 DEF Keeps
    <3> QED  BY <1>3, <3>1, <3>2
  <2>2. \A g \in cut' : g <= gen'
    <3>1. gen' \in Nat /\ \A g \in cut : g \in Nat
      BY ConstantsOK DEF Keeps, TypeOK, MainOK, Gens
    <3> QED  BY <1>3, <3>1 DEF AskInv, Asks, Keeps
  <2>3. ASSUME NEW i \in 1 .. L + 1
        PROVE  /\ toWorker'[i].cmd = "load" =>
                    /\ asked'[toWorker'[i].gen].song = toWorker'[i].song
                    /\ asked'[toWorker'[i].gen].start = 1
               /\ toWorker'[i].cmd = "setPos" => asked'[toWorker'[i].gen].start = toWorker'[i].pos
    <3>1. CASE i \in 1 .. L
      BY <1>1, <1>4, <3>1 DEF AskInv, Asks, Opens
    <3>2. CASE i = L + 1
      BY <1>1, <3>2 DEF AskOf
    <3> QED  BY <1>1, <3>1, <3>2
  <2> QED  BY <1>1, <2>1, <2>2, <2>3 DEF Asks
<1>6. ASSUME NEW n \in 1 .. L + 1, NEW s, Follows(n, s)  PROVE Follows(n, s)'
  BY <1>1, <1>2, <1>6, FollowsPost
<1>7. ASSUME NEW n \in 1 .. L + 1, toWorker'[n].cmd = "setPos"
      PROVE  Follows(n, asked[toWorker[n].gen].song)'
  <2>1. PICK s : s = asked'[toWorker'[n].gen].song
    OBVIOUS
  <2>2. Follows(n, s)
    <3>1. CASE n \in 1 .. L
      BY <1>1, <1>4, <1>7, <2>1, <3>1 DEF AskInv, Believes, Opens
    <3>2. CASE n = L + 1
      BY <1>1, <1>7, <2>1, <3>2 DEF AskInv, Believes, AskOf
    <3> QED  BY <1>1, <3>1, <3>2
  <2> QED  BY <1>6, <2>1, <2>2 DEF Follows
<1>8. Follows(Len(toWorker) + 1, Loaded)'
  <2>1. CASE Sets(c)
    <3>1. ~(\A j \in 1 .. L + 1 : ~Sets(toWorker'[j]))
      BY <1>1, <2>1
    <3>2. ASSUME NEW j \in 1 .. L + 1, toWorker'[j].cmd = "load",
                 \A k \in j + 1 .. L + 1 : ~Sets(toWorker'[k])
          PROVE  Loaded' = toWorker'[j].song
      <4>1. j = L + 1
        BY <1>1, <2>1, <3>2
      <4> QED  BY <1>1, <3>2, <4>1
    <3>3. (L + 1) + 1 - 1 = L + 1
      BY <1>1
    <3> QED  BY <1>1, <3>1, <3>2, <3>3 DEF Follows
  <2>2. CASE ~Sets(c)
    <3>1. PICK s : s = Loaded
      OBVIOUS
    <3>2. Follows(L + 1, s) /\ Loaded' = s
      BY <1>1, <2>2, <3>1 DEF AskInv, Believes
    <3>3. Follows(L + 1, s)'
      BY <1>1, <1>6, <3>2
    <3>4. ASSUME NEW s1, s1 = s, Len(toWorker') = L + 1
          PROVE  /\ playing' /\ (\A j \in 1 .. L + 1 : ~Sets(toWorker'[j])) => s1 = module'
                 /\ \A j \in 1 .. L + 1 :
                      toWorker'[j].cmd = "load" /\ (\A k \in j + 1 .. L + 1 : ~Sets(toWorker'[k]))
                        => s1 = toWorker'[j].song
      <4>1. /\ playing' /\ (\A j \in 1 .. L : ~Sets(toWorker'[j])) => s1 = module'
            /\ \A j \in 1 .. L :
                 toWorker'[j].cmd = "load" /\ (\A k \in j + 1 .. L : ~Sets(toWorker'[k]))
                   => s1 = toWorker'[j].song
        <5>1. L + 1 - 1 = L
          BY <1>1
        <5> QED  BY <3>3, <3>4, <5>1 DEF Follows
      <4>2. toWorker'[L + 1].cmd # "load"
        BY <1>1, <2>2 DEF Sets
      <4> QED  BY <1>1, <4>1, <4>2
    <3>5. L + 1 + 1 - 1 = L + 1
      BY <1>1
    <3> QED  BY <1>1, <3>2, <3>4, <3>5 DEF Follows
  <2> QED  BY <2>1, <2>2
<1>9. Decodes'
  <2>1. playing => asked'[wGen] = asked[wGen]
    BY <1>3 DEF AskInv, Decodes, Keeps
  <2> QED  BY <1>2, <2>1 DEF AskInv, Decodes, Rendering
<1> QED  BY <1>1, <1>5, <1>7, <1>8, <1>9 DEF AskInv, Believes

LEMMA MainAsks ==
  ASSUME TypeOK, GensAhead, AskInv, Main
  PROVE  AskInv' /\ Keeps
<1> USE ConstantsOK
<1>1. UNCHANGED worker /\ gen \in Nat /\ Len(asked) = gen
        /\ asked \in Seq([song: Songs \cup {None}, start: Nat])
  <2>1. UNCHANGED worker
    BY DEF Main, Play, DecodeSong, SetPos, Stop, PauseCall
  <2> QED  BY <2>1 DEF TypeOK, MainOK, Gens
<1>2. ASSUME NEW a \in [song: Songs \cup {None}, start: Nat], asked' = Append(asked, a),
             gen' = gen + 1, UNCHANGED cut
      PROVE  /\ Keeps /\ asked'[gen + 1] = a
             /\ a.start >= 1 => \A g \in gen + 1 .. gen' : asked'[g].start >= 1
             /\ Loaded' = a.song
  <2>1. (\A g \in 1 .. gen : asked'[g] = asked[g]) /\ asked'[gen + 1] = a
    BY <1>1, <1>2, Appended
  <2>2. gen + 1 \notin cut
    BY <1>1 DEF AskInv, Asks
  <2>3. \A g \in gen + 1 .. gen' : g = gen + 1
    BY <1>1, <1>2
  <2> QED  BY <1>1, <1>2, <2>1, <2>2, <2>3 DEF Keeps, Loaded
<1>3. ASSUME UNCHANGED <<gen, asked, cut>>
      PROVE  Keeps /\ Loaded' = Loaded /\ \A g \in gen + 1 .. gen' : asked'[g].start >= 1
  BY <1>1, <1>3 DEF Keeps, Loaded
<1>4. ASSUME NEW s \in Songs, Play(s)  PROVE AskInv' /\ Keeps
  <2> DEFINE c == [cmd |-> "load", gen |-> gen + 1, song |-> s]
             a == [song |-> s, start |-> 1]
  <2>1. /\ c \in WorkerCall /\ c.cmd = "load" /\ c.gen = gen + 1 /\ c.song = s
        /\ a \in [song: Songs \cup {None}, start: Nat] /\ a.song = s /\ a.start = 1
    BY <1>1, <1>4 DEF Play, WorkerCall, Gens
  <2>2. toWorker' = Append(toWorker, c) /\ asked' = Append(asked, a) /\ gen' = gen + 1
          /\ UNCHANGED cut
    BY <1>4 DEF Play, Post
  <2> HIDE DEF c, a
  <2>3. AskOf(c)
    BY <1>2, <2>1, <2>2 DEF AskOf
  <2> QED  BY <1>1, <1>2, <2>1, <2>2, <2>3, AskPost DEF Sets
<1>5. ASSUME NEW p \in Seeks, SetPos(p)  PROVE AskInv' /\ Keeps
  <2> DEFINE c == [cmd |-> "setPos", gen |-> gen + 1, pos |-> p]
             a == [song |-> Loaded, start |-> p]
  <2>0. Loaded \in Songs \cup {None}
    <3>1. gen # 0 => asked[gen] \in [song: Songs \cup {None}, start: Nat]
      <4>1. gen # 0 => gen \in 1 .. Len(asked)
        BY <1>1
      <4> QED  BY <1>1, <4>1, ElementOfSeq
    <3> QED  BY <3>1 DEF Loaded
  <2>1. /\ c \in WorkerCall /\ c.cmd = "setPos" /\ c.gen = gen + 1 /\ c.pos = p
        /\ a \in [song: Songs \cup {None}, start: Nat] /\ a.song = Loaded /\ a.start = p
        /\ p >= 1
    <3>1. gen + 1 \in Gens /\ p \in Nat /\ p >= 1
      BY <1>1, <1>5 DEF SetPos, Gens
    <3>2. c \in WorkerCall
      BY <3>1 DEF WorkerCall
    <3> QED  BY <2>0, <3>1, <3>2
  <2>2. toWorker' = Append(toWorker, c) /\ asked' = Append(asked, a) /\ gen' = gen + 1
          /\ UNCHANGED cut
    BY <1>5 DEF SetPos, Post
  <2> HIDE DEF c, a
  <2>3. AskOf(c) /\ Loaded' = Loaded
    BY <1>2, <2>1, <2>2 DEF AskOf
  <2>4. Keeps /\ \A g \in gen + 1 .. gen' : asked'[g].start >= 1
    BY <1>2, <2>1, <2>2, ZenonT(60)
  <2> QED  BY <1>1, <2>1, <2>2, <2>3, <2>4, AskPost
<1>6. ASSUME NEW s \in Decoded, DecodeSong(s)  PROVE AskInv' /\ Keeps
  <2> DEFINE c == [cmd |-> "decodeSong", song |-> s]
  <2>1. c \in WorkerCall /\ c.cmd = "decodeSong"
    BY DEF WorkerCall
  <2>2. toWorker' = Append(toWorker, c) /\ UNCHANGED <<gen, asked, cut>>
    BY <1>6 DEF DecodeSong, main
  <2> HIDE DEF c
  <2> QED  BY <1>1, <1>3, <2>1, <2>2, AskPost DEF AskOf
<1>7. ASSUME Stop  PROVE AskInv' /\ Keeps
  <2> DEFINE c == [cmd |-> "stop"]
  <2>1. c \in WorkerCall /\ c.cmd = "stop"
    BY DEF WorkerCall
  <2>2. toWorker' = Append(toWorker, c) /\ UNCHANGED <<gen, asked>> /\ cut' = cut \cup {gen}
    BY <1>7 DEF Stop, Post
  <2> HIDE DEF c
  <2>3. Keeps
    BY <1>1, <2>2 DEF Keeps
  <2>4. \A g \in gen + 1 .. gen' : asked'[g].start >= 1
    BY <1>1, <2>2
  <2> QED  BY <1>1, <2>1, <2>2, <2>3, <2>4, AskPost DEF AskOf, Sets
<1>8. ASSUME NEW cmd \in PauseCalls, PauseCall(cmd)  PROVE AskInv' /\ Keeps
  <2>1. UNCHANGED <<gen, asked, cut, toWorker>>
    BY <1>8 DEF PauseCall, main
  <2> QED  BY <1>1, <1>3, <2>1
           DEF AskInv, Asks, Believes, Follows, Loaded, Decodes, Rendering, worker
<1> QED  BY <1>4, <1>5, <1>6, <1>7, <1>8 DEF Main

\* What the worker takes is what it was told.
LEMMA WorkerAsks ==
  ASSUME TypeOK, GensAhead, AskInv, WorkerMessage
  PROVE  AskInv'
<1> USE ConstantsOK
<1>1. /\ UNCHANGED <<gen, asked, cut>> /\ toWorker # <<>> /\ toWorker' = Tail(toWorker)
  BY DEF WorkerMessage, WorkerLoad, WorkerStop, WorkerSetPos, WorkerSetPosIgnored,
         WorkerDecodeSong, Receive, main
<1>2. PICK L \in Nat : L = Len(toWorker) - 1
  BY <1>1, CallsAre, Tailed
<1>3. /\ Len(toWorker) = L + 1 /\ Len(toWorker') = L
      /\ DOMAIN toWorker = 1 .. L + 1 /\ DOMAIN toWorker' = 1 .. L
      /\ \A i \in 1 .. L : toWorker'[i] = toWorker[i + 1]
      /\ Head(toWorker) = toWorker[1] /\ 1 \in 1 .. L + 1
  BY <1>1, <1>2, CallsAre, Tailed
<1>4. Asks'
  BY <1>1, <1>3 DEF AskInv, Asks
\* What the next call is to find is what it would have found.
<1>5. ASSUME NEW n \in 1 .. L + 1, NEW s, Follows(n + 1, s),
             playing' /\ ~Sets(toWorker[1]) => playing /\ module' = module,
             playing' /\ Sets(toWorker[1]) => toWorker[1].cmd = "load" /\ module' = toWorker[1].song
      PROVE  Follows(n, s)'
  <2>1. /\ playing /\ (\A j \in 1 .. n : ~Sets(toWorker[j])) => s = module
        /\ \A j \in 1 .. n :
             toWorker[j].cmd = "load" /\ (\A k \in j + 1 .. n : ~Sets(toWorker[k]))
               => s = toWorker[j].song
    BY <1>5 DEF Follows
  <2>2. \A j \in 1 .. n - 1 : toWorker'[j] = toWorker[j + 1]
    BY <1>3
  <2>3. ASSUME playing', \A j \in 1 .. n - 1 : ~Sets(toWorker'[j])  PROVE s = module'
    <3>1. \A j \in 2 .. n : ~Sets(toWorker[j])
      <4> TAKE j \in 2 .. n
      <4>1. j - 1 \in 1 .. n - 1 /\ j - 1 + 1 = j
        OBVIOUS
      <4> QED  BY <2>2, <2>3, <4>1
    <3>2. CASE Sets(toWorker[1])
      <4>1. 1 \in 1 .. n /\ \A k \in 1 + 1 .. n : ~Sets(toWorker[k])
        BY <3>1
      <4> QED  BY <1>5, <2>1, <2>3, <3>2, <4>1
    <3>3. CASE ~Sets(toWorker[1])
      <4>1. \A j \in 1 .. n : ~Sets(toWorker[j])
        BY <3>1, <3>3
      <4> QED  BY <1>5, <2>1, <2>3, <3>3, <4>1
    <3> QED  BY <3>2, <3>3
  <2>4. ASSUME NEW j \in 1 .. n - 1, toWorker'[j].cmd = "load",
               \A k \in j + 1 .. n - 1 : ~Sets(toWorker'[k])
        PROVE  s = toWorker'[j].song
    <3>1. j + 1 \in 1 .. n /\ toWorker'[j] = toWorker[j + 1]
      BY <2>2
    <3>2. \A k \in j + 1 + 1 .. n : ~Sets(toWorker[k])
      <4> TAKE k \in j + 1 + 1 .. n
      <4>1. k - 1 \in j + 1 .. n - 1 /\ k - 1 \in 1 .. n - 1 /\ k - 1 + 1 = k
        OBVIOUS
      <4> QED  BY <2>2, <2>4, <4>1
    <3> QED  BY <2>1, <2>4, <3>1, <3>2
  <2> QED  BY <2>3, <2>4 DEF Follows
<1>6. ASSUME playing' /\ ~Sets(toWorker[1]) => playing /\ module' = module,
             playing' /\ Sets(toWorker[1]) => toWorker[1].cmd = "load" /\ module' = toWorker[1].song
      PROVE  Believes'
  <2>1. ASSUME NEW n \in 1 .. L, toWorker'[n].cmd = "setPos"
        PROVE  Follows(n, asked[toWorker[n].gen].song)'
    <3>1. PICK s : s = asked[toWorker[n + 1].gen].song
      OBVIOUS
    <3>2. n + 1 \in 1 .. L + 1 /\ toWorker'[n] = toWorker[n + 1] /\ n \in 1 .. L + 1
      BY <1>3
    <3>3. Follows(n + 1, s)
      BY <1>3, <2>1, <3>1, <3>2 DEF AskInv, Believes
    <3>4. Follows(n, s)'
      BY <1>5, <1>6, <3>2, <3>3
    <3> QED  BY <1>1, <3>1, <3>2, <3>4 DEF Follows
  <2>2. Follows(Len(toWorker) + 1, Loaded)'
    <3>1. PICK s : s = Loaded
      OBVIOUS
    <3>2. Follows(L + 1 + 1, s)
      BY <1>3, <3>1 DEF AskInv, Believes
    <3>3. Follows(L + 1, s)' /\ Loaded' = s
      BY <1>1, <1>5, <1>6, <3>1, <3>2 DEF Loaded
    <3> QED  BY <1>3, <3>3 DEF Follows
  <2> QED  BY <1>3, <2>1, <2>2 DEF Believes
<1>7. toWorker[1].cmd = Head(toWorker).cmd /\ wGen \in Nat /\ next \in Nat
  BY <1>3 DEF TypeOK, WorkerOK, Gens
<1>8. Opens(toWorker[1]) => toWorker[1].gen \in Nat /\ wGen < toWorker[1].gen
  BY <1>3, CallsAre DEF GensAhead, Gens
<1>9. CASE WorkerLoad
  <2>1. PICK s \in Songs : s = toWorker[1].song
    BY <1>3, <1>9, CallsAre DEF WorkerLoad, Receive
  <2>2. /\ toWorker[1].cmd = "load" /\ wGen' = toWorker[1].gen /\ next' = 1
        /\ module' = IF s \in Unparsable THEN None ELSE s
        /\ playing' = (s \notin Unparsable)
    BY <1>3, <1>9, <2>1 DEF WorkerLoad, Receive, Restart
  <2>3. playing' => s \notin Unparsable /\ module' = s
    BY <2>2
  <2>4. asked[toWorker[1].gen].song = s /\ asked[toWorker[1].gen].start = 1
    BY <1>3, <2>1, <2>2 DEF AskInv, Asks
  <2>5. Believes'
    BY <1>6, <2>1, <2>2, <2>3 DEF Sets
  <2>6. Length[s] \in Nat
    OBVIOUS
  <2>7. Decodes'
    BY <1>1, <1>7, <1>8, <2>1, <2>2, <2>3, <2>4, <2>6 DEF Decodes, Rendering, Opens
  <2> QED  BY <1>4, <2>5, <2>7 DEF AskInv
<1>10. CASE WorkerStop
  <2>1. ~playing'
    BY <1>10 DEF WorkerStop
  <2> QED  BY <1>4, <1>6, <2>1 DEF AskInv, Decodes, Rendering
<1>11. CASE WorkerSetPos
  <2>1. /\ toWorker[1].cmd = "setPos" /\ wGen' = toWorker[1].gen
        /\ UNCHANGED <<module, playing>>
        /\ next' = IF toWorker[1].pos <= Length[module] THEN toWorker[1].pos ELSE Length[module] + 1
    BY <1>3, <1>11 DEF WorkerSetPos, Receive, Restart
  <2>2. Believes'
    BY <1>6, <2>1 DEF Sets
  <2>3. ASSUME playing
        PROVE  /\ module \in Songs \ Unparsable /\ asked[wGen'].song = module
               /\ wGen' >= 1
    <3>1. Follows(1, asked[toWorker[1].gen].song)
      BY <1>3, <2>1 DEF AskInv, Believes
    <3> QED  BY <1>7, <1>8, <2>1, <2>3, <3>1 DEF Follows, Opens, AskInv, Decodes
  <2>4. /\ asked[wGen'].start = toWorker[1].pos /\ toWorker[1].pos \in Nat \ {0}
    BY <1>3, <2>1, CallsAre DEF AskInv, Asks
  <2>5. module \in Songs => Length[module] \in Nat
    OBVIOUS
  <2>6. Decodes'
    BY <1>1, <2>1, <2>3, <2>4, <2>5 DEF Decodes, Rendering
  <2> QED  BY <1>4, <2>2, <2>6 DEF AskInv
<1>12. CASE WorkerSetPosIgnored \/ WorkerDecodeSong
  <2>1. /\ ~Sets(toWorker[1]) /\ UNCHANGED <<wGen, playing, eof>>
        /\ playing => UNCHANGED <<module, next>>
    BY <1>3, <1>12 DEF WorkerSetPosIgnored, WorkerDecodeSong, Receive, worker, Sets
  <2>2. Believes'
    BY <1>6, <2>1
  <2> QED  BY <1>1, <1>4, <2>1, <2>2 DEF AskInv, Decodes, Rendering
<1> QED  BY <1>9, <1>10, <1>11, <1>12 DEF WorkerMessage

\* Rendering goes on within the song; the rest leaves all that alone.
LEMMA RenderAsks ==
  ASSUME TypeOK, GensAhead, AskInv, Render
  PROVE  AskInv'
<1>1. /\ UNCHANGED <<main, toWorker, wGen, module, playing>> /\ Rendering
  BY DEF Render, RenderChunk, RenderNothing, Pumping, Rendering
<1>2. Asks' /\ Believes'
  BY <1>1 DEF AskInv, Asks, Believes, Follows, Loaded, main
<1>3. next \in Nat /\ Length[module] \in Nat /\ wGen >= 1 /\ wGen \in Nat
  BY <1>1, ConstantsOK DEF AskInv, Decodes, Rendering, TypeOK, WorkerOK, Gens
<1>4. asked[wGen].start \in Nat
  <2>1. wGen \in 1 .. Len(asked) /\ asked \in Seq([song: Songs \cup {None}, start: Nat])
    BY <1>3, ConstantsOK DEF GensAhead, TypeOK, MainOK, Gens
  <2>2. asked[wGen] \in [song: Songs \cup {None}, start: Nat]
    BY <2>1, ElementOfSeq
  <2> QED  BY <2>2
<1>5. Decodes'
  <2>1. CASE RenderChunk
    BY <1>1, <1>3, <1>4, <2>1 DEF RenderChunk, AskInv, Decodes, Rendering, main
  <2>2. CASE RenderNothing
    BY <1>1, <2>2 DEF RenderNothing, AskInv, Decodes, Rendering, main
  <2> QED  BY <2>1, <2>2 DEF Render
<1> QED  BY <1>2, <1>5 DEF AskInv

LEMMA AskStays ==
  AskInv /\ UNCHANGED <<main, toWorker, wGen, module, next, playing, eof>> => AskInv'
  BY DEF AskInv, Asks, Believes, Follows, Loaded, Decodes, Rendering, main

-----------------------------------------------------------------------------
(* What is on its way to the listener.                                     *)

\* A chunk, or an end-of-file mark, of the song asked for in its generation.
Sound(p) ==
  /\ 1 <= p.gen /\ p.gen <= wGen
  /\ p.song \in Songs \ Unparsable /\ p.song = asked[p.gen].song
  /\ 1 <= p.pos
  /\ p.eof => p.pos = Length[p.song] + 1
  /\ ~p.eof => p.pos >= asked[p.gen].start /\ p.pos <= Length[p.song]

\* What is on the pcm port is in order, and the worker goes on where it ends.
InOrder ==
  /\ \A i, j \in DOMAIN pcm : i < j =>
       /\ pcm[i].gen <= pcm[j].gen
       /\ pcm[i].gen = pcm[j].gen => ~pcm[i].eof /\ pcm[j].pos = pcm[i].pos + j - i
  /\ Rendering => \A i \in DOMAIN pcm : pcm[i].gen = wGen =>
       ~pcm[i].eof /\ next = pcm[i].pos + Len(pcm) + 1 - i

Packs ==
  /\ \A i \in DOMAIN pcm : Sound(pcm[i])
  /\ \A i \in DOMAIN queue : Sound(queue[i])
  /\ InOrder

\* Something of the worklet's generation is queued or was heard; what is due then.
Begun == queue # <<>> \/ heard # 0
Onward == IF queue # <<>> THEN queue[1].pos + Len(queue) ELSE heard + 1

\* Once a generation has begun, the rest of it follows without a gap.
Gapless ==
  Begun =>
    /\ 1 <= currentGen /\ currentGen <= wGen
    /\ \A j \in DOMAIN pcm :
         /\ currentGen <= pcm[j].gen
         /\ pcm[j].gen = currentGen => pcm[j].pos = Onward + j - 1
    /\ Rendering /\ wGen = currentGen => next = Onward + Len(pcm)

\* The queue is one run, which continues what was heard.
Queued ==
  /\ \A i \in DOMAIN queue : queue[i].gen = currentGen /\ queue[i].pos = queue[1].pos + i - 1
  /\ queue = <<>> \/ heard = 0 => read = 0
  /\ queue # <<>> /\ heard # 0 => queue[1].pos = heard + (IF read = 0 THEN 1 ELSE 0)

\* The mark of g is on its way; the end of g is about to be reported.
Marked(g) == \E i \in DOMAIN pcm : pcm[i].gen = g /\ pcm[i].eof
Pending(g) == currentGen = g /\ eofPending /\ ~endSent

\* The mark is either to come, or on its way, or taken, or reported.
Ends ==
  \A g \in Gens :
    /\ ends[g] <= 1
    /\ g > wGen \/ (g = wGen /\ ~eof) => ends[g] = 0 /\ ~Marked(g) /\ ~Pending(g)
    /\ Marked(g) => ends[g] = 0 /\ ~Pending(g)
    /\ Pending(g) => ends[g] = 0

Flow == Packs /\ Gapless /\ Queued /\ Ends

LEMMA SoundStays ==
  ASSUME TypeOK, GensAhead, NEW p, p.gen \in Nat, Sound(p), Keeps, wGen' \in Nat, wGen <= wGen'
  PROVE  /\ 1 <= p.gen /\ p.gen <= wGen'
         /\ p.song \in Songs \ Unparsable /\ p.song = asked'[p.gen].song
         /\ 1 <= p.pos
         /\ p.eof => p.pos = Length[p.song] + 1
         /\ ~p.eof => p.pos >= asked'[p.gen].start /\ p.pos <= Length[p.song]
<1>1. wGen \in Nat /\ wGen <= gen /\ gen \in Nat
  BY ConstantsOK DEF TypeOK, WorkerOK, MainOK, Gens, GensAhead
<1>2. p.gen \in 1 .. gen /\ p.gen <= wGen'
  BY <1>1 DEF Sound
<1>3. asked'[p.gen] = asked[p.gen]
  BY <1>2 DEF Keeps
<1> QED  BY <1>2, <1>3 DEF Sound

\* Nothing rendered, nothing taken: what is on its way is what it was.
LEMMA FlowStays ==
  ASSUME TypeOK, GensAhead, Flow, Keeps, UNCHANGED <<pcm, worklet>>, wGen' \in Nat,
         \/ wGen <= wGen' /\ wGen # wGen'
         \/ UNCHANGED wGen /\ (eof => eof')
            /\ (Rendering' => Rendering /\ UNCHANGED next)
  PROVE  Flow'
<1>1. /\ UNCHANGED <<pcm, queue, read, currentGen, heard, ends, eofPending, endSent>>
      /\ wGen \in Nat /\ wGen <= wGen' /\ Gens \subseteq Nat
      /\ currentGen \in Int
  BY ConstantsOK DEF worklet, TypeOK, WorkerOK, WorkletOK, Gens
<1>2. Packs'
  <2>1. ASSUME NEW i \in DOMAIN pcm  PROVE Sound(pcm[i])'
    BY <1>1, PacketsAre, SoundStays DEF Flow, Packs, Sound
  <2>2. ASSUME NEW i \in DOMAIN queue  PROVE Sound(queue[i])'
    BY <1>1, PacketsAre, SoundStays DEF Flow, Packs, Sound
  <2>3. InOrder'
    <3>1. \A i \in DOMAIN pcm : pcm[i].gen \in Nat /\ pcm[i].gen <= wGen
      BY PacketsAre DEF Flow, Packs, Sound
    <3> QED  BY <1>1, <3>1 DEF Flow, Packs, InOrder
  <2> QED  BY <1>1, <2>1, <2>2, <2>3 DEF Packs
<1>3. Gapless'
  BY <1>1 DEF Flow, Gapless, Begun, Onward
<1>4. Queued'
  BY <1>1 DEF Flow, Queued
<1>5. Ends'
  <2>1. \A g \in Gens : (Marked(g)' <=> Marked(g)) /\ (Pending(g)' <=> Pending(g))
    BY <1>1 DEF Marked, Pending
  <2>2. \A g \in Gens : g > wGen' \/ (g = wGen' /\ ~eof') => g > wGen \/ (g = wGen /\ ~eof)
    BY <1>1
  <2> QED  BY <1>1, <2>1, <2>2 DEF Flow, Ends
<1> QED  BY <1>2, <1>3, <1>4, <1>5 DEF Flow

LEMMA MainFlow == TypeOK /\ GensAhead /\ AskInv /\ Flow /\ Main => Flow'
<1> SUFFICES ASSUME TypeOK, GensAhead, AskInv, Flow, Main  PROVE Flow'
  OBVIOUS
<1>1. UNCHANGED <<pcm, worklet, worker>>
  BY DEF Main, Play, Post, DecodeSong, SetPos, Stop, PauseCall
<1>2. wGen' \in Nat /\ UNCHANGED <<wGen, eof, next, playing>>
  BY <1>1, ConstantsOK DEF worker, TypeOK, WorkerOK, Gens
<1> QED  BY <1>1, <1>2, MainAsks, FlowStays DEF Rendering

LEMMA WorkerFlow ==
  TypeOK /\ GensAhead /\ AskInv /\ Flow /\ (WorkerMessage \/ OnPcmAck) => Flow'
<1> SUFFICES ASSUME TypeOK, GensAhead, AskInv, Flow, WorkerMessage \/ OnPcmAck  PROVE Flow'
  OBVIOUS
<1>1. UNCHANGED <<main, pcm, worklet>>
  BY DEF WorkerMessage, WorkerLoad, WorkerStop, WorkerSetPos, WorkerSetPosIgnored,
         WorkerDecodeSong, Receive, OnPcmAck
<1>2. Keeps
  BY <1>1, ConstantsOK DEF main, Keeps, TypeOK, MainOK, Gens
<1>3. wGen \in Nat
  BY ConstantsOK DEF TypeOK, WorkerOK, Gens
<1>4. CASE WorkerLoad \/ WorkerSetPos
  <2>1. toWorker # <<>> /\ Opens(Head(toWorker)) /\ wGen' = Head(toWorker).gen
    BY <1>4 DEF WorkerLoad, WorkerSetPos, Receive, Restart, Opens
  <2>2. wGen' \in Nat /\ wGen < wGen'
    <3>1. Head(toWorker) = toWorker[1] /\ 1 \in DOMAIN toWorker
      BY <2>1, CallsAre, Tailed
    <3> QED  BY <2>1, <3>1, CallsAre, ConstantsOK DEF GensAhead, Gens
  <2> QED  BY <1>1, <1>2, <1>3, <2>2, FlowStays
<1>5. CASE WorkerStop \/ WorkerSetPosIgnored \/ OnPcmAck \/ WorkerDecodeSong
  <2>1. UNCHANGED wGen /\ (eof => eof') /\ (Rendering' => Rendering /\ UNCHANGED next)
    BY <1>5 DEF WorkerStop, WorkerSetPosIgnored, OnPcmAck, WorkerDecodeSong, worker, Rendering
  <2> QED  BY <1>1, <1>2, <1>3, <2>1, FlowStays
<1> QED  BY <1>4, <1>5 DEF WorkerMessage

\* What is rendered goes at the end, and is next there.
LEMMA RenderFlow == TypeOK /\ GensAhead /\ AskInv /\ Flow /\ Render => Flow'
<1> SUFFICES ASSUME TypeOK, GensAhead, AskInv, Flow, Render  PROVE Flow'
  OBVIOUS
<1>1. PICK c : /\ pcm' = Append(pcm, c) /\ c = Packets(c.eof) /\ c.eof \in BOOLEAN
               /\ (~c.eof => next <= Length[module] /\ next' = next + 1 /\ eof' = eof)
               /\ (c.eof => next > Length[module] /\ next' = next /\ eof' = TRUE)
  <2>0. ~Packets(FALSE).eof /\ Packets(TRUE).eof /\ Packets(FALSE).eof \in BOOLEAN
          /\ Packets(FALSE) = Packets(Packets(FALSE).eof)
          /\ Packets(TRUE) = Packets(Packets(TRUE).eof) /\ Packets(TRUE).eof \in BOOLEAN
    BY DEF Packets
  <2>1. CASE RenderChunk
    BY <2>0, <2>1 DEF RenderChunk
  <2>2. CASE RenderNothing
    BY <2>0, <2>2 DEF RenderNothing
  <2> QED  BY <2>1, <2>2 DEF Render
<1>2. /\ Rendering /\ ~eof /\ c.gen = wGen /\ c.song = module /\ c.pos = next
      /\ UNCHANGED <<asked, wGen, module, playing, queue, read, currentGen, heard, ends,
                     eofPending, endSent>>
  BY <1>1 DEF Render, RenderChunk, RenderNothing, Pumping, Rendering, Packets, main, worklet
<1>3. /\ wGen \in Nat /\ wGen >= 1 /\ next \in Nat /\ 1 <= next
      /\ module \in Songs \ Unparsable /\ asked[wGen].song = module
      /\ Length[module] \in Nat /\ next <= Length[module] + 1
      /\ next >= asked[wGen].start \/ next > Length[module]
  BY <1>2, ConstantsOK DEF AskInv, Decodes, Rendering, TypeOK, WorkerOK, Gens
<1>4. c \in Packet
  <2>1. wGen \in Gens
    BY DEF TypeOK, WorkerOK
  <2>2. Packets(TRUE) \in Packet /\ Packets(FALSE) \in Packet
    BY <1>3, <2>1 DEF Packets, Packet, Chunk
  <2>3. c = Packets(TRUE) \/ c = Packets(FALSE)
    BY <1>1
  <2> QED  BY <2>2, <2>3
<1>5. PICK L \in Nat : L = Len(pcm)
  BY PacketsAre
<1>6. /\ Len(pcm') = L + 1 /\ DOMAIN pcm = 1 .. L /\ DOMAIN pcm' = 1 .. L + 1
      /\ pcm'[L + 1] = c /\ \A i \in 1 .. L : pcm'[i] = pcm[i]
  BY <1>1, <1>4, <1>5, PacketsAre, Appended
<1>7. \A i \in 1 .. L : /\ pcm[i].gen \in Nat /\ pcm[i].pos \in Nat /\ pcm[i].gen <= wGen
                        /\ pcm[i].gen = wGen => ~pcm[i].eof /\ next = pcm[i].pos + L + 1 - i
  BY <1>2, <1>5, <1>6, PacketsAre DEF Flow, Packs, Sound, InOrder
<1>8. Packs'
  <2>1. Sound(c)'
    <3>1. c.eof => c.pos = Length[c.song] + 1
      BY <1>1, <1>2, <1>3
    <3>2. ~c.eof => c.pos >= asked[c.gen].start /\ c.pos <= Length[c.song]
      BY <1>1, <1>2, <1>3
    <3> QED  BY <1>2, <1>3, <3>1, <3>2 DEF Sound
  <2>2. \A i \in 1 .. L : Sound(pcm[i])'
    BY <1>2, <1>6 DEF Flow, Packs, Sound
  <2>3. \A i \in DOMAIN pcm' : Sound(pcm[i])'
    <3> TAKE i \in DOMAIN pcm'
    <3>1. CASE i \in 1 .. L
      BY <1>6, <2>2, <3>1 DEF Sound
    <3>2. CASE i = L + 1
      BY <1>6, <2>1, <3>2 DEF Sound
    <3> QED  BY <1>6, <3>1, <3>2
  <2>4. \A i \in DOMAIN queue' : Sound(queue[i])'
    BY <1>2 DEF Flow, Packs, Sound
  <2>5. ASSUME NEW i \in 1 .. L + 1, NEW j \in 1 .. L + 1, i < j
        PROVE  /\ pcm'[i].gen <= pcm'[j].gen
               /\ pcm'[i].gen = pcm'[j].gen => ~pcm'[i].eof /\ pcm'[j].pos = pcm'[i].pos + j - i
    <3>1. CASE j \in 1 .. L
      BY <1>6, <2>5, <3>1 DEF Flow, Packs, InOrder
    <3>2. CASE j = L + 1
      <4>1. i \in 1 .. L
        BY <2>5, <3>2
      <4>2. pcm'[j] = c /\ pcm'[i] = pcm[i] /\ c.gen = wGen /\ c.pos = next
        BY <1>2, <1>6, <3>2, <4>1
      <4>3. /\ pcm[i].gen \in Nat /\ pcm[i].pos \in Nat /\ pcm[i].gen <= wGen
            /\ pcm[i].gen = wGen => ~pcm[i].eof /\ next = pcm[i].pos + L + 1 - i
        BY <1>7, <4>1
      <4>4. pcm[i].gen = wGen => next = pcm[i].pos + j - i
        BY <3>2, <4>3
      <4> QED  BY <4>2, <4>3, <4>4
    <3>3. j \in 1 .. L \/ j = L + 1
      OBVIOUS
    <3> QED  BY <3>1, <3>2, <3>3
  <2>6. ASSUME Rendering', NEW i \in 1 .. L + 1, pcm'[i].gen = wGen
        PROVE  ~pcm'[i].eof /\ next' = pcm'[i].pos + (L + 1) + 1 - i
    <3>1. ~c.eof /\ next' = next + 1
      BY <1>1, <2>6 DEF Rendering
    <3>2. CASE i \in 1 .. L
      <4>1. pcm'[i] = pcm[i] /\ pcm[i].gen = wGen
        BY <1>6, <2>6, <3>2
      <4>2. ~pcm[i].eof /\ next = pcm[i].pos + L + 1 - i /\ pcm[i].pos \in Nat
        BY <1>7, <3>2, <4>1
      <4>3. next + 1 = pcm[i].pos + (L + 1) + 1 - i
        BY <3>2, <4>2
      <4> QED  BY <3>1, <4>1, <4>2, <4>3
    <3>3. CASE i = L + 1
      BY <1>2, <1>3, <1>6, <3>1, <3>3
    <3>4. i \in 1 .. L \/ i = L + 1
      OBVIOUS
    <3> QED  BY <3>2, <3>3, <3>4
  <2>7. InOrder'
    BY <1>2, <1>6, <2>5, <2>6 DEF InOrder
  <2> QED  BY <2>3, <2>4, <2>7 DEF Packs
<1>9. Gapless'
  <2>1. (Begun' <=> Begun) /\ Onward' = Onward
    BY <1>2 DEF Begun, Onward
  <2>2. Onward \in Int
    <3>1. queue # <<>> => 1 \in DOMAIN queue
      BY PacketsAre, EmptySeq
    <3> QED  BY <3>1, PacketsAre DEF Onward, TypeOK, WorkletOK
  <2>3. ASSUME Begun
        PROVE  /\ 1 <= currentGen /\ currentGen <= wGen
               /\ \A j \in 1 .. L : /\ currentGen <= pcm[j].gen
                                    /\ pcm[j].gen = currentGen => pcm[j].pos = Onward + j - 1
               /\ wGen = currentGen => next = Onward + L
    BY <1>2, <1>5, <1>6, <2>3 DEF Flow, Gapless
  <2>4. ASSUME Begun, NEW j \in 1 .. L + 1
        PROVE  /\ currentGen <= pcm'[j].gen
               /\ pcm'[j].gen = currentGen => pcm'[j].pos = Onward + j - 1
    <3>1. CASE j \in 1 .. L
      BY <1>6, <2>3, <2>4, <3>1
    <3>2. CASE j = L + 1
      BY <1>2, <1>6, <2>2, <2>3, <2>4, <3>2
    <3> QED  BY <3>1, <3>2
  <2>5. ASSUME Begun, Rendering', wGen = currentGen  PROVE next' = Onward + (L + 1)
    <3>1. next' = next + 1
      BY <1>1, <2>5 DEF Rendering
    <3> QED  BY <1>3, <2>2, <2>3, <2>5, <3>1
  <2> HIDE DEF Onward
  <2> QED  BY <1>2, <1>6, <2>1, <2>3, <2>4, <2>5 DEF Gapless
<1>10. Queued'
  BY <1>2 DEF Flow, Queued
<1>11. Ends'
  <2>1. \A g \in Gens : Pending(g)' <=> Pending(g)
    BY <1>2 DEF Pending
  <2>2. \A g \in Gens : Marked(g)' => Marked(g) \/ (g = wGen /\ c.eof)
    BY <1>2, <1>6 DEF Marked
  <2>3. ASSUME NEW g \in Gens
        PROVE  /\ ends'[g] <= 1
               /\ g > wGen' \/ (g = wGen' /\ ~eof') => ends'[g] = 0 /\ ~Marked(g)' /\ ~Pending(g)'
               /\ Marked(g)' => ends'[g] = 0 /\ ~Pending(g)'
               /\ Pending(g)' => ends'[g] = 0
    <3>1. g = wGen => ends[g] = 0 /\ ~Pending(g) /\ ~Marked(g)
      BY <1>2 DEF Flow, Ends
    <3>2. g > wGen' \/ (g = wGen' /\ ~eof') => (g > wGen \/ (g = wGen /\ ~eof)) /\ ~(g = wGen /\ c.eof)
      BY <1>1, <1>2, <1>3
    <3>3. /\ ends[g] <= 1
          /\ g > wGen \/ (g = wGen /\ ~eof) => ends[g] = 0 /\ ~Marked(g) /\ ~Pending(g)
          /\ Marked(g) => ends[g] = 0 /\ ~Pending(g)
          /\ Pending(g) => ends[g] = 0
      BY DEF Flow, Ends
    <3> QED  BY <1>2, <2>1, <2>2, <3>1, <3>2, <3>3
  <2> QED  BY <2>3 DEF Ends
<1> QED  BY <1>8, <1>9, <1>10, <1>11 DEF Flow

\* Taking a packet off the port leaves the rest in order.
LEMMA ArrivalInOrder ==
  ASSUME TypeOK, Packs, Arrival
  PROVE  /\ \A i \in DOMAIN pcm' : Sound(pcm[i])'
         /\ InOrder'
         /\ \A g : Marked(g)' => Marked(g)
<1>1. /\ UNCHANGED <<asked, wGen, module, playing, eof, next>>
      /\ pcm # <<>> /\ pcm' = Tail(pcm)
  BY DEF Arrival, main, worker
<1>2. PICK L \in Nat : L = Len(pcm) - 1
  BY <1>1, PacketsAre, Tailed
<1>3. /\ Len(pcm) = L + 1 /\ Len(pcm') = L /\ DOMAIN pcm = 1 .. L + 1 /\ DOMAIN pcm' = 1 .. L
      /\ \A i \in 1 .. L : pcm'[i] = pcm[i + 1]
  BY <1>1, <1>2, PacketsAre, Tailed
<1>4. \A i \in 1 .. L : i + 1 \in 1 .. L + 1
  OBVIOUS
<1>5. \A i \in 1 .. L : Sound(pcm[i])'
  <2> TAKE i \in 1 .. L
  <2>1. Sound(pcm[i + 1])
    BY <1>3, <1>4 DEF Packs
  <2> QED  BY <1>1, <1>3, <2>1 DEF Sound
<1>6. ASSUME NEW i \in 1 .. L, NEW j \in 1 .. L, i < j
      PROVE  /\ pcm'[i].gen <= pcm'[j].gen
             /\ pcm'[i].gen = pcm'[j].gen => ~pcm'[i].eof /\ pcm'[j].pos = pcm'[i].pos + j - i
  <2>1. /\ pcm[i + 1].gen <= pcm[j + 1].gen
        /\ pcm[i + 1].gen = pcm[j + 1].gen =>
             ~pcm[i + 1].eof /\ pcm[j + 1].pos = pcm[i + 1].pos + (j + 1) - (i + 1)
    <3>1. i + 1 \in DOMAIN pcm /\ j + 1 \in DOMAIN pcm /\ i + 1 < j + 1
      BY <1>3, <1>6
    <3> QED  BY <3>1 DEF Packs, InOrder
  <2>2. pcm[i + 1].pos \in Nat
    BY <1>3, <1>4, PacketsAre
  <2>3. pcm[i + 1].pos + (j + 1) - (i + 1) = pcm[i + 1].pos + j - i
    BY <2>2
  <2> QED  BY <1>3, <2>1, <2>3
<1>7. ASSUME Rendering', NEW i \in 1 .. L, pcm'[i].gen = wGen'
      PROVE  ~pcm'[i].eof /\ next' = pcm'[i].pos + L + 1 - i
  <2>1. ~pcm[i + 1].eof /\ next = pcm[i + 1].pos + (L + 1) + 1 - (i + 1) /\ pcm[i + 1].pos \in Nat
    BY <1>1, <1>3, <1>4, <1>7, PacketsAre DEF Packs, InOrder, Rendering
  <2>2. next = pcm[i + 1].pos + L + 1 - i
    BY <2>1
  <2> QED  BY <1>1, <1>3, <2>1, <2>2
<1>8. \A g : Marked(g)' => Marked(g)
  BY <1>3, <1>4 DEF Marked
<1> QED  BY <1>3, <1>5, <1>6, <1>7, <1>8 DEF InOrder

LEMMA DropFlow == TypeOK /\ Flow /\ DropPacket => Flow'
<1> SUFFICES ASSUME TypeOK, Flow, DropPacket  PROVE Flow'
  OBVIOUS
<1>1. /\ Arrival /\ Head(pcm).gen # currentGen /\ pcm # <<>> /\ pcm' = Tail(pcm)
      /\ UNCHANGED <<asked, wGen, playing, eof, next, queue, read, currentGen, heard, ends,
                     eofPending, endSent>>
  BY DEF DropPacket, Arrival, main, worker, worklet
<1>2. /\ (\A i \in DOMAIN pcm' : Sound(pcm[i])') /\ InOrder'
      /\ \A g : Marked(g)' => Marked(g)
  BY <1>1, ArrivalInOrder DEF Flow
<1>3. Packs'
  BY <1>1, <1>2 DEF Flow, Packs, Sound
<1>4. Ends'
  BY <1>1, <1>2 DEF Flow, Ends, Pending
<1>5. Queued'
  BY <1>1 DEF Flow, Queued
<1>6. Gapless'
  <2>1. /\ (Begun' <=> Begun) /\ currentGen \in Int /\ wGen \in Nat
        /\ pcm[1].gen \in Nat /\ pcm[1].gen <= wGen /\ pcm[1].gen # currentGen
        /\ Len(pcm) \in Nat /\ DOMAIN pcm = 1 .. Len(pcm) /\ DOMAIN pcm' = 1 .. Len(pcm) - 1
        /\ 1 \in DOMAIN pcm /\ \A i \in 1 .. Len(pcm) - 1 : pcm'[i] = pcm[i + 1]
    BY <1>1, PacketsAre, Tailed, ConstantsOK
       DEF Flow, Packs, Sound, Begun, TypeOK, WorkerOK, WorkletOK, Gens
  <2>2. ASSUME Begun, NEW j \in 1 .. Len(pcm) - 1  PROVE currentGen < pcm'[j].gen
    <3>1. j + 1 \in DOMAIN pcm /\ 1 < j + 1
      BY <2>1
    <3>2. currentGen <= pcm[1].gen /\ pcm[1].gen <= pcm[j + 1].gen /\ pcm[j + 1].gen \in Nat
      BY <2>1, <2>2, <3>1, PacketsAre DEF Flow, Packs, InOrder, Gapless
    <3> QED  BY <2>1, <3>2
  <2>3. Begun => 1 <= currentGen /\ currentGen <= wGen /\ wGen # currentGen
    BY <2>1 DEF Flow, Gapless
  <2>4. ASSUME Begun, NEW j \in DOMAIN pcm'
        PROVE  currentGen <= pcm'[j].gen /\ pcm'[j].gen # currentGen
    <3>1. j + 1 \in DOMAIN pcm /\ pcm'[j] = pcm[j + 1] /\ j \in 1 .. Len(pcm) - 1
      BY <2>1, <2>4
    <3> QED  BY <2>1, <2>2, <2>4, <3>1, PacketsAre
  <2> QED  BY <1>1, <2>1, <2>3, <2>4 DEF Gapless
<1> QED  BY <1>3, <1>4, <1>5, <1>6 DEF Flow

\* Nothing of a generation follows its mark.
LEMMA EofFlow == TypeOK /\ Flow /\ TakeEof => Flow'
<1> SUFFICES ASSUME TypeOK, Flow, TakeEof  PROVE Flow'
  OBVIOUS
<1>1. /\ Arrival /\ Head(pcm).gen = currentGen /\ Head(pcm).eof /\ pcm # <<>> /\ pcm' = Tail(pcm)
      /\ eofPending' = TRUE
      /\ UNCHANGED <<asked, wGen, playing, eof, next, queue, read, currentGen, heard, ends,
                     endSent>>
  BY DEF TakeEof, Arrival, main, worker
<1>2. /\ (\A i \in DOMAIN pcm' : Sound(pcm[i])') /\ InOrder'
      /\ \A g : Marked(g)' => Marked(g)
  BY <1>1, ArrivalInOrder DEF Flow
<1>3. Packs'
  BY <1>1, <1>2 DEF Flow, Packs, Sound
<1>4. /\ currentGen \in Int /\ wGen \in Nat /\ 1 \in DOMAIN pcm
      /\ pcm[1].gen = currentGen /\ pcm[1].eof
      /\ Len(pcm) \in Nat /\ DOMAIN pcm = 1 .. Len(pcm) /\ DOMAIN pcm' = 1 .. Len(pcm) - 1
      /\ \A i \in 1 .. Len(pcm) - 1 : pcm'[i] = pcm[i + 1]
  BY <1>1, PacketsAre, Tailed, ConstantsOK DEF TypeOK, WorkerOK, WorkletOK, Gens
<1>5. ASSUME NEW i \in DOMAIN pcm'  PROVE pcm'[i].gen # currentGen
  <2>1. i + 1 \in DOMAIN pcm /\ 1 < i + 1 /\ pcm'[i] = pcm[i + 1]
    BY <1>4
  <2> QED  BY <1>4, <2>1 DEF Flow, Packs, InOrder
<1>6. Marked(currentGen) /\ ~Marked(currentGen)' /\ ~(Rendering /\ wGen = currentGen)
  BY <1>1, <1>4, <1>5 DEF Marked, Flow, Packs, InOrder
<1>7. Ends'
  <2>1. \A g \in Gens : Pending(g)' => g = currentGen
    BY <1>1 DEF Pending
  <2> QED  BY <1>1, <1>2, <1>6, <2>1 DEF Flow, Ends
<1>8. Queued'
  BY <1>1 DEF Flow, Queued
<1>9. Gapless'
  <2>1. (Begun' <=> Begun) /\ (Rendering' <=> Rendering)
    BY <1>1 DEF Begun, Rendering
  <2>2. \A j \in DOMAIN pcm' : j + 1 \in DOMAIN pcm /\ pcm'[j] = pcm[j + 1]
    BY <1>4
  <2> QED  BY <1>1, <1>5, <1>6, <2>1, <2>2 DEF Flow, Gapless
<1> QED  BY <1>3, <1>7, <1>8, <1>9 DEF Flow

\* A chunk of the generation goes where it is due.
LEMMA ChunkFlow == TypeOK /\ Flow /\ TakeChunk => Flow'
<1> SUFFICES ASSUME TypeOK, Flow, TakeChunk  PROVE Flow'
  OBVIOUS
<1>1. /\ Arrival /\ Head(pcm).gen = currentGen /\ ~Head(pcm).eof /\ pcm # <<>> /\ pcm' = Tail(pcm)
      /\ queue' = Append(queue, Head(pcm))
      /\ UNCHANGED <<asked, wGen, playing, eof, next, read, currentGen, heard, ends,
                     eofPending, endSent>>
  BY DEF TakeChunk, Arrival, main, worker
<1>2. /\ (\A i \in DOMAIN pcm' : Sound(pcm[i])') /\ InOrder'
      /\ \A g : Marked(g)' => Marked(g)
  BY <1>1, ArrivalInOrder DEF Flow
<1>3. PICK N \in Nat : N = Len(queue)
  BY PacketsAre
<1>4. PICK L \in Nat : L = Len(pcm) - 1
  BY <1>1, PacketsAre, Tailed
<1>5. /\ Len(pcm) = L + 1 /\ Len(pcm') = L /\ DOMAIN pcm = 1 .. L + 1 /\ DOMAIN pcm' = 1 .. L
      /\ \A i \in 1 .. L : pcm'[i] = pcm[i + 1]
      /\ Head(pcm) = pcm[1]
  BY <1>1, <1>4, PacketsAre, Tailed
<1>6. PICK c \in Chunk : c = Head(pcm)
  <2>1. Head(pcm) \in Packet
    BY <1>1, TailTyped DEF TypeOK, PortsOK
  <2> QED  BY <1>1, <2>1 DEF Packet
<1>7. /\ Len(queue') = N + 1 /\ DOMAIN queue = 1 .. N /\ DOMAIN queue' = 1 .. N + 1
      /\ queue'[N + 1] = c /\ \A i \in 1 .. N : queue'[i] = queue[i]
      /\ queue' # <<>> /\ (queue = <<>> <=> N = 0)
  <2>1. queue \in Seq(Chunk)
    BY PacketsAre
  <2>2. /\ Len(queue') = N + 1 /\ DOMAIN queue = 1 .. N /\ DOMAIN queue' = 1 .. N + 1
        /\ queue'[N + 1] = c /\ \A i \in 1 .. N : queue'[i] = queue[i]
        /\ queue' \in Seq(Chunk)
    BY <1>1, <1>3, <1>6, <2>1, Appended
  <2>3. queue' # <<>> /\ (queue = <<>> <=> N = 0)
    BY <1>3, <2>1, <2>2, EmptySeq
  <2> QED  BY <2>2, <2>3
<1>8. /\ c = pcm[1] /\ c.gen = currentGen /\ c.pos \in Nat /\ ~c.eof /\ Sound(c)
      /\ wGen \in Nat /\ heard \in Nat /\ 1 <= currentGen /\ currentGen <= wGen
      /\ currentGen \in Int
  <2>1. c = pcm[1] /\ c.gen = currentGen /\ ~c.eof /\ c.pos \in Nat
    BY <1>1, <1>5, <1>6 DEF Chunk
  <2>2. Sound(c)
    BY <1>5, <2>1 DEF Flow, Packs
  <2> QED  BY <2>1, <2>2, ConstantsOK DEF Sound, TypeOK, WorkerOK, WorkletOK, Gens
<1>9. \A i \in 1 .. L : pcm[i + 1].pos \in Nat /\ pcm[i + 1].gen \in Nat
  <2>1. \A i \in 1 .. L : i + 1 \in DOMAIN pcm
    BY <1>5
  <2> QED  BY <2>1, PacketsAre
\* Where the chunk is due.
<1>10. /\ N # 0 => queue[1].pos \in Nat /\ c.pos = queue[1].pos + N
       /\ N = 0 /\ heard # 0 => c.pos = heard + 1
  <2>1. N # 0 => queue[1].pos \in Nat
    BY <1>7, PacketsAre
  <2>2. Begun => c.pos = Onward + 1 - 1
    BY <1>5, <1>8 DEF Flow, Gapless
  <2>3. Begun <=> N # 0 \/ heard # 0
    BY <1>7 DEF Begun
  <2>4. Onward = IF N # 0 THEN queue[1].pos + N ELSE heard + 1
    BY <1>3, <1>7 DEF Onward
  <2> HIDE DEF Onward
  <2>5. N # 0 => c.pos = queue[1].pos + N
    BY <2>1, <2>2, <2>3, <2>4
  <2>6. N = 0 /\ heard # 0 => c.pos = heard + 1
    BY <1>8, <2>2, <2>3, <2>4
  <2> QED  BY <2>1, <2>5, <2>6
<1>11. Packs'
  <2>1. \A i \in 1 .. N + 1 : Sound(queue[i])'
    <3> TAKE i \in 1 .. N + 1
    <3>1. CASE i \in 1 .. N
      BY <1>1, <1>7, <3>1 DEF Flow, Packs, Sound
    <3>2. CASE i = N + 1
      BY <1>1, <1>7, <1>8, <3>2 DEF Sound
    <3>3. i \in 1 .. N \/ i = N + 1
      OBVIOUS
    <3> QED  BY <3>1, <3>2, <3>3
  <2> QED  BY <1>2, <1>7, <2>1 DEF Packs
<1>12. Queued'
  <2>1. ASSUME NEW i \in 1 .. N + 1
        PROVE  queue'[i].gen = currentGen /\ queue'[i].pos = queue'[1].pos + i - 1
    <3>1. CASE i \in 1 .. N
      <4>1. 1 \in 1 .. N /\ queue'[1] = queue[1] /\ queue'[i] = queue[i]
        BY <1>7, <3>1
      <4> QED  BY <1>7, <3>1, <4>1 DEF Flow, Queued
    <3>2. CASE i = N + 1 /\ N # 0
      <4>1. queue'[1] = queue[1] /\ queue'[i] = c
        BY <1>7, <3>2
      <4> QED  BY <1>8, <1>10, <3>2, <4>1
    <3>3. CASE i = N + 1 /\ N = 0
      <4>1. queue'[1] = c /\ queue'[i] = c
        BY <1>7, <3>3
      <4> QED  BY <1>8, <3>3, <4>1
    <3>4. i \in 1 .. N \/ i = N + 1
      OBVIOUS
    <3> QED  BY <3>1, <3>2, <3>3, <3>4
  <2>2. N # 0 => queue'[1] = queue[1]
    BY <1>7
  <2>3. N = 0 => queue'[1] = c /\ read = 0
    BY <1>7 DEF Flow, Queued
  <2>4. heard # 0 => queue'[1].pos = heard + (IF read = 0 THEN 1 ELSE 0)
    <3>1. CASE N # 0
      BY <1>7, <2>2, <3>1 DEF Flow, Queued
    <3>2. CASE N = 0
      BY <1>10, <2>3, <3>2
    <3> QED  BY <3>1, <3>2
  <2>5. heard = 0 => read = 0
    BY DEF Flow, Queued
  <2> QED  BY <1>1, <1>7, <2>1, <2>4, <2>5 DEF Queued
<1>13. Gapless'
  <2>1. PICK d : d = Onward'
    OBVIOUS
  <2>2. d = c.pos + 1
    <3>1. d = queue'[1].pos + (N + 1)
      BY <1>7, <2>1 DEF Onward
    <3>2. CASE N # 0
      <4>1. queue'[1] = queue[1]
        BY <1>7, <3>2
      <4> QED  BY <1>10, <3>1, <3>2, <4>1
    <3>3. CASE N = 0
      BY <1>7, <1>8, <3>1, <3>3
    <3> QED  BY <3>2, <3>3
  <2>3. ASSUME NEW j \in 1 .. L
        PROVE  /\ currentGen <= pcm'[j].gen
               /\ pcm'[j].gen = currentGen => pcm'[j].pos = d + j - 1
    <3>1. 1 \in DOMAIN pcm /\ j + 1 \in DOMAIN pcm /\ 1 < j + 1 /\ pcm'[j] = pcm[j + 1]
      BY <1>5
    <3>2. /\ pcm[1].gen <= pcm[j + 1].gen
          /\ pcm[1].gen = pcm[j + 1].gen => pcm[j + 1].pos = pcm[1].pos + (j + 1) - 1
      BY <3>1 DEF Flow, Packs, InOrder
    <3>3. c.pos + (j + 1) - 1 = d + j - 1
      BY <1>8, <2>2
    <3> QED  BY <1>8, <3>1, <3>2, <3>3
  <2>4. ASSUME Rendering', wGen = currentGen  PROVE next' = d + L
    <3>1. next = pcm[1].pos + (L + 1) + 1 - 1
      BY <1>1, <1>5, <1>8, <2>4 DEF Flow, Packs, InOrder, Rendering
    <3>2. pcm[1].pos + (L + 1) + 1 - 1 = d + L
      BY <1>8, <2>2
    <3> QED  BY <1>1, <3>1, <3>2
  <2> QED  BY <1>1, <1>5, <1>8, <2>1, <2>3, <2>4 DEF Gapless
<1>14. Ends'
  BY <1>1, <1>2 DEF Flow, Ends, Pending
<1> QED  BY <1>11, <1>12, <1>13, <1>14 DEF Flow

\* The flush forgets what has begun and what is pending.
LEMMA FlushFlow == TypeOK /\ Flow /\ NodeFlush => Flow'
<1> SUFFICES ASSUME TypeOK, Flow, NodeFlush  PROVE Flow'
  OBVIOUS
<1>1. /\ queue' = <<>> /\ read' = 0 /\ heard' = 0 /\ eofPending' = FALSE
      /\ UNCHANGED <<asked, wGen, playing, eof, next, pcm, ends>>
  BY DEF NodeFlush, Control, main, worker
<1>2. Packs'
  <2>1. DOMAIN queue' = {}
    BY <1>1
  <2> QED  BY <1>1, <2>1 DEF Flow, Packs, Sound, InOrder, Rendering
<1>3. Gapless' /\ Queued'
  BY <1>1 DEF Gapless, Begun, Queued
<1>4. Ends'
  BY <1>1 DEF Flow, Ends, Pending, Marked
<1> QED  BY <1>2, <1>3, <1>4 DEF Flow

\* The end of a generation is reported once, after its mark has come.
LEMMA ReportedEnds ==
  ASSUME TypeOK, Ends, NEW left, ReportEnd(left),
         UNCHANGED <<pcm, wGen, eof, currentGen, eofPending>>
  PROVE  Ends'
<1>1. CASE UNCHANGED <<endSent, ends>>
  BY <1>1 DEF Ends, Marked, Pending
<1>2. CASE eofPending /\ ~endSent /\ endSent' = TRUE /\ ends' = [ends EXCEPT ![currentGen] = @ + 1]
  <2>1. \A g \in Gens : ends'[g] = IF g = currentGen THEN ends[g] + 1 ELSE ends[g]
    BY <1>2 DEF TypeOK, WorkletOK
  <2>2. /\ \A g : ~Pending(g)' /\ (Marked(g)' <=> Marked(g))
        /\ Pending(currentGen)
    BY <1>2 DEF Pending, Marked
  <2>3. currentGen \in Gens => ends[currentGen] = 0
    BY <2>2 DEF Ends
  <2>4. \A g \in Gens : g = currentGen => ~Marked(g) /\ ~(g > wGen \/ (g = wGen /\ ~eof))
    BY <2>2 DEF Ends
  <2> QED  BY <2>1, <2>2, <2>3, <2>4 DEF Ends
<1> QED  BY <1>1, <1>2 DEF ReportEnd

\* What was queued first is heard first.
LEMMA DrainFlow ==
  ASSUME TypeOK, Flow, DrainHead,
         \/ UNCHANGED queue /\ read' = read + 1 /\ read \in Nat
         \/ queue' = Tail(queue) /\ read' = 0
  PROVE  Packs' /\ Gapless' /\ Queued' /\ heard' # 0 /\ Onward' = Onward
<1>1. /\ queue # <<>> /\ heard' = Head(queue).pos
      /\ UNCHANGED <<asked, wGen, playing, eof, next, currentGen, pcm>>
  BY DEF DrainHead, main, worker
<1>2. PICK N \in Nat : N = Len(queue) - 1
  BY <1>1, PacketsAre, Tailed
<1>3. /\ Len(queue) = N + 1 /\ DOMAIN queue = 1 .. N + 1 /\ Head(queue) = queue[1]
      /\ queue \in Seq(Chunk)
      /\ Tail(queue) \in Seq(Chunk) /\ Len(Tail(queue)) = N /\ DOMAIN Tail(queue) = 1 .. N
      /\ \A i \in 1 .. N : Tail(queue)[i] = queue[i + 1]
  BY <1>1, <1>2, PacketsAre, Tailed
<1>4. PICK p \in Nat : p = queue[1].pos
  BY <1>3, PacketsAre
<1>5. p >= 1 /\ heard' = p /\ heard' # 0
  <2>1. Sound(queue[1])
    BY <1>3 DEF Flow, Packs
  <2> QED  BY <1>1, <1>3, <1>4, <2>1 DEF Sound
<1>6. \A i \in 1 .. N + 1 : queue[i].gen = currentGen /\ queue[i].pos = p + i - 1
  BY <1>3, <1>4 DEF Flow, Queued
\* Nothing else is due than before.
<1>7. ASSUME Onward' = Onward  PROVE Gapless'
  <2>1. Begun
    BY <1>1 DEF Begun
  <2>2. PICK d : d = Onward
    OBVIOUS
  <2>3. /\ 1 <= currentGen /\ currentGen <= wGen
        /\ \A j \in DOMAIN pcm : /\ currentGen <= pcm[j].gen
                                 /\ pcm[j].gen = currentGen => pcm[j].pos = d + j - 1
        /\ Rendering /\ wGen = currentGen => next = d + Len(pcm)
    BY <2>1, <2>2 DEF Flow, Gapless
  <2>4. Onward' = d
    BY <1>7, <2>2
  <2> HIDE DEF Onward
  <2> QED  BY <1>1, <2>3, <2>4 DEF Gapless, Rendering
<1>8. CASE UNCHANGED queue /\ read' = read + 1 /\ read \in Nat
  <2>1. Packs'
    BY <1>1, <1>8 DEF Flow, Packs, Sound, InOrder, Rendering
  <2>2. Onward' = Onward
    BY <1>1, <1>8 DEF Onward
  <2>3. Queued'
    <3>1. read' # 0
      BY <1>8
    <3>2. queue'[1].pos = heard' + (IF read' = 0 THEN 1 ELSE 0)
      BY <1>4, <1>5, <1>8, <3>1
    <3> QED  BY <1>1, <1>5, <1>8, <3>2 DEF Flow, Queued
  <2> QED  BY <1>5, <1>7, <2>1, <2>2, <2>3
<1>9. CASE queue' = Tail(queue) /\ read' = 0
  <2>1. \A i \in 1 .. N : i + 1 \in 1 .. N + 1
    OBVIOUS
  <2>2. Packs'
    <3>1. \A i \in 1 .. N : Sound(queue[i])'
      <4> TAKE i \in 1 .. N
      <4>1. Sound(queue[i + 1])
        BY <1>3, <2>1 DEF Flow, Packs
      <4> QED  BY <1>1, <1>3, <1>9, <4>1 DEF Sound
    <3> QED  BY <1>1, <1>3, <1>9, <3>1 DEF Flow, Packs, Sound, InOrder, Rendering
  <2>3. \A i \in 1 .. N : queue'[i].gen = currentGen /\ queue'[i].pos = p + i
    <3> TAKE i \in 1 .. N
    <3>1. p + (i + 1) - 1 = p + i
      OBVIOUS
    <3> QED  BY <1>3, <1>6, <1>9, <2>1, <3>1
  <2>4. queue' = <<>> <=> N = 0
    BY <1>3, <1>9, EmptySeq
  <2>5. N # 0 => queue'[1].pos = p + 1
    BY <2>3
  <2>6. Onward' = Onward
    <3>1. Onward = p + (N + 1)
      BY <1>1, <1>3, <1>4 DEF Onward
    <3>2. Onward' = IF N # 0 THEN queue'[1].pos + N ELSE p + 1
      BY <1>3, <1>5, <1>9, <2>4 DEF Onward
    <3>3. N # 0 => queue'[1].pos + N = p + (N + 1)
      BY <2>5
    <3>4. N = 0 => p + 1 = p + (N + 1)
      OBVIOUS
    <3> HIDE DEF Onward
    <3> QED  BY <3>1, <3>2, <3>3, <3>4
  <2>7. Queued'
    <3>1. \A i \in 1 .. N : queue'[i].pos = queue'[1].pos + i - 1
      BY <2>3, <2>5
    <3> QED  BY <1>1, <1>3, <1>5, <1>9, <2>3, <2>4, <2>5, <3>1 DEF Queued
  <2> QED  BY <1>5, <1>7, <2>2, <2>6, <2>7
<1> QED  BY <1>8, <1>9

LEMMA ProcessFlow == TypeOK /\ Flow /\ Process => Flow'
<1> SUFFICES ASSUME TypeOK, Flow, Process  PROVE Flow'
  OBVIOUS
<1>1. CASE PlayPart
  <2>1. DrainHead /\ UNCHANGED queue /\ read' = read + 1 /\ read \in Nat
    BY <1>1 DEF PlayPart, TypeOK, WorkletOK
  <2>2. UNCHANGED <<pcm, wGen, eof, currentGen, eofPending, endSent, ends>>
    BY <1>1 DEF PlayPart, DrainHead, worker
  <2>3. Ends'
    BY <2>2 DEF Flow, Ends, Marked, Pending
  <2> QED  BY <2>1, <2>3, DrainFlow DEF Flow
<1>2. CASE FinishChunk
  <2>1. DrainHead /\ queue' = Tail(queue) /\ read' = 0 /\ ReportEnd(Tail(queue))
    BY <1>2 DEF FinishChunk
  <2>2. UNCHANGED <<pcm, wGen, eof, currentGen, eofPending>>
    BY <2>1 DEF DrainHead, worker
  <2>3. Ends'
    BY <2>1, <2>2, ReportedEnds DEF Flow
  <2> QED  BY <2>1, <2>3, DrainFlow DEF Flow
<1>3. CASE RunDry
  <2>1. /\ ReportEnd(queue)
        /\ UNCHANGED <<asked, pcm, wGen, eof, playing, next, currentGen, eofPending, queue, read, heard>>
    BY <1>3 DEF RunDry, ports, worker, main
  <2>2. Ends'
    BY <2>1, ReportedEnds DEF Flow
  <2>3. Packs' /\ Gapless' /\ Queued'
    BY <2>1 DEF Flow, Packs, Sound, InOrder, Rendering, Gapless, Begun, Onward, Queued
  <2> QED  BY <2>2, <2>3 DEF Flow
<1> QED  BY <1>1, <1>2, <1>3 DEF Process

LEMMA IdleFlow ==
  Flow /\ UNCHANGED <<asked, pcm, wGen, eof, playing, next, currentGen, eofPending, endSent,
                      queue, read, heard, ends>> => Flow'
  BY DEF Flow, Packs, Sound, InOrder, Rendering, Gapless, Begun, Onward, Queued, Ends, Marked, Pending

-----------------------------------------------------------------------------
StreamInv == AskInv /\ Flow

LEMMA StreamKept == Spec => []StreamInv
<1>1. Init => StreamInv
  <2> SUFFICES ASSUME Init  PROVE StreamInv
    OBVIOUS
  <2>1. Len(toWorker) = 0 /\ DOMAIN toWorker = {} /\ DOMAIN pcm = {} /\ DOMAIN queue = {}
    BY DEF Init
  <2>2. AskInv
    BY <2>1 DEF Init, AskInv, Asks, Believes, Follows, Decodes, Rendering
  <2>3. Packs /\ Gapless /\ Queued
    BY <2>1 DEF Init, Packs, InOrder, Gapless, Begun, Queued
  <2>4. Ends
    BY <2>1 DEF Init, Ends, Marked, Pending
  <2> QED  BY <2>2, <2>3, <2>4 DEF StreamInv, Flow
<1>2. StreamInv /\ CreditInv /\ [Next]_vars => StreamInv'
  <2> SUFFICES ASSUME StreamInv, CreditInv, [Next]_vars  PROVE StreamInv'
    OBVIOUS
  <2>1. TypeOK /\ GensAhead
    BY DEF CreditInv
  <2>2. CASE UNCHANGED vars
    BY <2>2, AskStays, IdleFlow DEF vars, main, worker, worklet, ports, StreamInv
  <2>3. CASE Main
    BY <2>1, <2>3, MainAsks, MainFlow DEF StreamInv
  <2>4. CASE Render
    BY <2>1, <2>4, RenderAsks, RenderFlow DEF StreamInv
  <2>5. CASE WorkerMessage
    BY <2>1, <2>5, WorkerAsks, WorkerFlow DEF StreamInv
  <2>6. CASE OnPcmAck
    <3>1. UNCHANGED <<main, toWorker, wGen, module, next, playing, eof>>
      BY <2>6 DEF OnPcmAck
    <3> QED  BY <2>1, <2>6, <3>1, AskStays, WorkerFlow DEF StreamInv
  <2>7. CASE Worklet
    <3>1. UNCHANGED <<main, toWorker, wGen, module, next, playing, eof>>
      BY <2>7 DEF Worklet, NodeFlush, NodePause, Control, OnPcm, DropPacket, TakeEof, TakeChunk,
                  Arrival, Process, PlayPart, FinishChunk, RunDry, DrainHead, worker, ports
    <3>2. ASSUME NodePause  PROVE Flow'
      <4>1. UNCHANGED <<asked, pcm, wGen, eof, playing, next, currentGen, eofPending, endSent,
                        queue, read, heard, ends>>
        BY <3>2 DEF NodePause, Control, main, worker
      <4> QED  BY <4>1, IdleFlow DEF StreamInv
    <3> QED
      BY <2>1, <2>7, <3>1, <3>2, AskStays, FlushFlow, DropFlow, EofFlow, ChunkFlow, ProcessFlow
      DEF StreamInv, Worklet, OnPcm
  <2> QED  BY <2>2, <2>3, <2>4, <2>5, <2>6, <2>7 DEF Next, Worker
<1> QED  BY <1>1, <1>2, CreditKept, PTL DEF Spec

(* What the worklet holds is an unbroken run of the song asked for, from     *)
(* where it was asked, which continues what was heard, and no generation is  *)
(* ended twice (onPcm, process, flush): for every song, credit and number of *)
(* generations, in whatever order the ports deliver.                         *)
THEOREM StreamIsRight == Spec => []RightStream
<1>1. StreamInv /\ TypeOK => RightStream
  <2> SUFFICES ASSUME StreamInv, TypeOK  PROVE RightStream
    OBVIOUS
  <2>1. ASSUME NEW i \in DOMAIN queue
        PROVE  /\ queue[i].gen = currentGen
               /\ queue[i].song = asked[currentGen].song
               /\ queue[i].pos = queue[1].pos + i - 1
               /\ heard = 0 => queue[1].pos >= asked[currentGen].start
               /\ heard # 0 => queue[1].pos = heard + (IF read = 0 THEN 1 ELSE 0)
    <3>1. 1 \in DOMAIN queue /\ queue # <<>>
      BY PacketsAre
    <3>2. Sound(queue[1]) /\ Sound(queue[i]) /\ ~queue[1].eof
      BY <3>1, PacketsAre DEF StreamInv, Flow, Packs
    <3>3. queue[1].gen = currentGen /\ queue[i].gen = currentGen
      BY <3>1 DEF StreamInv, Flow, Queued
    <3> QED  BY <3>1, <3>2, <3>3 DEF StreamInv, Flow, Queued, Sound
  <2>2. \A g \in Gens : ends[g] <= 1
    BY DEF StreamInv, Flow, Ends
  <2> QED  BY <2>1, <2>2 DEF RightStream
<1> QED  BY <1>1, StreamKept, TypeCorrect, PTL

-----------------------------------------------------------------------------
(* When no flush overtakes a chunk, the listener also gets the stream from  *)
(* its start, and its end only after its last chunk.                        *)

\* The flushes on their way open ever later generations, or silence a stopped one.
FlushAhead ==
  /\ currentGen <= gen
  /\ \A i \in DOMAIN toNode : toNode[i].cmd = "flush" =>
       /\ toNode[i].gen <= gen
       /\ currentGen < toNode[i].gen \/ (currentGen = toNode[i].gen /\ currentGen \in cut)
       /\ \A j \in 1 .. i - 1 : toNode[j].cmd = "flush" =>
            \/ toNode[j].gen < toNode[i].gen
            \/ toNode[j].gen = toNode[i].gen /\ toNode[j].gen \in cut

\* After the mark of a generation nothing of it is left to come.
Over ==
  eofPending =>
    /\ 1 <= currentGen /\ currentGen <= wGen
    /\ ~(Rendering /\ wGen = currentGen)
    /\ \A i \in DOMAIN pcm : pcm[i].gen # currentGen

\* Where the stream of generation g should begin: past the end, it begins with its mark.
First(g) ==
  IF asked[g].start <= Length[asked[g].song] THEN asked[g].start ELSE Length[asked[g].song] + 1

Unopened(g) == g > currentGen \/ (g = currentGen /\ ~Begun /\ ~eofPending)

\* A generation nothing has been taken of begins where it should.
Begins ==
  \A g \in 1 .. gen : Unopened(g) /\ g \notin cut =>
    /\ \A j \in DOMAIN pcm :
         pcm[j].gen = g /\ (\A i \in 1 .. j - 1 : pcm[i].gen # g) => pcm[j].pos = First(g)
    /\ Rendering /\ wGen = g /\ (\A i \in DOMAIN pcm : pcm[i].gen # g) => next = First(g)

Opening ==
  currentGen \notin cut /\ heard = 0 /\ queue # <<>> => queue[1].pos = asked[currentGen].start

\* Whose mark was taken is queued or heard to its last chunk, or has no chunk to hear.
Closing ==
  eofPending /\ currentGen \notin cut =>
    /\ asked[currentGen].song \in Songs \ Unparsable
    /\ Begun => Onward = Length[asked[currentGen].song] + 1
    /\ ~Begun => asked[currentGen].start > Length[asked[currentGen].song]

LEMMA NodeCallsAre ==
  ASSUME TypeOK
  PROVE  /\ toNode \in Seq(NodeCall) /\ Len(toNode) \in Nat /\ DOMAIN toNode = 1 .. Len(toNode)
         /\ \A i \in DOMAIN toNode : toNode[i].cmd = "flush" => toNode[i].gen \in Nat
         /\ currentGen \in Int /\ gen \in Nat /\ wGen \in Nat /\ Gens \subseteq Nat
<1>1. toNode \in Seq(NodeCall)
  BY DEF TypeOK, PortsOK
<1>2. \A i \in DOMAIN toNode : toNode[i] \in NodeCall
  BY <1>1, ElementOfSeq, LenProperties
<1>3. \A i \in DOMAIN toNode : toNode[i].cmd = "flush" => toNode[i].gen \in Nat
  <2> TAKE i \in DOMAIN toNode
  <2>1. toNode[i] \in NodeCall
    BY <1>2
  <2> QED  BY <2>1, ConstantsOK DEF NodeCall, Gens
<1>4. currentGen \in Int /\ gen \in Nat /\ wGen \in Nat /\ Gens \subseteq Nat
  BY ConstantsOK DEF TypeOK, MainOK, WorkerOK, WorkletOK, Gens
<1> QED  BY <1>1, <1>3, <1>4, LenProperties

LEMMA FlushPosted ==
  ASSUME TypeOK, FlushAhead, Keeps, UNCHANGED currentGen,
         NEW c \in NodeCall, toNode' = Append(toNode, c),
         c.cmd = "flush" => /\ c.gen \in Nat /\ c.gen <= gen'
                            /\ c.gen > gen \/ (c.gen = gen /\ gen \in cut')
  PROVE  FlushAhead'
<1>1. PICK n \in Nat : n = Len(toNode)
  BY NodeCallsAre
<1>2. /\ DOMAIN toNode = 1 .. n /\ DOMAIN toNode' = 1 .. n + 1 /\ toNode'[n + 1] = c
      /\ \A i \in 1 .. n : toNode'[i] = toNode[i]
  BY <1>1, NodeCallsAre, Appended
<1>3. /\ gen \in Nat /\ gen' \in Nat /\ gen <= gen' /\ currentGen \in Int /\ currentGen <= gen
      /\ cut \subseteq cut'
  BY NodeCallsAre DEF FlushAhead, Keeps
<1>4. ASSUME NEW i \in 1 .. n, toNode[i].cmd = "flush"
      PROVE  /\ toNode[i].gen \in Nat /\ toNode[i].gen <= gen
             /\ currentGen < toNode[i].gen \/ (currentGen = toNode[i].gen /\ currentGen \in cut)
             /\ \A j \in 1 .. i - 1 : toNode[j].cmd = "flush" =>
                  \/ toNode[j].gen < toNode[i].gen
                  \/ toNode[j].gen = toNode[i].gen /\ toNode[j].gen \in cut
  BY <1>2, <1>4, NodeCallsAre DEF FlushAhead
<1>5. ASSUME NEW i \in 1 .. n + 1, toNode'[i].cmd = "flush"
      PROVE  /\ toNode'[i].gen <= gen'
             /\ currentGen < toNode'[i].gen \/ (currentGen = toNode'[i].gen /\ currentGen \in cut')
             /\ \A j \in 1 .. i - 1 : toNode'[j].cmd = "flush" =>
                  \/ toNode'[j].gen < toNode'[i].gen
                  \/ toNode'[j].gen = toNode'[i].gen /\ toNode'[j].gen \in cut'
  <2>1. CASE i \in 1 .. n
    <3>1. toNode'[i] = toNode[i] /\ \A j \in 1 .. i - 1 : toNode'[j] = toNode[j]
      BY <1>2, <2>1
    <3>2. /\ toNode[i].gen \in Nat /\ toNode[i].gen <= gen
          /\ currentGen < toNode[i].gen \/ (currentGen = toNode[i].gen /\ currentGen \in cut)
          /\ \A j \in 1 .. i - 1 : toNode[j].cmd = "flush" =>
               \/ toNode[j].gen < toNode[i].gen
               \/ toNode[j].gen = toNode[i].gen /\ toNode[j].gen \in cut
      BY <1>4, <1>5, <2>1, <3>1
    <3>3. toNode[i].gen <= gen'
      BY <1>3, <3>2
    <3>4. currentGen < toNode'[i].gen \/ (currentGen = toNode'[i].gen /\ currentGen \in cut')
      BY <1>3, <3>1, <3>2
    <3>5. ASSUME NEW j \in 1 .. i - 1, toNode'[j].cmd = "flush"
          PROVE  \/ toNode'[j].gen < toNode'[i].gen
                 \/ toNode'[j].gen = toNode'[i].gen /\ toNode'[j].gen \in cut'
      BY <1>3, <3>1, <3>2, <3>5
    <3> QED  BY <3>1, <3>3, <3>4, <3>5
  <2>2. CASE i = n + 1
    <3>1. toNode'[i] = c /\ \A j \in 1 .. i - 1 : toNode'[j] = toNode[j] /\ j \in 1 .. n
      BY <1>2, <2>2
    <3>2. c.gen \in Nat /\ c.gen <= gen' /\ (c.gen > gen \/ (c.gen = gen /\ gen \in cut'))
      BY <1>5, <3>1
    <3>3. \A j \in 1 .. i - 1 : toNode'[j].cmd = "flush" => toNode[j].gen \in Nat /\ toNode[j].gen <= gen
      BY <1>4, <3>1
    <3>4. currentGen < c.gen \/ (currentGen = c.gen /\ currentGen \in cut')
      BY <1>3, <3>2
    <3>5. ASSUME NEW j \in 1 .. i - 1, toNode'[j].cmd = "flush"
          PROVE  \/ toNode'[j].gen < c.gen
                 \/ toNode'[j].gen = c.gen /\ toNode'[j].gen \in cut'
      <4>1. PICK x \in Nat : x = toNode'[j].gen /\ x <= gen
        BY <3>1, <3>3, <3>5
      <4>0. PICK d \in Nat : d = c.gen
        BY <3>2
      <4>2. CASE x < d
        BY <4>0, <4>1, <4>2
      <4>3. CASE ~(x < d)
        <5>1. PICK G \in Nat : G = gen
          BY <1>3
        <5>2. x <= G
          BY <4>1, <5>1
        <5>3. ~(d > G) /\ (d = G => x = d)
          BY <4>3, <5>2
        <5>4. d = G /\ gen \in cut'
          BY <3>2, <4>0, <5>1, <5>3
        <5> QED  BY <4>0, <4>1, <5>1, <5>3, <5>4
      <4> QED  BY <4>2, <4>3
    <3> QED  BY <3>1, <3>2, <3>4, <3>5
  <2>3. i \in 1 .. n \/ i = n + 1
    OBVIOUS
  <2> QED  BY <2>1, <2>2, <2>3
<1>6. currentGen' = currentGen /\ currentGen <= gen'
  BY <1>3
<1> QED  BY <1>2, <1>5, <1>6 DEF FlushAhead

LEMMA FlushTaken ==
  ASSUME TypeOK, FlushAhead, UNCHANGED <<gen, cut>>, toNode # <<>>, toNode' = Tail(toNode),
         currentGen' = IF Head(toNode).cmd = "flush" THEN Head(toNode).gen ELSE currentGen
  PROVE  FlushAhead'
<1>1. PICK n \in Nat : n = Len(toNode) - 1
  <2>1. Len(toNode) \in Nat \ {0}
    BY NodeCallsAre, Tailed
  <2> QED  BY <2>1
<1>2. /\ DOMAIN toNode = 1 .. n + 1 /\ DOMAIN toNode' = 1 .. n
      /\ \A i \in 1 .. n : toNode'[i] = toNode[i + 1]
      /\ Head(toNode) = toNode[1] /\ 1 \in DOMAIN toNode
  BY <1>1, NodeCallsAre, Tailed
<1>3. ASSUME NEW i \in 1 .. n + 1, toNode[i].cmd = "flush"
      PROVE  /\ toNode[i].gen \in Nat /\ toNode[i].gen <= gen
             /\ currentGen < toNode[i].gen \/ (currentGen = toNode[i].gen /\ currentGen \in cut)
             /\ \A j \in 1 .. i - 1 : toNode[j].cmd = "flush" =>
                  \/ toNode[j].gen < toNode[i].gen
                  \/ toNode[j].gen = toNode[i].gen /\ toNode[j].gen \in cut
  BY <1>2, <1>3, NodeCallsAre DEF FlushAhead
<1>4. currentGen' <= gen
  BY <1>2, <1>3 DEF FlushAhead
<1>5. ASSUME NEW i \in 1 .. n, toNode'[i].cmd = "flush"
      PROVE  /\ toNode'[i].gen <= gen
             /\ currentGen' < toNode'[i].gen \/ (currentGen' = toNode'[i].gen /\ currentGen' \in cut)
             /\ \A j \in 1 .. i - 1 : toNode'[j].cmd = "flush" =>
                  \/ toNode'[j].gen < toNode'[i].gen
                  \/ toNode'[j].gen = toNode'[i].gen /\ toNode'[j].gen \in cut
  <2>1. /\ i + 1 \in 1 .. n + 1 /\ toNode'[i] = toNode[i + 1] /\ 1 \in 1 .. (i + 1) - 1
        /\ \A j \in 1 .. i - 1 : toNode'[j] = toNode[j + 1] /\ j + 1 \in 1 .. (i + 1) - 1
    BY <1>2
  <2>2. /\ toNode[i + 1].gen <= gen
        /\ currentGen < toNode[i + 1].gen \/ (currentGen = toNode[i + 1].gen /\ currentGen \in cut)
        /\ \A j \in 1 .. (i + 1) - 1 : toNode[j].cmd = "flush" =>
             \/ toNode[j].gen < toNode[i + 1].gen
             \/ toNode[j].gen = toNode[i + 1].gen /\ toNode[j].gen \in cut
    BY <1>3, <1>5, <2>1
  <2>3. currentGen' < toNode[i + 1].gen \/ (currentGen' = toNode[i + 1].gen /\ currentGen' \in cut)
    BY <1>2, <2>1, <2>2
  <2>4. \A j \in 1 .. i - 1 : toNode[j + 1].cmd = "flush" =>
             \/ toNode[j + 1].gen < toNode[i + 1].gen
             \/ toNode[j + 1].gen = toNode[i + 1].gen /\ toNode[j + 1].gen \in cut
    BY <2>1, <2>2
  <2> QED  BY <2>1, <2>2, <2>3, <2>4
<1> QED  BY <1>2, <1>4, <1>5 DEF FlushAhead

LEMMA MainFlushes == TypeOK /\ GensAhead /\ AskInv /\ FlushAhead /\ Main => FlushAhead'
<1> SUFFICES ASSUME TypeOK, GensAhead, AskInv, FlushAhead, Main  PROVE FlushAhead'
  OBVIOUS
<1>1. Keeps /\ UNCHANGED currentGen /\ gen \in Nat /\ gen \in Gens
  BY MainAsks, NodeCallsAre
     DEF TypeOK, MainOK, Main, Play, DecodeSong, SetPos, Stop, PauseCall, worklet
<1>2. ASSUME NEW g \in Gens, toNode' = Append(toNode, Flush(g)), g <= gen',
             g > gen \/ (g = gen /\ gen \in cut')
      PROVE  FlushAhead'
  <2>1. Flush(g) \in NodeCall /\ Flush(g).gen = g /\ g \in Nat
    BY NodeCallsAre DEF Flush, NodeCall
  <2> QED  BY <1>1, <1>2, <2>1, FlushPosted
<1>3. ASSUME NEW s \in Songs, Play(s)  PROVE FlushAhead'
  <2>1. gen + 1 \in Gens /\ gen' = gen + 1 /\ toNode' = Append(toNode, Flush(gen + 1))
    BY <1>1, <1>3, ConstantsOK DEF Play, Post, Gens
  <2> QED  BY <1>1, <1>2, <2>1
<1>4. ASSUME NEW p \in Seeks, SetPos(p)  PROVE FlushAhead'
  <2>1. gen + 1 \in Gens /\ gen' = gen + 1 /\ toNode' = Append(toNode, Flush(gen + 1))
    BY <1>1, <1>4, ConstantsOK DEF SetPos, Post, Gens
  <2> QED  BY <1>1, <1>2, <2>1
<1>5. ASSUME Stop  PROVE FlushAhead'
  <2>1. gen' = gen /\ toNode' = Append(toNode, Flush(gen)) /\ gen \in cut'
    BY <1>5 DEF Stop, Post
  <2> QED  BY <1>1, <1>2, <2>1
<1>6. ASSUME NEW cmd \in PauseCalls, PauseCall(cmd)  PROVE FlushAhead'
  <2>1. [cmd |-> cmd] \in NodeCall /\ [cmd |-> cmd].cmd # "flush" /\ UNCHANGED <<gen, cut>>
    BY <1>6, ConstantsOK DEF NodeCall, PauseCall, main
  <2>2. toNode' = Append(toNode, [cmd |-> cmd])
    BY <1>6 DEF PauseCall
  <2> QED  BY <1>1, <2>1, <2>2, FlushPosted
<1>7. ASSUME NEW s \in Decoded, DecodeSong(s)  PROVE FlushAhead'
  BY <1>7 DEF DecodeSong, main, worklet, FlushAhead
<1> QED  BY <1>3, <1>4, <1>5, <1>6, <1>7 DEF Main

\* What the main thread and the worker's messages leave as it was.
LEMMA OverStays ==
  ASSUME TypeOK, Over, UNCHANGED <<pcm, worklet>>, wGen' \in Nat,
         \/ wGen < wGen'
         \/ UNCHANGED wGen /\ (Rendering' => Rendering)
  PROVE  Over'
<1>1. UNCHANGED <<pcm, currentGen, eofPending>> /\ wGen \in Nat /\ currentGen \in Int
  BY NodeCallsAre DEF worklet
<1>2. ASSUME eofPending
      PROVE  /\ 1 <= currentGen /\ currentGen <= wGen'
             /\ ~(Rendering' /\ wGen' = currentGen)
             /\ \A i \in DOMAIN pcm : pcm[i].gen # currentGen
  <2>1. /\ 1 <= currentGen /\ currentGen <= wGen /\ ~(Rendering /\ wGen = currentGen)
        /\ \A i \in DOMAIN pcm : pcm[i].gen # currentGen
    BY <1>2 DEF Over
  <2>2. currentGen <= wGen'
    BY <1>1, <2>1
  <2>3. wGen < wGen' => wGen' # currentGen
    BY <1>1, <2>1
  <2> QED  BY <2>1, <2>2, <2>3
<1> QED  BY <1>1, <1>2 DEF Over

LEMMA BeginsStays ==
  ASSUME TypeOK, GensAhead, Flow, Begins, Keeps, UNCHANGED <<pcm, worklet>>, wGen' \in Nat,
         \/ wGen < wGen' /\ (Rendering' => next' = First(wGen)')
         \/ UNCHANGED wGen /\ (Rendering' => Rendering /\ UNCHANGED next)
  PROVE  Begins'
<1>1. /\ UNCHANGED <<pcm, currentGen, eofPending, queue, heard>>
      /\ wGen \in Nat /\ gen \in Nat /\ wGen <= gen /\ gen' \in Nat
  BY NodeCallsAre DEF worklet, GensAhead, Keeps
<1>2. \A i \in DOMAIN pcm : pcm[i].gen \in Nat /\ pcm[i].gen <= wGen
  BY PacketsAre DEF Flow, Packs, Sound
<1>3. ASSUME NEW g \in 1 .. gen', Unopened(g)', g \notin cut'
      PROVE  /\ \A j \in DOMAIN pcm :
                  pcm[j].gen = g /\ (\A i \in 1 .. j - 1 : pcm[i].gen # g) => pcm[j].pos = First(g)'
             /\ Rendering' /\ wGen' = g /\ (\A i \in DOMAIN pcm : pcm[i].gen # g) => next' = First(g)'
  <2>1. CASE g \in 1 .. gen
    <3>1. First(g)' = First(g) /\ Unopened(g) /\ g \notin cut
      BY <1>1, <1>3, <2>1 DEF First, Unopened, Begun, Keeps
    <3>2. /\ \A j \in DOMAIN pcm :
               pcm[j].gen = g /\ (\A i \in 1 .. j - 1 : pcm[i].gen # g) => pcm[j].pos = First(g)
          /\ Rendering /\ wGen = g /\ (\A i \in DOMAIN pcm : pcm[i].gen # g) => next = First(g)
      BY <2>1, <3>1 DEF Begins
    <3>3. Rendering' /\ wGen' = g /\ (\A i \in DOMAIN pcm : pcm[i].gen # g) => next' = First(g)'
      <4>1. CASE UNCHANGED wGen /\ (Rendering' => Rendering /\ UNCHANGED next)
        BY <3>1, <3>2, <4>1
      <4>2. CASE wGen < wGen' /\ (Rendering' => next' = First(wGen)')
        BY <4>2 DEF First
      <4> QED  BY <4>1, <4>2
    <3> QED  BY <3>1, <3>2, <3>3
  <2>2. CASE g > gen
    <3>1. \A i \in DOMAIN pcm : pcm[i].gen # g
      BY <1>1, <1>2, <2>2
    <3>2. wGen # g
      BY <1>1, <2>2
    <3> QED  BY <3>1, <3>2 DEF First
  <2> QED  BY <1>1, <2>1, <2>2
<1> QED  BY <1>1, <1>3 DEF Begins

LEMMA PartsStay ==
  ASSUME TypeOK, GensAhead, Flow, Over, Opening, Closing, Keeps, UNCHANGED worklet
  PROVE  Opening' /\ Closing'
<1>1. UNCHANGED <<currentGen, eofPending, queue, heard>> /\ (Begun' <=> Begun) /\ Onward' = Onward
  BY DEF worklet, Begun, Onward
<1>2. /\ wGen \in Nat /\ gen \in Nat /\ wGen <= gen /\ currentGen \in Int
  BY NodeCallsAre DEF GensAhead
<1>3. Begun \/ eofPending => currentGen \in 1 .. gen
  BY <1>2 DEF Flow, Gapless, Over
<1>4. Begun \/ eofPending => asked'[currentGen] = asked[currentGen]
  BY <1>3 DEF Keeps
<1>5. Opening'
  BY <1>1, <1>4 DEF Opening, Begun, Keeps
<1>6. Closing'
  <2> HIDE DEF Begun, Onward
  <2> QED  BY <1>1, <1>4 DEF Closing, Keeps
<1> QED  BY <1>5, <1>6

Whole == Begins /\ Opening /\ Closing

\* The main thread and the worker's messages open generations in order.
LEMMA MainWhole ==
  TypeOK /\ GensAhead /\ AskInv /\ Flow /\ Over /\ Whole /\ Main => Over' /\ Whole'
<1> SUFFICES ASSUME TypeOK, GensAhead, AskInv, Flow, Over, Whole, Main  PROVE Over' /\ Whole'
  OBVIOUS
<1>1. UNCHANGED <<pcm, worklet, worker>>
  BY DEF Main, Play, Post, DecodeSong, SetPos, Stop, PauseCall
<1>2. wGen' \in Nat /\ UNCHANGED <<wGen, next>> /\ (Rendering' => Rendering)
  BY <1>1, NodeCallsAre DEF worker, Rendering
<1> QED  BY <1>1, <1>2, MainAsks, OverStays, BeginsStays, PartsStay DEF Whole

LEMMA WorkerWhole ==
  ASSUME TypeOK, GensAhead, AskInv, AskInv', Flow, Over, Whole, WorkerMessage \/ OnPcmAck
  PROVE  Over' /\ Whole'
<1>1. UNCHANGED <<main, pcm, worklet>>
  BY DEF WorkerMessage, WorkerLoad, WorkerStop, WorkerSetPos, WorkerSetPosIgnored,
         WorkerDecodeSong, Receive, OnPcmAck
<1>2. Keeps /\ UNCHANGED asked
  BY <1>1, NodeCallsAre DEF main, Keeps
<1>3. wGen \in Nat
  BY NodeCallsAre
<1>4. CASE WorkerLoad \/ WorkerSetPos
  <2>1. /\ toWorker # <<>> /\ wGen' = Head(toWorker).gen /\ Opens(Head(toWorker))
    BY <1>4 DEF WorkerLoad, WorkerSetPos, Receive, Restart, Opens
  <2>2. /\ Head(toWorker) = toWorker[1] /\ 1 \in DOMAIN toWorker
    BY <2>1, CallsAre, Tailed
  <2>3. wGen' \in Nat /\ wGen < wGen'
    BY <2>1, <2>2, CallsAre, ConstantsOK DEF GensAhead, Gens
  <2>4. ASSUME Rendering'  PROVE next' = First(wGen)'
    <3>1. /\ asked[wGen'].song = module' /\ module' \in Songs \ Unparsable
          /\ Length[module'] \in Nat
      BY <1>2, <2>4, ConstantsOK DEF AskInv, Decodes, Rendering
    <3>2. CASE WorkerLoad
      <4>1. asked[wGen'].start = 1 /\ next' = 1
        BY <2>1, <2>2, <3>2 DEF AskInv, Asks, WorkerLoad, Receive
      <4> QED  BY <1>2, <3>1, <4>1 DEF First
    <3>3. CASE WorkerSetPos
      <4>1. PICK p : p = toWorker[1].pos /\ p = asked[wGen'].start
        BY <2>1, <2>2, <3>3 DEF AskInv, Asks, WorkerSetPos, Receive
      <4>2. next' = IF p <= Length[module'] THEN p ELSE Length[module'] + 1
        BY <2>2, <3>3, <4>1 DEF WorkerSetPos
      <4> QED  BY <1>2, <3>1, <4>1, <4>2 DEF First
    <3> QED  BY <1>4, <3>2, <3>3
  <2> QED  BY <1>1, <1>2, <1>3, <2>3, <2>4, OverStays, BeginsStays, PartsStay DEF Whole
<1>5. CASE WorkerStop \/ WorkerSetPosIgnored \/ OnPcmAck \/ WorkerDecodeSong
  <2>1. UNCHANGED wGen /\ (Rendering' => Rendering /\ UNCHANGED next)
    BY <1>5 DEF WorkerStop, WorkerSetPosIgnored, OnPcmAck, WorkerDecodeSong, worker, Rendering
  <2> QED  BY <1>1, <1>2, <1>3, <2>1, OverStays, BeginsStays, PartsStay DEF Whole
<1> QED  BY <1>4, <1>5 DEF WorkerMessage

LEMMA RenderWhole ==
  TypeOK /\ GensAhead /\ Flow /\ Over /\ Whole /\ Render => Over' /\ Whole'
<1> SUFFICES ASSUME TypeOK, GensAhead, Flow, Over, Whole, Render  PROVE Over' /\ Whole'
  OBVIOUS
<1>1. PICK c \in Packet : pcm' = Append(pcm, c) /\ c.gen = wGen /\ c.pos = next
  <2>1. \A e \in BOOLEAN : /\ Packets(e).gen = wGen /\ Packets(e).pos = next
                           /\ Packets(e) \in Packet
    BY DEF Packets, Packet, Chunk, TypeOK, WorkerOK
  <2> QED  BY <2>1 DEF Render, RenderChunk, RenderNothing
<1>2. /\ Rendering
      /\ UNCHANGED <<gen, cut, asked, wGen, playing, queue, read, currentGen, heard, eofPending, worklet>>
  BY DEF Render, RenderChunk, RenderNothing, Pumping, Rendering, main, worklet
<1>3. PICK L \in Nat : L = Len(pcm)
  BY PacketsAre
<1>4. /\ DOMAIN pcm = 1 .. L /\ DOMAIN pcm' = 1 .. L + 1
      /\ pcm'[L + 1] = c /\ \A i \in 1 .. L : pcm'[i] = pcm[i]
  BY <1>1, <1>3, PacketsAre, Appended
<1>5. Over'
  <2>1. ASSUME eofPending  PROVE wGen # currentGen /\ \A i \in 1 .. L + 1 : pcm'[i].gen # currentGen
    <3>1. wGen # currentGen /\ \A i \in 1 .. L : pcm'[i].gen # currentGen
      BY <1>2, <1>4, <2>1 DEF Over
    <3>2. \A i \in 1 .. L + 1 : i \in 1 .. L \/ i = L + 1
      OBVIOUS
    <3> QED  BY <1>1, <1>4, <3>1, <3>2
  <2> QED  BY <1>2, <1>4, <2>1 DEF Over
<1>6. Begins'
  <2>1. ASSUME NEW g \in 1 .. gen, Unopened(g), g \notin cut
        PROVE  /\ \A j \in 1 .. L + 1 :
                    pcm'[j].gen = g /\ (\A i \in 1 .. j - 1 : pcm'[i].gen # g) => pcm'[j].pos = First(g)
               /\ wGen = g => ~\A i \in 1 .. L + 1 : pcm'[i].gen # g
    <3>1. /\ \A j \in 1 .. L :
               pcm[j].gen = g /\ (\A i \in 1 .. j - 1 : pcm[i].gen # g) => pcm[j].pos = First(g)
          /\ wGen = g /\ (\A i \in 1 .. L : pcm[i].gen # g) => next = First(g)
      BY <1>2, <1>4, <2>1 DEF Whole, Begins
    <3>2. ASSUME NEW j \in 1 .. L + 1, pcm'[j].gen = g, \A i \in 1 .. j - 1 : pcm'[i].gen # g
          PROVE  pcm'[j].pos = First(g)
      <4>1. CASE j \in 1 .. L
        <5>1. \A i \in 1 .. j - 1 : i \in 1 .. L
          BY <4>1
        <5> QED  BY <1>4, <3>1, <3>2, <4>1, <5>1
      <4>2. CASE j = L + 1
        <5>1. \A i \in 1 .. L : pcm[i].gen # g
          BY <1>4, <3>2, <4>2
        <5> QED  BY <1>1, <1>4, <3>1, <3>2, <4>2, <5>1
      <4>3. j \in 1 .. L \/ j = L + 1
        OBVIOUS
      <4> QED  BY <4>1, <4>2, <4>3
    <3>3. wGen = g => ~\A i \in 1 .. L + 1 : pcm'[i].gen # g
      BY <1>1, <1>4
    <3> QED  BY <3>2, <3>3
  <2>2. \A g \in 1 .. gen : (Unopened(g)' <=> Unopened(g)) /\ First(g)' = First(g)
    BY <1>2 DEF Unopened, Begun, First
  <2> QED  BY <1>2, <1>4, <2>1, <2>2 DEF Begins
<1>7. Opening' /\ Closing'
  <2>1. (Begun' <=> Begun) /\ Onward' = Onward
    BY <1>2 DEF Begun, Onward
  <2>2. Opening'
    BY <1>2 DEF Whole, Opening
  <2>3. Closing'
    <3> HIDE DEF Begun, Onward
    <3> QED  BY <1>2, <2>1 DEF Whole, Closing
  <2> QED  BY <2>2, <2>3
<1> QED  BY <1>5, <1>6, <1>7 DEF Whole

\* What is taken off the port is not of a generation that has not been opened.
LEMMA BeginsArrive ==
  ASSUME TypeOK, Begins, Arrival,
         \A g \in 1 .. gen : Unopened(g)' => Unopened(g) /\ g # Head(pcm).gen
  PROVE  Begins'
<1>1. /\ UNCHANGED <<gen, cut, asked, wGen, playing, eof, next>>
      /\ pcm # <<>> /\ pcm' = Tail(pcm)
  BY DEF Arrival, main, worker
<1>2. PICK L \in Nat : L = Len(pcm) - 1
  BY <1>1, PacketsAre, Tailed
<1>3. /\ DOMAIN pcm = 1 .. L + 1 /\ DOMAIN pcm' = 1 .. L
      /\ \A i \in 1 .. L : pcm'[i] = pcm[i + 1]
      /\ Head(pcm) = pcm[1]
  BY <1>1, <1>2, PacketsAre, Tailed
<1>4. ASSUME NEW g \in 1 .. gen, Unopened(g)', g \notin cut
      PROVE  /\ \A j \in 1 .. L :
                  pcm'[j].gen = g /\ (\A i \in 1 .. j - 1 : pcm'[i].gen # g) => pcm'[j].pos = First(g)
             /\ Rendering /\ wGen = g /\ (\A i \in 1 .. L : pcm'[i].gen # g) => next = First(g)
  <2>1. /\ \A j \in 1 .. L + 1 :
             pcm[j].gen = g /\ (\A i \in 1 .. j - 1 : pcm[i].gen # g) => pcm[j].pos = First(g)
        /\ Rendering /\ wGen = g /\ (\A i \in 1 .. L + 1 : pcm[i].gen # g) => next = First(g)
    BY <1>3, <1>4 DEF Begins
  <2>2. pcm[1].gen # g
    BY <1>3, <1>4
  \* Up to any packet, the two ports agree on whether g has begun.
  <2>3. ASSUME NEW n \in 0 .. L, \A i \in 1 .. n : pcm'[i].gen # g
        PROVE  \A i \in 1 .. n + 1 : pcm[i].gen # g
    <3> TAKE i \in 1 .. n + 1
    <3>1. CASE i = 1
      BY <2>2, <3>1
    <3>2. CASE i # 1
      <4>1. i - 1 \in 1 .. n /\ i - 1 \in 1 .. L /\ (i - 1) + 1 = i
        BY <3>2
      <4> QED  BY <1>3, <2>3, <4>1
    <3> QED  BY <3>1, <3>2
  <2>4. ASSUME NEW j \in 1 .. L, pcm'[j].gen = g, \A i \in 1 .. j - 1 : pcm'[i].gen # g
        PROVE  pcm'[j].pos = First(g)
    <3>1. \A i \in 1 .. (j - 1) + 1 : pcm[i].gen # g
      <4>1. j - 1 \in 0 .. L
        OBVIOUS
      <4> QED  BY <2>3, <2>4, <4>1
    <3>2. j + 1 \in 1 .. L + 1 /\ (j + 1) - 1 = (j - 1) + 1 /\ pcm'[j] = pcm[j + 1]
      BY <1>3
    <3> QED  BY <2>1, <2>4, <3>1, <3>2
  <2>5. (\A i \in 1 .. L : pcm'[i].gen # g) => \A i \in 1 .. L + 1 : pcm[i].gen # g
    BY <2>3
  <2> QED  BY <2>1, <2>4, <2>5
<1>5. \A g : First(g)' = First(g)
  BY <1>1 DEF First
<1> QED  BY <1>1, <1>3, <1>4, <1>5 DEF Begins, Rendering

LEMMA OnPcmWhole ==
  ASSUME Causal, TypeOK, GensAhead, Flow, Over, Whole, OnPcm
  PROVE  Over' /\ Whole'
<1>1. /\ Arrival /\ pcm # <<>> /\ pcm' = Tail(pcm) /\ Head(pcm).gen <= currentGen
      /\ UNCHANGED <<gen, cut, asked, wGen, playing, eof, next, currentGen, heard>>
  BY DEF OnPcm, DropPacket, TakeEof, TakeChunk, Arrival, main, worker, worklet
<1>2. PICK L \in Nat : L = Len(pcm) - 1
  BY <1>1, PacketsAre, Tailed
<1>3. /\ DOMAIN pcm = 1 .. L + 1 /\ DOMAIN pcm' = 1 .. L
      /\ \A i \in 1 .. L : pcm'[i] = pcm[i + 1]
      /\ Head(pcm) = pcm[1] /\ 1 \in DOMAIN pcm /\ pcm[1].gen \in Nat /\ pcm[1].pos \in Nat
      /\ currentGen \in Int /\ gen \in Nat
  <2>1. pcm \in Seq(Packet) /\ DOMAIN pcm = 1 .. L + 1 /\ 1 \in DOMAIN pcm
    BY <1>1, <1>2, PacketsAre, Tailed
  <2>2. DOMAIN pcm' = 1 .. L /\ (\A i \in 1 .. L : pcm'[i] = pcm[i + 1]) /\ Head(pcm) = pcm[1]
    BY <1>1, <1>2, <2>1, Tailed
  <2>3. pcm[1].gen \in Nat /\ pcm[1].pos \in Nat
    BY <2>1, PacketsAre
  <2> QED  BY <2>1, <2>2, <2>3, NodeCallsAre
<1>4. CASE DropPacket
  <2>1. UNCHANGED <<queue, eofPending>> /\ pcm[1].gen # currentGen /\ (Begun' <=> Begun) /\ Onward' = Onward
    BY <1>3, <1>4 DEF DropPacket, worklet, Begun, Onward
  <2>2. Over'
    <3>1. \A i \in 1 .. L : i + 1 \in 1 .. L + 1
      OBVIOUS
    <3> QED  BY <1>1, <1>3, <2>1, <3>1 DEF Over, Rendering
  <2>3. Begins'
    <3>1. \A g \in 1 .. gen : Unopened(g)' => Unopened(g) /\ g # pcm[1].gen
      BY <1>1, <1>3, <2>1 DEF Unopened
    <3> QED  BY <1>1, <1>3, <3>1, BeginsArrive DEF Whole
  <2>4. Opening'
    BY <1>1, <2>1 DEF Whole, Opening
  <2>5. Closing'
    <3> HIDE DEF Begun, Onward
    <3> QED  BY <1>1, <2>1 DEF Whole, Closing
  <2> QED  BY <2>2, <2>3, <2>4, <2>5 DEF Whole
\* What arrives is the first of its generation, unless it has begun.
<1>5. CASE TakeEof \/ TakeChunk
  <2>1. pcm[1].gen = currentGen /\ ~eofPending
    BY <1>1, <1>3, <1>5 DEF Over, TakeEof, TakeChunk
  <2>2. Sound(pcm[1]) /\ currentGen \in 1 .. gen
    BY <1>3, <2>1, NodeCallsAre DEF Flow, Packs, Sound, GensAhead
  <2>3. ~Begun /\ currentGen \notin cut => pcm[1].pos = First(currentGen)
    <3>1. ~Begun => Unopened(currentGen)
      BY <1>3, <2>1 DEF Unopened
    <3>2. \A i \in 1 .. 1 - 1 : pcm[i].gen # currentGen
      OBVIOUS
    <3>3. ASSUME Unopened(currentGen), currentGen \notin cut
          PROVE  pcm[1].pos = First(currentGen)
      BY <1>3, <2>1, <2>2, <3>2, <3>3 DEF Whole, Begins
    <3> QED  BY <3>1, <3>3
  <2>4. Begun' \/ eofPending'
    <3>1. CASE TakeEof
      BY <3>1 DEF TakeEof
    <3>2. CASE TakeChunk
      <4>1. queue' = Append(queue, Head(pcm)) /\ ~Head(pcm).eof
        BY <3>2 DEF TakeChunk
      <4>2. Head(pcm) \in Chunk
        <5>1. Head(pcm) \in Packet
          BY <1>1, TailTyped DEF TypeOK, PortsOK
        <5> QED  BY <4>1, <5>1 DEF Packet
      <4>3. queue' \in Seq(Chunk) /\ Len(queue') = Len(queue) + 1 /\ Len(queue) \in Nat
        BY <4>1, <4>2, PacketsAre, Appended
      <4>4. queue' # <<>>
        BY <4>3, EmptySeq
      <4> QED  BY <4>4 DEF Begun
    <3> QED  BY <1>5, <3>1, <3>2
  <2>5. Begins'
    <3>1. \A g \in 1 .. gen : Unopened(g)' => Unopened(g) /\ g # pcm[1].gen
      BY <1>1, <1>3, <2>1, <2>4 DEF Unopened
    <3> QED  BY <1>1, <1>3, <3>1, BeginsArrive DEF Whole
  <2>6. PICK a : /\ a = asked[currentGen] /\ a.song \in Songs \ Unparsable
                 /\ Length[a.song] \in Nat /\ a.start \in Nat
    <3>1. asked[currentGen].song \in Songs \ Unparsable
      BY <2>1, <2>2 DEF Sound
    <3>2. asked[currentGen] \in [song: Songs \cup {None}, start: Nat]
      <4>1. asked \in Seq([song: Songs \cup {None}, start: Nat]) /\ Len(asked) = gen
        BY DEF TypeOK, MainOK
      <4> QED  BY <2>2, <4>1, ElementOfSeq
    <3> QED  BY <3>1, <3>2, ConstantsOK
  <2>7. First(currentGen) = IF a.start <= Length[a.song] THEN a.start ELSE Length[a.song] + 1
    BY <2>6 DEF First
  <2>8. CASE TakeEof
    <3>1. /\ pcm[1].eof /\ eofPending' /\ UNCHANGED queue /\ pcm[1].pos = Length[a.song] + 1
          /\ (Begun' <=> Begun) /\ Onward' = Onward
      BY <1>1, <1>3, <2>1, <2>2, <2>6, <2>8 DEF TakeEof, Sound, Begun, Onward
    <3>2. Over'
      <4>1. \A i \in 1 .. L : i + 1 \in 1 .. L + 1 /\ 1 < i + 1
        OBVIOUS
      <4>2. \A i \in 1 .. L : pcm'[i].gen # currentGen
        <5> TAKE i \in 1 .. L
        <5>1. pcm[1].gen = pcm[i + 1].gen => ~pcm[1].eof
          BY <1>3, <4>1 DEF Flow, Packs, InOrder
        <5> QED  BY <1>3, <2>1, <3>1, <5>1
      <4>3. ~(Rendering /\ wGen = currentGen)
        BY <1>3, <2>1, <3>1 DEF Flow, Packs, InOrder
      <4>4. 1 <= currentGen /\ currentGen <= wGen
        BY <2>1, <2>2 DEF Sound
      <4> QED  BY <1>1, <1>3, <4>2, <4>3, <4>4 DEF Over, Rendering
    <3>3. Opening'
      BY <1>1, <3>1 DEF Whole, Opening
    <3>4. Begun => Onward = Length[a.song] + 1
      <4>1. Begun => pcm[1].pos = Onward + 1 - 1
        BY <1>3, <2>1 DEF Flow, Gapless
      <4>2. Onward \in Int
        <5>1. queue # <<>> => 1 \in DOMAIN queue
          BY PacketsAre, EmptySeq
        <5> QED  BY <5>1, PacketsAre DEF Onward, TypeOK, WorkletOK
      <4> HIDE DEF Onward
      <4> QED  BY <3>1, <4>1, <4>2
    <3>5. ~Begun /\ currentGen \notin cut => a.start > Length[a.song]
      <4>1. ~Begun /\ currentGen \notin cut => First(currentGen) = Length[a.song] + 1
        BY <2>3, <3>1
      <4> HIDE DEF First
      <4> QED  BY <2>6, <2>7, <4>1
    <3>6. Closing'
      <4> HIDE DEF Begun, Onward
      <4> QED  BY <1>1, <2>6, <3>1, <3>4, <3>5 DEF Closing
    <3> QED  BY <2>5, <3>2, <3>3, <3>6 DEF Whole
  <2>9. CASE TakeChunk
    <3>1. queue' = Append(queue, Head(pcm)) /\ ~Head(pcm).eof /\ ~eofPending'
      BY <2>1, <2>9 DEF TakeChunk
    <3>2. Head(pcm) \in Chunk
      <4>1. Head(pcm) \in Packet
        BY <1>1, TailTyped DEF TypeOK, PortsOK
      <4> QED  BY <3>1, <4>1 DEF Packet
    <3>3. /\ \A i \in 1 .. Len(queue) : queue'[i] = queue[i]
          /\ queue'[Len(queue) + 1] = pcm[1] /\ Len(queue) \in Nat
          /\ queue = <<>> <=> Len(queue) = 0
      BY <1>3, <3>1, <3>2, PacketsAre, Appended, EmptySeq
    <3>4. ASSUME currentGen \notin cut, heard = 0  PROVE queue'[1].pos = a.start
      <4>1. CASE queue # <<>>
        <5>1. queue'[1] = queue[1]
          BY <3>3, <4>1
        <5> QED  BY <2>6, <3>4, <4>1, <5>1 DEF Whole, Opening
      <4>2. CASE queue = <<>>
        <5>1. queue'[1] = pcm[1] /\ pcm[1].pos = First(currentGen)
          BY <2>3, <3>3, <3>4, <4>2 DEF Begun
        <5>2. pcm[1].pos <= Length[a.song]
          BY <1>3, <2>1, <2>2, <2>6, <3>1 DEF Sound
        <5> HIDE DEF First
        <5> QED  BY <2>6, <2>7, <5>1, <5>2
      <4> QED  BY <4>1, <4>2
    <3>5. Opening'
      BY <1>1, <2>6, <3>4 DEF Opening
    <3>6. Over' /\ Closing'
      BY <3>1 DEF Over, Closing
    <3> QED  BY <2>5, <3>5, <3>6 DEF Whole
  <2> QED  BY <1>5, <2>8, <2>9
<1> QED  BY <1>4, <1>5 DEF OnPcm

\* What drains does not change what is due.
LEMMA ProcessWhole ==
  ASSUME TypeOK, Flow, Over, Whole, Process
  PROVE  Over' /\ Whole'
<1>1. /\ UNCHANGED <<gen, cut, asked, wGen, playing, eof, next, currentGen, eofPending, pcm>>
  BY DEF Process, PlayPart, FinishChunk, RunDry, DrainHead, main, worker, ports
<1>2. Over'
  BY <1>1 DEF Over, Rendering
<1>3. CASE RunDry
  <2>1. UNCHANGED <<queue, heard>>
    BY <1>3 DEF RunDry
  <2>2. (Begun' <=> Begun) /\ Onward' = Onward
    BY <2>1 DEF Begun, Onward
  <2>3. Begins'
    <3>1. \A g \in 1 .. gen : (Unopened(g)' <=> Unopened(g)) /\ First(g)' = First(g)
      BY <1>1, <2>2 DEF Unopened, First
    <3> QED  BY <1>1, <3>1 DEF Whole, Begins, Rendering
  <2>4. Opening'
    BY <1>1, <2>1 DEF Whole, Opening
  <2>5. Closing'
    <3> HIDE DEF Begun, Onward
    <3> QED  BY <1>1, <2>2 DEF Whole, Closing
  <2> QED  BY <1>2, <2>3, <2>4, <2>5 DEF Whole
<1>4. CASE PlayPart \/ FinishChunk
  <2>1. /\ DrainHead
        /\ \/ UNCHANGED queue /\ read' = read + 1 /\ read \in Nat
           \/ queue' = Tail(queue) /\ read' = 0
    BY <1>4 DEF PlayPart, FinishChunk, TypeOK, WorkletOK
  <2>2. heard' # 0 /\ Onward' = Onward /\ Begun /\ Begun'
    BY <2>1, DrainFlow DEF Begun, DrainHead
  <2>3. Begins'
    <3>1. \A g \in 1 .. gen : (Unopened(g)' => Unopened(g)) /\ First(g)' = First(g)
      BY <1>1, <2>2 DEF Unopened, First
    <3> QED  BY <1>1, <3>1 DEF Whole, Begins, Rendering
  <2>4. Opening'
    BY <2>2 DEF Opening
  <2>5. Closing'
    <3> HIDE DEF Begun, Onward
    <3> QED  BY <1>1, <2>2 DEF Whole, Closing
  <2> QED  BY <1>2, <2>3, <2>4, <2>5 DEF Whole
<1> QED  BY <1>3, <1>4 DEF Process

\* The flush opens a generation that has not begun, or one that was stopped.
LEMMA FlushWhole ==
  ASSUME TypeOK, FlushAhead, Over, Whole, NodeFlush
  PROVE  FlushAhead' /\ Over' /\ Whole'
<1>1. /\ toNode # <<>> /\ toNode' = Tail(toNode) /\ Head(toNode).cmd = "flush"
      /\ currentGen' = Head(toNode).gen /\ queue' = <<>> /\ heard' = 0 /\ eofPending' = FALSE
      /\ UNCHANGED <<gen, cut, asked, wGen, playing, eof, next, pcm>>
  BY DEF NodeFlush, Control, main, worker
<1>2. FlushAhead'
  BY <1>1, FlushTaken
<1>3. /\ currentGen' \in Nat /\ currentGen \in Int /\ gen \in Nat
      /\ currentGen < currentGen' \/ (currentGen = currentGen' /\ currentGen \in cut)
  <2>1. Head(toNode) = toNode[1] /\ 1 \in DOMAIN toNode
    BY <1>1, NodeCallsAre, Tailed
  <2> QED  BY <1>1, <2>1, NodeCallsAre DEF FlushAhead
<1>4. Over' /\ Opening' /\ Closing'
  BY <1>1 DEF Over, Opening, Closing
<1>5. ASSUME NEW g \in 1 .. gen, Unopened(g)', g \notin cut  PROVE Unopened(g) /\ First(g)' = First(g)
  <2>1. currentGen' <= g
    BY <1>3, <1>5 DEF Unopened
  <2>2. currentGen < g
    BY <1>3, <1>5, <2>1
  <2> QED  BY <1>1, <2>2 DEF Unopened, First
<1>6. Begins'
  BY <1>1, <1>5 DEF Whole, Begins, Rendering
<1> QED  BY <1>2, <1>4, <1>6 DEF Whole

LEMMA IdleWhole ==
  ASSUME Over, Whole,
         UNCHANGED <<gen, cut, asked, wGen, playing, eof, next, currentGen, eofPending, pcm,
                     queue, heard>>
  PROVE  Over' /\ Whole'
<1>1. (Begun' <=> Begun) /\ Onward' = Onward /\ \A g : First(g)' = First(g)
  BY DEF Begun, Onward, First
<1>2. Over'
  BY DEF Over, Rendering
<1>3. Begins'
  <2>1. \A g : Unopened(g)' <=> Unopened(g)
    BY <1>1 DEF Unopened
  <2> HIDE DEF First
  <2> QED  BY <1>1, <2>1 DEF Whole, Begins, Rendering
<1>4. Opening'
  BY DEF Whole, Opening
<1>5. Closing'
  <2> HIDE DEF Begun, Onward
  <2> QED  BY <1>1 DEF Whole, Closing
<1> QED  BY <1>2, <1>3, <1>4, <1>5 DEF Whole

-----------------------------------------------------------------------------
(* Every step of the pipeline is a step of PcmStream, or none.             *)

SStep == [Stream!StreamNext]_(Stream!svars)

LEMMA Stutters == UNCHANGED <<asked, cut, currentGen, heard, ends>> => SStep
  BY DEF SStep, Stream!svars

\* A call is a stream asked for, or a cut.
LEMMA MainRefines == TypeOK /\ Main => SStep
<1> SUFFICES ASSUME TypeOK, Main  PROVE SStep
  OBVIOUS
<1>1. ASSUME NEW s \in Songs, Play(s)  PROVE SStep
  <2>1. Stream!Ask(s, 1)
    BY <1>1 DEF Play, worklet, Stream!Ask
  <2> QED  BY <2>1 DEF SStep, Stream!StreamNext
<1>2. ASSUME NEW p \in Seeks, SetPos(p)  PROVE SStep
  <2>1. Loaded \in Songs \cup {None}
    <3>1. gen \in Nat /\ asked \in Seq([song: Songs \cup {None}, start: Nat]) /\ Len(asked) = gen
      BY NodeCallsAre DEF TypeOK, MainOK
    <3>2. gen # 0 => asked[gen] \in [song: Songs \cup {None}, start: Nat]
      <4>1. gen # 0 => gen \in 1 .. Len(asked)
        BY <3>1
      <4> QED  BY <3>1, <4>1, ElementOfSeq
    <3> QED  BY <3>2 DEF Loaded
  <2>2. Stream!Ask(Loaded, p)
    BY <1>2 DEF SetPos, worklet, Stream!Ask
  <2> QED  BY <2>1, <2>2 DEF SStep, Stream!StreamNext
<1>3. ASSUME Stop  PROVE SStep
  <2>1. Stream!Cut
    BY <1>3 DEF Stop, worklet, TypeOK, MainOK, Stream!Cut
  <2> QED  BY <2>1 DEF SStep, Stream!StreamNext
<1>4. ASSUME NEW s \in Decoded, DecodeSong(s)  PROVE SStep
  BY <1>4, Stutters DEF DecodeSong, main, worklet
<1>5. ASSUME NEW cmd \in PauseCalls, PauseCall(cmd)  PROVE SStep
  BY <1>5, Stutters DEF PauseCall, main, worklet
<1> QED  BY <1>1, <1>2, <1>3, <1>4, <1>5 DEF Main

\* The worker and what arrives are not heard.
LEMMA SilentRefines == Worker \/ NodePause \/ OnPcm => SStep
<1>1. Worker => SStep
  BY Stutters DEF Worker, Render, RenderChunk, RenderNothing, WorkerMessage, WorkerLoad, WorkerStop,
     WorkerSetPos, WorkerSetPosIgnored, WorkerDecodeSong, Receive, OnPcmAck, main, worklet
<1>2. NodePause => SStep
  BY Stutters DEF NodePause, Control, main
<1>3. OnPcm => SStep
  BY Stutters DEF OnPcm, DropPacket, TakeEof, TakeChunk, Arrival, main, worklet
<1> QED  BY <1>1, <1>2, <1>3

LEMMA FlushRefines == TypeOK /\ FlushAhead /\ NodeFlush => SStep
<1> SUFFICES ASSUME TypeOK, FlushAhead, NodeFlush  PROVE SStep
  OBVIOUS
<1>1. /\ toNode # <<>> /\ Head(toNode).cmd = "flush" /\ currentGen' = Head(toNode).gen
      /\ heard' = 0 /\ UNCHANGED <<asked, cut, ends>>
  BY DEF NodeFlush, Control, main
<1>2. Head(toNode) = toNode[1] /\ 1 \in DOMAIN toNode
  BY <1>1, NodeCallsAre, Tailed
<1>3. /\ currentGen' \in 0 .. gen /\ Len(asked) = gen
      /\ currentGen' > currentGen \/ (currentGen' = currentGen /\ currentGen' \in cut)
  BY <1>1, <1>2, NodeCallsAre DEF FlushAhead, TypeOK, MainOK
<1>4. PICK g \in 0 .. Len(asked) : g = currentGen'
  BY <1>3
<1>5. Stream!Open(g)
  BY <1>1, <1>3, <1>4 DEF Stream!Open
<1> QED  BY <1>5 DEF SStep, Stream!StreamNext

\* An end that is reported is one of the generation being heard.
LEMMA EndedBy ==
  ASSUME TypeOK, currentGen \in Gens, NEW left, ReportEnd(left)
  PROVE  /\ {g \in Gens : ends'[g] > 0} \in
              {{g \in Gens : ends[g] > 0}, {g \in Gens : ends[g] > 0} \cup {currentGen}}
         /\ {g \in Gens : ends'[g] > 0} # {g \in Gens : ends[g] > 0} => left = <<>> /\ eofPending
<1>1. CASE UNCHANGED <<endSent, ends>>
  BY <1>1
<1>2. CASE left = <<>> /\ eofPending /\ ends' = [ends EXCEPT ![currentGen] = @ + 1]
  <2>1. \A g \in Gens : ends[g] \in Nat /\ ends'[g] = IF g = currentGen THEN ends[g] + 1 ELSE ends[g]
    BY <1>2 DEF TypeOK, WorkletOK
  <2>2. \A g \in Gens : ends'[g] > 0 <=> ends[g] > 0 \/ g = currentGen
    BY <2>1
  <2> QED  BY <1>2, <2>2
<1> QED  BY <1>1, <1>2 DEF ReportEnd

\* What a quantum plays is listened to.
LEMMA ProcessRefines ==
  ASSUME TypeOK, GensAhead, Flow, Over, Whole, Process
  PROVE  SStep
<1> DEFINE E == {g \in Gens : ends[g] > 0}
           E1 == {g \in Gens : ends'[g] > 0}
<1>1. UNCHANGED <<asked, cut, currentGen>>
  BY DEF Process, PlayPart, FinishChunk, RunDry, DrainHead, main, worker, ports
<1>2. Begun \/ eofPending => currentGen \in 1 .. gen /\ Len(asked) = gen /\ currentGen \in Gens
  <2>1. Begun \/ eofPending => 1 <= currentGen /\ currentGen <= wGen
    BY DEF Flow, Gapless, Over
  <2> QED  BY <2>1, NodeCallsAre, ConstantsOK DEF GensAhead, TypeOK, MainOK, Gens
<1>3. ASSUME currentGen \in 1 .. Len(asked),
             heard' \in {heard} \cup Stream!Onward(asked[currentGen]),
             E1 \in {E, E \cup {currentGen}},
             E1 # E => \/ currentGen \in cut
                       \/ heard' = Length[asked[currentGen].song]
                       \/ asked[currentGen].start > Length[asked[currentGen].song]
      PROVE  SStep
  <2>1. Stream!Listen
    BY <1>1, <1>3 DEF Stream!Listen
  <2> QED  BY <2>1 DEF SStep, Stream!StreamNext
<1>4. CASE PlayPart \/ FinishChunk
  <2>1. PICK p \in Nat : p = queue[1].pos
    <3>1. queue # <<>> /\ 1 \in DOMAIN queue
      BY <1>4, PacketsAre, EmptySeq DEF PlayPart, FinishChunk, DrainHead
    <3> QED  BY <3>1, PacketsAre
  <2>2. /\ queue # <<>> /\ heard' = p /\ 1 \in DOMAIN queue /\ queue \in Seq(Chunk)
    <3>1. queue # <<>> /\ heard' = Head(queue).pos
      BY <1>4 DEF PlayPart, FinishChunk, DrainHead
    <3> QED  BY <2>1, <3>1, PacketsAre, Tailed
  <2>3. /\ asked[currentGen].song \in Songs \ Unparsable
        /\ p \in 1 .. Length[asked[currentGen].song]
        /\ heard # 0 => p = heard \/ p = heard + 1
        /\ heard = 0 => p >= asked[currentGen].start
    <3>1. Sound(queue[1]) /\ queue[1].gen = currentGen /\ ~queue[1].eof
      BY <2>2, PacketsAre DEF Flow, Packs, Queued
    <3>2. heard # 0 => p = heard + (IF read = 0 THEN 1 ELSE 0)
      BY <2>1, <2>2 DEF Flow, Queued
    <3>3. heard # 0 => p = heard \/ p = heard + 1
      BY <3>2 DEF TypeOK, WorkletOK
    <3>4. /\ asked[currentGen].song \in Songs \ Unparsable
          /\ p >= 1 /\ p <= Length[asked[currentGen].song] /\ p >= asked[currentGen].start
      BY <2>1, <3>1 DEF Sound
    <3>5. Length[asked[currentGen].song] \in Nat
      BY <3>4, ConstantsOK
    <3> QED  BY <3>3, <3>4, <3>5
  <2>4. heard = 0 /\ currentGen \notin cut => p = asked[currentGen].start
    BY <2>1, <2>2 DEF Whole, Opening
  <2>5. heard = 0 => p = asked[currentGen].start \/ (currentGen \in cut /\ p > asked[currentGen].start)
    <3>1. asked[currentGen].start \in Nat
      <4>1. currentGen \in 1 .. Len(asked) /\ asked \in Seq([song: Songs \cup {None}, start: Nat])
        BY <1>2, <2>2 DEF Begun, TypeOK, MainOK
      <4>2. asked[currentGen] \in [song: Songs \cup {None}, start: Nat]
        BY <4>1, ElementOfSeq
      <4> QED  BY <4>2
    <3> QED  BY <2>3, <2>4, <3>1
  <2>6. heard' \in {heard} \cup Stream!Onward(asked[currentGen])
    BY <2>2, <2>3, <2>5 DEF Stream!Onward
  <2>7. currentGen \in 1 .. Len(asked) /\ currentGen \in Gens
    BY <1>2, <2>2 DEF Begun
  <2>8. CASE PlayPart
    <3>1. E1 = E
      BY <2>8 DEF PlayPart
    <3> QED  BY <1>3, <2>6, <2>7, <3>1
  <2>9. CASE FinishChunk
    <3>1. ReportEnd(Tail(queue))
      BY <2>9 DEF FinishChunk
    <3>2. E1 \in {E, E \cup {currentGen}} /\ (E1 # E => Tail(queue) = <<>> /\ eofPending)
      BY <2>7, <3>1, EndedBy
    <3>3. ASSUME Tail(queue) = <<>>, eofPending, currentGen \notin cut
          PROVE  heard' = Length[asked[currentGen].song]
      <4>1. Len(queue) = 1
        <5>1. Len(queue) \in Nat /\ Len(Tail(queue)) = Len(queue) - 1
          BY <2>2, Tailed
        <5>2. Len(Tail(queue)) = 0
          BY <3>3
        <5> QED  BY <5>1, <5>2
      <4>2. Begun /\ Onward = p + 1
        BY <2>1, <2>2, <4>1 DEF Begun, Onward
      <4>3. Onward = Length[asked[currentGen].song] + 1
        BY <3>3, <4>2 DEF Whole, Closing
      <4>4. Length[asked[currentGen].song] \in Nat
        BY <2>3, ConstantsOK
      <4> HIDE DEF Onward
      <4> QED  BY <2>2, <4>2, <4>3, <4>4
    <3> HIDE DEF E, E1
    <3> QED  BY <1>3, <2>6, <2>7, <3>2, <3>3
  <2> QED  BY <1>4, <2>8, <2>9
<1>5. CASE RunDry
  <2>1. queue = <<>> /\ UNCHANGED heard /\ ReportEnd(queue)
    BY <1>5 DEF RunDry
  <2>2. CASE eofPending
    <3>1. currentGen \in 1 .. Len(asked) /\ currentGen \in Gens
      BY <1>2, <2>2
    <3>2. E1 \in {E, E \cup {currentGen}}
      BY <2>1, <3>1, EndedBy
    <3>3. ASSUME currentGen \notin cut
          PROVE  \/ heard = Length[asked[currentGen].song]
                 \/ asked[currentGen].start > Length[asked[currentGen].song]
      <4>1. CASE heard # 0
        <5>1. Begun /\ Onward = heard + 1
          BY <2>1, <4>1 DEF Begun, Onward
        <5>2. Onward = Length[asked[currentGen].song] + 1 /\ Length[asked[currentGen].song] \in Nat
          BY <2>2, <3>3, <5>1, ConstantsOK DEF Whole, Closing
        <5>3. heard \in Nat
          BY DEF TypeOK, WorkletOK
        <5> HIDE DEF Onward
        <5> QED  BY <5>1, <5>2, <5>3
      <4>2. CASE heard = 0
        BY <2>1, <2>2, <3>3, <4>2 DEF Begun, Whole, Closing
      <4> QED  BY <4>1, <4>2
    <3> HIDE DEF E, E1
    <3> QED  BY <1>3, <2>1, <3>1, <3>2, <3>3
  <2>3. CASE ~eofPending
    BY <1>1, <2>1, <2>3, Stutters DEF ReportEnd
  <2> QED  BY <2>2, <2>3
<1> QED  BY <1>4, <1>5 DEF Process

WholeInv == FlushAhead /\ Over /\ Whole

LEMMA WholeKept == ASSUME Causal PROVE Spec => []WholeInv
<1>1. Init => WholeInv
  <2> SUFFICES ASSUME Init  PROVE WholeInv
    OBVIOUS
  <2>1. DOMAIN toNode = {} /\ currentGen = -1 /\ gen = 0 /\ 1 .. gen = {}
    BY DEF Init
  <2>2. FlushAhead /\ Over /\ Begins
    BY <2>1 DEF Init, FlushAhead, Over, Begins
  <2>3. Opening /\ Closing
    BY DEF Init, Opening, Closing
  <2> QED  BY <2>2, <2>3 DEF WholeInv, Whole
<1>2. WholeInv /\ StreamInv /\ StreamInv' /\ CreditInv /\ [Next]_vars => WholeInv'
  <2> SUFFICES ASSUME WholeInv, StreamInv, StreamInv', CreditInv, [Next]_vars  PROVE WholeInv'
    OBVIOUS
  <2>1. /\ TypeOK /\ GensAhead /\ AskInv /\ AskInv' /\ Flow
        /\ FlushAhead /\ Over /\ Whole
    BY DEF CreditInv, StreamInv, WholeInv
  <2>2. ASSUME UNCHANGED <<gen, cut, currentGen, toNode>>  PROVE FlushAhead'
    BY <2>1, <2>2 DEF FlushAhead
  <2>3. CASE UNCHANGED vars
    BY <2>1, <2>2, <2>3, IdleWhole DEF vars, main, ports, worker, worklet, WholeInv
  <2>4. CASE Main
    BY <2>1, <2>4, MainFlushes, MainWhole DEF WholeInv
  <2>5. CASE Render
    <3>1. UNCHANGED <<gen, cut, currentGen, toNode>>
      BY <2>5 DEF Render, RenderChunk, RenderNothing, main, worklet
    <3> QED  BY <2>1, <2>2, <2>5, <3>1, RenderWhole DEF WholeInv
  <2>6. CASE WorkerMessage \/ OnPcmAck
    <3>1. UNCHANGED <<gen, cut, currentGen, toNode>>
      BY <2>6 DEF WorkerMessage, WorkerLoad, WorkerStop, WorkerSetPos, WorkerSetPosIgnored,
                  WorkerDecodeSong, Receive, OnPcmAck, main, worklet
    <3> QED  BY <2>1, <2>2, <2>6, <3>1, WorkerWhole DEF WholeInv
  <2>7. CASE NodeFlush
    BY <2>1, <2>7, FlushWhole DEF WholeInv
  <2>8. CASE NodePause
    <3>1. /\ toNode # <<>> /\ toNode' = Tail(toNode) /\ Head(toNode).cmd # "flush"
          /\ UNCHANGED <<gen, cut, asked, wGen, playing, eof, next, currentGen, eofPending, pcm,
                         queue, heard>>
      BY <2>8 DEF NodePause, Control, main, worker
    <3> QED  BY <2>1, <3>1, FlushTaken, IdleWhole DEF WholeInv
  <2>9. CASE OnPcm
    <3>1. UNCHANGED <<gen, cut, currentGen, toNode>>
      BY <2>9 DEF OnPcm, DropPacket, TakeEof, TakeChunk, Arrival, main, worklet
    <3> QED  BY <2>1, <2>2, <2>9, <3>1, OnPcmWhole DEF WholeInv
  <2>10. CASE Process
    <3>1. UNCHANGED <<gen, cut, currentGen, toNode>>
      BY <2>10 DEF Process, PlayPart, FinishChunk, RunDry, DrainHead, main, ports
    <3> QED  BY <2>1, <2>2, <2>10, <3>1, ProcessWhole DEF WholeInv
  <2> QED  BY <2>3, <2>4, <2>5, <2>6, <2>7, <2>8, <2>9, <2>10 DEF Next, Worker, Worklet
<1> QED  BY <1>1, <1>2, StreamKept, CreditKept, PTL DEF Spec

(* If a flush overtakes no chunk, the worker, the worklet and their ports    *)
(* together implement PcmStream, for every song, credit and number of        *)
(* generations: the streams asked for are heard in order, each from its      *)
(* start, gapless, and ended only after the last chunk or a stop.            *)
THEOREM PipelineIsStream == ASSUME Causal PROVE Spec => ImplementsStream
<1>1. Init => Stream!StreamInit
  BY DEF Init, Stream!StreamInit
<1>2. WholeInv /\ StreamInv /\ CreditInv /\ [Next]_vars => [Stream!StreamNext]_(Stream!svars)
  <2> SUFFICES ASSUME WholeInv, StreamInv, CreditInv, [Next]_vars  PROVE SStep
    BY DEF SStep
  <2>1. /\ TypeOK /\ GensAhead /\ Flow /\ FlushAhead /\ Over /\ Whole
    BY DEF CreditInv, StreamInv, WholeInv
  <2>2. CASE UNCHANGED vars
    BY <2>2, Stutters DEF vars, main, worklet
  <2>3. CASE Next
    BY <2>1, <2>3, MainRefines, SilentRefines, FlushRefines, ProcessRefines DEF Next, Worklet
  <2> QED  BY <2>2, <2>3
<1> QED
  BY <1>1, <1>2, WholeKept, StreamKept, CreditKept, PTL
  DEF Spec, ImplementsStream, Stream!StreamSpec

-----------------------------------------------------------------------------
(* No credit leaks.  A second flush of a generation, which would empty the  *)
(* queue of it, is a stop(), and the worker has seen, or will see, that     *)
(* stop before it spends a credit on anything else.                         *)

\* Every load and seek behind the k-th call is of a generation after g.
OpensPast(k, g) == \A i \in DOMAIN toWorker : i > k /\ Opens(toWorker[i]) => toWorker[i].gen > g

\* The worker is past generation g, stopped since, or about to be.
Silenced(g) ==
  \/ g < wGen
  \/ WorkerStopped /\ OpensPast(0, g)
  \/ \E k \in DOMAIN toWorker : toWorker[k].cmd = "stop" /\ OpensPast(k, g)

\* The n-th message at the worklet flushes a generation that was flushed before.
Again(n) ==
  /\ toNode[n].cmd = "flush"
  /\ \/ toNode[n].gen = currentGen
     \/ \E j \in 1 .. n - 1 : toNode[j].cmd = "flush" /\ toNode[j].gen = toNode[n].gen

StopsWith == \A n \in DOMAIN toNode : Again(n) => Silenced(toNode[n].gen)

\* Every credit spent is on its way, in the queue, or acked.
Spent ==
  ~WorkerStopped /\ currentGen <= wGen /\ (\A i \in DOMAIN toWorker : toWorker[i].cmd # "stop") =>
    Count(pcm, wGen) + Count(queue, wGen) + Count(acks, wGen) = inflight

\* A call that is posted opens nothing old.
LEMMA SilencedPost ==
  ASSUME TypeOK, NEW g \in Nat, NEW c \in WorkerCall, toWorker' = Append(toWorker, c),
         UNCHANGED worker, Opens(c) => c.gen > g, Silenced(g) \/ c.cmd = "stop"
  PROVE  Silenced(g)'
<1>1. PICK L \in Nat : L = Len(toWorker)
  BY CallsAre
<1>2. /\ DOMAIN toWorker = 1 .. L /\ DOMAIN toWorker' = 1 .. L + 1 /\ toWorker'[L + 1] = c
      /\ \A i \in 1 .. L : toWorker'[i] = toWorker[i]
  BY <1>1, CallsAre, Appended
<1>3. UNCHANGED <<wGen, playing, eof>>
  BY DEF worker
<1>4. ASSUME NEW k \in Nat, OpensPast(k, g)  PROVE OpensPast(k, g)'
  <2>1. ASSUME NEW i \in 1 .. L + 1, i > k, Opens(toWorker'[i])  PROVE toWorker'[i].gen > g
    <3>1. CASE i \in 1 .. L
      BY <1>2, <1>4, <2>1, <3>1 DEF OpensPast
    <3>2. CASE i = L + 1
      BY <1>2, <2>1, <3>2
    <3>3. i \in 1 .. L \/ i = L + 1
      OBVIOUS
    <3> QED  BY <3>1, <3>2, <3>3
  <2> QED  BY <1>2, <2>1 DEF OpensPast
<1>5. CASE g < wGen \/ (WorkerStopped /\ OpensPast(0, g))
  BY <1>3, <1>4, <1>5 DEF Silenced, WorkerStopped
<1>6. ASSUME NEW k \in DOMAIN toWorker, toWorker[k].cmd = "stop", OpensPast(k, g)
      PROVE  Silenced(g)'
  BY <1>2, <1>4, <1>6 DEF Silenced
<1>7. CASE c.cmd = "stop"
  <2>1. OpensPast(L + 1, g)'
    BY <1>2 DEF OpensPast
  <2> QED  BY <1>2, <1>7, <2>1 DEF Silenced
<1> QED  BY <1>5, <1>6, <1>7 DEF Silenced

\* A call that is taken is the stop, or opens a later generation, or changes nothing.
LEMMA SilencedTake ==
  ASSUME TypeOK, GensAhead, NEW g \in Nat, WorkerMessage, Silenced(g)
  PROVE  Silenced(g)'
<1>1. toWorker # <<>> /\ toWorker' = Tail(toWorker)
  BY DEF WorkerMessage, WorkerLoad, WorkerStop, WorkerSetPos, WorkerSetPosIgnored,
         WorkerDecodeSong, Receive
<1>2. PICK L \in Nat : L = Len(toWorker) - 1
  <2>1. Len(toWorker) \in Nat \ {0}
    BY <1>1, CallsAre, Tailed
  <2> QED  BY <2>1
<1>3. /\ DOMAIN toWorker = 1 .. L + 1 /\ DOMAIN toWorker' = 1 .. L
      /\ \A i \in 1 .. L : toWorker'[i] = toWorker[i + 1] /\ i + 1 \in 1 .. L + 1
      /\ Head(toWorker) = toWorker[1] /\ 1 \in DOMAIN toWorker /\ wGen \in Nat
  BY <1>1, <1>2, CallsAre, Tailed, NodeCallsAre
<1>4. ASSUME NEW k \in Nat, OpensPast(k + 1, g)  PROVE OpensPast(k, g)'
  <2>1. \A i \in 1 .. L : i > k => i + 1 > k + 1
    OBVIOUS
  <2> QED  BY <1>3, <1>4, <2>1 DEF OpensPast
<1>5. OpensPast(0, g) => OpensPast(1, g) /\ (Opens(toWorker[1]) => toWorker[1].gen > g)
  BY <1>3 DEF OpensPast
<1>6. CASE WorkerLoad \/ WorkerSetPos
  <2>1. wGen' = toWorker[1].gen /\ Opens(toWorker[1]) /\ wGen' \in Nat /\ wGen < wGen'
    BY <1>3, <1>6, CallsAre, ConstantsOK
       DEF WorkerLoad, WorkerSetPos, Receive, Restart, Opens, GensAhead, Gens
  <2>2. CASE g < wGen \/ (WorkerStopped /\ OpensPast(0, g))
    BY <1>3, <1>5, <2>1, <2>2 DEF Silenced
  <2>3. ASSUME NEW k \in DOMAIN toWorker, toWorker[k].cmd = "stop", OpensPast(k, g)
        PROVE  Silenced(g)'
    <3>1. k # 1
      BY <2>1, <2>3 DEF Opens
    <3>2. k - 1 \in 1 .. L /\ (k - 1) + 1 = k
      BY <1>3, <3>1
    <3>3. toWorker'[k - 1].cmd = "stop" /\ OpensPast(k - 1, g)'
      BY <1>3, <1>4, <2>3, <3>2
    <3> QED  BY <1>3, <3>2, <3>3 DEF Silenced
  <2> QED  BY <2>2, <2>3 DEF Silenced
<1>7. CASE WorkerStop
  <2>1. UNCHANGED wGen /\ WorkerStopped' /\ toWorker[1].cmd = "stop"
    BY <1>3, <1>7 DEF WorkerStop, WorkerStopped, Receive
  <2>2. CASE g < wGen \/ (WorkerStopped /\ OpensPast(0, g))
    BY <1>4, <1>5, <2>1, <2>2 DEF Silenced
  <2>3. ASSUME NEW k \in DOMAIN toWorker, toWorker[k].cmd = "stop", OpensPast(k, g)
        PROVE  Silenced(g)'
    <3>1. CASE k = 1
      BY <1>4, <2>1, <2>3, <3>1 DEF Silenced
    <3>2. CASE k # 1
      <4>1. k - 1 \in 1 .. L /\ (k - 1) + 1 = k
        BY <1>3, <3>2
      <4>2. toWorker'[k - 1].cmd = "stop" /\ OpensPast(k - 1, g)'
        BY <1>3, <1>4, <2>3, <4>1
      <4> QED  BY <1>3, <4>1, <4>2 DEF Silenced
    <3> QED  BY <3>1, <3>2
  <2> QED  BY <2>2, <2>3 DEF Silenced
<1>8. CASE WorkerSetPosIgnored \/ WorkerDecodeSong
  <2>1. UNCHANGED <<wGen, playing, eof>> /\ toWorker[1].cmd # "stop"
    BY <1>3, <1>8 DEF WorkerSetPosIgnored, WorkerDecodeSong, Receive, worker
  <2>2. CASE g < wGen \/ (WorkerStopped /\ OpensPast(0, g))
    BY <1>4, <1>5, <2>1, <2>2 DEF Silenced, WorkerStopped
  <2>3. ASSUME NEW k \in DOMAIN toWorker, toWorker[k].cmd = "stop", OpensPast(k, g)
        PROVE  Silenced(g)'
    <3>1. k - 1 \in 1 .. L /\ (k - 1) + 1 = k
      BY <1>3, <2>1, <2>3
    <3>2. toWorker'[k - 1].cmd = "stop" /\ OpensPast(k - 1, g)'
      BY <1>3, <1>4, <2>3, <3>1
    <3> QED  BY <1>3, <3>1, <3>2 DEF Silenced
  <2> QED  BY <2>2, <2>3 DEF Silenced
<1> QED  BY <1>6, <1>7, <1>8 DEF WorkerMessage

\* Rendering is not done by a worker that was stopped.
LEMMA SilencedStays ==
  ASSUME UNCHANGED <<toWorker, wGen, playing>>, UNCHANGED eof \/ Rendering, NEW g, Silenced(g)
  PROVE  Silenced(g)'
  BY DEF Silenced, WorkerStopped, OpensPast, Rendering

\* What is posted to the worklet flushes something new, or is a stop.
LEMMA StopsPost ==
  ASSUME TypeOK, FlushAhead, StopsWith, UNCHANGED currentGen,
         NEW c \in NodeCall, toNode' = Append(toNode, c),
         \A g \in 0 .. gen : Silenced(g) => Silenced(g)',
         \/ c.cmd # "flush"
         \/ c.gen # currentGen /\ \A j \in DOMAIN toNode : toNode[j].cmd = "flush" => toNode[j].gen # c.gen
         \/ Silenced(c.gen)'
  PROVE  StopsWith'
<1>1. PICK L \in Nat : L = Len(toNode)
  BY NodeCallsAre
<1>2. /\ DOMAIN toNode = 1 .. L /\ DOMAIN toNode' = 1 .. L + 1 /\ toNode'[L + 1] = c
      /\ \A i \in 1 .. L : toNode'[i] = toNode[i]
  BY <1>1, NodeCallsAre, Appended
<1>3. ASSUME NEW n \in 1 .. L + 1, Again(n)'  PROVE Silenced(toNode[n].gen)'
  <2>1. CASE n \in 1 .. L
    <3>1. \A j \in 1 .. n - 1 : j \in 1 .. L
      BY <2>1
    <3>2. Again(n)
      BY <1>2, <1>3, <2>1, <3>1 DEF Again
    <3>3. PICK g \in 0 .. gen : g = toNode[n].gen
      <4>1. toNode[n].gen \in 0 .. gen
        BY <1>2, <2>1, <3>2, NodeCallsAre DEF Again, FlushAhead
      <4> QED  BY <4>1
    <3>4. Silenced(g)'
      BY <1>2, <2>1, <3>2, <3>3 DEF StopsWith
    <3>5. toNode'[n].gen = g
      BY <1>2, <2>1, <3>3
    <3> QED  BY <3>4, <3>5 DEF Silenced, OpensPast
  <2>2. CASE n = L + 1
    <3>1. \A j \in 1 .. n - 1 : j \in 1 .. L
      BY <2>2
    <3>2. c.cmd = "flush" /\ (c.gen = currentGen \/ \E j \in 1 .. L : toNode[j].cmd = "flush" /\ toNode[j].gen = c.gen)
      BY <1>2, <1>3, <2>2, <3>1 DEF Again
    <3>3. Silenced(c.gen)'
      BY <1>2, <3>2
    <3>4. toNode'[n].gen = c.gen
      BY <1>2, <2>2
    <3> QED  BY <3>3, <3>4 DEF Silenced, OpensPast
  <2>3. n \in 1 .. L \/ n = L + 1
    OBVIOUS
  <2> QED  BY <2>1, <2>2, <2>3
<1> QED  BY <1>2, <1>3 DEF StopsWith

LEMMA StopsTake ==
  ASSUME TypeOK, StopsWith, UNCHANGED <<toWorker, wGen, playing, eof>>,
         toNode # <<>>, toNode' = Tail(toNode),
         currentGen' = IF Head(toNode).cmd = "flush" THEN Head(toNode).gen ELSE currentGen
  PROVE  StopsWith'
<1>1. PICK L \in Nat : L = Len(toNode) - 1
  <2>1. Len(toNode) \in Nat \ {0}
    BY NodeCallsAre, Tailed
  <2> QED  BY <2>1
<1>2. /\ DOMAIN toNode = 1 .. L + 1 /\ DOMAIN toNode' = 1 .. L
      /\ \A i \in 1 .. L : toNode'[i] = toNode[i + 1]
      /\ Head(toNode) = toNode[1]
  BY <1>1, NodeCallsAre, Tailed
<1>3. ASSUME NEW n \in 1 .. L, Again(n)'  PROVE Silenced(toNode[n].gen)'
  <2>1. /\ n + 1 \in 1 .. L + 1 /\ toNode'[n] = toNode[n + 1] /\ 1 \in 1 .. (n + 1) - 1
        /\ \A j \in 1 .. n - 1 : j + 1 \in 1 .. (n + 1) - 1 /\ toNode'[j] = toNode[j + 1]
    BY <1>2
  <2>2. Again(n + 1)
    <3>1. CASE toNode'[n].gen = currentGen'
      BY <1>2, <1>3, <2>1, <3>1 DEF Again
    <3>2. CASE \E j \in 1 .. n - 1 : toNode'[j].cmd = "flush" /\ toNode'[j].gen = toNode'[n].gen
      BY <1>3, <2>1, <3>2 DEF Again
    <3> QED  BY <1>3, <3>1, <3>2 DEF Again
  <2>3. PICK g : g = toNode[n + 1].gen
    OBVIOUS
  <2>4. Silenced(g)
    BY <1>2, <2>1, <2>2, <2>3 DEF StopsWith
  <2>5. Silenced(g)' /\ toNode'[n].gen = g
    BY <2>1, <2>3, <2>4, SilencedStays
  <2> QED  BY <2>5 DEF Silenced, OpensPast
<1> QED  BY <1>2, <1>3 DEF StopsWith

LEMMA StopsStay ==
  ASSUME TypeOK, FlushAhead, StopsWith, UNCHANGED <<currentGen, toNode>>,
         \A g \in 0 .. gen : Silenced(g) => Silenced(g)'
  PROVE  StopsWith'
<1>1. ASSUME NEW n \in DOMAIN toNode, Again(n)'  PROVE Silenced(toNode[n].gen)'
  <2>1. Again(n)
    BY <1>1 DEF Again
  <2>2. PICK g \in 0 .. gen : g = toNode[n].gen
    <3>1. toNode[n].gen \in 0 .. gen
      BY <2>1, NodeCallsAre DEF Again, FlushAhead
    <3> QED  BY <3>1
  <2>3. Silenced(g)'
    BY <2>1, <2>2 DEF StopsWith
  <2> QED  BY <2>2, <2>3 DEF Silenced, OpensPast
<1> QED  BY <1>1 DEF StopsWith

LEMMA MainStops ==
  ASSUME TypeOK, GensAhead, FlushAhead, StopsWith, Main
  PROVE  StopsWith'
<1>1. /\ UNCHANGED <<currentGen, worker>> /\ gen \in Nat /\ gen \in Gens
      /\ currentGen <= gen /\ currentGen \in Int
      /\ \A n \in DOMAIN toNode : toNode[n].cmd = "flush" => toNode[n].gen \in Nat /\ toNode[n].gen <= gen
  BY NodeCallsAre DEF Main, Play, DecodeSong, SetPos, Stop, PauseCall, worklet, FlushAhead, TypeOK, MainOK
\* Whatever is posted to the worker, what was silenced stays so.
<1>2. ASSUME NEW c \in WorkerCall, toWorker' = Append(toWorker, c), Opens(c) => c.gen = gen + 1,
             NEW g \in 0 .. gen, Silenced(g) \/ c.cmd = "stop"
      PROVE  Silenced(g)'
  <2>1. Opens(c) => c.gen > g
    BY <1>1, <1>2
  <2> QED  BY <1>1, <1>2, <2>1, SilencedPost
<1>3. Flush(gen).gen = gen /\ Flush(gen) \in NodeCall
  BY <1>1 DEF Flush, NodeCall
<1>4. ASSUME NEW c \in WorkerCall, c.gen = gen + 1, gen + 1 \in Gens,
             toWorker' = Append(toWorker, c), toNode' = Append(toNode, Flush(gen + 1))
      PROVE  StopsWith'
  <2>1. /\ Flush(gen + 1) \in NodeCall /\ Flush(gen + 1).gen = gen + 1
        /\ gen + 1 # currentGen
        /\ \A j \in DOMAIN toNode : toNode[j].cmd = "flush" => toNode[j].gen # gen + 1
    BY <1>1, <1>4 DEF Flush, NodeCall
  <2>2. \A g \in 0 .. gen : Silenced(g) => Silenced(g)'
    BY <1>2, <1>4
  <2> QED  BY <1>1, <2>1, <2>2, <1>4, StopsPost
<1>5. ASSUME NEW s \in Songs, Play(s)  PROVE StopsWith'
  <2> DEFINE c == [cmd |-> "load", gen |-> gen + 1, song |-> s]
  <2>1. gen + 1 \in Gens
    BY <1>1, <1>5, ConstantsOK DEF Play, Gens
  <2>2. c \in WorkerCall /\ c.gen = gen + 1
    BY <2>1 DEF WorkerCall
  <2>3. toWorker' = Append(toWorker, c) /\ toNode' = Append(toNode, Flush(gen + 1))
    BY <1>5 DEF Play, Post
  <2> HIDE DEF c
  <2> QED  BY <1>4, <2>1, <2>2, <2>3
<1>6. ASSUME NEW p \in Seeks, SetPos(p)  PROVE StopsWith'
  <2> DEFINE c == [cmd |-> "setPos", gen |-> gen + 1, pos |-> p]
  <2>1. gen + 1 \in Gens
    BY <1>1, <1>6, ConstantsOK DEF SetPos, Gens
  <2>2. c \in WorkerCall /\ c.gen = gen + 1
    BY <2>1 DEF WorkerCall
  <2>3. toWorker' = Append(toWorker, c) /\ toNode' = Append(toNode, Flush(gen + 1))
    BY <1>6 DEF SetPos, Post
  <2> HIDE DEF c
  <2> QED  BY <1>4, <2>1, <2>2, <2>3
<1>7. ASSUME Stop  PROVE StopsWith'
  <2> DEFINE c == [cmd |-> "stop"]
  <2>1. c \in WorkerCall /\ c.cmd = "stop" /\ ~Opens(c)
    BY DEF WorkerCall, Opens
  <2>2. toWorker' = Append(toWorker, c) /\ toNode' = Append(toNode, Flush(gen))
    BY <1>7 DEF Stop, Post
  <2> HIDE DEF c
  <2>3. \A g \in 0 .. gen : Silenced(g)'
    BY <1>2, <2>1, <2>2
  <2>4. gen \in 0 .. gen
    BY <1>1
  <2>5. PICK f \in NodeCall : f = Flush(gen) /\ f.gen \in 0 .. gen
    BY <1>3, <2>4
  <2>6. Silenced(f.gen)'
    BY <2>3, <2>5
  <2>7. toNode' = Append(toNode, f)
    BY <2>2, <2>5
  <2> QED  BY <1>1, <2>3, <2>6, <2>7, StopsPost
<1>8. ASSUME NEW cmd \in PauseCalls, PauseCall(cmd)  PROVE StopsWith'
  <2>1. [cmd |-> cmd] \in NodeCall /\ [cmd |-> cmd].cmd # "flush"
    BY <1>8, ConstantsOK DEF NodeCall
  <2>2. toNode' = Append(toNode, [cmd |-> cmd]) /\ UNCHANGED <<toWorker, wGen, playing, eof>>
    BY <1>8 DEF PauseCall, worker
  <2>3. \A g \in 0 .. gen : Silenced(g) => Silenced(g)'
    BY <2>2, SilencedStays
  <2> QED  BY <1>1, <2>1, <2>2, <2>3, StopsPost
<1>9. ASSUME NEW s \in Decoded, DecodeSong(s)  PROVE StopsWith'
  <2> DEFINE c == [cmd |-> "decodeSong", song |-> s]
  <2>1. c \in WorkerCall /\ ~Opens(c)
    BY ConstantsOK DEF WorkerCall, Opens
  <2>2. toWorker' = Append(toWorker, c) /\ UNCHANGED toNode
    BY <1>9 DEF DecodeSong
  <2> HIDE DEF c
  <2>3. \A g \in 0 .. gen : Silenced(g) => Silenced(g)'
    BY <1>2, <2>1, <2>2
  <2> QED  BY <1>1, <2>2, <2>3, StopsStay
<1> QED  BY <1>5, <1>6, <1>7, <1>8, <1>9 DEF Main

LEMMA MainSpent == TypeOK /\ Spent /\ Main => Spent'
<1> SUFFICES ASSUME TypeOK, Spent, Main  PROVE Spent'
  OBVIOUS
<1>1. UNCHANGED <<pcm, acks, queue, currentGen, wGen, playing, eof, inflight>>
  BY DEF Main, Play, Post, DecodeSong, SetPos, Stop, PauseCall, worker, worklet
<1>2. (\A i \in DOMAIN toWorker' : toWorker'[i].cmd # "stop") => \A i \in DOMAIN toWorker : toWorker[i].cmd # "stop"
  <2>1. ASSUME NEW c, c \in WorkerCall, toWorker' = Append(toWorker, c)
        PROVE  \A i \in DOMAIN toWorker : i \in DOMAIN toWorker' /\ toWorker'[i] = toWorker[i]
    BY <2>1, CallsAre, Appended
  <2>2. ASSUME NEW s \in Songs, Play(s)  PROVE [cmd |-> "load", gen |-> gen + 1, song |-> s] \in WorkerCall
    BY <2>2, NodeCallsAre, ConstantsOK DEF Play, WorkerCall, Gens
  <2>3. ASSUME NEW p \in Seeks, SetPos(p)  PROVE [cmd |-> "setPos", gen |-> gen + 1, pos |-> p] \in WorkerCall
    BY <2>3, NodeCallsAre, ConstantsOK DEF SetPos, WorkerCall, Gens
  <2>4. /\ [cmd |-> "stop"] \in WorkerCall
        /\ \A s \in Decoded : [cmd |-> "decodeSong", song |-> s] \in WorkerCall
    BY ConstantsOK DEF WorkerCall
  <2>5. UNCHANGED toWorker \/ \E c \in WorkerCall : toWorker' = Append(toWorker, c)
    BY <2>2, <2>3, <2>4 DEF Main, Play, Post, DecodeSong, SetPos, Stop, PauseCall
  <2> QED  BY <2>1, <2>5
<1> QED  BY <1>1, <1>2 DEF Spent, WorkerStopped

LEMMA RenderSpent == TypeOK /\ Spent /\ Render => Spent'
<1> SUFFICES ASSUME TypeOK, Spent, Render  PROVE Spent'
  OBVIOUS
<1>1. UNCHANGED <<toWorker, acks, queue, wGen, currentGen, playing>> /\ playing
  BY DEF Render, RenderChunk, RenderNothing, Pumping, main, worklet
<1>2. ~WorkerStopped /\ wGen \in Gens /\ inflight \in Int /\ pcm \in Seq(Packet)
  BY <1>1 DEF WorkerStopped, TypeOK, WorkerOK, PortsOK
<1>3. Count(pcm, wGen) \in Nat /\ Count(queue, wGen) \in Nat /\ Count(acks, wGen) \in Nat
  BY Counted
<1>4. CASE RenderChunk
  <2>1. Count(pcm', wGen) = Count(pcm, wGen) + 1 /\ inflight' = inflight + 1
    BY <1>2, <1>4, PostedCounts DEF RenderChunk
  <2> QED  BY <1>1, <1>2, <1>3, <2>1 DEF Spent
<1>5. CASE RenderNothing
  <2>1. Packets(TRUE) \in Packet /\ ~Counts(Packets(TRUE), wGen)
    BY DEF TypeOK, WorkerOK, Packets, Packet, Chunk, Counts
  <2>2. Count(pcm', wGen) = Count(pcm, wGen) + (IF Counts(Packets(TRUE), wGen) THEN 1 ELSE 0)
    BY <1>2, <1>5, <2>1, CountAppend DEF RenderNothing
  <2>3. Count(pcm', wGen) = Count(pcm, wGen) /\ inflight' = inflight
    <3>1. Count(pcm', wGen) = Count(pcm, wGen) + 0
      BY <2>1, <2>2
    <3>2. inflight' = inflight
      BY <1>5 DEF RenderNothing
    <3> QED  BY <1>3, <3>1, <3>2
  <2> QED  BY <1>1, <1>2, <2>3 DEF Spent
<1> QED  BY <1>4, <1>5 DEF Render

LEMMA WorkerSpent == CreditInv /\ TypeOK' /\ Spent /\ WorkerMessage => Spent'
<1> SUFFICES ASSUME CreditInv, TypeOK', Spent, WorkerMessage  PROVE Spent'
  OBVIOUS
<1>1. /\ UNCHANGED <<gen, pcm, acks, queue, currentGen>>
      /\ toWorker # <<>> /\ toWorker' = Tail(toWorker)
  BY DEF WorkerMessage, WorkerLoad, WorkerStop, WorkerSetPos, WorkerSetPosIgnored,
         WorkerDecodeSong, Receive, main, worklet
<1>2. CASE WorkerLoad \/ WorkerSetPos
  <2>1. Opens(Head(toWorker)) /\ Restart(Head(toWorker).gen)
    BY <1>2 DEF WorkerLoad, WorkerSetPos, Receive, Opens
  <2>2. inflight' = 0 /\ Count(pcm', wGen') + Count(queue', wGen') + Count(acks', wGen') = 0
    BY <1>1, <2>1, OpenedFresh DEF CreditInv
  <2> QED  BY <2>2 DEF Spent
<1>3. CASE WorkerStop
  BY <1>3 DEF WorkerStop, WorkerStopped, Spent
<1>4. CASE WorkerSetPosIgnored \/ WorkerDecodeSong
  <2>1. UNCHANGED <<wGen, inflight, playing, eof>> /\ Head(toWorker).cmd # "stop"
    BY <1>4 DEF WorkerSetPosIgnored, WorkerDecodeSong, Receive, worker
  <2>2. ASSUME \A i \in DOMAIN toWorker' : toWorker'[i].cmd # "stop", NEW i \in DOMAIN toWorker
        PROVE  toWorker[i].cmd # "stop"
    <3>1. /\ DOMAIN toWorker = 1 .. Len(toWorker) /\ DOMAIN toWorker' = 1 .. Len(toWorker) - 1
          /\ \A j \in 1 .. Len(toWorker) - 1 : toWorker'[j] = toWorker[j + 1]
          /\ Head(toWorker) = toWorker[1] /\ Len(toWorker) \in Nat
      BY <1>1, CallsAre, Tailed DEF CreditInv
    <3>2. CASE i = 1
      BY <2>1, <3>1, <3>2
    <3>3. CASE i # 1
      <4>1. i - 1 \in 1 .. Len(toWorker) - 1 /\ (i - 1) + 1 = i
        BY <2>2, <3>1, <3>3
      <4> QED  BY <2>2, <3>1, <4>1
    <3> QED  BY <3>2, <3>3
  <2> QED  BY <1>1, <2>1, <2>2 DEF Spent, WorkerStopped
<1> QED  BY <1>2, <1>3, <1>4 DEF WorkerMessage

LEMMA AckSpent == TypeOK /\ Spent /\ OnPcmAck => Spent'
<1> SUFFICES ASSUME TypeOK, Spent, OnPcmAck  PROVE Spent'
  OBVIOUS
<1>1. /\ UNCHANGED <<toWorker, pcm, queue, wGen, currentGen, playing, eof>>
      /\ acks # <<>> /\ acks' = Tail(acks)
      /\ inflight' = IF Head(acks).gen = wGen THEN inflight - 1 ELSE inflight
  BY DEF OnPcmAck, main, worklet
<1>2. wGen \in Gens /\ inflight \in Int
  BY DEF TypeOK, WorkerOK
<1>3. /\ Count(acks, wGen) = Count(acks', wGen) + (IF Head(acks).gen = wGen THEN 1 ELSE 0)
      /\ Count(acks', wGen) \in Nat
  BY <1>1, <1>2, AckedCounts
<1>4. Count(pcm, wGen) \in Nat /\ Count(queue, wGen) \in Nat
  BY Counted
<1> QED  BY <1>1, <1>2, <1>3, <1>4 DEF Spent, WorkerStopped

\* A packet the worklet takes or drops is one less of its generation on the port.
LEMMA ArrivedCounts ==
  ASSUME TypeOK, Arrival, NEW g
  PROVE  /\ Count(pcm, g) = Count(pcm', g) + (IF Counts(Head(pcm), g) THEN 1 ELSE 0)
         /\ Count(pcm', g) \in Nat /\ Head(pcm) \in Packet
<1>1. pcm # <<>> /\ pcm' = Tail(pcm) /\ pcm \in Seq(Packet)
  BY DEF Arrival, TypeOK, PortsOK
<1>2. Tail(pcm) \in Seq(Packet) /\ Head(pcm) \in Packet
  BY <1>1, TailTyped
<1> QED  BY <1>1, <1>2, CountTail, CountType

LEMMA OnPcmSpent == Causal /\ TypeOK /\ Spent /\ OnPcm => Spent'
<1> SUFFICES ASSUME Causal, TypeOK, Spent, OnPcm, currentGen <= wGen  PROVE Spent'
  BY DEF OnPcm, DropPacket, TakeEof, TakeChunk, Arrival, worker, worklet, Spent
<1>1. /\ Arrival /\ UNCHANGED <<toWorker, acks, wGen, currentGen, playing, eof, inflight>>
      /\ Head(pcm).gen <= currentGen
  BY DEF OnPcm, DropPacket, TakeEof, TakeChunk, Arrival, worker, worklet
<1>2. /\ Count(pcm, wGen) = Count(pcm', wGen) + (IF Counts(Head(pcm), wGen) THEN 1 ELSE 0)
      /\ Count(pcm', wGen) \in Nat /\ Head(pcm) \in Packet
  BY <1>1, ArrivedCounts
<1>3. Count(queue, wGen) \in Nat /\ Count(acks, wGen) \in Nat
  BY Counted
<1>4. CASE DropPacket
  <2>1. Head(pcm).gen # wGen
    <3>1. Head(pcm).gen \in Nat /\ currentGen \in Int /\ wGen \in Nat
      BY <1>2, NodeCallsAre, ConstantsOK DEF Packet, Chunk, Gens
    <3>2. Head(pcm).gen # currentGen
      BY <1>4 DEF DropPacket
    <3> QED  BY <1>1, <3>1, <3>2
  <2>2. Count(pcm', wGen) = Count(pcm, wGen) /\ UNCHANGED queue
    BY <1>2, <1>4, <2>1 DEF Counts, DropPacket, worklet
  <2> QED  BY <1>1, <2>2 DEF Spent, WorkerStopped
<1>5. CASE TakeEof
  <2>1. Count(pcm', wGen) = Count(pcm, wGen) /\ UNCHANGED queue
    BY <1>2, <1>5 DEF Counts, TakeEof
  <2> QED  BY <1>1, <2>1 DEF Spent, WorkerStopped
<1>6. CASE TakeChunk
  <2>1. queue' = Append(queue, Head(pcm)) /\ queue \in Seq(Chunk) /\ Head(pcm) \in Chunk
    BY <1>2, <1>6 DEF TakeChunk, TypeOK, WorkletOK, Packet
  <2>2. Count(queue', wGen) = Count(queue, wGen) + (IF Counts(Head(pcm), wGen) THEN 1 ELSE 0)
    BY <2>1, CountAppend
  <2>3. Count(pcm', wGen) + Count(queue', wGen) = Count(pcm, wGen) + Count(queue, wGen)
    BY <1>2, <1>3, <2>2
  <2> QED  BY <1>1, <2>3 DEF Spent, WorkerStopped
<1> QED  BY <1>4, <1>5, <1>6 DEF OnPcm

LEMMA ProcessSpent == TypeOK /\ Spent /\ Process => Spent'
<1> SUFFICES ASSUME TypeOK, Spent, Process  PROVE Spent'
  OBVIOUS
<1>1. UNCHANGED <<toWorker, pcm, wGen, currentGen, playing, eof, inflight>>
  BY DEF Process, PlayPart, FinishChunk, RunDry, DrainHead, worker, ports
<1>2. CASE PlayPart \/ RunDry
  <2>1. UNCHANGED <<acks, queue>>
    BY <1>2 DEF PlayPart, RunDry, ports
  <2> QED  BY <1>1, <2>1 DEF Spent, WorkerStopped
<1>3. CASE FinishChunk
  <2>1. /\ queue # <<>> /\ queue' = Tail(queue) /\ queue \in Seq(Chunk) /\ acks \in Seq(Ack)
        /\ acks' = Append(acks, [gen |-> Head(queue).gen, eof |-> FALSE])
    BY <1>3 DEF FinishChunk, DrainHead, TypeOK, WorkletOK, PortsOK
  <2>2. PICK a \in Ack : /\ acks' = Append(acks, a)
                         /\ Counts(a, wGen) <=> Counts(Head(queue), wGen)
    <3>1. Head(queue) \in Chunk
      BY <2>1, TailTyped
    <3>2. [gen |-> Head(queue).gen, eof |-> FALSE] \in Ack
      BY <3>1 DEF Chunk, Ack
    <3>3. Counts([gen |-> Head(queue).gen, eof |-> FALSE], wGen) <=> Counts(Head(queue), wGen)
      BY <3>1 DEF Chunk, Counts
    <3> QED  BY <2>1, <3>2, <3>3
  <2>3. /\ Count(queue, wGen) = Count(queue', wGen) + (IF Counts(Head(queue), wGen) THEN 1 ELSE 0)
        /\ Count(acks', wGen) = Count(acks, wGen) + (IF Counts(Head(queue), wGen) THEN 1 ELSE 0)
        /\ Count(queue', wGen) \in Nat
    <3>1. queue' \in Seq(Chunk)
      BY <2>1, TailTyped
    <3>2. Count(queue, wGen) = Count(queue', wGen) + (IF Counts(Head(queue), wGen) THEN 1 ELSE 0)
      BY <2>1, CountTail
    <3>3. Count(acks', wGen) = Count(acks, wGen) + (IF Counts(a, wGen) THEN 1 ELSE 0)
      BY <2>1, <2>2, CountAppend
    <3>4. Count(queue', wGen) \in Nat
      BY <3>1, CountType
    <3>5. (IF Counts(a, wGen) THEN 1 ELSE 0) = IF Counts(Head(queue), wGen) THEN 1 ELSE 0
      BY <2>2
    <3> QED  BY <3>2, <3>3, <3>4, <3>5
  <2>4. Count(pcm, wGen) \in Nat /\ Count(acks, wGen) \in Nat
    BY Counted
  <2>5. Count(pcm, wGen) + Count(queue', wGen) + Count(acks', wGen)
          = Count(pcm, wGen) + Count(queue, wGen) + Count(acks, wGen)
    BY <2>3, <2>4
  <2> QED  BY <1>1, <2>5 DEF Spent, WorkerStopped
<1> QED  BY <1>2, <1>3 DEF Process

\* A flush throws away what was queued of an older generation, or was a stop.
LEMMA FlushSpent ==
  ASSUME TypeOK, FlushAhead, Queued, StopsWith, Spent, NodeFlush
  PROVE  Spent'
<1> SUFFICES ASSUME ~WorkerStopped, currentGen' <= wGen,
                    \A i \in DOMAIN toWorker : toWorker[i].cmd # "stop"
             PROVE  Count(pcm', wGen) + Count(queue', wGen) + Count(acks', wGen) = inflight
  BY DEF NodeFlush, Control, worker, Spent, WorkerStopped
<1>1. /\ toNode # <<>> /\ Head(toNode).cmd = "flush" /\ currentGen' = Head(toNode).gen
      /\ queue' = <<>> /\ UNCHANGED <<pcm, acks>>
  BY DEF NodeFlush, Control
<1>2. /\ Head(toNode) = toNode[1] /\ 1 \in DOMAIN toNode /\ currentGen \in Int /\ wGen \in Nat
  BY <1>1, NodeCallsAre, Tailed
<1>3. /\ currentGen' \in Nat
      /\ currentGen < currentGen' \/ (currentGen = currentGen' /\ currentGen \in cut)
  BY <1>1, <1>2, NodeCallsAre DEF FlushAhead
<1>4. currentGen # wGen
  <2> SUFFICES ASSUME currentGen = wGen  PROVE FALSE
    OBVIOUS
  <2>1. currentGen' = currentGen
    BY <1>2, <1>3
  <2>2. Again(1) /\ toNode[1].gen = wGen
    BY <1>1, <1>2, <2>1 DEF Again
  <2>3. Silenced(wGen)
    BY <1>2, <2>2 DEF StopsWith
  <2> QED  BY <1>2, <2>3 DEF Silenced
<1>5. currentGen < wGen
  BY <1>2, <1>3, <1>4
<1>6. Count(queue, wGen) = 0 /\ Count(queue', wGen) = 0
  <2>1. {i \in DOMAIN queue : Counts(queue[i], wGen)} = {}
    BY <1>4 DEF Queued, Counts
  <2> QED  BY <1>1, <2>1, FS_EmptySet, CountEmpty DEF Count
<1>7. Count(pcm, wGen) + Count(queue, wGen) + Count(acks, wGen) = inflight
  BY <1>2, <1>5 DEF Spent
<1> QED  BY <1>1, <1>6, <1>7

LossInv == StopsWith /\ Spent

LEMMA SpentKept == ASSUME Causal PROVE Spec => []LossInv
<1>1. Init => LossInv
  <2> SUFFICES ASSUME Init  PROVE LossInv
    OBVIOUS
  <2>1. StopsWith
    BY DEF Init, StopsWith
  <2>2. Spent
    BY CountEmpty DEF Init, Spent
  <2> QED  BY <2>1, <2>2 DEF LossInv
<1>2. LossInv /\ WholeInv /\ StreamInv /\ CreditInv /\ TypeOK' /\ [Next]_vars => LossInv'
  <2> SUFFICES ASSUME LossInv, WholeInv, StreamInv, CreditInv, TypeOK', [Next]_vars  PROVE LossInv'
    OBVIOUS
  <2>1. TypeOK /\ GensAhead /\ Queued /\ FlushAhead /\ StopsWith /\ Spent
    BY DEF CreditInv, StreamInv, Flow, WholeInv, LossInv
  <2>2. \A g \in 0 .. gen : g \in Nat
    BY NodeCallsAre, <2>1
  <2>3. CASE UNCHANGED vars
    BY <2>1, <2>3 DEF vars, main, ports, worker, worklet, LossInv, StopsWith, Again, Silenced,
                      OpensPast, Spent, WorkerStopped
  <2>4. CASE Main
    BY <2>1, <2>4, MainStops, MainSpent DEF LossInv
  <2>5. CASE Render
    <3>1. UNCHANGED <<currentGen, toNode, toWorker, wGen, playing>> /\ Rendering
      BY <2>5 DEF Render, RenderChunk, RenderNothing, Pumping, Rendering, main, worklet
    <3>2. \A g \in 0 .. gen : Silenced(g) => Silenced(g)'
      BY <3>1, SilencedStays
    <3> QED  BY <2>1, <2>5, <3>1, <3>2, StopsStay, RenderSpent DEF LossInv
  <2>6. CASE WorkerMessage
    <3>1. UNCHANGED <<currentGen, toNode>>
      BY <2>6 DEF WorkerMessage, WorkerLoad, WorkerStop, WorkerSetPos, WorkerSetPosIgnored,
                  WorkerDecodeSong, Receive, worklet
    <3>2. \A g \in 0 .. gen : Silenced(g) => Silenced(g)'
      BY <2>1, <2>2, <2>6, SilencedTake
    <3> QED  BY <2>1, <2>6, <3>1, <3>2, StopsStay, WorkerSpent DEF LossInv
  <2>7. CASE OnPcmAck
    <3>1. UNCHANGED <<currentGen, toNode, toWorker, wGen, playing, eof>>
      BY <2>7 DEF OnPcmAck, worklet
    <3>2. \A g \in 0 .. gen : Silenced(g) => Silenced(g)'
      BY <3>1, SilencedStays
    <3> QED  BY <2>1, <2>7, <3>1, <3>2, StopsStay, AckSpent DEF LossInv
  <2>8. CASE NodeFlush
    <3>1. /\ UNCHANGED <<toWorker, wGen, playing, eof>> /\ toNode # <<>> /\ toNode' = Tail(toNode)
          /\ currentGen' = IF Head(toNode).cmd = "flush" THEN Head(toNode).gen ELSE currentGen
      BY <2>8 DEF NodeFlush, Control, worker
    <3> QED  BY <2>1, <2>8, <3>1, StopsTake, FlushSpent DEF LossInv
  <2>9. CASE NodePause
    <3>1. /\ UNCHANGED <<toWorker, wGen, playing, eof, pcm, queue, acks, inflight, currentGen>>
          /\ toNode # <<>> /\ toNode' = Tail(toNode) /\ Head(toNode).cmd # "flush"
      BY <2>9 DEF NodePause, Control, worker
    <3>2. StopsWith'
      BY <2>1, <3>1, StopsTake
    <3>3. Spent'
      BY <2>1, <3>1 DEF Spent, WorkerStopped
    <3> QED  BY <3>2, <3>3 DEF LossInv
  <2>10. CASE OnPcm \/ Process
    <3>1. UNCHANGED <<currentGen, toNode, toWorker, wGen, playing, eof>>
      BY <2>10 DEF OnPcm, DropPacket, TakeEof, TakeChunk, Arrival, Process, PlayPart, FinishChunk,
                   RunDry, DrainHead, worker, worklet, ports
    <3>2. \A g \in 0 .. gen : Silenced(g) => Silenced(g)'
      BY <3>1, SilencedStays
    <3> QED  BY <2>1, <2>10, <3>1, <3>2, StopsStay, OnPcmSpent, ProcessSpent DEF LossInv
  <2> QED  BY <2>3, <2>4, <2>5, <2>6, <2>7, <2>8, <2>9, <2>10 DEF Next, Worker, Worklet
<1> QED  BY <1>1, <1>2, WholeKept, StreamKept, CreditKept, TypeCorrect, PTL DEF Spec

(* If a flush overtakes no chunk, a chunk the worker has spent a credit on   *)
(* is always on its way, in the queue, or acked (pump, onPcm): no credit     *)
(* leaks, for every Target, song and number of generations.                  *)
THEOREM CreditIsNotLost == Spec => []NoCreditLost
<1>1. CASE Causal
  <2>1. LossInv /\ TypeOK => NoCreditLost
    <3> SUFFICES ASSUME LossInv, TypeOK, Settled
                 PROVE  Count(pcm, wGen) + Count(queue, wGen) + Count(acks, wGen) = inflight
      BY DEF NoCreditLost
    <3>1. Spent
      BY DEF LossInv
    <3>2. currentGen = wGen /\ ~WorkerStopped /\ \A i \in DOMAIN toWorker : toWorker[i].cmd = "decodeSong"
      BY DEF Settled
    <3>3. (\A i \in DOMAIN toWorker : toWorker[i].cmd # "stop") /\ currentGen <= wGen
      <4>1. wGen \in Nat
        BY NodeCallsAre
      <4> QED  BY <3>2, <4>1
    <3> QED  BY <3>1, <3>2, <3>3 DEF Spent
  <2> QED  BY <1>1, <2>1, SpentKept, TypeCorrect, PTL
<1>2. CASE ~Causal
  <2>1. NoCreditLost
    BY <1>2 DEF NoCreditLost
  <2> QED  BY <2>1, PTL
<1> QED  BY <1>1, <1>2

-----------------------------------------------------------------------------
(* SidWorker: type correctness.                                            *)

LEMMA RemoveAtProperties ==
  ASSUME NEW S, NEW s \in Seq(S), NEW i \in DOMAIN s
  PROVE  /\ RemoveAt(s, i) \in Seq(S)
         /\ Len(RemoveAt(s, i)) = Len(s) - 1
         /\ \A j \in 1 .. Len(s) - 1 :
              RemoveAt(s, i)[j] = IF j < i THEN s[j] ELSE s[j + 1]
<1> DEFINE a == SubSeq(s, 1, i - 1)
           b == SubSeq(s, i + 1, Len(s))
<1>1. i \in 1 .. Len(s) /\ Len(s) \in Nat
  BY LenProperties
<1>2. /\ a \in Seq(S) /\ Len(a) = i - 1 /\ \A j \in 1 .. i - 1 : a[j] = s[j]
      /\ b \in Seq(S) /\ Len(b) = Len(s) - i
      /\ \A j \in 1 .. Len(s) - i : b[j] = s[i + j]
  BY <1>1
<1>3. RemoveAt(s, i) = a \o b
  BY DEF RemoveAt
<1> HIDE DEF a, b
<1>4. /\ a \o b \in Seq(S) /\ Len(a \o b) = Len(s) - 1
      /\ \A j \in 1 .. Len(s) - 1 : (a \o b)[j] = IF j < i THEN a[j] ELSE b[j - (i - 1)]
  <2>1. Len(a) + Len(b) = Len(s) - 1
    BY <1>1, <1>2
  <2>2. a \o b \in Seq(S) /\ Len(a \o b) = Len(a) + Len(b)
        /\ \A j \in 1 .. Len(a) + Len(b) :
             (a \o b)[j] = IF j <= Len(a) THEN a[j] ELSE b[j - Len(a)]
    BY <1>2, ConcatProperties
  <2>3. ASSUME NEW j \in 1 .. Len(s) - 1
        PROVE  (a \o b)[j] = IF j < i THEN a[j] ELSE b[j - (i - 1)]
    <3>1. Len(a) = i - 1 /\ j \in 1 .. Len(a) + Len(b) /\ (j <= i - 1 <=> j < i)
      BY <1>1, <1>2, <2>1, SMTT(30)
    <3>2. (a \o b)[j] = IF j <= i - 1 THEN a[j] ELSE b[j - (i - 1)]
      BY <2>2, <3>1, Zenon
    <3> QED  BY <3>1, <3>2, Zenon
  <2>4. a \o b \in Seq(S) /\ Len(a \o b) = Len(s) - 1
    BY <2>1, <2>2, Zenon
  <2> QED  BY <2>3, <2>4
<1>5. ASSUME NEW j \in 1 .. Len(s) - 1, ~(j < i)  PROVE b[j - (i - 1)] = s[j + 1]
  <2>1. j - (i - 1) \in 1 .. Len(s) - i /\ i + (j - (i - 1)) = j + 1
    BY <1>1, <1>5
  <2> QED  BY <1>2, <2>1
<1>6. ASSUME NEW j \in 1 .. Len(s) - 1  PROVE (a \o b)[j] = IF j < i THEN s[j] ELSE s[j + 1]
  <2>1. CASE j < i
    <3>1. j \in 1 .. i - 1
      BY <1>1, <2>1
    <3> QED  BY <1>2, <1>4, <2>1, <3>1
  <2>2. CASE ~(j < i)
    BY <1>4, <1>5, <2>2
  <2> QED  BY <2>1, <2>2
<1> QED  BY <1>3, <1>4, <1>6

\* What plays is open, and the pump runs only while there is credit.
PumpOK ==
  /\ playing => module # None
  /\ pumping => playing /\ ~eof /\ inflight < Target

SidSafe == SidTypeOK /\ PumpOK

LEMMA AskTyped ==
  ASSUME SidTypeOK, NEW i \in DOMAIN asks
  PROVE  /\ asks[i] \in Asked
         /\ asks[i].call = "open" => asks[i].song \in Songs
         /\ asks[i].call = "seek" => asks[i].pos \in Seeks
         /\ asks[i].call \in {"open", "seek"}
<1>1. asks[i] \in Asked
  BY ElementOfSeq, LenProperties DEF SidTypeOK
<1> QED  BY <1>1 DEF Asked

\* The worker changes neither the main thread nor the worklet.
LEMMA DecoderKeeps == SidDecoder => UNCHANGED <<main, worklet, toNode>>
  BY DEF SidDecoder, SidRender, SidMessage, SidLoad, SidStop, SidSetPos, Handles, SidEngine,
     Opened, NotOpened, Sought, Through, SidAck, ports

LEMMA CallTyped ==
  ASSUME TypeOK, NEW cmd, Handles(cmd)
  PROVE  /\ Head(toWorker) \in WorkerCall /\ Head(toWorker).cmd = cmd
         /\ toWorker' \in Seq(WorkerCall)
  BY TailTyped DEF Handles, TypeOK, PortsOK

LEMMA SidTyped == SidSafe /\ [SidNext]_sidVars => SidSafe'
<1> SUFFICES ASSUME SidTypeOK, PumpOK, [SidNext]_sidVars PROVE SidTypeOK' /\ PumpOK'
  BY DEF SidSafe
<1> USE ConstantsOK
<1>1. TypeOK /\ MainOK /\ PortsOK /\ WorkerOK /\ WorkletOK /\ FlagsOK
        /\ asks \in Seq(Asked) /\ pumping \in BOOLEAN /\ spoilt \in BOOLEAN
  BY DEF SidTypeOK, TypeOK
<1>2. ASSUME UNCHANGED <<main, toNode, worklet>>,
             toWorker' \in Seq(WorkerCall), pcm' \in Seq(Packet), acks' \in Seq(Ack),
             WorkerOK', playing' \in BOOLEAN, eof' \in BOOLEAN, PumpOK',
             asks' \in Seq(Asked), pumping' \in BOOLEAN, spoilt' \in BOOLEAN
      PROVE  SidTypeOK' /\ PumpOK'
  <2>1. MainOK' /\ WorkletOK'
    BY <1>1, <1>2, MainStays, WorkletStays
  <2>2. PortsOK'
    BY <1>1, <1>2 DEF PortsOK
  <2>3. FlagsOK'
    BY <1>1, <1>2 DEF FlagsOK, worklet
  <2> QED  BY <1>2, <2>1, <2>2, <2>3 DEF SidTypeOK, TypeOK
<1>3. ASSUME SidRender  PROVE SidTypeOK' /\ PumpOK'
  <2>1. /\ pcm' = Append(pcm, Packets(FALSE)) /\ next' = (next % Length[module]) + 1
        /\ inflight' = inflight + 1
        /\ UNCHANGED <<main, toWorker, toNode, acks, worklet, wGen, module, playing, eof, asks, spoilt>>
        /\ pumping /\ Pump
    BY <1>3 DEF SidRender
  <2>2. playing /\ ~eof /\ module # None
    BY <2>1 DEF PumpOK
  <2>3. pcm' \in Seq(Packet)
    <3>1. Packets(FALSE) \in Packet
      BY <1>1 DEF Packets, Packet, Chunk, WorkerOK
    <3> QED  BY <1>1, <2>1, <3>1, AppendTyped DEF PortsOK
  <2>4. WorkerOK'
    <3>1. module \in Songs \ Unparsable
      BY <1>1, <2>2 DEF WorkerOK
    <3>2. Length[module] \in Nat \ {0}
      BY <3>1, TunesOK
    <3>3. next % Length[module] \in Nat
      BY <1>1, <3>2 DEF WorkerOK
    <3> QED  BY <1>1, <2>1, <3>3 DEF WorkerOK
  <2>5. pumping' \in BOOLEAN
    BY <2>1, Zenon DEF Pump
  <2>6. PumpOK'
    <3>1. pumping' => inflight' < Target
      BY <2>1, Zenon DEF Pump
    <3> QED  BY <2>1, <2>2, <3>1, Zenon DEF PumpOK
  <2> QED  BY <1>1, <1>2, <2>1, <2>3, <2>4, <2>5, <2>6 DEF PortsOK, FlagsOK
<1>4. ASSUME NEW cmd, Handles(cmd)
      PROVE  /\ toWorker' \in Seq(WorkerCall)
             /\ Head(toWorker) \in WorkerCall /\ Head(toWorker).cmd = cmd
             /\ ~pumping /\ ~pumping'
             /\ UNCHANGED <<main, toNode, pcm, acks, worklet, module, next, pumping>>
  BY <1>1, <1>4, CallTyped DEF Handles
<1>5. ASSUME NEW a \in Asked  PROVE Append(asks, a) \in Seq(Asked)
  BY <1>1, AppendTyped
<1>6. ASSUME SidLoad  PROVE SidTypeOK' /\ PumpOK'
  <2> DEFINE a == [call |-> "open", song |-> Head(toWorker).song]
  <2>1. Handles("load") /\ Restart(Head(toWorker).gen) /\ asks' = Append(asks, a)
        /\ spoilt' = FALSE /\ UNCHANGED playing
    BY <1>6 DEF SidLoad
  <2>2. Head(toWorker).gen \in Gens /\ Head(toWorker).song \in Songs
    BY <1>4, <2>1 DEF WorkerCall
  <2>3. a \in Asked
    BY <2>2 DEF Asked
  <2>4. WorkerOK' /\ eof' = FALSE
    BY <1>1, <1>4, <2>1, <2>2 DEF WorkerOK, Restart
  <2>5. PumpOK'
    BY <1>4, <2>1, Zenon DEF PumpOK
  <2> HIDE DEF a
  <2> QED  BY <1>1, <1>2, <1>4, <1>5, <2>1, <2>3, <2>4, <2>5 DEF PortsOK, FlagsOK
<1>7. ASSUME SidStop  PROVE SidTypeOK' /\ PumpOK'
  <2>1. Handles("stop") /\ playing' = FALSE /\ eof' = TRUE /\ inflight' = 0
        /\ UNCHANGED <<asks, spoilt, wGen>>
    BY <1>7 DEF SidStop
  <2>2. WorkerOK'
    BY <1>1, <1>4, <2>1 DEF WorkerOK
  <2>3. PumpOK'
    BY <1>4, <2>1, Zenon DEF PumpOK
  <2> QED  BY <1>1, <1>2, <1>4, <2>1, <2>2, <2>3 DEF PortsOK
<1>8. ASSUME SidSetPos  PROVE SidTypeOK' /\ PumpOK'
  <2> DEFINE a == [call |-> "seek", pos |-> Head(toWorker).pos]
  <2>1. Handles("setPos") /\ Restart(Head(toWorker).gen) /\ asks' = Append(asks, a)
        /\ UNCHANGED <<playing, spoilt>>
    BY <1>8 DEF SidSetPos
  <2>2. Head(toWorker).gen \in Gens /\ Head(toWorker).pos \in Seeks
    BY <1>4, <2>1 DEF WorkerCall
  <2>3. a \in Asked
    BY <2>2 DEF Asked
  <2>4. WorkerOK' /\ eof' = FALSE
    BY <1>1, <1>4, <2>1, <2>2 DEF WorkerOK, Restart
  <2>5. PumpOK'
    BY <1>4, <2>1, Zenon DEF PumpOK
  <2> HIDE DEF a
  <2> QED  BY <1>1, <1>2, <1>4, <1>5, <2>1, <2>3, <2>4, <2>5 DEF PortsOK, FlagsOK
<1>9. ASSUME NEW i \in DOMAIN asks, NEW call, Through(i, call)
      PROVE  /\ ~pumping /\ asks' \in Seq(Asked) /\ asks[i].call = call
             /\ UNCHANGED <<main, ports, worklet, wGen, inflight>>
  BY <1>1, <1>9, RemoveAtProperties DEF Through
<1>10. ASSUME NEW i \in DOMAIN asks, Opened(i)  PROVE SidTypeOK' /\ PumpOK'
  <2>1. /\ Through(i, "open") /\ asks[i].song \notin Unparsable
        /\ module' = asks[i].song /\ next' = 1 /\ playing' = TRUE
        /\ UNCHANGED <<eof, spoilt>> /\ Pump
    BY <1>10 DEF Opened
  <2>2. asks[i].song \in Songs \ Unparsable
    BY <1>9, <2>1, AskTyped
  <2>3. WorkerOK'
    BY <1>1, <1>9, <2>1, <2>2 DEF WorkerOK
  <2>4. pumping' \in BOOLEAN /\ PumpOK'
    BY <2>1, <2>2, Zenon DEF Pump, PumpOK
  <2> QED  BY <1>1, <1>2, <1>9, <2>1, <2>3, <2>4 DEF PortsOK, FlagsOK, ports
<1>11. ASSUME NEW i \in DOMAIN asks, NotOpened(i)  PROVE SidTypeOK' /\ PumpOK'
  <2>1. /\ Through(i, "open") /\ module' \in {module, None} /\ UNCHANGED next
        /\ playing' = FALSE /\ eof' = TRUE /\ UNCHANGED pumping
    BY <1>11 DEF NotOpened
  <2>2. spoilt' \in BOOLEAN
    BY <1>11, Zenon DEF NotOpened
  <2>3. WorkerOK'
    BY <1>1, <1>9, <2>1 DEF WorkerOK
  <2>4. PumpOK'
    BY <1>9, <2>1, Zenon DEF PumpOK
  <2> QED  BY <1>1, <1>2, <1>9, <2>1, <2>2, <2>3, <2>4 DEF PortsOK, ports
<1>12. ASSUME NEW i \in DOMAIN asks, Sought(i)  PROVE SidTypeOK' /\ PumpOK'
  <2>1. /\ Through(i, "seek") /\ next' = asks[i].pos
        /\ UNCHANGED <<module, playing, eof, spoilt>> /\ Pump
    BY <1>12 DEF Sought
  <2>2. asks[i].pos \in Nat
    BY <1>9, <2>1, AskTyped
  <2>3. WorkerOK'
    BY <1>1, <1>9, <2>1, <2>2 DEF WorkerOK
  <2>4. pumping' \in BOOLEAN /\ PumpOK'
    BY <2>1, Zenon DEF Pump, PumpOK
  <2> QED  BY <1>1, <1>2, <1>9, <2>1, <2>3, <2>4 DEF PortsOK, FlagsOK, ports
<1>13. ASSUME SidAck  PROVE SidTypeOK' /\ PumpOK'
  <2>1. /\ ~pumping /\ acks # <<>> /\ acks' = Tail(acks)
        /\ UNCHANGED <<main, toWorker, toNode, pcm, worklet, wGen, module, next, playing, eof,
                       asks, spoilt>>
        /\ \/ inflight' = inflight - 1 /\ Pump
           \/ UNCHANGED <<inflight, pumping>>
    BY <1>13 DEF SidAck
  <2>2. acks' \in Seq(Ack)
    BY <1>1, <2>1, TailTyped DEF PortsOK
  <2>3. WorkerOK'
    BY <1>1, <2>1 DEF WorkerOK
  <2>4. pumping' \in BOOLEAN /\ PumpOK'
    <3>1. CASE Pump
      BY <2>1, <3>1, Zenon DEF Pump, PumpOK
    <3>2. CASE UNCHANGED pumping
      BY <1>1, <2>1, <3>2, Zenon DEF PumpOK
    <3> QED  BY <2>1, <3>1, <3>2
  <2> QED  BY <1>1, <1>2, <2>1, <2>2, <2>3, <2>4 DEF PortsOK, FlagsOK
<1>14. ASSUME (Main \/ Worklet) /\ UNCHANGED sid  PROVE SidTypeOK' /\ PumpOK'
  <2>1. TypeOK'
    BY <1>1, <1>14, MainTyped, WorkletTyped
  <2>2. UNCHANGED worker
    <3>1. Main => UNCHANGED worker
      BY DEF Main, Play, DecodeSong, SetPos, Stop, PauseCall
    <3>2. Worklet => UNCHANGED worker
      BY DEF Worklet, NodeFlush, NodePause, Control, OnPcm, DropPacket, TakeEof, TakeChunk,
         Arrival, Process, PlayPart, FinishChunk, RunDry, DrainHead
    <3> QED  BY <1>14, <3>1, <3>2
  <2> QED  BY <1>1, <1>14, <2>1, <2>2 DEF sid, worker, SidTypeOK, PumpOK
<1>15. CASE UNCHANGED sidVars
  <2>1. TypeOK'
    BY <1>1, <1>15, MainStays, PortsStay, WorkerStays, WorkletStays, FlagsStay
    DEF sidVars, vars, TypeOK, worker, worklet
  <2> QED  BY <1>1, <1>15, <2>1 DEF sidVars, vars, sid, worker, SidTypeOK, PumpOK
<1> QED
  BY <1>3, <1>6, <1>7, <1>8, <1>10, <1>11, <1>12, <1>13, <1>14, <1>15
  DEF SidNext, SidDecoder, SidMessage, SidEngine

\* Loads, seeks and stops that overlap with what the engine is still asked for leave
\* every port and every variable of the worker well typed; and pump() is in its loop
\* only while a tune is open and playing and there is credit to spend.
LEMMA SidSafeAlways == SidSpec => []SidSafe
<1>1. SidInit => SidSafe
  <2>1. Init => TypeOK
    BY ConstantsOK DEF Init, TypeOK, MainOK, PortsOK, WorkerOK, WorkletOK, FlagsOK, Gens
  <2>2. SidInit => PumpOK
    BY DEF SidInit, PumpOK, Init
  <2>3. SidInit => asks \in Seq(Asked) /\ pumping \in BOOLEAN /\ spoilt \in BOOLEAN
    <3>1. <<>> \in Seq(Asked)
      BY EmptySeq
    <3> QED  BY <3>1, Zenon DEF SidInit
  <2> QED  BY <2>1, <2>2, <2>3 DEF SidInit, SidSafe, SidTypeOK
<1> QED  BY <1>1, SidTyped, PTL DEF SidSpec

\* The SID worker, the engine's open calls and what the wrapper, the worklet and the ports
\* share with it are well typed, however late and in whatever order the engine answers.
THEOREM SidTypeCorrect == SidSpec => []SidTypeOK
  BY SidSafeAlways, PTL DEF SidSafe

-----------------------------------------------------------------------------
(* The credit.  A stop forgets what it flushed, and a tune that opens after *)
(* it plays again with the generation unchanged, but at its end: only while *)
(* eof is not set does inflight account for what is on its way.             *)

SidCreditBound == \A g \in Gens : Count(pcm, g) + Count(queue, g) <= Target

SidCredit ==
  /\ GensAhead /\ Fresh
  /\ inflight <= Target
  /\ SidCreditBound
  /\ ~eof => Count(pcm, wGen) + Count(queue, wGen) + Count(acks, wGen) <= inflight

LEMMA SidCreditKept == SidSafe /\ SidSafe' /\ SidCredit /\ [SidNext]_sidVars => SidCredit'
<1> SUFFICES ASSUME SidSafe, SidSafe', SidCredit, [SidNext]_sidVars PROVE SidCredit'
  OBVIOUS
<1>1. TypeOK /\ TypeOK' /\ wGen \in Gens /\ wGen' \in Gens
        /\ inflight \in Int /\ inflight' \in Int /\ Target \in Nat
  BY ConstantsOK DEF SidSafe, SidTypeOK, TypeOK, WorkerOK
<1>2. \A g \in Gens :
        Count(pcm, g) \in Nat /\ Count(queue, g) \in Nat /\ Count(acks, g) \in Nat
  BY <1>1, Counted
<1>3. CASE SidRender
  <2>1. inflight' = inflight + 1 /\ UNCHANGED <<gen, toWorker, wGen, queue, acks>>
    BY <1>3 DEF SidRender, main, worklet
  <2>2. inflight < Target /\ ~eof
    BY <1>3 DEF SidRender, SidSafe, PumpOK
  <2>3. ASSUME NEW g \in Gens
        PROVE  Count(pcm', g) = Count(pcm, g) + (IF g = wGen THEN 1 ELSE 0)
    BY <1>1, <1>3, PostedCounts DEF SidRender
  <2>4. Count(pcm', wGen) = Count(pcm, wGen) + 1
    BY <1>1, <2>3
  <2>5. ASSUME NEW g \in Gens, g # wGen  PROVE Count(pcm', g) = Count(pcm, g)
    BY <1>2, <2>3, <2>5
  <2>6. GensAhead'
    BY <2>1, AheadStays DEF SidCredit
  <2>7. Fresh'
    <3> SUFFICES ASSUME NEW g \in Gens, g > wGen
                 PROVE  Count(pcm', g) = 0 /\ Count(queue, g) = 0 /\ Count(acks, g) = 0
      BY <2>1 DEF Fresh
    <3>1. g # wGen
      BY <1>1, ConstantsOK DEF Gens
    <3> QED  BY <2>5, <3>1 DEF SidCredit, Fresh
  <2>8. Count(pcm', wGen) + Count(queue, wGen) + Count(acks, wGen) <= inflight'
    <3>1. Count(pcm, wGen) + Count(queue, wGen) + Count(acks, wGen) <= inflight
      BY <2>2 DEF SidCredit
    <3>2. inflight' = inflight + 1
      BY <2>1
    <3> QED  BY <1>1, <1>2, <2>4, <3>1, <3>2
  <2>9. ASSUME NEW g \in Gens  PROVE Count(pcm', g) + Count(queue, g) <= Target
    <3>1. CASE g = wGen
      <4>1. Count(pcm', wGen) + Count(queue, wGen) + Count(acks, wGen) <= Target
        BY <1>1, <1>2, <2>1, <2>2, <2>4, <2>8
      <4> QED  BY <1>1, <1>2, <2>4, <3>1, <4>1
    <3>2. CASE g # wGen
      BY <2>5, <3>2 DEF SidCredit, SidCreditBound
    <3> QED  BY <3>1, <3>2
  <2> QED  BY <1>1, <2>1, <2>2, <2>6, <2>7, <2>8, <2>9 DEF SidCredit, SidCreditBound
<1>4. ASSUME NEW cmd, Handles(cmd)
      PROVE  /\ UNCHANGED <<gen, pcm, acks, queue>>
             /\ toWorker # <<>> /\ toWorker' = Tail(toWorker) /\ Head(toWorker).cmd = cmd
  BY <1>4 DEF Handles, main, worklet
<1>5. ASSUME SidLoad \/ SidSetPos  PROVE SidCredit'
  <2>1. /\ Handles("load") \/ Handles("setPos")
        /\ Restart(Head(toWorker).gen)
    BY <1>5 DEF SidLoad, SidSetPos
  <2>2. /\ GensAhead' /\ Fresh' /\ inflight' = 0
        /\ Count(pcm', wGen') + Count(queue', wGen') + Count(acks', wGen') = 0
    BY <1>1, <1>4, <2>1, OpenedFresh DEF Opens, SidCredit
  <2> QED  BY <1>1, <1>4, <2>1, <2>2 DEF SidCredit, SidCreditBound
<1>6. ASSUME SidStop  PROVE SidCredit'
  <2>1. Handles("stop") /\ eof' = TRUE /\ inflight' = 0 /\ UNCHANGED wGen
    BY <1>6 DEF SidStop
  <2>2. GensAhead'
    BY <1>1, <1>4, <2>1, AheadAfterReceive DEF SidCredit
  <2> QED  BY <1>1, <1>4, <2>1, <2>2 DEF SidCredit, SidCreditBound, Fresh
<1>7. ASSUME UNCHANGED <<gen, toWorker, pcm, acks, queue, wGen, inflight>>, ~eof' => ~eof
      PROVE  SidCredit'
  BY <1>7, AheadStays DEF SidCredit, SidCreditBound, Fresh
<1>8. ASSUME SidEngine  PROVE SidCredit'
  <2>1. UNCHANGED <<main, ports, worklet, wGen, inflight>>
    BY <1>8 DEF SidEngine, Opened, NotOpened, Sought, Through
  <2>2. ~eof' => ~eof
    BY <1>8 DEF SidEngine, Opened, NotOpened, Sought
  <2> QED  BY <1>7, <2>1, <2>2 DEF main, ports, worklet
<1>9. ASSUME SidAck  PROVE SidCredit'
  <2>1. /\ acks # <<>> /\ acks' = Tail(acks)
        /\ UNCHANGED <<gen, toWorker, pcm, queue, wGen, eof>>
        /\ inflight' = IF Head(acks).gen = wGen THEN inflight - 1 ELSE inflight
    BY <1>9 DEF SidAck, main, worklet
  <2>2. \A g \in Gens :
          /\ Count(acks, g) = Count(acks', g) + (IF Head(acks).gen = g THEN 1 ELSE 0)
          /\ Count(acks', g) \in Nat
    BY <1>1, <2>1, AckedCounts
  <2>3. GensAhead'
    BY <2>1, AheadStays DEF SidCredit
  <2>4. Fresh'
    BY <1>2, <2>1, <2>2 DEF SidCredit, Fresh
  <2> QED  BY <1>1, <1>2, <2>1, <2>2, <2>3, <2>4 DEF SidCredit, SidCreditBound
<1>10. ASSUME Main, UNCHANGED sid  PROVE SidCredit'
  <2>1. GensAhead' /\ UNCHANGED <<pcm, acks, worker, worklet>>
    BY <1>1, <1>10, MainAhead DEF SidCredit
  <2> QED  BY <2>1 DEF SidCredit, SidCreditBound, Fresh, worker, worklet
<1>11. ASSUME Worklet, UNCHANGED sid  PROVE SidCredit'
  <2>1. Recedes /\ UNCHANGED <<gen, toWorker, wGen, playing, eof, inflight>>
    BY <1>1, <1>11, WorkletRecedes
  <2>2. GensAhead'
    BY <2>1, AheadStays DEF SidCredit
  <2> QED  BY <1>1, <2>1, <2>2, NothingNew DEF SidCredit, SidCreditBound
<1>12. CASE UNCHANGED sidVars
  BY <1>7, <1>12 DEF sidVars, vars, main, ports, worker, worklet
<1> QED
  BY <1>3, <1>5, <1>6, <1>8, <1>9, <1>10, <1>11, <1>12
  DEF SidNext, SidDecoder, SidMessage

\* The SID decoder, too, keeps at most TARGET chunks in flight (sid.worker.ts, pump):
\* of no generation are more than Target on their way, though a generation may begin
\* with the tune before still in the engine, and a stop come before its opening ends.
THEOREM SidCreditBounded == SidSpec => []SidCreditBound
<1>1. SidInit => SidCredit
  <2> SUFFICES ASSUME SidInit PROVE SidCredit
    OBVIOUS
  <2>1. GensAhead
    BY DEF SidInit, Init, GensAhead
  <2> QED
    BY <2>1, CountEmpty, ConstantsOK DEF SidInit, Init, SidCredit, SidCreditBound, Fresh
<1>2. SidCredit => SidCreditBound
  BY DEF SidCredit
<1> QED  BY <1>1, <1>2, SidCreditKept, SidSafeAlways, PTL DEF SidSpec
-----------------------------------------------------------------------------
(* The tune asked for last.                                                *)

\* The generation the worker is in once it has taken what waits is the newest.
GenDue ==
  /\ cut \subseteq 0 .. gen
  /\ \A i \in DOMAIN toWorker : Opens(toWorker[i]) =>
       \/ toWorker[i].gen = gen
       \/ \E j \in DOMAIN toWorker : j > i /\ Opens(toWorker[j])
  /\ (\A i \in DOMAIN toWorker : ~Opens(toWorker[i])) => wGen = gen

\* If that generation was stopped, the worker has taken the stop, or will last.
StopDue ==
  gen \in cut =>
    \/ \E k \in DOMAIN toWorker :
         /\ toWorker[k].cmd = "stop"
         /\ \A j \in DOMAIN toWorker : j > k => ~Opens(toWorker[j])
    \/ eof /\ \A j \in DOMAIN toWorker : ~Opens(toWorker[j])

Loads(c) == c.cmd = "load"
OpenAsked(a) == a.call = "open"

\* The tune wished for is the last one waiting to be loaded, with no stop after it;
\* or else the last one being opened; or else the one that plays.
LoadDue ==
  \A i \in DOMAIN toWorker : Loads(toWorker[i]) =>
    \/ /\ toWorker[i].song = Wished
       /\ \A j \in DOMAIN toWorker : j > i => toWorker[j].cmd # "stop"
    \/ \E j \in DOMAIN toWorker : j > i /\ Loads(toWorker[j])

OpenDue ==
  \A i \in DOMAIN asks : OpenAsked(asks[i]) =>
    \/ asks[i].song = Wished
    \/ \E j \in DOMAIN asks : j > i /\ OpenAsked(asks[j])

PlayDue ==
  \/ spoilt
  \/ ~eof /\ ((\A i \in DOMAIN asks : ~OpenAsked(asks[i])) => module = Wished /\ playing)

SongDue ==
  Wished # None =>
    /\ LoadDue
    /\ (\A i \in DOMAIN toWorker : ~Loads(toWorker[i])) =>
         /\ \A i \in DOMAIN toWorker : toWorker[i].cmd # "stop"
         /\ OpenDue /\ PlayDue

Due == GenDue /\ StopDue /\ SongDue

\* Main and worklet leave all of it alone but what the user asks for.
LEMMA DueStays ==
  Due /\ UNCHANGED <<gen, asked, cut, toWorker, wGen, module, playing, eof, asks, spoilt>>
    => Due'
  BY DEF Due, GenDue, StopDue, SongDue, LoadDue, OpenDue, PlayDue, Wished, Loaded

\* What waits, with one more call at the end, or with the first one taken.
LEMMA MoreWaits ==
  ASSUME TypeOK, NEW c \in WorkerCall, toWorker' = Append(toWorker, c)
  PROVE  /\ DOMAIN toWorker \subseteq DOMAIN toWorker' /\ DOMAIN toWorker \subseteq Int
         /\ \A i \in DOMAIN toWorker : toWorker'[i] = toWorker[i]
         /\ \E n \in DOMAIN toWorker' :
              /\ toWorker'[n] = c /\ n \in Int
              /\ DOMAIN toWorker' = DOMAIN toWorker \cup {n}
              /\ \A i \in DOMAIN toWorker : i < n
<1> DEFINE n == Len(toWorker) + 1
<1>1. toWorker \in Seq(WorkerCall) /\ toWorker' \in Seq(WorkerCall) /\ Len(toWorker') = n
  BY AppendProperties DEF TypeOK, PortsOK
<1>2. DOMAIN toWorker = 1 .. n - 1 /\ DOMAIN toWorker' = 1 .. n /\ n \in Nat \ {0}
  BY <1>1, LenProperties
<1>3. toWorker'[n] = c /\ \A i \in 1 .. n - 1 : toWorker'[i] = toWorker[i]
  BY <1>1, AppendProperties
<1> HIDE DEF n
<1>4. DOMAIN toWorker' = DOMAIN toWorker \cup {n} /\ n \in DOMAIN toWorker'
  BY <1>2
<1>5. \A i \in DOMAIN toWorker : i < n
  BY <1>2
<1> QED  BY <1>2, <1>3, <1>4, <1>5

LEMMA OneTaken ==
  ASSUME TypeOK, toWorker # <<>>, toWorker' = Tail(toWorker)
  PROVE  /\ DOMAIN toWorker \subseteq Int /\ DOMAIN toWorker' \subseteq Int
         /\ 1 \in DOMAIN toWorker /\ Head(toWorker) = toWorker[1]
         /\ \A i \in DOMAIN toWorker' :
              i >= 1 /\ i + 1 \in DOMAIN toWorker /\ toWorker'[i] = toWorker[i + 1]
         /\ \A i \in DOMAIN toWorker : i > 1 =>
              i - 1 \in DOMAIN toWorker' /\ toWorker'[i - 1] = toWorker[i]
         /\ \A i \in DOMAIN toWorker : i >= 1
<1> DEFINE n == Len(toWorker)
<1>1. toWorker \in Seq(WorkerCall) /\ toWorker' \in Seq(WorkerCall) /\ Len(toWorker') = n - 1
  BY HeadTailProperties DEF TypeOK, PortsOK
<1>2. DOMAIN toWorker = 1 .. n /\ DOMAIN toWorker' = 1 .. n - 1 /\ n \in Nat \ {0}
  BY <1>1, LenProperties, EmptySeq
<1>3. Head(toWorker) = toWorker[1] /\ \A i \in 1 .. n - 1 : toWorker'[i] = toWorker[i + 1]
  BY <1>1, HeadTailProperties
<1> HIDE DEF n
<1> QED  BY <1>2, <1>3

LEMMA AppendLast ==
  ASSUME NEW S, NEW s \in Seq(S), NEW x
  PROVE  x = Append(s, x)[Len(s) + 1]
  OBVIOUS

LEMMA MainDue == TypeOK /\ TypeOK' /\ Due /\ Main /\ UNCHANGED sid => Due'
<1> SUFFICES ASSUME TypeOK, TypeOK', Due, Main, UNCHANGED sid PROVE Due'
  OBVIOUS
<1> USE ConstantsOK
<1>1. UNCHANGED <<wGen, module, playing, eof, asks, spoilt>> /\ gen \in Nat
  <2>1. UNCHANGED <<wGen, module, playing, eof>>
    BY DEF Main, Play, DecodeSong, SetPos, Stop, PauseCall, worker
  <2>2. gen \in Nat
    BY DEF TypeOK, MainOK, Gens
  <2> QED  BY <2>1, <2>2 DEF sid
<1>2. ASSUME NEW s \in Songs, Play(s)  PROVE Due'
  <2> DEFINE c == [cmd |-> "load", gen |-> gen + 1, song |-> s]
  <2>1. /\ c \in WorkerCall /\ toWorker' = Append(toWorker, c) /\ gen' = gen + 1
        /\ Opens(c) /\ Loads(c) /\ c.song = s /\ c.gen = gen'
        /\ UNCHANGED cut
    BY <1>2 DEF TypeOK, MainOK, Play, Post, WorkerCall, Gens, Opens, Loads
  <2>2. Wished' \in {s, None} /\ gen' \notin cut'
    <3>1. gen' \notin cut'
      BY <1>1, <2>1 DEF Due, GenDue
    <3>2. asked'[gen + 1] = [song |-> s, start |-> 1]
      BY <1>2, AppendProperties DEF TypeOK, MainOK, Play
    <3> QED  BY <1>1, <2>1, <3>1, <3>2 DEF Wished, Loaded
  <2> HIDE DEF c
  <2>3. PICK n \in DOMAIN toWorker' :
          /\ toWorker'[n] = c /\ n \in Int
          /\ DOMAIN toWorker' = DOMAIN toWorker \cup {n}
          /\ \A i \in DOMAIN toWorker : i < n
    BY <2>1, MoreWaits
  <2>4. GenDue'
    BY <1>1, <2>1, <2>3 DEF Due, GenDue
  <2>5. StopDue'
    BY <2>2 DEF StopDue
  <2>6. SongDue'
    <3>1. Wished' # None => LoadDue'
      BY <2>1, <2>2, <2>3 DEF LoadDue, Loads
    <3> QED  BY <2>1, <2>3, <3>1 DEF SongDue
  <2> QED  BY <2>4, <2>5, <2>6 DEF Due
<1>3. ASSUME NEW p \in Seeks, SetPos(p)  PROVE Due'
  <2> DEFINE c == [cmd |-> "setPos", gen |-> gen + 1, pos |-> p]
  <2>1. /\ c \in WorkerCall /\ toWorker' = Append(toWorker, c) /\ gen' = gen + 1
        /\ Opens(c) /\ ~Loads(c) /\ c.cmd # "stop" /\ c.gen = gen'
        /\ UNCHANGED cut
    BY <1>3 DEF TypeOK, MainOK, SetPos, Post, WorkerCall, Gens, Opens, Loads
  <2>2. Wished' = Wished /\ gen' \notin cut'
    <3>1. gen' \notin cut'
      BY <1>1, <2>1 DEF Due, GenDue
    <3>2. asked'[gen + 1] = [song |-> Loaded, start |-> p]
      <4>1. [song |-> Loaded, start |-> p] = asked'[Len(asked) + 1]
        BY <1>3, AppendLast DEF SetPos, TypeOK, MainOK
      <4> QED  BY <4>1 DEF TypeOK, MainOK
    <3>3. Loaded' = Loaded
      BY <1>1, <2>1, <3>1, <3>2 DEF Loaded
    <3> QED  BY <3>1, <3>3 DEF Wished
  <2> HIDE DEF c
  <2>3. PICK n \in DOMAIN toWorker' :
          /\ toWorker'[n] = c /\ n \in Int
          /\ DOMAIN toWorker' = DOMAIN toWorker \cup {n}
          /\ \A i \in DOMAIN toWorker : i < n
    BY <2>1, MoreWaits
  <2>4. \A i \in DOMAIN toWorker : toWorker'[i] = toWorker[i]
    BY <2>1, MoreWaits
  <2>5. GenDue'
    BY <1>1, <2>1, <2>3 DEF Due, GenDue
  <2>6. StopDue'
    BY <2>2 DEF StopDue
  <2>7. SongDue'
    BY <1>1, <2>1, <2>2, <2>3, <2>4 DEF Due, SongDue, LoadDue, OpenDue, PlayDue
  <2> QED  BY <2>5, <2>6, <2>7 DEF Due
<1>4. ASSUME Stop  PROVE Due'
  <2> DEFINE c == [cmd |-> "stop"]
  <2>1. /\ c \in WorkerCall /\ toWorker' = Append(toWorker, c) /\ gen' = gen
        /\ ~Opens(c) /\ c.cmd = "stop"
        /\ cut' = cut \cup {gen}
    BY <1>4 DEF Stop, Post, WorkerCall, Opens
  <2>2. Wished' = None
    BY <2>1 DEF Wished, Loaded
  <2> HIDE DEF c
  <2>3. PICK n \in DOMAIN toWorker' :
          /\ toWorker'[n] = c /\ n \in Int
          /\ DOMAIN toWorker' = DOMAIN toWorker \cup {n}
          /\ \A i \in DOMAIN toWorker : i < n
    BY <2>1, MoreWaits
  <2>4. \A i \in DOMAIN toWorker : toWorker'[i] = toWorker[i]
    BY <2>1, MoreWaits
  <2>5. GenDue'
    BY <1>1, <2>1, <2>3, <2>4 DEF Due, GenDue
  <2>6. StopDue'
    BY <2>1, <2>3, MoreWaits DEF StopDue
  <2> QED  BY <2>2, <2>5, <2>6 DEF Due, SongDue
<1>5. ASSUME NEW s \in Decoded, DecodeSong(s)  PROVE Due'
  <2> DEFINE c == [cmd |-> "decodeSong", song |-> s]
  <2>1. /\ c \in WorkerCall /\ toWorker' = Append(toWorker, c)
        /\ UNCHANGED <<gen, asked, cut>>
        /\ ~Opens(c) /\ ~Loads(c) /\ c.cmd # "stop"
    BY <1>5 DEF DecodeSong, main, WorkerCall, Opens, Loads
  <2>2. Wished' = Wished
    BY <2>1 DEF Wished, Loaded
  <2> HIDE DEF c
  <2>3. PICK n \in DOMAIN toWorker' :
          /\ toWorker'[n] = c /\ n \in Int
          /\ DOMAIN toWorker' = DOMAIN toWorker \cup {n}
          /\ \A i \in DOMAIN toWorker : i < n
    BY <2>1, MoreWaits
  <2>4. \A i \in DOMAIN toWorker : toWorker'[i] = toWorker[i]
    BY <2>1, MoreWaits
  <2>5. GenDue'
    BY <1>1, <2>1, <2>3, <2>4 DEF Due, GenDue
  <2>6. StopDue'
    BY <1>1, <2>1, <2>3, <2>4 DEF Due, StopDue
  <2>7. SongDue'
    BY <1>1, <2>1, <2>2, <2>3, <2>4, SMTT(30) DEF Due, SongDue, LoadDue, OpenDue, PlayDue
  <2> QED  BY <2>5, <2>6, <2>7 DEF Due
<1>6. ASSUME NEW cmd \in PauseCalls, PauseCall(cmd)  PROVE Due'
  BY <1>1, <1>6, DueStays DEF PauseCall, main
<1> QED  BY <1>2, <1>3, <1>4, <1>5, <1>6 DEF Main

\* The engine is through with a call: what else it was asked stays in order.
LEMMA OneThrough ==
  ASSUME SidTypeOK, NEW i \in DOMAIN asks, asks' = RemoveAt(asks, i)
  PROVE  /\ DOMAIN asks \subseteq Int /\ DOMAIN asks' \subseteq Int
         /\ \A j \in DOMAIN asks' :
              \/ j < i /\ j \in DOMAIN asks /\ asks'[j] = asks[j]
              \/ j >= i /\ j + 1 \in DOMAIN asks /\ asks'[j] = asks[j + 1]
         /\ \A j \in DOMAIN asks :
              /\ j < i => j \in DOMAIN asks' /\ asks'[j] = asks[j]
              /\ j > i => j - 1 \in DOMAIN asks' /\ asks'[j - 1] = asks[j]
<1> DEFINE n == Len(asks)
<1>1. asks \in Seq(Asked) /\ asks' \in Seq(Asked) /\ Len(asks') = n - 1
  BY RemoveAtProperties DEF SidTypeOK
<1>2. DOMAIN asks = 1 .. n /\ DOMAIN asks' = 1 .. n - 1 /\ n \in Nat
  BY <1>1, LenProperties
<1>3. \A j \in 1 .. n - 1 : asks'[j] = IF j < i THEN asks[j] ELSE asks[j + 1]
  BY <1>1, RemoveAtProperties
<1> HIDE DEF n
<1> QED  BY <1>2, <1>3

LEMMA OneAsked ==
  ASSUME SidTypeOK, NEW a \in Asked, asks' = Append(asks, a)
  PROVE  /\ DOMAIN asks \subseteq Int
         /\ \A i \in DOMAIN asks : asks'[i] = asks[i]
         /\ \E n \in DOMAIN asks' :
              /\ asks'[n] = a /\ n \in Int
              /\ DOMAIN asks' = DOMAIN asks \cup {n}
              /\ \A i \in DOMAIN asks : i < n
<1> DEFINE n == Len(asks) + 1
<1>1. asks \in Seq(Asked) /\ asks' \in Seq(Asked) /\ Len(asks') = n
  BY AppendProperties DEF SidTypeOK
<1>2. DOMAIN asks = 1 .. n - 1 /\ DOMAIN asks' = 1 .. n /\ n \in Nat \ {0}
  BY <1>1, LenProperties
<1>3. asks'[n] = a /\ \A i \in 1 .. n - 1 : asks'[i] = asks[i]
  BY <1>1, AppendProperties
<1> HIDE DEF n
<1>4. DOMAIN asks' = DOMAIN asks \cup {n} /\ n \in DOMAIN asks' /\ \A i \in DOMAIN asks : i < n
  BY <1>2
<1> QED  BY <1>2, <1>3, <1>4

LEMMA MessageDue == SidTypeOK /\ Due /\ SidMessage => Due'
<1> SUFFICES ASSUME SidTypeOK, Due, SidMessage PROVE Due'
  OBVIOUS
<1>1. TypeOK
  BY DEF SidTypeOK
<1>2. /\ toWorker # <<>> /\ toWorker' = Tail(toWorker)
      /\ UNCHANGED <<gen, asked, cut, module>> /\ Wished' = Wished
  <2>1. toWorker # <<>> /\ toWorker' = Tail(toWorker) /\ UNCHANGED <<gen, asked, cut, module>>
    BY DEF SidMessage, SidLoad, SidStop, SidSetPos, Handles, main
  <2> QED  BY <2>1 DEF Wished, Loaded
<1>3. Head(toWorker) \in WorkerCall
  BY <1>1, <1>2, TailTyped DEF TypeOK, PortsOK
<1>4. /\ DOMAIN toWorker \subseteq Int /\ DOMAIN toWorker' \subseteq Int
      /\ 1 \in DOMAIN toWorker /\ Head(toWorker) = toWorker[1]
      /\ \A i \in DOMAIN toWorker' :
           i >= 1 /\ i + 1 \in DOMAIN toWorker /\ toWorker'[i] = toWorker[i + 1]
      /\ \A i \in DOMAIN toWorker : i > 1 =>
           i - 1 \in DOMAIN toWorker' /\ toWorker'[i - 1] = toWorker[i]
      /\ \A i \in DOMAIN toWorker : i >= 1
  BY <1>1, <1>2, OneTaken
\* The calls that follow an opening in the port: whatever holds of the last one.
<1>5. ASSUME Opens(Head(toWorker)) => wGen' = Head(toWorker).gen,
             ~Opens(Head(toWorker)) => wGen' = wGen
      PROVE  GenDue'
  <2>1. ASSUME NEW i \in DOMAIN toWorker', Opens(toWorker'[i]), toWorker'[i].gen # gen
        PROVE  \E j \in DOMAIN toWorker' : j > i /\ Opens(toWorker'[j])
    <3>1. PICK j \in DOMAIN toWorker : j > i + 1 /\ Opens(toWorker[j])
      BY <1>4, <2>1 DEF Due, GenDue
    <3>2. j - 1 > i /\ j > 1
      BY <1>4, <3>1
    <3> QED  BY <1>4, <3>1, <3>2
  <2>2. ASSUME \A i \in DOMAIN toWorker' : ~Opens(toWorker'[i])  PROVE wGen' = gen
    <3>1. \A i \in DOMAIN toWorker : i > 1 => ~Opens(toWorker[i])
      BY <1>4, <2>2
    <3>2. CASE Opens(Head(toWorker))
      BY <1>4, <1>5, <3>1, <3>2 DEF Due, GenDue
    <3>3. CASE ~Opens(Head(toWorker))
      <4>1. \A i \in DOMAIN toWorker : ~Opens(toWorker[i])
        BY <1>4, <3>1, <3>3
      <4> QED  BY <1>5, <3>3, <4>1 DEF Due, GenDue
    <3> QED  BY <3>2, <3>3
  <2> QED  BY <1>2, <2>1, <2>2 DEF Due, GenDue
<1>6. ASSUME Head(toWorker).cmd = "stop" => eof', ~Opens(Head(toWorker)) => (eof => eof')
      PROVE  StopDue'
  <2> SUFFICES ASSUME gen \in cut
               PROVE  \/ \E k \in DOMAIN toWorker' :
                           /\ toWorker'[k].cmd = "stop"
                           /\ \A j \in DOMAIN toWorker' : j > k => ~Opens(toWorker'[j])
                      \/ eof' /\ \A j \in DOMAIN toWorker' : ~Opens(toWorker'[j])
    BY <1>2 DEF StopDue
  <2>1. CASE eof /\ \A j \in DOMAIN toWorker : ~Opens(toWorker[j])
    BY <1>4, <1>6, <2>1
  <2>2. ASSUME NEW k \in DOMAIN toWorker, toWorker[k].cmd = "stop",
               \A j \in DOMAIN toWorker : j > k => ~Opens(toWorker[j])
        PROVE  \/ \E l \in DOMAIN toWorker' :
                    /\ toWorker'[l].cmd = "stop"
                    /\ \A j \in DOMAIN toWorker' : j > l => ~Opens(toWorker'[j])
               \/ eof' /\ \A j \in DOMAIN toWorker' : ~Opens(toWorker'[j])
    <3>1. CASE k = 1
      BY <1>4, <1>6, <2>2, <3>1
    <3>2. CASE k > 1
      <4>1. k - 1 \in DOMAIN toWorker' /\ toWorker'[k - 1].cmd = "stop"
        BY <1>4, <2>2, <3>2
      <4>2. ASSUME NEW j \in DOMAIN toWorker', j > k - 1  PROVE ~Opens(toWorker'[j])
        BY <1>4, <2>2, <4>2
      <4> QED  BY <4>1, <4>2
    <3> QED  BY <1>4, <3>1, <3>2
  <2> QED  BY <2>1, <2>2 DEF Due, StopDue
<1>7. ASSUME Wished # None  PROVE (\E i \in DOMAIN toWorker' : Loads(toWorker'[i])) => LoadDue'
  <2> SUFFICES ASSUME NEW i \in DOMAIN toWorker', Loads(toWorker'[i]),
                      ~\E j \in DOMAIN toWorker' : j > i /\ Loads(toWorker'[j])
               PROVE  /\ toWorker'[i].song = Wished
                      /\ \A j \in DOMAIN toWorker' : j > i => toWorker'[j].cmd # "stop"
    BY <1>2 DEF LoadDue
  <2>1. i + 1 \in DOMAIN toWorker /\ Loads(toWorker[i + 1]) /\ toWorker'[i] = toWorker[i + 1]
    BY <1>4
  <2>2. ~\E j \in DOMAIN toWorker : j > i + 1 /\ Loads(toWorker[j])
    BY <1>4
  <2>3. /\ toWorker[i + 1].song = Wished
        /\ \A j \in DOMAIN toWorker : j > i + 1 => toWorker[j].cmd # "stop"
    BY <1>7, <2>1, <2>2 DEF Due, SongDue, LoadDue
  <2> QED  BY <1>4, <2>1, <2>3
<1>8. ASSUME SidLoad  PROVE Due'
  <2> DEFINE a == [call |-> "open", song |-> Head(toWorker).song]
  <2>1. /\ Head(toWorker).cmd = "load" /\ wGen' = Head(toWorker).gen /\ eof' = FALSE
        /\ asks' = Append(asks, a)
    BY <1>8 DEF SidLoad, Handles, Restart
  <2>2. a \in Asked /\ OpenAsked(a) /\ a.song = Head(toWorker).song
    BY <1>3, <2>1 DEF Asked, OpenAsked, WorkerCall
  <2> HIDE DEF a
  <2>3. GenDue' /\ StopDue'
    BY <1>5, <1>6, <2>1 DEF Opens
  <2>4. ASSUME Wished # None, \A i \in DOMAIN toWorker' : ~Loads(toWorker'[i])
        PROVE  /\ \A i \in DOMAIN toWorker' : toWorker'[i].cmd # "stop"
               /\ OpenDue' /\ PlayDue'
    <3>1. \A j \in DOMAIN toWorker : j > 1 => ~Loads(toWorker[j])
      BY <1>4, <2>4
    <3>2. toWorker[1].song = Wished /\ \A j \in DOMAIN toWorker : j > 1 => toWorker[j].cmd # "stop"
      BY <1>4, <2>1, <2>4, <3>1 DEF Due, SongDue, LoadDue, Loads
    <3>3. \A i \in DOMAIN toWorker' : toWorker'[i].cmd # "stop"
      BY <1>4, <3>2
    <3>4. PICK n \in DOMAIN asks' :
            /\ asks'[n] = a /\ DOMAIN asks' = DOMAIN asks \cup {n}
            /\ \A i \in DOMAIN asks : i < n
      BY <2>1, <2>2, OneAsked
    <3>5. OpenDue'
      BY <1>2, <1>4, <2>2, <3>2, <3>4 DEF OpenDue
    <3>6. PlayDue'
      BY <2>1, <2>2, <3>4 DEF PlayDue
    <3> QED  BY <3>3, <3>5, <3>6
  <2>5. SongDue'
    BY <1>2, <1>7, <2>4 DEF SongDue, LoadDue
  <2> QED  BY <2>3, <2>5 DEF Due
<1>9. ASSUME ~Loads(Head(toWorker)), Wished # None,
             \A i \in DOMAIN toWorker' : ~Loads(toWorker'[i])
      PROVE  /\ Head(toWorker).cmd # "stop"
             /\ \A i \in DOMAIN toWorker' : toWorker'[i].cmd # "stop"
             /\ OpenDue /\ PlayDue
  <2>1. \A i \in DOMAIN toWorker : ~Loads(toWorker[i])
    BY <1>4, <1>9
  <2>2. OpenDue /\ PlayDue /\ \A i \in DOMAIN toWorker : toWorker[i].cmd # "stop"
    BY <1>9, <2>1 DEF Due, SongDue
  <2> QED  BY <1>4, <2>2
<1>10. ASSUME SidStop  PROVE Due'
  <2>1. /\ Head(toWorker).cmd = "stop" /\ wGen' = wGen /\ eof'
    BY <1>10 DEF SidStop, Handles
  <2>2. GenDue' /\ StopDue'
    BY <1>5, <1>6, <2>1 DEF Opens
  <2>3. SongDue'
    BY <1>2, <1>7, <1>9, <2>1 DEF SongDue, LoadDue, Loads
  <2> QED  BY <2>2, <2>3 DEF Due
<1>11. ASSUME SidSetPos  PROVE Due'
  <2> DEFINE a == [call |-> "seek", pos |-> Head(toWorker).pos]
  <2>1. /\ Head(toWorker).cmd = "setPos" /\ wGen' = Head(toWorker).gen /\ eof' = FALSE
        /\ asks' = Append(asks, a) /\ UNCHANGED <<playing, spoilt>>
    BY <1>11 DEF SidSetPos, Handles, Restart
  <2>2. a \in Asked /\ ~OpenAsked(a)
    BY <1>3, <2>1 DEF Asked, OpenAsked, WorkerCall
  <2> HIDE DEF a
  <2>3. GenDue' /\ StopDue'
    BY <1>5, <1>6, <2>1 DEF Opens
  <2>4. ASSUME OpenDue, PlayDue  PROVE OpenDue' /\ PlayDue'
    <3>1. PICK n \in DOMAIN asks' :
            /\ asks'[n] = a /\ DOMAIN asks' = DOMAIN asks \cup {n}
            /\ \A i \in DOMAIN asks : i < n
      BY <2>1, <2>2, OneAsked
    <3>2. \A i \in DOMAIN asks : asks'[i] = asks[i]
      BY <2>1, <2>2, OneAsked
    <3>3. OpenDue'
      BY <1>2, <2>2, <2>4, <3>1, <3>2 DEF OpenDue
    <3>4. PlayDue'
      BY <1>2, <2>1, <2>2, <2>4, <3>1, <3>2 DEF PlayDue
    <3> QED  BY <3>3, <3>4
  <2>5. SongDue'
    BY <1>2, <1>7, <1>9, <2>1, <2>4 DEF SongDue, LoadDue, Loads
  <2> QED  BY <2>3, <2>5 DEF Due
<1> QED  BY <1>8, <1>10, <1>11 DEF SidMessage

LEMMA EngineDue == SidTypeOK /\ Due /\ SidEngine => Due'
<1> SUFFICES ASSUME SidTypeOK, Due, NEW i \in DOMAIN asks,
                    Opened(i) \/ NotOpened(i) \/ Sought(i)
             PROVE  Due'
  BY DEF SidEngine
<1>1. /\ UNCHANGED <<gen, asked, cut, toWorker, wGen>> /\ asks' = RemoveAt(asks, i)
      /\ Wished' = Wished
  <2>1. UNCHANGED <<gen, asked, cut, toWorker, wGen>> /\ asks' = RemoveAt(asks, i)
    BY DEF Opened, NotOpened, Sought, Through, main, ports
  <2> QED  BY <2>1 DEF Wished, Loaded
<1>2. /\ DOMAIN asks \subseteq Int /\ DOMAIN asks' \subseteq Int
      /\ \A j \in DOMAIN asks' :
           \/ j < i /\ j \in DOMAIN asks /\ asks'[j] = asks[j]
           \/ j >= i /\ j + 1 \in DOMAIN asks /\ asks'[j] = asks[j + 1]
      /\ \A j \in DOMAIN asks :
           /\ j < i => j \in DOMAIN asks' /\ asks'[j] = asks[j]
           /\ j > i => j - 1 \in DOMAIN asks' /\ asks'[j - 1] = asks[j]
  BY <1>1, OneThrough
<1>3. GenDue' /\ (eof => eof')
  <2>1. GenDue'
    BY <1>1 DEF Due, GenDue
  <2>2. eof => eof'
    BY DEF Opened, NotOpened, Sought
  <2> QED  BY <2>1, <2>2
<1>4. StopDue'
  BY <1>1, <1>3 DEF Due, StopDue
<1>5. LoadDue => LoadDue'
  BY <1>1 DEF LoadDue
<1>6. ASSUME OpenDue  PROVE OpenDue'
  <2> SUFFICES ASSUME NEW j \in DOMAIN asks', OpenAsked(asks'[j]), asks'[j].song # Wished
               PROVE  \E k \in DOMAIN asks' : k > j /\ OpenAsked(asks'[k])
    BY <1>1 DEF OpenDue
  <2>1. PICK l \in DOMAIN asks : OpenAsked(asks[l]) /\ l > j /\ l # i /\ (j >= i => l > j + 1)
    <3>1. CASE j >= i
      BY <1>2, <1>6, <3>1 DEF OpenDue
    <3>2. CASE j < i
      <4>1. PICK l \in DOMAIN asks : OpenAsked(asks[l]) /\ l > j
        BY <1>2, <1>6, <3>2 DEF OpenDue
      <4>2. l # i
        <5>1. \A k \in 1 .. i - 1 : asks[k].call # asks[i].call
          BY DEF Opened, NotOpened, Sought, Through
        <5>2. j \in 1 .. i - 1 /\ asks[j] = asks'[j]
          BY <1>2, <3>2, LenProperties DEF SidTypeOK
        <5> QED  BY <4>1, <5>1, <5>2 DEF OpenAsked
      <4> QED  BY <1>2, <3>2, <4>1, <4>2
    <3> QED  BY <1>2, <3>1, <3>2
  <2>2. CASE l < i
    BY <1>2, <2>1, <2>2
  <2>3. CASE l > i
    <3>1. l - 1 \in DOMAIN asks' /\ asks'[l - 1] = asks[l] /\ l - 1 > j
      BY <1>2, <2>1, <2>3
    <3> QED  BY <2>1, <3>1
  <2> QED  BY <1>2, <2>1, <2>2, <2>3
\* If nothing is left to be opened, this was the last, and the tune wished for.
<1>7. ASSUME OpenDue, OpenAsked(asks[i]), \A j \in DOMAIN asks' : ~OpenAsked(asks'[j])
      PROVE  asks[i].song = Wished
  <2>1. ~\E j \in DOMAIN asks : j > i /\ OpenAsked(asks[j])
    BY <1>2, <1>7
  <2> QED  BY <1>7, <2>1 DEF OpenDue
<1>8. ASSUME Wished # None, OpenDue, PlayDue  PROVE PlayDue'
  <2>1. CASE Opened(i)
    <3>1. /\ OpenAsked(asks[i]) /\ module' = asks[i].song /\ playing'
          /\ UNCHANGED <<eof, spoilt>>
      BY <2>1 DEF Opened, Through, OpenAsked
    <3> QED  BY <1>1, <1>7, <1>8, <3>1 DEF PlayDue
  <2>2. CASE NotOpened(i)
    <3>1. /\ OpenAsked(asks[i]) /\ asks[i].song \in Unparsable
          /\ spoilt' = \E j \in DOMAIN asks' : OpenAsked(asks'[j])
      BY <2>2 DEF NotOpened, Through, OpenAsked
    <3>2. Wished \notin Unparsable
      BY <1>8 DEF Wished
    <3> QED  BY <1>7, <1>8, <3>1, <3>2 DEF PlayDue
  <2>3. CASE Sought(i)
    <3>1. ~OpenAsked(asks[i]) /\ UNCHANGED <<module, playing, eof, spoilt>>
      BY <2>3 DEF Sought, Through, OpenAsked
    <3>2. (\A j \in DOMAIN asks' : ~OpenAsked(asks'[j]))
             => \A j \in DOMAIN asks : ~OpenAsked(asks[j])
      BY <1>2, <3>1
    <3> QED  BY <1>1, <1>8, <3>1, <3>2 DEF PlayDue
  <2> QED  BY <2>1, <2>2, <2>3
<1>9. SongDue'
  BY <1>1, <1>5, <1>6, <1>8 DEF Due, SongDue
<1> QED  BY <1>3, <1>4, <1>9 DEF Due

LEMMA DueAlways == SidSpec => []Due
<1>1. SidInit => Due
  <2> SUFFICES ASSUME SidInit PROVE Due
    OBVIOUS
  <2>1. Wished = None /\ toWorker = <<>> /\ gen = 0 /\ cut = {} /\ wGen = 0
    BY ConstantsOK DEF SidInit, Init, Wished, Loaded
  <2> QED  BY <2>1 DEF Due, GenDue, StopDue, SongDue
<1>2. SidSafe /\ SidSafe' /\ Due /\ [SidNext]_sidVars => Due'
  <2> SUFFICES ASSUME SidTypeOK, TypeOK, TypeOK', Due, [SidNext]_sidVars PROVE Due'
    BY DEF SidSafe, SidTypeOK
  <2>1. CASE SidMessage
    BY <2>1, MessageDue
  <2>2. CASE SidEngine
    BY <2>2, EngineDue
  <2>3. CASE Main /\ UNCHANGED sid
    BY <2>3, MainDue
  <2>4. CASE SidRender \/ SidAck
    BY <2>4, DueStays DEF SidRender, SidAck, main
  <2>5. CASE Worklet /\ UNCHANGED sid
    <3>1. UNCHANGED <<main, toWorker, worker>>
      BY <2>5 DEF Worklet, NodeFlush, NodePause, Control, OnPcm, DropPacket, TakeEof, TakeChunk,
         Arrival, Process, PlayPart, FinishChunk, RunDry, DrainHead, ports
    <3> QED  BY <2>5, <3>1, DueStays DEF main, worker, sid
  <2>6. CASE UNCHANGED sidVars
    BY <2>6, DueStays DEF sidVars, vars, sid, main, ports, worker
  <2> QED  BY <2>1, <2>2, <2>3, <2>4, <2>5, <2>6 DEF SidNext, SidDecoder
<1> QED  BY <1>1, <1>2, SidSafeAlways, PTL DEF SidSpec

\* Once the worker has taken every call and the engine is through, it plays the tune
\* asked for last in the newest generation, however loads, seeks, stops and openings
\* overlapped (unless a tune failed to open with that one already being opened); and
\* after a stop nothing is rendered, although a tune that opens late sets it to play.
THEOREM LastAskedIsPlayed == SidSpec => []LastAskedPlays
<1>1. SidSafe /\ Due => LastAskedPlays
  <2> SUFFICES ASSUME PumpOK, Due, toWorker = <<>>, asks = <<>>
               PROVE  /\ Wished # None /\ ~spoilt => module = Wished /\ playing /\ ~eof /\ wGen = gen
                      /\ gen \in cut => ~pumping
    BY DEF SidSafe, LastAskedPlays
  <2>1. DOMAIN toWorker = {} /\ DOMAIN asks = {}
    OBVIOUS
  <2>2. wGen = gen
    BY <2>1 DEF Due, GenDue
  <2>3. gen \in cut => ~pumping
    BY <2>1 DEF Due, StopDue, PumpOK
  <2>4. Wished # None /\ ~spoilt => module = Wished /\ playing /\ ~eof
    BY <2>1 DEF Due, SongDue, PlayDue
  <2> QED  BY <2>2, <2>3, <2>4
<1> QED  BY <1>1, SidSafeAlways, DueAlways, PTL
=============================================================================
