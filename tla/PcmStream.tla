----------------------------- MODULE PcmStream -----------------------------
(***************************************************************************)
(* What the decoding pipeline promises a listener, with no worker, worklet *)
(* or port in sight: the main thread asks for one stream after another (a  *)
(* load or a seek) and may cut the latest one (stop); what is heard is     *)
(* only ever a later stream than before, from where it was asked to start, *)
(* gapless, ended once and only when it was heard out or cut.              *)
(***************************************************************************)
EXTENDS Integers, Sequences

CONSTANTS
  Songs,     \* what can be asked for
  Playable,  \* what can be heard of it
  None,      \* a stream of nothing
  Length,    \* positions in a song
  Starts     \* positions a stream can be asked to start from

VARIABLES
  asked,  \* the streams asked for, with their first position
  cut,    \* those that were cut
  cur,    \* the stream the listener is on
  heard,  \* the last position heard of it, 0 if none since it was opened
  ended   \* the streams whose end was announced

svars == <<asked, cut, cur, heard, ended>>

StreamInit == asked = <<>> /\ cut = {} /\ cur = -1 /\ heard = 0 /\ ended = {}

Ask(s, p) ==
  /\ asked' = Append(asked, [song |-> s, start |-> p])
  /\ UNCHANGED <<cut, cur, heard, ended>>

Cut ==
  /\ cut' = cut \cup {Len(asked)}
  /\ UNCHANGED <<asked, cur, heard, ended>>

\* Going on to a later stream, or silencing a cut one.
Open(g) ==
  /\ g > cur \/ (g = cur /\ g \in cut)
  /\ cur' = g /\ heard' = 0
  /\ UNCHANGED <<asked, cut, ended>>

\* Until it is cut, a stream is heard from its start and without a gap.
Onward(a) ==
  IF a.song \notin Playable THEN {}
  ELSE {p \in 1 .. Length[a.song] :
          IF heard # 0 THEN p = heard + 1
          ELSE p = a.start \/ (cur \in cut /\ p > a.start)}

Listen ==
  /\ cur \in 1 .. Len(asked)
  /\ heard' \in {heard} \cup Onward(asked[cur])
  /\ ended' \in {ended, ended \cup {cur}}
  /\ ended' # ended =>
       \/ cur \in cut
       \/ heard' = Length[asked[cur].song]
       \/ asked[cur].start > Length[asked[cur].song]
  /\ UNCHANGED <<asked, cut, cur>>

StreamNext ==
  \/ \E s \in Songs \cup {None}, p \in Starts : Ask(s, p)
  \/ Cut
  \/ \E g \in 0 .. Len(asked) : Open(g)
  \/ Listen

StreamSpec == StreamInit /\ [][StreamNext]_svars
=============================================================================
