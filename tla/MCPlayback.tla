----------------------------- MODULE MCPlayback -----------------------------
(* Small instances of Playback.                                            *)
EXTENDS Playback

CONSTANTS a, b

\* As orderly as things get, with tracks of one format that may be corrupt, or good
\* ones of both; and as disorderly, with nothing to play.
Orderly ==
  [memory |-> TRUE, overtaking |-> FALSE, lateCue |-> FALSE, sids |-> {},
   files |-> {"good", "corrupt"}, lists |-> {<<a, b>>, <<b, a>>}]
Mixed == [Orderly EXCEPT !.sids = {b}, !.files = {"good"}, !.lists = {<<a, b>>}]
Disorderly ==
  [memory |-> FALSE, overtaking |-> TRUE, lateCue |-> TRUE, sids |-> {b},
   files |-> {"corrupt", "missing"}, lists |-> {<<a, b>>, <<b>>}]
AllWorlds == {Orderly, Mixed, Disorderly}
OneList == {[Orderly EXCEPT !.files = {"good"}, !.lists = {<<a, b>>}]}

TwoOrders == {<<1, 2>>, <<2, 1>>}
Orders2And1 == TwoOrders \cup {<<1>>}
=============================================================================
