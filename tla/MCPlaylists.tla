---------------------------- MODULE MCPlaylists ----------------------------
(* An instance of Playlists for TLC: an item of the library, an imported one *)
(* of the same md5, and one of which only the reference and the name are.    *)
EXTENDS Playlists

CONSTANTS m1, u1, u2

Offers ==
  {[md5 |-> m1, ref |-> NoRef, named |-> TRUE], [md5 |-> m1, ref |-> u1, named |-> FALSE],
   [md5 |-> NoMod, ref |-> u2, named |-> TRUE]}
=============================================================================
