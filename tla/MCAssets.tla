------------------------------ MODULE MCAssets ------------------------------
(* An instance of Assets for TLC: one source that ffmpeg can convert by both *)
(* recipes, and one that it cannot.                                          *)
EXTENDS Assets, TLC

CONSTANTS b1, b2, plain, tuned

GoodKeys == {<<b1, plain>>, <<b1, tuned>>}

Symmetry == Permutations(Requests) \cup Permutations({plain, tuned})
=============================================================================
