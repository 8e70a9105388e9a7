------------------------------ MODULE MCSampler ------------------------------
(* Tracks and keys are alike; so are the calls of seqPlay. *)
EXTENDS Sampler, TLC

Symmetry == Permutations(Tracks) \cup Permutations(Keys) \cup Permutations(Plays)
=============================================================================
