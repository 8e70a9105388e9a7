---------------------------- MODULE MCSidWorker ----------------------------
(* SidWorker with two tunes, a file that cannot be opened and a seek.      *)
EXTENDS SidWorker

Tunes == {"one", "other", "broken"}
TuneLength == [s \in Tunes |-> 1]
=============================================================================
