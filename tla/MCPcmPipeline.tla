--------------------------- MODULE MCPcmPipeline ---------------------------
(* PcmPipeline with a one-chunk song, a song longer than the credit and a  *)
(* file that does not parse.                                               *)
EXTENDS PcmPipeline

MCSongs == {"song", "broken"}
MCUnparsable == {"broken"}
MCLength == [s \in MCSongs |-> IF s = "song" THEN 3 ELSE 0]
MCSeeks == {2}
=============================================================================
