--------------------------- MODULE MCRunPipeline ---------------------------
(* Model checking RunPipeline: the documents of the runs.                   *)
EXTENDS RunPipeline, TLC

CONSTANTS c1, c2

TwoChapters == (c1 :> 2) @@ (c2 :> 1)
TwoPackets == (c1 :> 2)
OnePacket == (c1 :> 1)
=============================================================================
