------------------------------ MODULE MCPipeline ----------------------------
(* More headers than the channel, and more summaries than lasts, holds.    *)
EXTENDS Pipeline

MCMaxEvents == [s \in Streams |-> IF s = "header" THEN 2 ELSE 1]
=============================================================================
