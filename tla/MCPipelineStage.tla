--------------------------- MODULE MCPipelineStage ---------------------------
(* Instance of PipelineStage for TLC; the configuration gives the bounds. *)
EXTENDS PipelineStage
=============================================================================
