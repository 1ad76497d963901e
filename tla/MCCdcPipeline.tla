--------------------------- MODULE MCCdcPipeline ---------------------------
(* Model-checking instance of CdcPipeline. *)
EXTENDS CdcPipeline

=============================================================================
