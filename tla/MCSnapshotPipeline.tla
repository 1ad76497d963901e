------------------------ MODULE MCSnapshotPipeline ------------------------
(* Model-checking instance of SnapshotPipeline. *)
EXTENDS SnapshotPipeline
=============================================================================
