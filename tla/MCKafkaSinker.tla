--------------------------- MODULE MCKafkaSinker ---------------------------
(* The Kafka sinker for TLC: the constants are given in the cfg files. *)
EXTENDS KafkaSinker

=============================================================================
