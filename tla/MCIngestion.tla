---------------------------- MODULE MCIngestion ----------------------------
(* The instance of Ingestion for TLC: MCIngestion.cfg. *)
EXTENDS Ingestion

=============================================================================
