--------------------------- MODULE MCHumanBacklog ---------------------------
(* A small instance of HumanBacklog for TLC: MCHumanBacklog.cfg.            *)
EXTENDS HumanBacklog

=============================================================================
