------------------------ MODULE MCValidationPipeline ------------------------
(* Small instances of ValidationPipeline for TLC. *)
EXTENDS ValidationPipeline

MCTypeOf == [o \in Objects |-> "decision"]

=============================================================================
