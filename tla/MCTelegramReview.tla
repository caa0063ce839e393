-------------------------- MODULE MCTelegramReview --------------------------
(* A small instance of TelegramReview for TLC. *)
EXTENDS TelegramReview, TLC

Symmetry == Permutations(Cards)

=============================================================================
