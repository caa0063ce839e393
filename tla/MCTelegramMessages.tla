------------------------- MODULE MCTelegramMessages -------------------------
(* Small instances of TelegramMessages for TLC. *)
EXTENDS TelegramMessages

CONSTANTS m1, m2, m3

\* m2 comes from another chat, where it has the id that m1 has in its own.
MCTwoChats == [m \in Messages |-> IF m = m2 THEN m1 ELSE m]

=============================================================================
