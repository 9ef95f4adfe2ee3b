--------------------------- MODULE MCActionProtocol ---------------------------
(* Instance of ActionProtocol for TLC. *)
EXTENDS ActionProtocol

CONSTANT MaxGoals       \* bound: goals the leaf may send

MCGoals == 1 .. MaxGoals

=============================================================================
