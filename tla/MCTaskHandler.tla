--------------------------- MODULE MCTaskHandler ---------------------------
(* Bounds of the TLC runs on TaskHandler. *)
EXTENDS TaskHandler

CONSTANTS u1, u2

MCUuids == {u1, u2}
MCMissionTimeouts == {0, 1}
=============================================================================
