--------------------------- MODULE MCStatusEvents ---------------------------
(* Small instances of StatusEvents for TLC. *)
EXTENDS StatusEvents

CONSTANTS h1, h2, s1, s2

=============================================================================
