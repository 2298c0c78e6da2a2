--------------------------- MODULE MCRadioBinding ---------------------------
(* Small instances of RadioBinding for TLC. *)
EXTENDS RadioBinding, TLC

CONSTANTS c1, keys, s1, s2, r1, r2

\* One user makes every call, the other one is the media keys.
UserAndKeys == (c1 :> (Verbs \ {"media"})) @@ (keys :> {"media"})

=============================================================================
