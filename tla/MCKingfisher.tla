---------------------------- MODULE MCKingfisher ----------------------------
(* Small instances of Kingfisher for TLC. *)
EXTENDS Kingfisher, TLC

CONSTANTS c1, c2

\* One client makes every call, the other scans and stops.
TwoClients == (c1 :> Operations) @@ (c2 :> {"ScanStart", "Stop"})

=============================================================================
