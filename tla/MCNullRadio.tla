---------------------------- MODULE MCNullRadio ----------------------------
(* Small instances of NullRadio for TLC. *)
EXTENDS NullRadio, TLC

CONSTANTS c1, c2

\* One client starts, stops and scans, the other stops scans.
OnePlays == (c1 :> {"Start", "Stop", "ScanStart", "SetFrequency"}) @@ (c2 :> {"ScanStop"})

=============================================================================
