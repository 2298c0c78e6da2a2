--------------------------- MODULE MCRtlsdrRadio ---------------------------
(* Small instances of RtlsdrRadio for TLC. *)
EXTENDS RtlsdrRadio, TLC

CONSTANTS t1, t2

\* A band of three channels, and requests of which two are channels, one is
\* off the grid and one out of the band.
MCRequests == {100, 125, 200, 250}

\* One channel and one frequency off the grid, for the instance with the most
\* interleavings.
FewRequests == {3, 4}

OneClient == t1 :> Operations
Tuners == (t1 :> {"SetFrequency", "Start", "Stop"}) @@ (t2 :> {"SetFrequency"})
Crossed == (t1 :> {"Start", "ScanUp"}) @@ (t2 :> {"Stop", "SetFrequency"})
ScanAndTune == (t1 :> {"Start", "ScanUp"}) @@ (t2 :> {"SetFrequency"})

\* What any action reads: current_frequency, published and dropped are only written,
\* so that where no property looks at them states that differ in them are one.
ReadByActions ==
    <<pipeVars, helperVars, active, scanning, helper_mutex, threadVars>>

=============================================================================
