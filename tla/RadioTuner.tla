----------------------------- MODULE RadioTuner -----------------------------
(***************************************************************************)
(* What a radio backend promises a client that makes one call after the    *)
(* other (radio_impl_ops_t): it is always on a channel; it seeks only      *)
(* when it plays; every frequency is announced before the next one is set  *)
(* and before the seek ends, and nothing else ever is announced.           *)
(***************************************************************************)
EXTENDS BandPlan

VARIABLES
    playing,
    seeking,
    frequency,
    announced   \* the last frequency event's, the first frequency before it

vars == <<playing, seeking, frequency, announced>>

Init ==
    /\ playing = FALSE /\ seeking = FALSE
    /\ frequency = MinFreq /\ announced = MinFreq

StartOrStop ==
    /\ playing' = ~playing
    /\ UNCHANGED <<seeking, frequency, announced>>

BeginSeek ==
    /\ playing /\ ~seeking
    /\ seeking' = TRUE
    /\ UNCHANGED <<playing, frequency, announced>>

\* Either tuned by the client or, while it seeks, by the radio itself.
Retune ==
    /\ announced = frequency
    /\ frequency' \in Channels
    /\ announced' \in {announced, frequency'}
    /\ UNCHANGED <<playing, seeking>>

Announce ==
    /\ announced' = frequency
    /\ UNCHANGED <<playing, seeking, frequency>>

EndSeek ==
    /\ seeking /\ announced = frequency
    /\ seeking' = FALSE
    /\ UNCHANGED <<playing, frequency, announced>>

Next == StartOrStop \/ BeginSeek \/ Retune \/ Announce \/ EndSeek

Spec == Init /\ [][Next]_vars

=============================================================================
