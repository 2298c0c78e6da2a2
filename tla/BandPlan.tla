------------------------------ MODULE BandPlan ------------------------------
(***************************************************************************)
(* One FM band plan (known_fm_band_plans), the channels it has, and the    *)
(* step from one channel to the next that every scan takes.                *)
(***************************************************************************)
EXTENDS Integers

CONSTANTS
    MinFreq,   \* fm_band_plan_t.min, in Hz
    MaxFreq,   \* fm_band_plan_t.max
    FreqStep   \* fm_band_plan_t.step

\* What all five entries of known_fm_band_plans satisfy: the band is a whole
\* number of steps, and a step down from its lower end stays above zero, so
\* that no uint32_t arithmetic on a channel wraps.
ASSUME BandPlanAssumption ==
    /\ MinFreq \in Nat /\ MaxFreq \in Nat /\ FreqStep \in Nat \ {0}
    /\ MinFreq < MaxFreq /\ FreqStep =< MinFreq
    /\ (MaxFreq - MinFreq) % FreqStep = 0

\* The test of RadioImpl::SetFrequency, negated: a request it passes on to the
\* backend is in the band and on the band's grid.
Valid(frequency) ==
    /\ frequency >= MinFreq
    /\ frequency =< MaxFreq
    /\ (frequency - MinFreq) % FreqStep = 0

Channels == {f \in MinFreq .. MaxFreq : Valid(f)}

Directions == {"UP", "DOWN"}

\* The scan's step, wrapping at the band's ends.
StepUp(frequency) ==
    IF frequency + FreqStep > MaxFreq THEN MinFreq ELSE frequency + FreqStep

\* Mutant of StepDown: the wrap at the lower end is forgotten.
StepDownNoWrap(frequency) == frequency - FreqStep

StepDown(frequency) ==
    IF frequency - FreqStep < MinFreq THEN MaxFreq ELSE frequency - FreqStep

StepFrom(frequency, direction) ==
    IF direction = "UP" THEN StepUp(frequency) ELSE StepDown(frequency)

=============================================================================
