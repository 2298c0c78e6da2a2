------------------------------- MODULE FmDemod -------------------------------
(***************************************************************************)
(* The signal path of rtl_fm, from the device's blocks to the audio        *)
(* samples, as rtl_fm_helper configures it: low_pass, fm_demod and         *)
(* low_pass_real, each of which carries a remainder from one block to the  *)
(* next.  A sample of the device is its number; a sum of samples is the    *)
(* sequence of its summands.  What the filters compute of the values       *)
(* (rotate_90, the discriminator's angle, the de-emphasis) is left out:    *)
(* each maps one sample to one sample.                                     *)
(***************************************************************************)
EXTENDS Naturals, Sequences, SequencesExt

CONSTANTS
    BlockLen,    \* the samples of a block, real and imaginary part as one
    Downsample,  \* demod.downsample
    RateOut,     \* demod.rate_out
    RateOut2,    \* demod.rate_out2
    MaxBlocks    \* the device delivers at most this many blocks

ASSUME DemodAssumption ==
    /\ {BlockLen, Downsample, RateOut, RateOut2} \subseteq Nat \ {0}
    /\ RateOut2 <= RateOut
    /\ MaxBlocks \in Nat

VARIABLES
    received,        \* how many samples the device has delivered
    lowpassed,       \* demod.lowpassed, as long as lp_len says
    now, prev_index, \* what low_pass carries: now_r and now_j, prev_index
    pre,             \* what fm_demod carries: pre_r and pre_j
    now_lpr, prev_lpr_index, \* what low_pass_real carries
    result,          \* demod.result
    demod_at,        \* demod_thread_fn: it waits, is awake, or has a result
    output_result,   \* output.result
    output_at        \* output_thread_fn: it waits, is awake, or has written

carryVars == <<now, prev_index, pre, now_lpr, prev_lpr_index>>
demodVars == <<received, lowpassed, carryVars, result, demod_at, output_result, output_at>>

\* A discriminator's output compares a low-passed sample with the one before.
Sums == Seq(Nat)
Angles == [from : Sums, to : Sums]

DemodTypes ==
    /\ received \in Nat
    /\ lowpassed \in Seq(Sums)
    /\ now \in Sums /\ pre \in Sums /\ now_lpr \in Seq(Angles)
    /\ prev_index \in 0 .. Downsample - 1
    /\ prev_lpr_index \in 0 .. RateOut - 1
    /\ result \in Seq(Seq(Angles)) /\ output_result \in Seq(Seq(Angles))
    /\ demod_at \in {"ended", "waiting", "awake", "result"}
    /\ output_at \in {"ended", "waiting", "awake", "written"}

\* Before the first start; rtl_fm_start resets none of it.
DemodInit ==
    /\ received = 0 /\ lowpassed = << >>
    /\ now = << >> /\ prev_index = 0 /\ pre = << >>
    /\ now_lpr = << >> /\ prev_lpr_index = 0
    /\ result = << >> /\ output_result = << >>
    /\ demod_at = "ended" /\ output_at = "ended"

-----------------------------------------------------------------------------
(* The filters.  Each takes what it carries and a sequence, and returns what it
   carries then and the sequence it has made. *)

\* Mutant of LowPassStep: the sum is not reset.
LowPassStepKeeps(s, x) ==
    LET sum == s.now \o x IN
    IF s.index + 1 < Downsample
    THEN [s EXCEPT !.now = sum, !.index = @ + 1]
    ELSE [out |-> Append(s.out, sum), now |-> sum, index |-> 0]

LowPassStep(s, x) ==
    LET sum == s.now \o x IN
    IF s.index + 1 < Downsample
    THEN [s EXCEPT !.now = sum, !.index = @ + 1]
    ELSE [out |-> Append(s.out, sum), now |-> << >>, index |-> 0]

LowPass(samples) ==
    FoldLeft(LowPassStep, [out |-> << >>, now |-> now, index |-> prev_index], samples)

\* Mutant of Discriminator: the first sample is compared with itself.
DiscriminatorForgets(lp) ==
    [i \in 1 .. Len(lp) |->
        [from |-> IF i = 1 THEN lp[1] ELSE lp[i - 1], to |-> lp[i]]]

Discriminator(lp) ==
    [i \in 1 .. Len(lp) |->
        [from |-> IF i = 1 THEN pre ELSE lp[i - 1], to |-> lp[i]]]

\* What fm_demod carries; of nothing it takes what lies before the array.
LastOf(lp) == IF lp = << >> THEN <<0>> ELSE lp[Len(lp)]

LowPassRealStep(s, x) ==
    LET sum == Append(s.now, x) IN
    IF s.index + RateOut2 < RateOut
    THEN [s EXCEPT !.now = sum, !.index = @ + RateOut2]
    ELSE [out |-> Append(s.out, sum), now |-> << >>,
          index |-> s.index + RateOut2 - RateOut]

LowPassReal(angles) ==
    FoldLeft(LowPassRealStep,
             [out |-> << >>, now |-> now_lpr, index |-> prev_lpr_index], angles)

-----------------------------------------------------------------------------
\* safe_cond_signal, which a thread that does not wait never notices
Awakened(place) == IF place = "waiting" THEN "awake" ELSE place

Block == [i \in 1 .. BlockLen |-> <<received + i>>]

\* rtlsdr_callback, until do_exit is set: the block replaces the one before.
Callback ==
    /\ received < MaxBlocks * BlockLen
    /\ received' = received + BlockLen
    /\ lowpassed' = Block
    /\ demod_at' = Awakened(demod_at)
    /\ UNCHANGED <<carryVars, result, output_result, output_at>>

\* full_demod, in place: what it leaves in lowpassed is its own result.
FullDemod ==
    /\ demod_at = "awake" /\ demod_at' = "result"
    /\ LET lp == LowPass(lowpassed)
           real == LowPassReal(Discriminator(lp.out))
       IN  /\ lowpassed' = lp.out
           /\ now' = lp.now /\ prev_index' = lp.index
           /\ pre' = LastOf(lp.out)
           /\ result' = real.out
           /\ now_lpr' = real.now /\ prev_lpr_index' = real.index
    /\ UNCHANGED <<received, output_result, output_at>>

\* The result goes to the output thread; the demodulator's next place follows from
\* do_exit.
DemodPasses(next) ==
    /\ demod_at = "result" /\ demod_at' = next
    /\ output_result' = result
    /\ output_at' = Awakened(output_at)
    /\ UNCHANGED <<received, lowpassed, carryVars, result>>

\* Noise in a scan: the result is not played.
DemodSkips(next) ==
    /\ demod_at = "result" /\ demod_at' = next
    /\ UNCHANGED <<received, lowpassed, carryVars, result, output_result, output_at>>

=============================================================================
