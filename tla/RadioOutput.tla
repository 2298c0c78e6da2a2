----------------------------- MODULE RadioOutput -----------------------------
(***************************************************************************)
(* The helper's audio output, radio_output_gstreamer.c: stereo frames of   *)
(* two samples are pushed into the pipeline, and of an odd number of       *)
(* samples the last is carried to the next write.  The samples written     *)
(* are numbered 1, 2, 3, ...; memory nobody has written holds 0.           *)
(***************************************************************************)
EXTENDS Integers, Sequences

CONSTANTS
    MaxLen,     \* a write has at most this many samples
    MaxSamples  \* and all of them, while a pipeline exists, this many

ASSUME OutputAssumption == MaxLen \in Nat /\ MaxSamples \in Nat

VARIABLES
    pipeline,   \* it exists
    running,
    extra,      \* the number of samples carried
    extra_buf,  \* the sample carried, or the last that was
    output_buf, \* the first sample of output_buf, the only one ever read again
    taken,      \* how many samples this pipeline's writes have taken
    pushed      \* history: all samples pushed into this pipeline

vars == <<pipeline, running, extra, extra_buf, output_buf, taken, pushed>>
stateVars == <<pipeline, running>>

SampleTypes ==
    /\ extra \in 0 .. 1
    /\ extra_buf \in Nat /\ output_buf \in Nat
    /\ taken \in Nat
    /\ pushed \in Seq(Nat)

\* Every variable keeps its type; at most one sample is ever carried.
TypeOK == pipeline \in BOOLEAN /\ running \in BOOLEAN /\ SampleTypes

Init ==
    /\ pipeline = FALSE /\ running = FALSE
    /\ extra = 0 /\ extra_buf = 0 /\ output_buf = 0
    /\ taken = 0
    /\ pushed = << >>

\* radio_output_start, which opens the pipeline and allocates the buffer first.
OpenAndStart ==
    /\ ~pipeline
    /\ pipeline' = TRUE /\ running' = TRUE
    /\ extra' = 0 /\ output_buf' = 0
    /\ taken' = 0 /\ pushed' = << >>
    /\ UNCHANGED extra_buf

\* radio_output_start with the pipeline there
Start ==
    /\ pipeline
    /\ running' = TRUE
    /\ UNCHANGED <<pipeline, extra, extra_buf, output_buf, taken, pushed>>

\* radio_output_stop; it keeps the sample carried
Stop ==
    /\ pipeline /\ running
    /\ running' = FALSE
    /\ UNCHANGED <<pipeline, extra, extra_buf, output_buf, taken, pushed>>

\* radio_output_close
Close ==
    /\ pipeline
    /\ pipeline' = FALSE /\ running' = FALSE
    /\ UNCHANGED <<extra, extra_buf, output_buf, taken, pushed>>

-----------------------------------------------------------------------------
(* radio_output_write of n samples; before the output is started, and when it
   is stopped, it does nothing. *)

Samples(n) == [i \in 1 .. n |-> taken + i]

Write(n) ==
    /\ pipeline /\ running
    /\ taken + n <= MaxSamples
    /\ taken' = taken + n
    /\ UNCHANGED stateVars

Push(samples) == pushed' = pushed \o samples

\* The carried sample goes first, and the last one is carried now.
StillExtra(n) ==
    /\ Write(n) /\ extra = 1 /\ (extra + n) % 2 = 1
    /\ output_buf' = extra_buf
    /\ Push(<<output_buf'>> \o SubSeq(Samples(n), 1, n - 1))
    /\ extra_buf' = Samples(n)[n]
    /\ UNCHANGED extra

\* Mutant of FirstExtra: the same write is done whether a sample is carried or not.
FirstExtraAgain(n) ==
    /\ Write(n) /\ n % 2 = 1
    /\ Push(SubSeq(<<output_buf>> \o Samples(n), 1, n - 1))
    /\ extra_buf' = Samples(n)[n]
    /\ extra' = extra + 1
    /\ UNCHANGED output_buf

\* Mutant of NoExtra: n is not increased by the carried sample.
NoExtraShort(n) ==
    /\ Write(n) /\ extra = 1 /\ (extra + n) % 2 = 0
    /\ output_buf' = extra_buf
    /\ Push(<<output_buf'>> \o SubSeq(Samples(n), 1, n - 1))
    /\ extra' = 0
    /\ UNCHANGED extra_buf

\* The carried sample goes first and none is carried.
NoExtra(n) ==
    /\ Write(n) /\ extra = 1 /\ (extra + n) % 2 = 0
    /\ output_buf' = extra_buf
    /\ Push(<<output_buf'>> \o Samples(n))
    /\ extra' = 0
    /\ UNCHANGED extra_buf

\* Mutant of FirstExtra: the sample stored is not counted.
FirstExtraUncounted(n) ==
    /\ Write(n) /\ extra = 0 /\ n % 2 = 1
    /\ Push(SubSeq(<<output_buf>> \o Samples(n), 1, n - 1))
    /\ extra_buf' = Samples(n)[n]
    /\ UNCHANGED <<output_buf, extra>>

\* The last sample is carried; the others are copied behind output_buf's first
\* sample, but what is pushed starts with that one.
FirstExtra(n) ==
    /\ Write(n) /\ extra = 0 /\ n % 2 = 1
    /\ Push(SubSeq(<<output_buf>> \o Samples(n), 1, n - 1))
    /\ extra_buf' = Samples(n)[n]
    /\ extra' = 1
    /\ UNCHANGED output_buf

\* The caller's own buffer is pushed.
NeverExtra(n) ==
    /\ Write(n) /\ extra = 0 /\ n % 2 = 0
    /\ Push(Samples(n))
    /\ UNCHANGED <<extra, extra_buf, output_buf>>

RadioOutputWrite(n) == StillExtra(n) \/ NoExtra(n) \/ FirstExtra(n) \/ NeverExtra(n)

-----------------------------------------------------------------------------
Next == OpenAndStart \/ Start \/ Stop \/ Close \/ \E n \in 1 .. MaxLen : RadioOutputWrite(n)

Spec == Init /\ [][Next]_vars

-----------------------------------------------------------------------------
Carried == IF extra = 1 THEN <<extra_buf>> ELSE << >>

\* Only whole frames are pushed: a write never leaves left and right exchanged for
\* those that follow.
WholeFrames == Len(pushed) % 2 = 0

\* As many samples are pushed or carried as were taken, whatever the lengths.
CountKept == Len(pushed) + extra = taken

\* "Handle the rtl_fm code giving us an odd number of samples": whatever a write's
\* length, each sample is pushed or carried in its turn.
WrittenInOrder ==
    [][\A n \in 1 .. MaxLen :
         RadioOutputWrite(n) => pushed' \o Carried' = pushed \o Carried \o Samples(n)]_vars

=============================================================================
