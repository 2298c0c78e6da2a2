------------------------------ MODULE AudioPath ------------------------------
(***************************************************************************)
(* The way of the samples through the helper: the device's callback, the   *)
(* demodulator and the output thread hand blocks on without waiting for    *)
(* each other (FmDemod), and the output thread writes to the pipeline      *)
(* (RadioOutput).  START and STOP of the command loop begin and end it.    *)
(* AudioThreads has the threads' handshakes in detail; here a stop finds   *)
(* them waiting, and pthread_cond_wait returns for a signal only.          *)
(***************************************************************************)
EXTENDS RadioOutput, FmDemod

\* A block is long enough for a result to have a sample.
ASSUME PathAssumption == (BlockLen \div Downsample) * RateOut2 >= RateOut

VARIABLES
    do_exit,  \* set while the threads are to end, and before they begin
    since,    \* history: the samples received before this session
    heard,    \* history: what this session has written
    fresh,    \* history: which of lowpassed and output_result is yet to be taken
    lost      \* history: one of them was overwritten, or not played, instead

outputVars == <<pipeline, running, extra, extra_buf, output_buf, taken, pushed>>
sessionVars == <<do_exit, since>>
historyVars == <<heard, fresh, lost>>
pathVars == <<outputVars, demodVars, sessionVars, historyVars>>

\* Every variable keeps its type.
PathTypeOK ==
    /\ TypeOK
    /\ DemodTypes
    /\ do_exit \in BOOLEAN
    /\ since \in 0 .. received
    /\ heard \in Seq(Angles)
    /\ fresh \subseteq {"lowpassed", "output_result"}
    /\ lost \in BOOLEAN

PathInit ==
    /\ Init
    /\ DemodInit
    /\ do_exit = TRUE /\ since = 0
    /\ heard = << >> /\ fresh = {} /\ lost = FALSE

-----------------------------------------------------------------------------
\* START: radio_output_start, then the threads are created.
StartCommand ==
    /\ demod_at = "ended" /\ output_at = "ended"
    /\ OpenAndStart \/ Start
    /\ demod_at' = "waiting" /\ output_at' = "waiting"
    /\ do_exit' = FALSE /\ since' = received
    /\ heard' = << >> /\ fresh' = {} /\ lost' = FALSE
    /\ UNCHANGED <<received, lowpassed, carryVars, result, output_result>>

\* STOP: radio_output_stop ...
StopCommand ==
    /\ Stop
    /\ UNCHANGED <<demodVars, sessionVars, historyVars>>

\* ... then rtl_fm_stop, which ends the callbacks and wakes the demodulator for a
\* last time, and when that has ended the output thread.
RtlFmStop ==
    /\ ~running /\ ~do_exit
    /\ do_exit' = TRUE
    /\ demod_at' = Awakened(demod_at)
    /\ UNCHANGED <<outputVars, received, lowpassed, carryVars, result,
                   output_result, output_at, since, historyVars>>

SignalOutput ==
    /\ do_exit /\ demod_at = "ended" /\ output_at = "waiting"
    /\ output_at' = "awake"
    /\ UNCHANGED <<outputVars, received, lowpassed, carryVars, result, demod_at,
                   output_result, sessionVars, historyVars>>

-----------------------------------------------------------------------------
Ends(place) == IF do_exit THEN "ended" ELSE place

Receive ==
    /\ ~do_exit /\ Callback
    /\ lost' = (lost \/ "lowpassed" \in fresh)
    /\ fresh' = fresh \cup {"lowpassed"}
    /\ UNCHANGED <<outputVars, sessionVars, heard>>

Demodulate ==
    /\ FullDemod
    /\ fresh' = fresh \ {"lowpassed"}
    /\ UNCHANGED <<outputVars, sessionVars, heard, lost>>

PassOn ==
    /\ DemodPasses(Ends("waiting"))
    /\ lost' = (lost \/ "output_result" \in fresh)
    /\ fresh' = fresh \cup {"output_result"}
    /\ UNCHANGED <<outputVars, sessionVars, heard>>

\* Noise in a scan: the result is not played.
Skip ==
    /\ DemodSkips(Ends("waiting"))
    /\ lost' = TRUE
    /\ UNCHANGED <<outputVars, sessionVars, heard, fresh>>

\* The output thread: radio_output_write, which does nothing when stopped.
OutputWrite ==
    /\ output_at = "awake" /\ output_at' = "written"
    /\ \/ /\ RadioOutputWrite(Len(output_result))
          /\ heard' = heard \o FlattenSeq(output_result)
       \/ ~running /\ UNCHANGED <<outputVars, heard>>
    /\ fresh' = fresh \ {"output_result"}
    /\ UNCHANGED <<received, lowpassed, carryVars, result, demod_at, output_result,
                   sessionVars, lost>>

OutputWait ==
    /\ output_at = "written" /\ output_at' = Ends("waiting")
    /\ UNCHANGED <<outputVars, received, lowpassed, carryVars, result, demod_at,
                   output_result, sessionVars, historyVars>>

PathNext ==
    \/ StartCommand \/ StopCommand \/ RtlFmStop \/ SignalOutput
    \/ Receive
    \/ Demodulate \/ PassOn \/ Skip
    \/ OutputWrite \/ OutputWait

PathSpec == PathInit /\ [][PathNext]_pathVars

-----------------------------------------------------------------------------
\* The samples of the device in what has been written.  Those up to since are of the
\* session before: the filters still carried them, and mix them into the first ones.
Played == FlattenSeq([i \in 1 .. Len(heard) |-> heard[i].to])

\* Whatever is lost on the way, no sample of the device is played twice or before
\* an earlier one.
HeardInOrder ==
    \A i, j \in 1 .. Len(Played) : i < j /\ Played[i] > since => Played[i] < Played[j]

\* As long as no block or result has been lost, what is played is all of what the
\* device has delivered, across the blocks' ends as inside them: no sample of it is
\* missing and the discriminator compares neighbours.
NothingMissing ==
    ~lost => /\ \A i \in 1 .. Len(Played) : \A n \in since + 1 .. Played[i] :
                  \E j \in 1 .. i : Played[j] = n
             /\ \A i \in 2 .. Len(heard) :
                  (\A k \in 1 .. Len(heard[i - 1].to) : heard[i - 1].to[k] > since) =>
                      heard[i].from = heard[i - 1].to

=============================================================================
