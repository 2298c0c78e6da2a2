----------------------------- MODULE Kingfisher -----------------------------
(***************************************************************************)
(* The Kingfisher backend (radio_impl_kingfisher.c): the tuner is a chip   *)
(* that each call of the si_ctl program tunes or scans, the audio a        *)
(* GStreamer pipeline.  A client's call runs on the gRPC thread that       *)
(* serves it; the requests of the audio server to pause and to resume run  *)
(* on the GLib main loop's thread.  Nothing is locked, so each test and    *)
(* each store of a shared flag is a step of its own.                       *)
(***************************************************************************)
EXTENDS BandPlan, Sequences

CONSTANTS
    Clients,   \* the clients, each served by one thread
    Calls,     \* Calls[c]: the operations client c may call
    Corking,   \* TRUE: the audio server asks for pauses
    BusMax     \* at most this many of its requests are unhandled

Operations == {"SetFrequency", "Start", "Stop", "ScanStart"}

ASSUME KingfisherAssumption ==
    /\ Calls \in [Clients -> SUBSET Operations]
    /\ Corking \in BOOLEAN
    /\ BusMax \in Nat

VARIABLES
    running,            \* the statics of the backend
    corking,
    scanning,
    current_frequency,
    pipeline,           \* the state of the GStreamer pipeline
    bus,                \* the state requests posted on its bus
    handler,            \* where gstreamer_loop_thread is, in handle_message
    tuner,              \* where the chip is tuned
    pc,                 \* pc[c]: where the thread serving c is
    frequency,          \* frequency[c]: the argument of kf_set_frequency
    found,              \* found[c]: kf_scan_start's new_frequency, in Hz
    told,               \* told[c]: the argument of freq_callback; these three
                        \* are put back to their initial values after use
    caller,             \* caller[c]: where kf_set_frequency returns to
    event,              \* the last frequency event sent, 0 before the first
    ctlFailed,          \* history: si_ctl failed when it was last to tune the chip
    popenFailed,        \* history: a scan could not run si_ctl
    crossed,            \* history: a pause or resume met a start or stop
    overlapped          \* history: two calls were under way at once

playVars == <<running, corking, pipeline, bus, crossed>>
tuneVars == <<scanning, current_frequency, tuner, event, ctlFailed, popenFailed>>
argVars == <<frequency, found, told, caller>>
clientVars == <<pc, argVars, overlapped>>
vars == <<playVars, tuneVars, clientVars, handler>>

PipelineStates == {"NULL", "READY", "PAUSED", "PLAYING"}
Handling == {"flag PAUSED", "flag PLAYING", "set PAUSED", "set PLAYING"}
ScanPlaces == {"sc_popen", "sc_run", "sc_store", "sc_back", "sc_found", "sc_done"}
StartOrStopPlaces == {"st_play", "st_mark", "sp_mark", "sp_null", "sp_uncork"}
Places == {"idle", "sf_ctl", "sf_store", "cb_read", "cb_send", "sc_mark"}
              \cup StartOrStopPlaces \cup ScanPlaces

\* Every variable keeps its type.
TypeOK ==
    /\ running \in BOOLEAN /\ corking \in BOOLEAN /\ scanning \in BOOLEAN
    /\ ctlFailed \in BOOLEAN /\ popenFailed \in BOOLEAN /\ crossed \in BOOLEAN
    /\ overlapped \in BOOLEAN
    /\ pipeline \in PipelineStates
    /\ bus \in Seq({"PAUSED", "PLAYING"})
    /\ handler \in Handling \cup {"idle"}
    /\ current_frequency \in Channels /\ tuner \in Channels
    /\ pc \in [Clients -> Places]
    /\ frequency \in [Clients -> Channels]
    /\ found \in [Clients -> Channels \cup {0}]
    /\ told \in [Clients -> Channels]
    /\ caller \in [Clients -> {"idle", "sc_found"}]
    /\ event \in Channels \cup {0}

\* kf_init has tuned to the band's minimum.
Init ==
    /\ running = FALSE /\ corking = FALSE /\ scanning = FALSE
    /\ current_frequency = MinFreq /\ tuner = MinFreq
    /\ pipeline = "READY" /\ bus = << >> /\ handler = "idle"
    /\ pc = [c \in Clients |-> "idle"]
    /\ frequency = [c \in Clients |-> MinFreq]
    /\ found = [c \in Clients |-> 0]
    /\ told = [c \in Clients |-> MinFreq]
    /\ caller = [c \in Clients |-> "idle"]
    /\ event = 0
    /\ ctlFailed = FALSE /\ popenFailed = FALSE /\ crossed = FALSE
    /\ overlapped = FALSE

At(c, place) == pc[c] = place
Goto(c, place) ==
    /\ pc' = [pc EXCEPT ![c] = place]
    /\ overlapped' = (overlapped \/ \E d \in Clients \ {c} : pc[d] # "idle")
Step(c, from, to) == At(c, from) /\ Goto(c, to)
Call(c, op) == At(c, "idle") /\ op \in Calls[c]

-----------------------------------------------------------------------------
(* kf_set_frequency, behind the test of RadioImpl::SetFrequency *)

SetFrequencyCall(c) ==
    /\ Call(c, "SetFrequency") /\ ~scanning
    /\ \E f \in Channels : frequency' = [frequency EXCEPT ![c] = f]
    /\ Goto(c, "sf_ctl")
    /\ UNCHANGED <<playVars, tuneVars, handler, found, told, caller>>

\* si_ctl tunes the chip ...
SetFrequencyTunes(c) ==
    /\ Step(c, "sf_ctl", "sf_store")
    /\ tuner' = frequency[c]
    /\ ctlFailed' = FALSE
    /\ UNCHANGED <<playVars, scanning, current_frequency, event, popenFailed,
                   handler, argVars>>

\* ... or fails, and leaves the chip tuned anywhere: its exit status does not say
\* how far it got.
SetFrequencyFails(c) ==
    /\ Step(c, "sf_ctl", "cb_read")
    /\ tuner' \in Channels
    /\ ctlFailed' = TRUE
    /\ frequency' = [frequency EXCEPT ![c] = MinFreq]
    /\ UNCHANGED <<playVars, scanning, current_frequency, event, popenFailed,
                   handler, found, told, caller>>

\* Mutant of SetFrequencyStores: the frequency is not stored.
SetFrequencyStoresNothing(c) ==
    /\ Step(c, "sf_store", "cb_read")
    /\ frequency' = [frequency EXCEPT ![c] = MinFreq]
    /\ UNCHANGED <<playVars, tuneVars, handler, found, told, caller>>

SetFrequencyStores(c) ==
    /\ Step(c, "sf_store", "cb_read")
    /\ current_frequency' = frequency[c]
    /\ frequency' = [frequency EXCEPT ![c] = MinFreq]
    /\ UNCHANGED <<playVars, scanning, tuner, event, ctlFailed, popenFailed,
                   handler, found, told, caller>>

\* freq_callback(current_frequency): its argument is read, then the event sent.
\* The scan does the same.
CallbackReads(c) ==
    /\ Step(c, "cb_read", "cb_send")
    /\ told' = [told EXCEPT ![c] = current_frequency]
    /\ UNCHANGED <<playVars, tuneVars, handler, frequency, found, caller>>

CallbackSends(c) ==
    /\ At(c, "cb_send") /\ Goto(c, caller[c])
    /\ event' = told[c]
    /\ told' = [told EXCEPT ![c] = MinFreq]
    /\ caller' = [caller EXCEPT ![c] = "idle"]
    /\ UNCHANGED <<playVars, scanning, current_frequency, tuner, ctlFailed,
                   popenFailed, handler, frequency, found>>

SetFrequency(c) ==
    \/ SetFrequencyCall(c) \/ SetFrequencyTunes(c) \/ SetFrequencyFails(c)
    \/ SetFrequencyStores(c) \/ CallbackReads(c) \/ CallbackSends(c)

-----------------------------------------------------------------------------
(* kf_start and kf_stop *)

Busy == handler # "idle"

StartCall(c) ==
    /\ Call(c, "Start") /\ (~running \/ corking)
    /\ Goto(c, "st_play")
    /\ UNCHANGED <<playVars, tuneVars, handler, argVars>>

StartPlays(c) ==
    /\ Step(c, "st_play", "st_mark")
    /\ pipeline' = "PLAYING"
    /\ crossed' = (crossed \/ Busy)
    /\ UNCHANGED <<running, corking, bus, tuneVars, handler, argVars>>

\* Mutant of StartMarks: corking is not cleared.
StartMarksRunning(c) ==
    /\ Step(c, "st_mark", "idle")
    /\ running' = TRUE
    /\ crossed' = (crossed \/ Busy)
    /\ UNCHANGED <<corking, pipeline, bus, tuneVars, handler, argVars>>

StartMarks(c) ==
    /\ Step(c, "st_mark", "idle")
    /\ running' = TRUE /\ corking' = FALSE
    /\ crossed' = (crossed \/ Busy)
    /\ UNCHANGED <<pipeline, bus, tuneVars, handler, argVars>>

StopCall(c) ==
    /\ Call(c, "Stop") /\ running
    /\ Goto(c, "sp_mark")
    /\ UNCHANGED <<playVars, tuneVars, handler, argVars>>

StopMarks(c) ==
    /\ Step(c, "sp_mark", "sp_null")
    /\ running' = FALSE
    /\ crossed' = (crossed \/ Busy)
    /\ UNCHANGED <<corking, pipeline, bus, tuneVars, handler, argVars>>

\* Mutant of StopPipeline: the bus is emptied, the pipeline goes on.
StopPipelineFlushes(c) ==
    /\ Step(c, "sp_null", "sp_uncork")
    /\ bus' = << >>
    /\ crossed' = Busy
    /\ UNCHANGED <<running, corking, pipeline, tuneVars, handler, argVars>>

\* The state NULL empties the bus too.
StopPipeline(c) ==
    /\ Step(c, "sp_null", "sp_uncork")
    /\ pipeline' = "NULL" /\ bus' = << >>
    /\ crossed' = Busy
    /\ UNCHANGED <<running, corking, tuneVars, handler, argVars>>

StopUncorks(c) ==
    /\ Step(c, "sp_uncork", "idle")
    /\ corking' = FALSE
    /\ crossed' = (crossed \/ Busy)
    /\ UNCHANGED <<running, pipeline, bus, tuneVars, handler, argVars>>

StartOrStop(c) == \/ StartCall(c) \/ StartPlays(c) \/ StartMarks(c)
                  \/ StopCall(c) \/ StopMarks(c) \/ StopPipeline(c)
                  \/ StopUncorks(c)

-----------------------------------------------------------------------------
(* The audio server's requests and handle_message *)

RequestState ==
    /\ Corking /\ Len(bus) < BusMax
    /\ \/ pipeline = "PLAYING" /\ bus' = Append(bus, "PAUSED")
       \/ pipeline = "PAUSED" /\ bus' = Append(bus, "PLAYING")
    /\ UNCHANGED <<running, corking, pipeline, crossed, tuneVars, clientVars, handler>>

HandlerTakes ==
    /\ handler = "idle" /\ bus # << >>
    /\ handler' = IF Head(bus) = "PAUSED" THEN "flag PAUSED" ELSE "flag PLAYING"
    /\ bus' = Tail(bus)
    /\ crossed' = (crossed \/ \E c \in Clients : pc[c] \in StartOrStopPlaces)
    /\ UNCHANGED <<running, corking, pipeline, tuneVars, clientVars>>

HandlerFlags ==
    /\ \/ handler = "flag PAUSED" /\ corking' = TRUE /\ handler' = "set PAUSED"
       \/ handler = "flag PLAYING" /\ corking' = FALSE /\ handler' = "set PLAYING"
    /\ UNCHANGED <<running, pipeline, bus, crossed, tuneVars, clientVars>>

HandlerSets ==
    /\ \/ handler = "set PAUSED" /\ pipeline' = "PAUSED"
       \/ handler = "set PLAYING" /\ pipeline' = "PLAYING"
    /\ handler' = "idle"
    /\ UNCHANGED <<running, corking, bus, crossed, tuneVars, clientVars>>

-----------------------------------------------------------------------------
(* kf_scan_start; kf_scan_stop does nothing. *)

ScanCall(c) ==
    /\ Call(c, "ScanStart") /\ running /\ ~scanning
    /\ Goto(c, "sc_mark")
    /\ UNCHANGED <<playVars, tuneVars, handler, argVars>>

ScanMarks(c) ==
    /\ Step(c, "sc_mark", "sc_popen")
    /\ scanning' = TRUE
    /\ UNCHANGED <<playVars, current_frequency, tuner, event, ctlFailed,
                   popenFailed, handler, argVars>>

ScanRunsSiCtl(c) ==
    /\ Step(c, "sc_popen", "sc_run")
    /\ UNCHANGED <<playVars, tuneVars, handler, argVars>>

\* si_ctl cannot be run; scanning stays set.
ScanPopenFails(c) ==
    /\ Step(c, "sc_popen", "idle")
    /\ popenFailed' = TRUE
    /\ UNCHANGED <<playVars, scanning, current_frequency, tuner, event, ctlFailed,
                   handler, argVars>>

\* Mutant of ScanFails: a scan that prints no frequency is taken for a success.
ScanFailsUnseen(c) ==
    /\ Step(c, "sc_run", "sc_store")
    /\ tuner' \in Channels
    /\ found' = [found EXCEPT ![c] = 0]
    /\ ctlFailed' = TRUE
    /\ UNCHANGED <<playVars, scanning, current_frequency, event, popenFailed,
                   handler, frequency, told, caller>>

\* si_ctl has found a station ...
ScanFinds(c) ==
    /\ Step(c, "sc_run", "sc_store")
    /\ \E f \in Channels : tuner' = f /\ found' = [found EXCEPT ![c] = f]
    /\ ctlFailed' = FALSE
    /\ UNCHANGED <<playVars, scanning, current_frequency, event, popenFailed,
                   handler, frequency, told, caller>>

\* ... or not, or has failed, and leaves the chip tuned anywhere.
ScanFails(c) ==
    /\ Step(c, "sc_run", "sc_back")
    /\ tuner' \in Channels
    /\ found' = [found EXCEPT ![c] = 0]
    /\ ctlFailed' = TRUE
    /\ UNCHANGED <<playVars, scanning, current_frequency, event, popenFailed,
                   handler, frequency, told, caller>>

\* Mutant of ScanStores: the new frequency is not announced.
ScanStoresSilently(c) ==
    /\ Step(c, "sc_store", "sc_found")
    /\ current_frequency' = found[c]
    /\ found' = [found EXCEPT ![c] = 0]
    /\ UNCHANGED <<playVars, scanning, tuner, event, ctlFailed, popenFailed,
                   handler, frequency, told, caller>>

ScanStores(c) ==
    /\ Step(c, "sc_store", "cb_read")
    /\ current_frequency' = found[c]
    /\ found' = [found EXCEPT ![c] = 0]
    /\ caller' = [caller EXCEPT ![c] = "sc_found"]
    /\ UNCHANGED <<playVars, scanning, tuner, event, ctlFailed, popenFailed,
                   handler, frequency, told>>

\* kf_set_frequency(current_frequency), which returns at once while scanning is
\* set; another client's scan may have cleared it.
ScanGoesBack(c) ==
    /\ At(c, "sc_back")
    /\ \/ scanning /\ Goto(c, "sc_found") /\ UNCHANGED <<frequency, caller>>
       \/ /\ ~scanning /\ Goto(c, "sf_ctl")
          /\ frequency' = [frequency EXCEPT ![c] = current_frequency]
          /\ caller' = [caller EXCEPT ![c] = "sc_found"]
    /\ UNCHANGED <<playVars, tuneVars, handler, found, told>>

\* The scan callback, whatever has been found.
ScanReports(c) ==
    /\ Step(c, "sc_found", "sc_done")
    /\ UNCHANGED <<playVars, tuneVars, handler, argVars>>

\* Mutant of ScanDone: scanning is not cleared.
ScanDoneStillMarked(c) ==
    /\ Step(c, "sc_done", "idle")
    /\ popenFailed' = FALSE
    /\ UNCHANGED <<playVars, scanning, current_frequency, tuner, event, ctlFailed,
                   handler, argVars>>

ScanDone(c) ==
    /\ Step(c, "sc_done", "idle")
    /\ scanning' = FALSE /\ popenFailed' = FALSE
    /\ UNCHANGED <<playVars, current_frequency, tuner, event, ctlFailed,
                   handler, argVars>>

Scan(c) == \/ ScanCall(c) \/ ScanMarks(c) \/ ScanRunsSiCtl(c) \/ ScanPopenFails(c)
           \/ ScanFinds(c) \/ ScanFails(c) \/ ScanStores(c) \/ ScanGoesBack(c)
           \/ ScanReports(c) \/ ScanDone(c)

-----------------------------------------------------------------------------
Next ==
    \/ \E c \in Clients : SetFrequency(c) \/ StartOrStop(c) \/ Scan(c)
    \/ RequestState
    \/ HandlerTakes \/ HandlerFlags \/ HandlerSets

Spec == Init /\ [][Next]_vars

-----------------------------------------------------------------------------
Quiet == handler = "idle" /\ \A c \in Clients : At(c, "idle")

\* kf_stop clears running before it stops the pipeline and kf_start sets it after
\* it has started the pipeline: whatever calls cross, a pipeline that still plays
\* when running is clear is about to be stopped, or running to be set, unless a
\* request of the audio server was being handled meanwhile.
StoppedIsSilent ==
    ~running /\ pipeline = "PLAYING" /\ ~crossed =>
        \E c \in Clients : pc[c] \in {"st_mark", "sp_null"}

\* Once everything is quiet, the pipeline is in the state that running and corking
\* say, unless a start or a stop was crossed by another call or by the handling of
\* a request of the audio server.
PlaybackAgreement ==
    Quiet /\ ~crossed /\ ~overlapped =>
        pipeline \in IF ~running THEN {"READY", "NULL"}
                     ELSE IF corking THEN {"PAUSED"} ELSE {"PLAYING"}

\* scanning is set as long as a client is in a scan, and by a scan that could not
\* run si_ctl, but never by a scan that is over.
InScan(c) == pc[c] \in ScanPlaces \/ caller[c] = "sc_found"
ScanFlagMeansScan == scanning => popenFailed \/ \E c \in Clients : InScan(c)

\* Once everything is quiet, what the backend takes the frequency to be is what the
\* clients were told last, whatever si_ctl has failed to do, and what the chip is tuned
\* to, unless si_ctl failed when it was last to tune it; both unless calls overlapped.
TunerAgreement ==
    Quiet /\ ~overlapped =>
        /\ event \in {0, current_frequency}
        /\ ctlFailed \/ tuner = current_frequency

\* As long as no calls overlap, this backend is the radio that every backend
\* promises to be.
Radio == INSTANCE RadioTuner WITH
    playing <- running, seeking <- scanning, frequency <- current_frequency,
    announced <- IF event = 0 THEN MinFreq ELSE event
ImplementsRadio == Radio!Init /\ [][Radio!Next \/ overlapped']_(Radio!vars)

=============================================================================
