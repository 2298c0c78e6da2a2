----------------------------- MODULE NullRadio -----------------------------
(***************************************************************************)
(* The service's verbs (RadioImpl.cc) with the null backend                *)
(* (radio_impl_null.c), which has no device and tunes by storing the       *)
(* frequency.  Each call runs on the gRPC thread that serves its client;   *)
(* neither the verbs nor this backend lock anything, so each access to a   *)
(* shared variable, and each event sent, is a step of its own.             *)
(***************************************************************************)
EXTENDS BandPlan

CONSTANTS
    Clients,   \* the clients, each served by one thread
    Calls      \* Calls[c]: the operations client c may call

Operations == {"SetFrequency", "Start", "Stop", "ScanStart", "ScanStop"}

ASSUME NullAssumption == Calls \in [Clients -> SUBSET Operations]

VARIABLES
    m_playing,          \* RadioImpl's
    active,             \* the statics of the backend
    scanning,
    current_frequency,
    pc,                 \* pc[c]: where the thread serving c is
    frequency,          \* frequency[c]: the frequency to set
    told,               \* told[c]: the argument of freq_callback
    seeks,              \* seeks[c]: null_scan_start has called null_set_frequency
    event,              \* the last frequency event sent, 0 before the first
    playEvent           \* the last playing event sent

flagVars == <<m_playing, active, scanning>>
argVars == <<frequency, told, seeks>>
eventVars == <<event, playEvent>>
vars == <<flagVars, current_frequency, pc, argVars, eventVars>>

\* Every variable keeps its type, and every frequency is a channel.
TypeOK ==
    /\ m_playing \in BOOLEAN /\ active \in BOOLEAN /\ scanning \in BOOLEAN
    /\ current_frequency \in Channels
    /\ pc \in [Clients -> {"idle", "st_mark", "st_event", "sp_mark", "sp_event",
                           "sf_set", "cb_read", "cb_send",
                           "sc_mark", "sc_step", "sc_unmark", "sc_found"}]
    /\ frequency \in [Clients -> Channels] /\ told \in [Clients -> Channels]
    /\ seeks \in [Clients -> BOOLEAN]
    /\ event \in Channels \cup {0} /\ playEvent \in BOOLEAN

\* RadioImpl::Detect has run null_init, which sets the band's minimum, before it
\* installed the frequency callback.
Init ==
    /\ m_playing = FALSE /\ active = FALSE /\ scanning = FALSE
    /\ current_frequency = MinFreq
    /\ pc = [c \in Clients |-> "idle"]
    /\ frequency = [c \in Clients |-> MinFreq]
    /\ told = [c \in Clients |-> MinFreq]
    /\ seeks = [c \in Clients |-> FALSE]
    /\ event = 0 /\ playEvent = FALSE

Goto(c, place) == pc' = [pc EXCEPT ![c] = place]
Step(c, from, to) == pc[c] = from /\ Goto(c, to)
Call(c, op, to) == op \in Calls[c] /\ Step(c, "idle", to)

-----------------------------------------------------------------------------
(* Start and Stop: the backend, then m_playing, then the event *)

StartCall(c) ==
    /\ Call(c, "Start", "st_mark")
    /\ active' = TRUE
    /\ UNCHANGED <<m_playing, scanning, current_frequency, argVars, eventVars>>

StopCall(c) ==
    /\ Call(c, "Stop", "sp_mark")
    /\ active' = FALSE
    /\ UNCHANGED <<m_playing, scanning, current_frequency, argVars, eventVars>>

Marks(c, from, to, playing) ==
    /\ Step(c, from, to)
    /\ m_playing' = playing
    /\ UNCHANGED <<active, scanning, current_frequency, argVars, eventVars>>

SendsPlaying(c, from, playing) ==
    /\ Step(c, from, "idle")
    /\ playEvent' = playing
    /\ UNCHANGED <<flagVars, current_frequency, argVars, event>>

StartMarks(c) == Marks(c, "st_mark", "st_event", TRUE)
StopMarks(c) == Marks(c, "sp_mark", "sp_event", FALSE)
StartSends(c) == SendsPlaying(c, "st_event", TRUE)

\* Mutant of StopSends: the event of Start is sent.
StopSendsPlaying(c) == SendsPlaying(c, "sp_event", TRUE)
StopSends(c) == SendsPlaying(c, "sp_event", FALSE)

-----------------------------------------------------------------------------
(* null_set_frequency, called by SetFrequency after its test of the request,
   and by null_scan_start.  Its own test of the range never fails then. *)

SetFrequencyCall(c) ==
    /\ Call(c, "SetFrequency", "sf_set")
    /\ \E f \in Channels : frequency' = [frequency EXCEPT ![c] = f]
    /\ UNCHANGED <<flagVars, current_frequency, told, seeks, eventVars>>

\* Mutant of SetFrequency: the callback is only for scans.
SetFrequencySilent(c) ==
    /\ Step(c, "sf_set", IF seeks[c] THEN "cb_read" ELSE "idle")
    /\ current_frequency' = frequency[c]
    /\ UNCHANGED <<flagVars, argVars, eventVars>>

SetFrequency(c) ==
    /\ Step(c, "sf_set", "cb_read")
    /\ current_frequency' = frequency[c]
    /\ UNCHANGED <<flagVars, argVars, eventVars>>

\* freq_callback(current_frequency): its argument is read, then the event sent.
CallbackReads(c) ==
    /\ Step(c, "cb_read", "cb_send")
    /\ told' = [told EXCEPT ![c] = current_frequency]
    /\ UNCHANGED <<flagVars, current_frequency, frequency, seeks, eventVars>>

CallbackSends(c) ==
    /\ Step(c, "cb_send", IF seeks[c] THEN "sc_found" ELSE "idle")
    /\ event' = told[c]
    /\ UNCHANGED <<flagVars, current_frequency, argVars, playEvent>>

-----------------------------------------------------------------------------
(* null_scan_start and null_scan_stop *)

ScanStartCall(c) ==
    /\ Call(c, "ScanStart", "sc_mark") /\ active /\ ~scanning
    /\ UNCHANGED <<flagVars, current_frequency, argVars, eventVars>>

ScanStartMarks(c) ==
    /\ Step(c, "sc_mark", "sc_step")
    /\ scanning' = TRUE
    /\ UNCHANGED <<m_playing, active, current_frequency, argVars, eventVars>>

\* Mutant of ScanSteps: the ends of the band are not looked at.
ScanStepsOn(c) ==
    /\ Step(c, "sc_step", "sc_unmark")
    /\ \E step \in {FreqStep, -FreqStep} :
          frequency' = [frequency EXCEPT ![c] = current_frequency + step]
    /\ UNCHANGED <<flagVars, current_frequency, told, seeks, eventVars>>

\* One step up or down from the frequency held, with the wrap of both ends.
ScanSteps(c) ==
    /\ Step(c, "sc_step", "sc_unmark")
    /\ \E direction \in Directions :
          frequency' = [frequency EXCEPT ![c] = StepFrom(current_frequency, direction)]
    /\ UNCHANGED <<flagVars, current_frequency, told, seeks, eventVars>>

\* Mutant of ScanUnmarks: the frequency is not set.
ScanUnmarksOnly(c) ==
    /\ Step(c, "sc_unmark", "sc_found")
    /\ scanning' = FALSE
    /\ seeks' = [seeks EXCEPT ![c] = TRUE]
    /\ UNCHANGED <<m_playing, active, current_frequency, frequency, told, eventVars>>

ScanUnmarks(c) ==
    /\ Step(c, "sc_unmark", "sf_set")
    /\ scanning' = FALSE
    /\ seeks' = [seeks EXCEPT ![c] = TRUE]
    /\ UNCHANGED <<m_playing, active, current_frequency, frequency, told, eventVars>>

\* The station_found event, of frequency[c].
ScanReports(c) ==
    /\ Step(c, "sc_found", "idle")
    /\ seeks' = [seeks EXCEPT ![c] = FALSE]
    /\ UNCHANGED <<flagVars, current_frequency, frequency, told, eventVars>>

ScanStopCall(c) ==
    /\ Call(c, "ScanStop", "idle")
    /\ scanning' = FALSE
    /\ UNCHANGED <<m_playing, active, current_frequency, argVars, eventVars>>

-----------------------------------------------------------------------------
Verbs(c) == \/ StartCall(c) \/ StartMarks(c) \/ StartSends(c)
            \/ StopCall(c) \/ StopMarks(c) \/ StopSends(c)

Tuning(c) == \/ SetFrequencyCall(c) \/ SetFrequency(c)
             \/ CallbackReads(c) \/ CallbackSends(c)

Scanning(c) == \/ ScanStartCall(c) \/ ScanStartMarks(c) \/ ScanSteps(c)
               \/ ScanUnmarks(c) \/ ScanReports(c) \/ ScanStopCall(c)

Next == \E c \in Clients : Verbs(c) \/ Tuning(c) \/ Scanning(c)

Spec == Init /\ [][Next]_vars

-----------------------------------------------------------------------------
Quiet == \A c \in Clients : pc[c] = "idle"

\* Of a client that makes one call after the other, the service with this backend
\* is the radio every backend promises to be.
Radio == INSTANCE RadioTuner WITH
    playing <- active, seeking <- scanning, frequency <- current_frequency,
    announced <- IF event = 0 THEN MinFreq ELSE event
ImplementsRadio == Radio!Spec

\* When no call is under way, the last playing event says whether the backend
\* plays, and so does m_playing.
StatusAgreement == Quiet => playEvent = active /\ m_playing = active

\* A scan does not end anywhere but on a station it has announced: when a client
\* that scans is about to report, the last frequency sent is the one it reports.
StationIsAnnounced ==
    [][\A c \in Clients : ScanReports(c) => event = frequency[c]]_vars

=============================================================================
