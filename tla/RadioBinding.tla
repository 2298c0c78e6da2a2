----------------------------- MODULE RadioBinding -----------------------------
(***************************************************************************)
(* The application framework binding (radio-binding.c) with the TEF665x    *)
(* backend: verbs check their arguments and call the backend, each on a    *)
(* thread of the framework; the media keys arrive on another one.          *)
(***************************************************************************)
EXTENDS Tef665x

CONSTANT Calls   \* Calls[c]: the verbs, or the media keys, of caller c

Verbs == {"frequency", "band", "rds", "start", "stop", "scan_start", "scan_stop",
          "media"}

ASSUME CallsAssumption == Calls \in [Callers -> SUBSET Verbs]

VARIABLE playing   \* the binding's

vars == <<playing, chip, boot, running, tuneVars, callVars, rdsVars, scanVars, crossed>>

\* Every variable keeps its type, and the frequencies stay on their bands' grids.
TypeOK ==
    /\ TefTypeOK /\ playing \in BOOLEAN
    /\ ~crossed => /\ current_am_frequency \in AM!Channels
                   /\ current_fm_frequency \in FM!Channels

Init == TefInit /\ playing = FALSE

\* Two bounds.  Once RDS has been hurried, or the bring-up has failed, the only
\* calls are start and stop, and a crossing ends what is explored.
Explored == ~hurried /\ chip.state = "active" /\ chip.tuned # 0

Beyond == crossed /\ UNCHANGED vars

Verb(c, verb) ==
    /\ ~crossed /\ boot = "serving" /\ pc[c] = "idle" /\ verb \in Calls[c]
    /\ Explored \/ verb \in {"start", "stop"}

\* frequency: a channel of the band as it is now; anything else is refused.
FrequencyVerb(c) ==
    /\ Verb(c, "frequency")
    /\ \E f \in ChannelsOf(current_band) : frequency' = [frequency EXCEPT ![c] = f]
    /\ Goto(c, "sf_test")
    /\ UNCHANGED <<chip, boot, running, tuneVars, direction, awaited, rdsVars,
                   scanVars, crossed, playing>>

BandVerb(c) ==
    /\ Verb(c, "band")
    /\ \E band \in Bands : SetBand(c, band)
    /\ UNCHANGED playing

RdsVerb(c) ==
    /\ Verb(c, "rds") /\ GetRdsInfo(c)
    /\ UNCHANGED playing

StartVerb(c) ==
    /\ Verb(c, "start") /\ TefStart
    /\ playing' = TRUE

StopVerb(c) ==
    /\ Verb(c, "stop") /\ TefStop
    /\ playing' = FALSE

ScanStartVerb(c) ==
    /\ Verb(c, "scan_start")
    /\ \E d \in Directions : ScanStart(c, d)
    /\ UNCHANGED playing

ScanStopVerb(c) ==
    /\ Verb(c, "scan_stop") /\ ScanStop(c)
    /\ UNCHANGED playing

\* onevent: the keys next and previous scan, but only when the radio plays.
OnEvent(c) ==
    /\ Verb(c, "media") /\ playing
    /\ \E d \in Directions : ScanStart(c, d)
    /\ UNCHANGED playing

Call(c) == \/ FrequencyVerb(c) \/ BandVerb(c) \/ RdsVerb(c) \/ StartVerb(c)
           \/ StopVerb(c) \/ ScanStartVerb(c) \/ ScanStopVerb(c) \/ OnEvent(c)

\* A call goes on.
GoesOn(c) ==
    /\ ~crossed
    /\ SetFrequency(c) \/ SetBandTunes(c) \/ Scan(c)
    /\ UNCHANGED playing

ScanGoesOn(s) == ~crossed /\ ScanThread(s) /\ UNCHANGED playing
RdsGoesOn(r) == ~crossed /\ RdsThread(r) /\ UNCHANGED playing

InitStep ==
    /\ \/ Boot /\ UNCHANGED <<running, tuneVars, callVars, rdsVars, scanVars, crossed>>
       \/ InitEnds
    /\ UNCHANGED playing

Next ==
    \/ Beyond
    \/ InitStep
    \/ \E c \in Callers : Call(c) \/ GoesOn(c)
    \/ \E s \in ScanThreads : ScanGoesOn(s)
    \/ \E r \in RdsThreads : RdsGoesOn(r)

Spec == Init /\ [][Next]_vars

\* Every thread that can run does; nobody need call.
Fairness ==
    /\ WF_vars(InitStep)
    /\ \A c \in Callers : WF_vars(GoesOn(c))
    /\ \A s \in ScanThreads : WF_vars(ScanGoesOn(s))
    /\ \A r \in RdsThreads : WF_vars(RdsGoesOn(r))

FairSpec == Spec /\ Fairness

-----------------------------------------------------------------------------
Quiet == ScansAlive = {} /\ \A c \in Callers : pc[c] = "idle"

\* There is one scan at the most, and once it is over and no call under way both
\* its flag and its mutex are free for the next one: unless a call tested scanning
\* while a scan was being started.
OneScan ==
    ~crossed => /\ Cardinality(ScansAlive) =< 1
                /\ Quiet => ~scanning /\ ~scan_mutex

\* "If no valid frequency found, scan will stop at the begining point": every scan
\* ends, whether stopped or not, unless the band is changed meanwhile or a call
\* tested scanning while it was being started.
ScanEnds ==
    \A s \in ScanThreads : scan[s].at # "none" ~> (scan[s].at = "none" \/ crossed)

\* Whatever has been tuned and scanned, once all is quiet the last frequency event
\* is still true for its band, and an active chip has got the whole patch, is muted
\* unless the radio plays, and tuned to the frequency the radio says, or not at all
\* when the bring-up has failed to.
ChipAgreement ==
    Quiet /\ boot = "serving" /\ ~crossed =>
        /\ event \in {0, current_am_frequency, current_fm_frequency}
        /\ chip.state = "active" => /\ chip.patched /\ chip.muted = ~running
                                    /\ chip.tuned \in {0, Current}

\* One thread polls the RDS data, however often set_frequency starts it anew: the
\* sleep is what makes sure of it.  Only the rds verb, called while a thread that a
\* scan has told to end still polls, makes it two.
OneRdsThread == ~hurried => Cardinality(RdsAlive) =< 1

=============================================================================
