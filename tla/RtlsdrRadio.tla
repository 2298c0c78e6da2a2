---------------------------- MODULE RtlsdrRadio ----------------------------
(***************************************************************************)
(* The RTL-SDR radio: the backend's threads in the service and the helper  *)
(* process, joined by their two pipes.                                     *)
(***************************************************************************)
EXTENDS RtlFmHelper, RtlsdrBackend

VARIABLE
    dropped    \* history: the kinds of the replies nobody looked at, since the last
               \* F= that somebody did look at

vars == <<pipeVars, helperVars, backendVars, dropped>>

Init == PipesInit /\ HelperInit /\ BackendInit /\ dropped = {}

\* The caller of read() looks at the first line and loses those that came with it
\* and the one that it took the beginning of.
Taken == Len(fromHelper) - Len(fromHelper')
Behind ==
    {fromHelper[i].kind :
        i \in 2 .. (IF fromHelper' # << >> /\ Head(fromHelper').kind = "rest"
                    THEN Taken + 1 ELSE Taken)}

Record ==
    dropped' = IF Taken = 0 THEN dropped
               ELSE IF Head(fromHelper).kind = "F" THEN Behind
               ELSE dropped \cup Behind

ByBackend(step) == step /\ UNCHANGED helperVars /\ Record
ByHelper(step) == step /\ UNCHANGED <<backendVars, dropped>>

Backend == ByBackend(\E t \in Clients : ThreadStep(t))
Helper == ByHelper(HelperNext)

Next == Backend \/ Helper

Spec == Init /\ [][Next]_vars

\* The scheduler runs every thread that can run; a thread that waits for
\* helper_mutex gets it if the mutex is free again and again; rtl_fm_stop's
\* joins return; and a scan that goes on long enough comes by a station.
Fairness ==
    /\ \A t \in Clients : /\ WF_vars(ByBackend(FreeStep(t)))
                          /\ SF_vars(ByBackend(LockStep(t)))
    /\ WF_vars(ByHelper(HelperCommand))
    /\ WF_vars(ByHelper(DemodStep))
    /\ SF_vars(ByHelper(DemodStrong))

FairSpec == Spec /\ Fairness

-----------------------------------------------------------------------------
\* Every variable keeps the type its declaration in C gives it.
TypeOK == PipesTypeOK /\ HelperTypeOK /\ BackendTypeOK /\ dropped \subseteq Kinds

\* Every frequency anywhere, in a flag, a local, a command or a reply, is a
\* channel of the band plan, and so is the tuner's, but for the moment in which
\* a retune has yet to add the offset: the check in RadioImpl::SetFrequency and
\* the wrap of the scan step keep the whole radio on the grid.
GridCommands == {c \in Commands : c.op = "F=" => c.freq \in Channels}
GridLines == {l \in Lines : l.freq \in Channels}

TunerOnGrid ==
    CASE main_pc = "offset" -> freqs0 = main_freq
      [] demod_pc = "offset" -> freqs0 = demod_freq
      [] OTHER -> Tuned \in Channels

OnGrid ==
    /\ toHelper \in Seq(GridCommands) /\ fromHelper \in Seq(GridLines)
    /\ {main_freq, demod_freq} \subseteq Channels
    /\ TunerOnGrid
    /\ current_frequency \in Channels /\ published \in Channels \cup {0}
    /\ \A t \in Clients : {frequency[t], line[t].freq} \subseteq Channels

\* helper_mutex is held exactly by the thread that is inside read(): no two
\* threads read the reply pipe at once and no way out of a call leaves the
\* mutex locked.
Readers == {t \in Clients : pc[t] \in {"sf_read", "sc_read"}}

OneReader == Readers = {helper_mutex} \ {NoClient}

\* The helper scans only while it plays and is not being stopped, and the
\* demodulator is in the middle of an iteration only while its thread exists.
ScanOnlyWhilePlaying ==
    /\ ctl_scanning => started /\ main_pc # "joining"
    /\ main_pc = "joining" \/ demod_pc # "idle" => started

\* A thread that waits for the answer to its F= has exactly one answer coming:
\* its command is still on its way to the helper, or the helper is carrying it
\* out, or the answer, for the frequency it asked for, is the only line in the
\* reply pipe.  Nothing it reads can be the answer to somebody else's call.
Retunes == {i \in DOMAIN toHelper : toHelper[i].op = "F="}
Retuning == main_pc \in {"offset", "report"}

RetunePending(f) == \E i \in Retunes : toHelper[i].freq = f /\ Retunes = {i}

AnswerComing(f) ==
    \/ fromHelper = << >> /\ RetunePending(f) /\ ~ Retuning
    \/ fromHelper = << >> /\ Retunes = {} /\ Retuning /\ main_freq = f
    \/ fromHelper = <<ReplyLine("F", f)>> /\ Retunes = {} /\ ~ Retuning

AnswerOnItsWay ==
    \A t \in Clients :
        helper_alive /\ At(t, "sf_read") => AnswerComing(frequency[t])

-----------------------------------------------------------------------------
\* All calls have returned and the helper has carried out every command.
Settled ==
    /\ helper_alive /\ main_pc = "command"
    /\ toHelper = << >>
    /\ \A t \in Clients : At(t, "idle")

\* Once everything has settled, the last frequency event the clients were sent
\* is the one the tuner is at.
EventAgreement == Settled => published = Tuned \/ (published = 0 /\ Tuned = MinFreq)

\* Once everything has settled, the backend believes the radio plays exactly
\* when the helper does.
PlaybackAgreement == Settled => active = started

\* Once everything has settled, no scan is left over, on either side, the squelch
\* does not mute a weak station, no reply waits to be taken for the answer to the
\* next call, the clients have been told the frequency that get_frequency returns,
\* and it is the one the tuner is at, unless that one came behind another in a read().
Told == published = current_frequency \/ (published = 0 /\ current_frequency = MinFreq)
KnowsTuned == "F" \notin dropped => current_frequency = Tuned

ScanAgreement ==
    Settled => /\ ~ scanning /\ ~ ctl_scanning /\ ~ squelch
               /\ demod_pc = "idle" /\ fromHelper = << >>
               /\ Told /\ KnowsTuned

\* When station_found is sent, its frequency is the one the tuner stays at, whatever
\* replies have been lost before it, and if none has the one get_frequency returns.
StationFoundIsTuned ==
    [][\A t \in Clients : ScanStation(t) => line[t].freq = Tuned /\ KnowsTuned]_vars

\* Of a client that makes one call after the other, this backend is the radio that
\* every backend promises to be, as long as the helper lives; without it nothing
\* can be announced any more.
Radio == INSTANCE RadioTuner WITH
    playing <- active, seeking <- scanning, frequency <- current_frequency,
    announced <- IF ~helper_alive THEN current_frequency
                 ELSE IF published = 0 THEN MinFreq ELSE published
ImplementsRadio == Radio!Spec

\* Every call of every client returns, whatever dies or is refused: the only reply
\* whose loss stops one is the S= of its scan, read behind an F=.
EveryCallReturns ==
    \A t \in Clients : ~ At(t, "idle") ~> At(t, "idle") \/ "S" \in dropped

\* Every station the helper finds is a channel of the band plan.
StationsAreChannels ==
    \A i \in DOMAIN fromHelper :
        fromHelper[i].kind = "S" => fromHelper[i].freq \in Channels

=============================================================================
