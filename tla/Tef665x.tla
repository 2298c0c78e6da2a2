------------------------------- MODULE Tef665x -------------------------------
(***************************************************************************)
(* The TEF665x backend (radio_impl_tef665x.c): the calls of its users, the *)
(* thread that each scan creates and the thread that polls the RDS data.   *)
(* The two mutexes protect nothing: a locked scan_mutex or RDS_Mutex means *)
(* that its thread shall go on, anyone unlocks it to make it stop, and the *)
(* thread finds out by trying to lock it itself.  Every test and store of  *)
(* a shared variable is a step of its own.                                 *)
(***************************************************************************)
EXTENDS Tef665xChip, FiniteSets, FiniteSetsExt

CONSTANTS
    AmMax, AmStep, FmMin, FmMax, FmStep,  \* the band plans, in kHz
    Callers,      \* the threads that call the backend
    ScanThreads,  \* at most these scan threads exist at once,
    RdsThreads,   \* and these RDS threads
    LookAhead     \* as many of the scan's steps reach a multiple of 100 kHz

AM == INSTANCE BandPlan WITH MinFreq <- AmMin, MaxFreq <- AmMax, FreqStep <- AmStep
FM == INSTANCE BandPlan WITH MinFreq <- FmMin, MaxFreq <- FmMax, FreqStep <- FmStep

ASSUME BandsAssumption ==
    /\ AM!BandPlanAssumption /\ FM!BandPlanAssumption
    /\ AmMax < FmMin

\* A multiple of 100 kHz, give or take the 10 kHz that the code does not look at.
Round(f) == (f \div 10) % 10 = 0

\* The loop that looks for the next one ends, and LookAhead steps are enough for it.
ASSUME LookAheadAssumption ==
    /\ LookAhead \in Nat \ {0}
    /\ \A f \in FM!Channels, step \in {FmStep, -FmStep} :
          \E k \in 1 .. LookAhead : Round(f + k * step)

VARIABLES
    scanning, running,                \* the statics of the backend
    scan_mutex, RDS_Mutex,            \* TRUE: locked
    current_band, current_am_frequency, current_fm_frequency,
    event,        \* the frequency of the last frequency event, 0 before the first
    pc,           \* pc[c]: where caller c is
    frequency,    \* frequency[c]: the argument of its call
    direction,    \* direction[c]: likewise
    awaited,      \* awaited[c]: the RDS threads that its usleep outlasts
    scan,         \* scan[s]: where scan thread s is, and its locals
    rds,          \* rds[r]: where RDS thread r is
    crossed,      \* history: calls have crossed, see Crossing and SetBand
    hurried       \* history: the rds verb has started RDS while a thread still polled

tuneVars == <<current_band, current_am_frequency, current_fm_frequency, event>>
argVars == <<frequency, direction>>
callVars == <<pc, argVars, awaited>>
rdsVars == <<RDS_Mutex, rds, hurried>>
scanVars == <<scan_mutex, scanning, scan>>

Bands == {"AM", "FM"}
Directions == {"FORWARD", "BACKWARD"}

MinOf(band) == IF band = "FM" THEN FmMin ELSE AmMin
MaxOf(band) == IF band = "FM" THEN FmMax ELSE AmMax
StepOf(band) == IF band = "FM" THEN FmStep ELSE AmStep
ValidIn(band, f) == IF band = "FM" THEN FM!Valid(f) ELSE AM!Valid(f)
ChannelsOf(band) == IF band = "FM" THEN FM!Channels ELSE AM!Channels

\* tef665x_get_frequency
Current == IF current_band = "FM" THEN current_fm_frequency ELSE current_am_frequency

\* The store of a frequency as the current one of a band.
Store(band, f) ==
    IF band = "FM"
    THEN current_fm_frequency' = f /\ UNCHANGED current_am_frequency
    ELSE current_am_frequency' = f /\ UNCHANGED current_fm_frequency

-----------------------------------------------------------------------------
NoScan == [at |-> "none", init |-> 0, new |-> 0, step |-> 0, direction |-> "FORWARD"]

ScanPlaces == {"none", "created", "home", "loop", "step", "wait", "judge", "unlock", "clear"}
StopPlaces == {"sp_unlock", "sp_busy"}
StartPlaces == {"ss_test", "ss_stop", "ss_busy", "ss_try", "ss_flag"}
TunePlaces == {"sf_test", "sf_tune", "sb_tune"}
Places == {"idle", "sf_rds", "sf_wait"} \cup StopPlaces \cup StartPlaces \cup TunePlaces

TefTypeOK ==
    /\ ChipTypeOK
    /\ {scanning, running, scan_mutex, RDS_Mutex, crossed, hurried} \subseteq BOOLEAN
    /\ current_band \in Bands
    /\ current_am_frequency \in Nat /\ current_fm_frequency \in Nat /\ event \in Nat
    /\ pc \in [Callers -> Places]
    /\ frequency \in [Callers -> Nat]
    /\ direction \in [Callers -> Directions]
    /\ awaited \in [Callers -> SUBSET RdsThreads]
    /\ scan \in [ScanThreads -> [at: ScanPlaces, init: Nat, new: Nat,
                                 step: Int, direction: Directions]]
    /\ rds \in [RdsThreads -> {"none", "created", "polling", "leaving"}]

\* tef665x_init up to the call of tef665x_chip_init
TefInit ==
    /\ ChipInit
    /\ scanning = FALSE /\ running = FALSE
    /\ scan_mutex = FALSE /\ RDS_Mutex = FALSE
    /\ current_band = "AM"
    /\ current_am_frequency = AmMin /\ current_fm_frequency = FmMin
    /\ event = 0
    /\ pc = [c \in Callers |-> "idle"]
    /\ frequency = [c \in Callers |-> 0]
    /\ direction = [c \in Callers |-> "FORWARD"]
    /\ awaited = [c \in Callers |-> {}]
    /\ scan = [s \in ScanThreads |-> NoScan]
    /\ rds = [r \in RdsThreads |-> "none"]
    /\ crossed = FALSE /\ hurried = FALSE

\* The rest of it, which ends with tef665x_start.
InitEnds ==
    /\ Stage("ready", "serving")
    /\ SetMute(FALSE)
    /\ running' = TRUE
    /\ UNCHANGED <<tuneVars, callVars, rdsVars, scanVars, crossed>>

-----------------------------------------------------------------------------
Goto(c, place) == pc' = [pc EXCEPT ![c] = place]
Step(c, from, to) == pc[c] = from /\ Goto(c, to)

ScansAlive == {s \in ScanThreads : scan[s].at # "none"}
RdsAlive == {r \in RdsThreads : rds[r] # "none"}
Unused(threads, alive) == CHOOSE t \in threads : t \notin alive

\* What the flag scanning does not keep apart: a call tests it while another call is
\* starting a scan, or tuning, or while a scan's thread has yet to set it.
OthersTune(c) == \E d \in Callers \ {c} : pc[d] \in StartPlaces \cup TunePlaces
Crossing(c) == OthersTune(c) \/ \E s \in ScanThreads : scan[s].at = "created"

\* c finds scanning clear.
FindsClear(c) == ~scanning /\ crossed' = (crossed \/ Crossing(c))
FindsSet == scanning /\ crossed' = crossed

-----------------------------------------------------------------------------
(* tef665x_set_frequency *)

\* It does nothing during a scan, or when the band has been changed ...
SetFrequencyReturns(c) ==
    /\ Step(c, "sf_test", "idle")
    /\ \/ FindsSet
       \/ FindsClear(c) /\ frequency[c] \notin MinOf(current_band) .. MaxOf(current_band)
    /\ frequency' = [frequency EXCEPT ![c] = 0]
    /\ UNCHANGED <<chip, boot, running, tuneVars, direction, awaited, rdsVars, scanVars>>

SetFrequencyTests(c) ==
    /\ Step(c, "sf_test", "sf_tune")
    /\ FindsClear(c)
    /\ frequency[c] \in MinOf(current_band) .. MaxOf(current_band)
    /\ UNCHANGED <<chip, boot, running, tuneVars, argVars, awaited, rdsVars, scanVars>>

\* The frequency is stored, the chip tuned to it and the frequency event sent: one
\* step, for whoever else tunes meanwhile has crossed.
Tune(f) == Store(current_band, f) /\ TuneTo(f) /\ event' = f

SetFrequencyTunes(c) ==
    /\ Step(c, "sf_tune", "sf_rds")
    /\ Tune(frequency[c])
    /\ frequency' = [frequency EXCEPT ![c] = 0]
    /\ UNCHANGED <<boot, running, current_band, direction, awaited, rdsVars, scanVars, crossed>>

\* In FM the RDS thread is told to end and, after a sleep of 300 ms ...
SetFrequencyStopsRds(c) ==
    /\ pc[c] = "sf_rds"
    /\ IF current_band = "FM"
       THEN /\ Goto(c, "sf_wait")
            /\ RDS_Mutex' = FALSE
            /\ awaited' = [awaited EXCEPT ![c] = RdsAlive]
       ELSE /\ Goto(c, "idle")
            /\ UNCHANGED <<RDS_Mutex, awaited>>
    /\ UNCHANGED <<chip, boot, running, tuneVars, argVars, rds, hurried, scanVars, crossed>>

\* Mutant of Slept: 300 ms are not waited.
SleptNot(c) == pc[c] = "sf_wait"

\* ... in which an RDS thread, which polls every 85 ms, has looked at RDS_Mutex ...
Slept(c) == pc[c] = "sf_wait" /\ awaited[c] = {}

\* ... a new one is created by tef665x_get_rds_info, unless the mutex is locked.
GetRdsInfo(c) ==
    /\ Goto(c, "idle")
    /\ IF RDS_Mutex
       THEN UNCHANGED rdsVars
       ELSE /\ RDS_Mutex' = TRUE
            /\ RdsAlive # RdsThreads
            /\ rds' = [rds EXCEPT ![Unused(RdsThreads, RdsAlive)] = "created"]
            /\ hurried' = (hurried \/ (pc[c] = "idle" /\ RdsAlive # {}))
    /\ UNCHANGED <<chip, boot, running, tuneVars, argVars, awaited, scanVars, crossed>>

SetFrequency(c) ==
    \/ SetFrequencyReturns(c) \/ SetFrequencyTests(c) \/ SetFrequencyTunes(c)
    \/ SetFrequencyStopsRds(c)
    \/ Slept(c) /\ GetRdsInfo(c)

-----------------------------------------------------------------------------
(* tef665x_set_band, tef665x_start and tef665x_stop *)

\* The band is stored, scan or no scan, ...
SetBand(c, band) ==
    /\ Goto(c, "sb_tune")
    /\ current_band' = band
    /\ crossed' = (crossed \/ ScansAlive # {} \/ OthersTune(c))
    /\ UNCHANGED <<chip, boot, running, current_am_frequency, current_fm_frequency,
                   event, argVars, awaited, rdsVars, scanVars>>

\* ... and the chip tuned to its frequency; no event is sent.
SetBandTunes(c) ==
    /\ Step(c, "sb_tune", "idle")
    /\ TuneTo(Current)
    /\ UNCHANGED <<boot, running, tuneVars, argVars, awaited, rdsVars, scanVars, crossed>>

TefStart ==
    /\ SetMute(FALSE)
    /\ running' = TRUE
    /\ UNCHANGED <<boot, tuneVars, callVars, rdsVars, scanVars, crossed>>

TefStop ==
    /\ SetMute(TRUE)
    /\ running' = FALSE
    /\ UNCHANGED <<boot, tuneVars, callVars, rdsVars, scanVars, crossed>>

-----------------------------------------------------------------------------
(* tef665x_scan_start and tef665x_scan_stop *)

ScanCall(from, to, c) ==
    /\ Step(c, from, to)
    /\ UNCHANGED <<chip, boot, running, tuneVars, frequency, awaited>>

\* RDS is to end as a scan begins.
ScanStart(c, d) ==
    /\ ScanCall("idle", "ss_test", c)
    /\ direction' = [direction EXCEPT ![c] = d]
    /\ RDS_Mutex' = FALSE
    /\ UNCHANGED <<rds, hurried, scanVars, crossed>>

ScanStartTests(c) ==
    /\ \/ ScanCall("ss_test", "ss_stop", c) /\ FindsSet
       \/ ScanCall("ss_test", "ss_try", c) /\ FindsClear(c)
    /\ UNCHANGED <<direction, rdsVars, scanVars>>

ScanStop(c) ==
    /\ ScanCall("idle", "sp_unlock", c)
    /\ UNCHANGED <<direction, rdsVars, scanVars, crossed>>

\* tef665x_scan_stop, called as such or by scan_start: the mutex is unlocked and
\* scanning waited for.
ScanStopUnlocks(c) ==
    /\ ScanCall("ss_stop", "ss_busy", c) \/ ScanCall("sp_unlock", "sp_busy", c)
    /\ scan_mutex' = FALSE
    /\ UNCHANGED <<direction, rdsVars, scanning, scan, crossed>>

ScanStopWaits(c) ==
    /\ ScanCall("ss_busy", "ss_try", c) \/ ScanCall("sp_busy", "idle", c)
    /\ FindsClear(c)
    /\ UNCHANGED <<direction, rdsVars, scanVars>>

\* The mutex is tried; a scan already under way keeps it.
ScanStartTries(c) ==
    /\ ScanCall("ss_try", IF scan_mutex THEN "idle" ELSE "ss_flag", c)
    /\ scan_mutex' = TRUE
    /\ direction' = IF scan_mutex THEN [direction EXCEPT ![c] = "FORWARD"] ELSE direction
    /\ UNCHANGED <<rdsVars, scanning, scan, crossed>>

\* The second half of the test; when it fails the mutex stays locked.
ScanStartCreates(c) ==
    /\ ScanCall("ss_flag", "idle", c)
    /\ direction' = [direction EXCEPT ![c] = "FORWARD"]
    /\ IF scanning
       THEN scan' = scan
       ELSE /\ ScansAlive # ScanThreads
            /\ scan' = [scan EXCEPT ![Unused(ScanThreads, ScansAlive)] =
                            [NoScan EXCEPT !.at = "created", !.direction = direction[c]]]
    /\ UNCHANGED <<rdsVars, scan_mutex, scanning, crossed>>

Scan(c) == \/ ScanStartTests(c) \/ ScanStopUnlocks(c) \/ ScanStopWaits(c)
           \/ ScanStartTries(c) \/ ScanStartCreates(c)

-----------------------------------------------------------------------------
(* scan_frequencies, the scan's thread *)

Thread(s, from, to) ==
    /\ scan[s].at = from
    /\ scan' = [scan EXCEPT ![s] = [IF to = "unlock" THEN NoScan ELSE @ EXCEPT !.at = to]]
    /\ UNCHANGED <<boot, running, callVars, rdsVars, crossed>>

\* The flag is set.  The frequency it starts from is the first it searches, which
\* mutes the radio, and its step is that of the band.
ScanBegins(s) ==
    /\ scan[s].at = "created"
    /\ scanning' = TRUE
    /\ scan' = [scan EXCEPT ![s].at = "home", ![s].init = Current,
                            ![s].direction = "FORWARD",
                            ![s].step = IF scan[s].direction = "FORWARD"
                                        THEN StepOf(current_band)
                                        ELSE -StepOf(current_band)]
    /\ UNCHANGED <<chip, boot, running, callVars, rdsVars, crossed, tuneVars, scan_mutex>>

\* Mutant of Search: only a station that is found is announced.
SearchSilently(f) == Store(current_band, f) /\ TuneTo(f) /\ UNCHANGED <<current_band, event>>

\* tef665x_search_frequency
Search(f) == Tune(f) /\ UNCHANGED current_band

ScanHome(s) ==
    /\ Thread(s, "home", "loop")
    /\ Search(scan[s].init)
    /\ UNCHANGED <<scan_mutex, scanning>>

\* The scan ends where it began ...
ScanLoopEnds(s) ==
    /\ Thread(s, "loop", "unlock") /\ scan[s].init = scan[s].new
    /\ UNCHANGED <<chip, tuneVars, scan_mutex, scanning>>

\* ... or when it can lock the mutex, which it tries before and after each step.
ScanLoop(s) ==
    /\ \/ scan[s].init # scan[s].new /\ Thread(s, "loop", IF scan_mutex THEN "step" ELSE "unlock")
       \/ Thread(s, "wait", IF scan_mutex THEN "judge" ELSE "unlock")
    /\ scan_mutex' = TRUE
    /\ UNCHANGED <<chip, tuneVars, scanning>>

\* Mutant of NextOnGrid: a scan that began between two multiples of 100 kHz does
\* not stop at its beginning.
NextOnGridOnly(from, step, init) ==
    from + step * Min({k \in 1 .. LookAhead : Round(from + k * step)})

\* The first of the frequencies behind from that is a multiple of 100 kHz or the one
\* the scan began at.
NextOnGrid(from, step, init) ==
    from + step * Min({k \in 1 .. LookAhead :
                          Round(from + k * step) \/ from + k * step = init})

\* Mutant of NextFrequency: the band's ends are passed.
NextFrequencyBeyond(s) == Current + scan[s].step

\* The scan's next frequency, wrapping at the band's ends.
NextFrequency(s) ==
    LET next == IF current_band = "FM"
                THEN NextOnGrid(Current, scan[s].step, scan[s].init)
                ELSE Current + scan[s].step
    IN  CASE next > MaxOf(current_band) -> MinOf(current_band)
          [] next < MinOf(current_band) -> MaxOf(current_band)
          [] OTHER -> next

ScanSteps(s) ==
    /\ scan[s].at = "step"
    /\ scan' = [scan EXCEPT ![s].at = "wait", ![s].new = NextFrequency(s)]
    /\ Search(NextFrequency(s))
    /\ UNCHANGED <<boot, running, callVars, rdsVars, crossed, scan_mutex, scanning>>

\* tef665x_get_quality_info, whose answer may be anything: a station, which is
\* announced and ends the scan, or none.
ScanJudges(s) ==
    /\ Thread(s, "judge", "unlock") \/ Thread(s, "judge", "loop")
    /\ UNCHANGED <<chip, tuneVars, scan_mutex, scanning>>

\* Mutant of ScanUnlocks: the cleanup handler leaves the mutex as it is.
ScanUnlocksNot(s) ==
    /\ Thread(s, "unlock", "clear")
    /\ UNCHANGED <<chip, tuneVars, scan_mutex, scanning>>

\* scan_cleanup_handler: the mutex is unlocked first ...
ScanUnlocks(s) ==
    /\ Thread(s, "unlock", "clear")
    /\ scan_mutex' = FALSE
    /\ UNCHANGED <<chip, tuneVars, scanning>>

\* ... and the flag cleared last.
ScanClears(s) ==
    /\ scan[s].at = "clear"
    /\ scan' = [scan EXCEPT ![s] = NoScan]
    /\ scanning' = FALSE
    /\ UNCHANGED <<chip, boot, running, callVars, rdsVars, crossed, tuneVars, scan_mutex>>

ScanThread(s) ==
    \/ ScanBegins(s) \/ ScanHome(s)
    \/ ScanLoopEnds(s) \/ ScanLoop(s) \/ ScanSteps(s) \/ ScanJudges(s)
    \/ ScanUnlocks(s) \/ ScanClears(s)

-----------------------------------------------------------------------------
(* Get_RDS_Packets, the RDS thread *)

RdsStep(r, from, to) ==
    /\ rds[r] = from
    /\ rds' = [rds EXCEPT ![r] = to]
    /\ UNCHANGED <<chip, boot, running, tuneVars, pc, argVars, hurried, scanVars, crossed>>

\* Without valid RDS data it ends and leaves the mutex locked.
RdsBegins(r) ==
    /\ \/ RdsStep(r, "created", "polling") /\ awaited' = awaited
       \/ /\ RdsStep(r, "created", "none")
          /\ awaited' = [c \in Callers |-> awaited[c] \ {r}]
    /\ UNCHANGED RDS_Mutex

\* It polls as long as it cannot lock the mutex.
RdsPolls(r) ==
    /\ \/ RDS_Mutex /\ RdsStep(r, "polling", "polling")
          /\ awaited' = [c \in Callers |-> awaited[c] \ {r}]
       \/ ~RDS_Mutex /\ RdsStep(r, "polling", "leaving") /\ awaited' = awaited
    /\ RDS_Mutex' = TRUE

RdsLeaves(r) ==
    /\ RdsStep(r, "leaving", "none")
    /\ awaited' = [c \in Callers |-> awaited[c] \ {r}]
    /\ RDS_Mutex' = FALSE

RdsThread(r) == RdsBegins(r) \/ RdsPolls(r) \/ RdsLeaves(r)

=============================================================================
