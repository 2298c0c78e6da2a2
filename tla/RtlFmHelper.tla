---------------------------- MODULE RtlFmHelper ----------------------------
(***************************************************************************)
(* The process rtl_fm_helper: the command loop of its main thread and the  *)
(* demodulator thread that steps a scan and ends it (rtl_fm_helper.c and   *)
(* the control part of rtl_fm.c).  The signal processing is left out: each *)
(* iteration of the demodulator sees either noise or a station.            *)
(***************************************************************************)
EXTENDS HelperPipes

CONSTANTS
    WbOffset,   \* added to freqs[0] in wide band mode, 16000
    MayExit     \* TRUE: the helper process may die

\* 16000 is less than every band plan's step: freqs[0] is never on the grid.
ASSUME HelperAssumption ==
    /\ WbOffset \in 1 .. (FreqStep - 1)
    /\ MayExit \in BOOLEAN

VARIABLES
    started,          \* main's local: START handled, threads running
    main_pc,          \* where main is in the handling of a command
    main_freq,        \* its argument of rtl_fm_set_freq, MinFreq when unused
    arming,           \* the retune is that of rtl_fm_scan_start
    freqs0,           \* controller.freqs[0], the frequency with its offset
    ctl_scanning,     \* controller.scanning
    squelch,          \* demod.squelch_level is not 0
    scan_direction,   \* controller.scan_direction
    demod_pc,         \* where the demodulator thread is in its iteration
    demod_freq        \* the frequency of its last rtl_fm_scan_callback

mainVars == <<started, main_pc, main_freq, arming>>
demodVars == <<demod_pc, demod_freq>>
helperVars == <<mainVars, freqs0, ctl_scanning, squelch, scan_direction,
                demodVars>>

HelperTypeOK ==
    /\ started \in BOOLEAN /\ arming \in BOOLEAN
    /\ main_pc \in {"command", "joining", "offset", "report"}
    /\ {main_freq, demod_freq, freqs0} \subseteq Frequencies
    /\ ctl_scanning \in BOOLEAN /\ squelch \in BOOLEAN
    /\ scan_direction \in Directions
    /\ demod_pc \in {"idle", "tune", "offset", "report", "found", "station"}

\* After rtl_fm_init and the F= of rtlsdr_init: tuned to the band's minimum.
HelperInit ==
    /\ started = FALSE /\ arming = FALSE
    /\ main_pc = "command" /\ main_freq = MinFreq
    /\ freqs0 = MinFreq + WbOffset
    /\ ctl_scanning = FALSE /\ squelch = FALSE
    /\ scan_direction = "UP"
    /\ demod_pc = "idle" /\ demod_freq = MinFreq

-----------------------------------------------------------------------------
(* rtl_fm_get_freq and rtl_fm_set_freq.  Both threads of the helper call    *)
(* them and no lock protects freqs[0], so that a retune is three steps: the *)
(* store of the bare frequency, the addition of the offset, the report.     *)

\* rtl_fm_get_freq.
Tuned == freqs0 - WbOffset

\* freqs[0] += 16000: a build may read freqs[0] again or use what it stored.
AddOffset(freq) == freqs0' \in {freqs0 + WbOffset, freq + WbOffset}

\* Mutant of MainRetune: the comparison is with the frequency less its offset,
\* so that a retune to the same channel is not reported.
MainRetuneSuppressed(freq) ==
    IF Tuned = freq
    THEN UNCHANGED <<freqs0, main_pc, main_freq>>
    ELSE freqs0' = freq /\ main_pc' = "offset" /\ main_freq' = freq

\* main enters rtl_fm_set_freq: freqs[0], offset and all, is compared with the
\* frequency asked for.
MainRetune(freq) ==
    IF freqs0 = freq
    THEN UNCHANGED <<freqs0, main_pc, main_freq>>
    ELSE freqs0' = freq /\ main_pc' = "offset" /\ main_freq' = freq

-----------------------------------------------------------------------------
\* The command loop.  NextCommand is fgets returning the line of a command.
NextCommand(ops) ==
    /\ helper_alive /\ main_pc = "command"
    /\ toHelper # << >>
    /\ Head(toHelper).op \in ops
    /\ toHelper' = Tail(toHelper)

\* rtl_fm_scan_stop.
StopScan == ctl_scanning' = FALSE /\ squelch' = FALSE

HelperStart ==
    /\ NextCommand({"START"})
    /\ started' = TRUE
    /\ IF started THEN UNCHANGED <<ctl_scanning, squelch>> ELSE StopScan
    /\ UNCHANGED <<fromHelper, helper_alive, main_pc, main_freq, arming, freqs0,
                   scan_direction, demodVars>>

\* STOP when started: rtl_fm_stop ends the scan and asks the threads to exit,
HelperStop ==
    /\ NextCommand({"STOP"})
    /\ IF started THEN main_pc' = "joining" /\ StopScan
                  ELSE UNCHANGED <<main_pc, ctl_scanning, squelch>>
    /\ UNCHANGED <<fromHelper, helper_alive, started, main_freq, arming, freqs0,
                   scan_direction, demodVars>>

\* and returns when the demodulator has finished the iteration it was in.
HelperJoined ==
    /\ helper_alive /\ main_pc = "joining" /\ demod_pc = "idle"
    /\ main_pc' = "command"
    /\ started' = FALSE
    /\ UNCHANGED <<pipeVars, main_freq, arming, freqs0, ctl_scanning, squelch,
                   scan_direction, demodVars>>

HelperSetFreq ==
    /\ NextCommand({"F="})
    /\ StopScan
    /\ MainRetune(Head(toHelper).freq)
    /\ UNCHANGED <<fromHelper, helper_alive, started, arming, scan_direction,
                   demodVars>>

\* rtl_fm_scan_start: the scan takes its first step here, and the squelch is
\* armed only when that retune is over.
StartScan(direction) ==
    LET next == StepFrom(Tuned, direction)
    IN  /\ ctl_scanning' = TRUE
        /\ scan_direction' = direction
        /\ MainRetune(next)
        /\ arming' = (freqs0 # next)
        /\ squelch' = (squelch \/ freqs0 = next)

ScanDirection == IF Head(toHelper).op = "S=UP" THEN "UP" ELSE "DOWN"

\* Mutant of HelperScanStart: the test of started is missing.
HelperScanStartAnyway ==
    /\ NextCommand(ScanOps)
    /\ IF ctl_scanning /\ scan_direction = ScanDirection
       THEN UNCHANGED <<main_pc, main_freq, arming, freqs0, ctl_scanning,
                        squelch, scan_direction>>
       ELSE StartScan(ScanDirection)
    /\ UNCHANGED <<fromHelper, helper_alive, started, demodVars>>

\* S=UP and S=DOWN: ignored when not started, and by rtl_fm_scan_start when a
\* scan in the same direction is under way.
HelperScanStart ==
    /\ NextCommand(ScanOps)
    /\ IF ~ started \/ (ctl_scanning /\ scan_direction = ScanDirection)
       THEN UNCHANGED <<main_pc, main_freq, arming, freqs0, ctl_scanning,
                        squelch, scan_direction>>
       ELSE StartScan(ScanDirection)
    /\ UNCHANGED <<fromHelper, helper_alive, started, demodVars>>

HelperScanStop ==
    /\ NextCommand({"S=STOP"})
    /\ IF started THEN StopScan ELSE UNCHANGED <<ctl_scanning, squelch>>
    /\ UNCHANGED <<fromHelper, helper_alive, mainVars, freqs0, scan_direction,
                   demodVars>>

\* The rest of a retune by main.
HelperOffset ==
    /\ helper_alive /\ main_pc = "offset"
    /\ AddOffset(main_freq)
    /\ main_pc' = "report"
    /\ UNCHANGED <<pipeVars, started, main_freq, arming, ctl_scanning, squelch,
                   scan_direction, demodVars>>

HelperReport ==
    /\ helper_alive /\ main_pc = "report"
    /\ PrintLine(ReplyLine("F", main_freq))
    /\ main_pc' = "command" /\ main_freq' = MinFreq
    /\ arming' = FALSE
    /\ squelch' = (squelch \/ arming)
    /\ UNCHANGED <<toHelper, helper_alive, started, freqs0, ctl_scanning,
                   scan_direction, demodVars>>

\* The process dies (a fault of its own, or the kernel's) and the commands it
\* had not read go with it; the replies it printed stay readable.
HelperExit ==
    /\ MayExit /\ helper_alive
    /\ helper_alive' = FALSE
    /\ toHelper' = << >>
    /\ UNCHANGED <<fromHelper, helperVars>>

-----------------------------------------------------------------------------
\* The demodulator thread runs beside the command loop and does not wait for its
\* replies to be read.  Only its iterations during a scan change anything here.
Iteration ==
    /\ helper_alive
    /\ demod_pc = "idle"
    /\ squelch /\ ctl_scanning

\* Too much noise: rtl_fm_scan_callback reads the frequency and steps it,
DemodWeak ==
    /\ Iteration
    /\ demod_freq' = StepFrom(Tuned, scan_direction)
    /\ demod_pc' = "tune"
    /\ UNCHANGED <<pipeVars, mainVars, freqs0, ctl_scanning, squelch,
                   scan_direction>>

\* and then sets it, whatever the command loop has done meanwhile.
DemodTune ==
    /\ helper_alive /\ demod_pc = "tune"
    /\ freqs0' = demod_freq
    /\ demod_pc' = IF freqs0 = demod_freq THEN "idle" ELSE "offset"
    /\ UNCHANGED <<pipeVars, mainVars, ctl_scanning, squelch, scan_direction,
                   demod_freq>>

DemodOffset ==
    /\ helper_alive /\ demod_pc = "offset"
    /\ AddOffset(demod_freq)
    /\ demod_pc' = "report"
    /\ UNCHANGED <<pipeVars, mainVars, ctl_scanning, squelch, scan_direction,
                   demod_freq>>

DemodReport ==
    /\ helper_alive /\ demod_pc = "report"
    /\ PrintLine(ReplyLine("F", demod_freq))
    /\ demod_pc' = "idle"
    /\ UNCHANGED <<toHelper, helper_alive, mainVars, freqs0, ctl_scanning,
                   squelch, scan_direction, demod_freq>>

\* A station: rtl_fm_scan_end_callback sees the scan under way,
DemodStrong ==
    /\ Iteration
    /\ demod_pc' = "found"
    /\ UNCHANGED <<pipeVars, mainVars, freqs0, ctl_scanning, squelch,
                   scan_direction, demod_freq>>

\* ends it,
DemodScanStop ==
    /\ helper_alive /\ demod_pc = "found"
    /\ StopScan
    /\ demod_pc' = "station"
    /\ UNCHANGED <<pipeVars, mainVars, freqs0, scan_direction, demod_freq>>

\* Mutant of DemodStation: the frequency of the thread's own last step is
\* reported instead of the tuner's.
DemodStationOwnStep ==
    /\ helper_alive /\ demod_pc = "station"
    /\ PrintLine(ReplyLine("S", demod_freq))
    /\ demod_pc' = "idle"
    /\ UNCHANGED <<toHelper, helper_alive, mainVars, freqs0, ctl_scanning,
                   squelch, scan_direction, demod_freq>>

\* and reports the frequency the tuner is at by then.
DemodStation ==
    /\ helper_alive /\ demod_pc = "station"
    /\ PrintLine(ReplyLine("S", Tuned))
    /\ demod_pc' = "idle"
    /\ UNCHANGED <<toHelper, helper_alive, mainVars, freqs0, ctl_scanning,
                   squelch, scan_direction, demod_freq>>

-----------------------------------------------------------------------------
HelperCommand == \/ HelperStart \/ HelperStop \/ HelperJoined \/ HelperSetFreq
                 \/ HelperScanStart \/ HelperScanStop
                 \/ HelperOffset \/ HelperReport

DemodStep == \/ DemodWeak \/ DemodTune \/ DemodOffset \/ DemodReport
             \/ DemodStrong \/ DemodScanStop \/ DemodStation

HelperNext == HelperCommand \/ DemodStep \/ HelperExit

=============================================================================
