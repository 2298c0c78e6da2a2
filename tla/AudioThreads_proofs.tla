------------------------- MODULE AudioThreads_proofs -------------------------
(* The threads of one session have ended before those of the next begin, the device
   is read by the session that owns it, and a retune mutes one block at the most. *)
EXTENDS AudioThreads, TLAPS

\* How far rtl_fm_stop has come tells which threads it has seen the end of.
Joined ==
    /\ main_pc \in {"signalDemod", "joinDemod", "signalOutput", "joinOutput"}
          => dongle_pc \in Ended
    /\ main_pc \in {"signalOutput", "joinOutput"} => demod_pc \in Ended
    /\ main_pc \in {"stop", "exit", "joinDongle", "signalDemod", "joinDemod",
                    "signalOutput", "joinOutput"} => started
    /\ main_pc \in {"start", "ended"} => ~started

JoinInv == Joined /\ OneSetOfThreads

\* Nothing has been created at the start.
LEMMA InitJoinInv == Init => JoinInv
BY DEF Init, JoinInv, Joined, OneSetOfThreads, Ended

\* A signal wakes a waiting thread and brings none back that has ended.
LEMMA SignalledThread ==
    ASSUME NEW t
    PROVE  /\ t \in Ended <=> Signalled(t) \in Ended
           /\ Signalled(t) \in {t, "awake"}
BY DEF Signalled, Ended

\* A command touches no thread, and START finds none.
LEMMA CommandKeeps == JoinInv /\ Command => JoinInv'
<1> SUFFICES ASSUME JoinInv, Command PROVE JoinInv'
  OBVIOUS
<1> USE DEF JoinInv, Joined, OneSetOfThreads, Loop, sharedVars, threadVars,
            muteVars, mainVars
<1>1. CASE StartCommand
  BY <1>1 DEF StartCommand
<1>2. CASE StopCommand
  BY <1>2 DEF StopCommand
<1>3. CASE EndOfInput
  BY <1>3 DEF EndOfInput
<1>4. CASE TuneCommand
  BY <1>4 DEF TuneCommand, Retune
<1>5. CASE ScanCommand
  BY <1>5 DEF ScanCommand, Retune
<1>6. CASE ScanStopCommand
  BY <1>6 DEF ScanStopCommand
<1>7. QED
  BY <1>1, <1>2, <1>3, <1>4, <1>5, <1>6 DEF Command

\* Each join of rtl_fm_stop waits for the thread it is about.
LEMMA StartOrStopKeeps == JoinInv /\ StartOrStop => JoinInv'
<1> SUFFICES ASSUME JoinInv, StartOrStop PROVE JoinInv'
  OBVIOUS
<1> USE DEF JoinInv, Joined, OneSetOfThreads, Loop, sharedVars, threadVars,
            muteVars, mainVars
<1>1. CASE RtlFmStart
  BY <1>1 DEF RtlFmStart, Ended
<1>2. CASE CancelAsync
  BY <1>2 DEF CancelAsync
<1>3. CASE RequestExit
  BY <1>3 DEF RequestExit
<1>4. CASE JoinDongle
  BY <1>4 DEF JoinDongle, Ended
<1>5. CASE SignalDemod
  BY <1>5, SignalledThread DEF SignalDemod, Ended
<1>6. CASE JoinDemod
  BY <1>6 DEF JoinDemod, Ended
<1>7. CASE SignalOutput
  BY <1>7, SignalledThread DEF SignalOutput, Ended
<1>8. CASE JoinOutput
  BY <1>8 DEF JoinOutput, Ended
<1>9. QED
  BY <1>1, <1>2, <1>3, <1>4, <1>5, <1>6, <1>7, <1>8 DEF StartOrStop

\* The dongle's thread, its callback included, ends for good.
LEMMA DongleKeeps == JoinInv /\ (DongleThread \/ DeviceLost) => JoinInv'
<1> SUFFICES ASSUME JoinInv, DongleThread \/ DeviceLost PROVE JoinInv'
  OBVIOUS
<1> USE DEF JoinInv, Joined, OneSetOfThreads, Dongle, sharedVars, threadVars,
            muteVars, mainVars, Ended
<1>1. CASE ReadAsync
  BY <1>1 DEF ReadAsync
<1>2. CASE DeviceLost
  BY <1>2 DEF DeviceLost
<1>3. CASE ReadAsyncReturns
  BY <1>3 DEF ReadAsyncReturns
<1>4. CASE CallbackBegins
  BY <1>4 DEF CallbackBegins
<1>5. CASE CallbackMutes
  BY <1>5 DEF CallbackMutes
<1>6. CASE CallbackClearsMute
  BY <1>6 DEF CallbackClearsMute
<1>7. CASE CallbackSignals
  BY <1>7, SignalledThread DEF CallbackSignals
<1>8. QED
  BY <1>1, <1>2, <1>3, <1>4, <1>5, <1>6, <1>7 DEF DongleThread

\* So does the demodulator's.
LEMMA DemodKeeps == JoinInv /\ (DemodThread \/ DemodSpuriousWakeup) => JoinInv'
<1> SUFFICES ASSUME JoinInv, DemodThread \/ DemodSpuriousWakeup PROVE JoinInv'
  OBVIOUS
<1> USE DEF JoinInv, Joined, OneSetOfThreads, Demod, sharedVars, threadVars,
            muteVars, mainVars, Ended
<1>1. CASE DemodTest
  BY <1>1 DEF DemodTest
<1>2. CASE DemodWait
  BY <1>2 DEF DemodWait
<1>3. CASE FullDemod
  BY <1>3 DEF FullDemod
<1>4. CASE DemodNoise
  BY <1>4 DEF DemodNoise, Retune
<1>5. CASE DemodStation
  BY <1>5 DEF DemodStation
<1>6. CASE DemodPasses
  BY <1>6 DEF DemodPasses
<1>7. CASE DemodSignals
  BY <1>7, SignalledThread DEF DemodSignals
<1>8. CASE DemodSpuriousWakeup
  BY <1>8 DEF DemodSpuriousWakeup
<1>9. QED
  BY <1>1, <1>2, <1>3, <1>4, <1>5, <1>6, <1>7, <1>8 DEF DemodThread

\* And the output's.
LEMMA OutputKeeps == JoinInv /\ (OutputThread \/ OutputSpuriousWakeup) => JoinInv'
<1> SUFFICES ASSUME JoinInv, OutputThread \/ OutputSpuriousWakeup PROVE JoinInv'
  OBVIOUS
<1> USE DEF JoinInv, Joined, OneSetOfThreads, Output, sharedVars, threadVars,
            muteVars, mainVars, Ended
<1>1. CASE OutputTest
  BY <1>1 DEF OutputTest
<1>2. CASE OutputWait
  BY <1>2 DEF OutputWait
<1>3. CASE OutputSpuriousWakeup
  BY <1>3 DEF OutputSpuriousWakeup
<1>4. CASE OutputWrite
  BY <1>4 DEF OutputWrite
<1>5. QED
  BY <1>1, <1>2, <1>3, <1>4 DEF OutputThread

\* Nor does anything change while the helper does not move.
LEMMA StutterKeeps == JoinInv /\ UNCHANGED vars => JoinInv'
BY DEF JoinInv, Joined, OneSetOfThreads, vars, sharedVars, threadVars, muteVars,
       mainVars

\* So no step does.
LEMMA JoinNext == JoinInv /\ [Next]_vars => JoinInv'
BY CommandKeeps, StartOrStopKeeps, DongleKeeps, DemodKeeps, OutputKeeps, StutterKeeps
   DEF Next

\* rtl_fm_start never creates a thread while one of an earlier session is alive,
\* whatever the threads do and however often they are started and stopped.
THEOREM SessionsDoNotOverlap == Spec => []OneSetOfThreads
<1>1. JoinInv => OneSetOfThreads
  BY DEF JoinInv
<1>2. QED
  BY InitJoinInv, JoinNext, <1>1, PTL DEF Spec

\* The type invariant in two halves: the flags, and where the threads are.
Flags ==
    /\ eof \in BOOLEAN /\ started \in BOOLEAN /\ running \in BOOLEAN
    /\ do_exit \in BOOLEAN /\ squelch \in BOOLEAN /\ missed \in BOOLEAN
    /\ mute \in BOOLEAN /\ muteDue \in BOOLEAN

Places ==
    /\ main_pc \in {"command", "start", "stop", "exit", "joinDongle",
                    "signalDemod", "joinDemod", "signalOutput", "joinOutput",
                    "ended"}
    /\ async \in {"inactive", "running", "canceling"}
    /\ dongle_pc \in Ended \cup {"created", "reading", "mute", "clear", "signal"}
    /\ demod_pc \in Ended \cup {"test", "toWait", "waiting", "awake",
                                "squelch", "signal"}
    /\ output_pc \in Ended \cup {"test", "toWait", "waiting", "awake"}
    /\ (async = "inactive") <=> dongle_pc \in Ended \cup {"created"}

\* Each step keeps the flags Boolean.
LEMMA FlagsNext == Flags /\ [Next]_vars => Flags'
<1> SUFFICES ASSUME Flags, [Next]_vars PROVE Flags'
  OBVIOUS
<1> USE DEF Flags, Loop, Dongle, Demod, Output, sharedVars, threadVars, muteVars,
           mainVars
<1>1. CASE Command
  <2>1. CASE StartCommand
    BY <2>1 DEF StartCommand
  <2>2. CASE StopCommand
    BY <2>2 DEF StopCommand
  <2>3. CASE EndOfInput
    BY <2>3 DEF EndOfInput
  <2>4. CASE TuneCommand
    BY <2>4 DEF TuneCommand, Retune
  <2>5. CASE ScanCommand
    BY <2>5 DEF ScanCommand, Retune
  <2>6. CASE ScanStopCommand
    BY <2>6 DEF ScanStopCommand
  <2> QED
    BY <1>1, <2>1, <2>2, <2>3, <2>4, <2>5, <2>6 DEF Command
<1>2. CASE StartOrStop
  <2>1. CASE RtlFmStart
    BY <2>1 DEF RtlFmStart, JoinInv, OneSetOfThreads, Joined
  <2>2. CASE CancelAsync
    BY <2>2 DEF CancelAsync
  <2>3. CASE RequestExit
    BY <2>3 DEF RequestExit
  <2>4. CASE JoinDongle
    BY <2>4 DEF JoinDongle
  <2>5. CASE SignalDemod
    BY <2>5 DEF SignalDemod
  <2>6. CASE JoinDemod
    BY <2>6 DEF JoinDemod
  <2>7. CASE SignalOutput
    BY <2>7 DEF SignalOutput
  <2>8. CASE JoinOutput
    BY <2>8 DEF JoinOutput
  <2> QED
    BY <1>2, <2>1, <2>2, <2>3, <2>4, <2>5, <2>6, <2>7, <2>8 DEF StartOrStop
<1>3. CASE DongleThread
  <2>1. CASE ReadAsync
    BY <2>1 DEF ReadAsync
  <2>2. CASE ReadAsyncReturns
    BY <2>2 DEF ReadAsyncReturns
  <2>3. CASE CallbackBegins
    BY <2>3 DEF CallbackBegins
  <2>4. CASE CallbackMutes
    BY <2>4 DEF CallbackMutes
  <2>5. CASE CallbackClearsMute
    BY <2>5 DEF CallbackClearsMute
  <2>6. CASE CallbackSignals
    BY <2>6 DEF CallbackSignals
  <2> QED
    BY <1>3, <2>1, <2>2, <2>3, <2>4, <2>5, <2>6 DEF DongleThread
<1>4. CASE DemodThread
  <2>1. CASE DemodTest
    BY <2>1 DEF DemodTest
  <2>2. CASE DemodWait
    BY <2>2 DEF DemodWait
  <2>3. CASE FullDemod
    BY <2>3 DEF FullDemod
  <2>4. CASE DemodNoise
    BY <2>4 DEF DemodNoise, Retune
  <2>5. CASE DemodStation
    BY <2>5 DEF DemodStation
  <2>6. CASE DemodPasses
    BY <2>6 DEF DemodPasses
  <2>7. CASE DemodSignals
    BY <2>7 DEF DemodSignals
  <2> QED
    BY <1>4, <2>1, <2>2, <2>3, <2>4, <2>5, <2>6, <2>7 DEF DemodThread
<1>5. CASE OutputThread
  <2>1. CASE OutputTest
    BY <2>1 DEF OutputTest
  <2>2. CASE OutputWait
    BY <2>2 DEF OutputWait
  <2>3. CASE OutputWrite
    BY <2>3 DEF OutputWrite
  <2> QED
    BY <1>5, <2>1, <2>2, <2>3 DEF OutputThread
<1>6. CASE DeviceLost
  BY <1>6 DEF DeviceLost
<1>7. CASE DemodSpuriousWakeup
  BY <1>7 DEF DemodSpuriousWakeup
<1>8. CASE OutputSpuriousWakeup
  BY <1>8 DEF OutputSpuriousWakeup
<1>9. CASE UNCHANGED vars
  BY <1>9 DEF vars
<1> QED
  BY <1>1, <1>2, <1>3, <1>4, <1>5, <1>6, <1>7, <1>8, <1>9 DEF Next

\* And each thread where it can be; that the dongle's thread reads the device needs to
\* know that rtl_fm_start finds it ended.
LEMMA PlacesNext == Places /\ JoinInv /\ [Next]_vars => Places'
<1> SUFFICES ASSUME Places, JoinInv, [Next]_vars PROVE Places'
  OBVIOUS
<1> USE DEF Places, Ended, Loop, Dongle, Demod, Output, sharedVars, threadVars, muteVars,
           mainVars
<1>1. CASE Command
  <2>1. CASE StartCommand
    BY <2>1 DEF StartCommand
  <2>2. CASE StopCommand
    BY <2>2 DEF StopCommand
  <2>3. CASE EndOfInput
    BY <2>3 DEF EndOfInput
  <2>4. CASE TuneCommand
    BY <2>4 DEF TuneCommand, Retune
  <2>5. CASE ScanCommand
    BY <2>5 DEF ScanCommand, Retune
  <2>6. CASE ScanStopCommand
    BY <2>6 DEF ScanStopCommand
  <2> QED
    BY <1>1, <2>1, <2>2, <2>3, <2>4, <2>5, <2>6 DEF Command
<1>2. CASE StartOrStop
  <2>1. CASE RtlFmStart
    BY <2>1 DEF RtlFmStart, JoinInv, OneSetOfThreads, Joined
  <2>2. CASE CancelAsync
    BY <2>2 DEF CancelAsync
  <2>3. CASE RequestExit
    BY <2>3 DEF RequestExit
  <2>4. CASE JoinDongle
    BY <2>4 DEF JoinDongle
  <2>5. CASE SignalDemod
    BY <2>5, SignalledThread DEF SignalDemod
  <2>6. CASE JoinDemod
    BY <2>6 DEF JoinDemod
  <2>7. CASE SignalOutput
    BY <2>7, SignalledThread DEF SignalOutput
  <2>8. CASE JoinOutput
    BY <2>8 DEF JoinOutput
  <2> QED
    BY <1>2, <2>1, <2>2, <2>3, <2>4, <2>5, <2>6, <2>7, <2>8 DEF StartOrStop
<1>3. CASE DongleThread
  <2>1. CASE ReadAsync
    BY <2>1 DEF ReadAsync
  <2>2. CASE ReadAsyncReturns
    BY <2>2 DEF ReadAsyncReturns
  <2>3. CASE CallbackBegins
    BY <2>3 DEF CallbackBegins
  <2>4. CASE CallbackMutes
    BY <2>4 DEF CallbackMutes
  <2>5. CASE CallbackClearsMute
    BY <2>5 DEF CallbackClearsMute
  <2>6. CASE CallbackSignals
    BY <2>6, SignalledThread DEF CallbackSignals
  <2> QED
    BY <1>3, <2>1, <2>2, <2>3, <2>4, <2>5, <2>6 DEF DongleThread
<1>4. CASE DemodThread
  <2>1. CASE DemodTest
    BY <2>1 DEF DemodTest
  <2>2. CASE DemodWait
    BY <2>2 DEF DemodWait
  <2>3. CASE FullDemod
    BY <2>3 DEF FullDemod
  <2>4. CASE DemodNoise
    BY <2>4 DEF DemodNoise, Retune
  <2>5. CASE DemodStation
    BY <2>5 DEF DemodStation
  <2>6. CASE DemodPasses
    BY <2>6 DEF DemodPasses
  <2>7. CASE DemodSignals
    BY <2>7, SignalledThread DEF DemodSignals
  <2> QED
    BY <1>4, <2>1, <2>2, <2>3, <2>4, <2>5, <2>6, <2>7 DEF DemodThread
<1>5. CASE OutputThread
  <2>1. CASE OutputTest
    BY <2>1 DEF OutputTest
  <2>2. CASE OutputWait
    BY <2>2 DEF OutputWait
  <2>3. CASE OutputWrite
    BY <2>3 DEF OutputWrite
  <2> QED
    BY <1>5, <2>1, <2>2, <2>3 DEF OutputThread
<1>6. CASE DeviceLost
  BY <1>6 DEF DeviceLost
<1>7. CASE DemodSpuriousWakeup
  BY <1>7 DEF DemodSpuriousWakeup
<1>8. CASE OutputSpuriousWakeup
  BY <1>8 DEF OutputSpuriousWakeup
<1>9. CASE UNCHANGED vars
  BY <1>9 DEF vars
<1> QED
  BY <1>1, <1>2, <1>3, <1>4, <1>5, <1>6, <1>7, <1>8, <1>9 DEF Next

\* Only the callback clears muteDue, and then it is about to clear mute.
LEMMA MuteNext == Flags /\ JoinInv /\ MuteAtMostOnce /\ [Next]_vars => MuteAtMostOnce'
<1> SUFFICES ASSUME Flags, JoinInv, MuteAtMostOnce, [Next]_vars PROVE MuteAtMostOnce'
  OBVIOUS
<1> USE DEF MuteAtMostOnce, Flags, Loop, Dongle, Demod, Output, sharedVars, threadVars, muteVars,
           mainVars
<1>1. CASE Command
  <2>1. CASE StartCommand
    BY <2>1 DEF StartCommand
  <2>2. CASE StopCommand
    BY <2>2 DEF StopCommand
  <2>3. CASE EndOfInput
    BY <2>3 DEF EndOfInput
  <2>4. CASE TuneCommand
    BY <2>4 DEF TuneCommand, Retune
  <2>5. CASE ScanCommand
    BY <2>5 DEF ScanCommand, Retune
  <2>6. CASE ScanStopCommand
    BY <2>6 DEF ScanStopCommand
  <2> QED
    BY <1>1, <2>1, <2>2, <2>3, <2>4, <2>5, <2>6 DEF Command
<1>2. CASE StartOrStop
  <2>1. CASE RtlFmStart
    BY <2>1 DEF RtlFmStart, JoinInv, OneSetOfThreads, Joined, Ended
  <2>2. CASE CancelAsync
    BY <2>2 DEF CancelAsync
  <2>3. CASE RequestExit
    BY <2>3 DEF RequestExit
  <2>4. CASE JoinDongle
    BY <2>4 DEF JoinDongle
  <2>5. CASE SignalDemod
    BY <2>5 DEF SignalDemod
  <2>6. CASE JoinDemod
    BY <2>6 DEF JoinDemod
  <2>7. CASE SignalOutput
    BY <2>7 DEF SignalOutput
  <2>8. CASE JoinOutput
    BY <2>8 DEF JoinOutput
  <2> QED
    BY <1>2, <2>1, <2>2, <2>3, <2>4, <2>5, <2>6, <2>7, <2>8 DEF StartOrStop
<1>3. CASE DongleThread
  <2>1. CASE ReadAsync
    BY <2>1 DEF ReadAsync
  <2>2. CASE ReadAsyncReturns
    BY <2>2 DEF ReadAsyncReturns
  <2>3. CASE CallbackBegins
    BY <2>3 DEF CallbackBegins
  <2>4. CASE CallbackMutes
    BY <2>4 DEF CallbackMutes
  <2>5. CASE CallbackClearsMute
    BY <2>5 DEF CallbackClearsMute
  <2>6. CASE CallbackSignals
    BY <2>6 DEF CallbackSignals
  <2> QED
    BY <1>3, <2>1, <2>2, <2>3, <2>4, <2>5, <2>6 DEF DongleThread
<1>4. CASE DemodThread
  <2>1. CASE DemodTest
    BY <2>1 DEF DemodTest
  <2>2. CASE DemodWait
    BY <2>2 DEF DemodWait
  <2>3. CASE FullDemod
    BY <2>3 DEF FullDemod
  <2>4. CASE DemodNoise
    <3>1. CASE Retune
      BY <2>4, <3>1 DEF DemodNoise, Retune
    <3>2. CASE UNCHANGED muteVars
      BY <2>4, <3>2 DEF DemodNoise
    <3> QED
      BY <2>4, <3>1, <3>2 DEF DemodNoise
  <2>5. CASE DemodStation
    BY <2>5 DEF DemodStation
  <2>6. CASE DemodPasses
    BY <2>6 DEF DemodPasses
  <2>7. CASE DemodSignals
    BY <2>7 DEF DemodSignals
  <2> QED
    BY <1>4, <2>1, <2>2, <2>3, <2>4, <2>5, <2>6, <2>7 DEF DemodThread
<1>5. CASE OutputThread
  <2>1. CASE OutputTest
    BY <2>1 DEF OutputTest
  <2>2. CASE OutputWait
    BY <2>2 DEF OutputWait
  <2>3. CASE OutputWrite
    BY <2>3 DEF OutputWrite
  <2> QED
    BY <1>5, <2>1, <2>2, <2>3 DEF OutputThread
<1>6. CASE DeviceLost
  BY <1>6 DEF DeviceLost
<1>7. CASE DemodSpuriousWakeup
  BY <1>7 DEF DemodSpuriousWakeup
<1>8. CASE OutputSpuriousWakeup
  BY <1>8 DEF OutputSpuriousWakeup
<1>9. CASE UNCHANGED vars
  BY <1>9 DEF vars
<1> QED
  BY <1>1, <1>2, <1>3, <1>4, <1>5, <1>6, <1>7, <1>8, <1>9 DEF Next

\* Together the halves are the type invariant.
LEMMA TypeNext == TypeOK /\ JoinInv /\ [Next]_vars => TypeOK' /\ JoinInv'
<1>1. TypeOK <=> Flags /\ Places
  BY DEF TypeOK, Flags, Places
<1>2. TypeOK' <=> Flags' /\ Places'
  BY DEF TypeOK, Flags, Places
<1> QED
  BY <1>1, <1>2, FlagsNext, PlacesNext, JoinNext

\* The variables keep their types, and the device is read exactly while the dongle's
\* thread is in rtlsdr_read_async, through every stop that comes too early.
THEOREM AudioTypeCorrect == Spec => []TypeOK
<1>1. Init => TypeOK /\ JoinInv
  BY InitJoinInv DEF Init, TypeOK, Ended
<1>2. TypeOK /\ JoinInv /\ [Next]_vars => TypeOK' /\ JoinInv'
  BY TypeNext
<1> QED
  BY <1>1, <1>2, PTL DEF Spec

\* rtlsdr_callback mutes one block at the most for a retune, whoever retunes while it
\* runs: the helper's command loop or the demodulator in a scan.
THEOREM OneBlockIsMuted == Spec => []MuteAtMostOnce
<1>1. Init => TypeOK /\ JoinInv /\ MuteAtMostOnce
  BY InitJoinInv DEF Init, TypeOK, Ended, MuteAtMostOnce
<1>0. TypeOK => Flags
  BY DEF TypeOK, Flags
<1>2. TypeOK /\ JoinInv /\ MuteAtMostOnce /\ [Next]_vars
         => TypeOK' /\ JoinInv' /\ MuteAtMostOnce'
  BY TypeNext, MuteNext, <1>0
<1> QED
  BY <1>1, <1>2, PTL DEF Spec

=============================================================================
