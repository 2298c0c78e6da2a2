---------------------------- MODULE AudioThreads ----------------------------
(***************************************************************************)
(* The three threads of rtl_fm inside the helper, which hand blocks of     *)
(* samples from the dongle to the demodulator to the output, and the       *)
(* helper's command loop that starts and stops them.  The threads wait on  *)
(* condition variables without a predicate (safe_cond_wait); do_exit and   *)
(* dongle.mute are shared with no lock.                                    *)
(***************************************************************************)
EXTENDS Naturals

CONSTANT Spurious  \* TRUE: pthread_cond_wait may return without a signal

ASSUME AudioAssumption == Spurious \in BOOLEAN

VARIABLES
    main_pc,    \* where the command loop is
    eof,        \* stdin has ended: the stop under way is the last one
    started,    \* the command loop's started
    running,    \* the audio output's running
    do_exit,
    async,      \* librtlsdr's asynchronous read
    dongle_pc,  \* dongle_thread_fn and, inside it, rtlsdr_callback
    demod_pc,   \* demod_thread_fn
    output_pc,  \* output_thread_fn
    squelch,    \* demod.squelch_level # 0
    mute,       \* dongle.mute # 0
    muteDue,    \* history: no block has been muted since the last retune
    missed      \* history: the stop under way has met a thread too early

mainVars == <<main_pc, eof, started, running>>
threadVars == <<dongle_pc, demod_pc, output_pc>>
muteVars == <<mute, muteDue>>
sharedVars == <<do_exit, async, squelch, muteVars, missed>>
vars == <<mainVars, threadVars, sharedVars>>

Ended == {"none", "done"}

\* Every variable keeps its type, and the device is read by the dongle's thread.
TypeOK ==
    /\ main_pc \in {"command", "start", "stop", "exit", "joinDongle",
                    "signalDemod", "joinDemod", "signalOutput", "joinOutput",
                    "ended"}
    /\ eof \in BOOLEAN /\ started \in BOOLEAN /\ running \in BOOLEAN
    /\ do_exit \in BOOLEAN /\ squelch \in BOOLEAN /\ missed \in BOOLEAN
    /\ mute \in BOOLEAN /\ muteDue \in BOOLEAN
    /\ async \in {"inactive", "running", "canceling"}
    /\ dongle_pc \in Ended \cup {"created", "reading", "mute", "clear", "signal"}
    /\ demod_pc \in Ended \cup {"test", "toWait", "waiting", "awake",
                                "squelch", "signal"}
    /\ output_pc \in Ended \cup {"test", "toWait", "waiting", "awake"}
    /\ (async = "inactive") <=> dongle_pc \in Ended \cup {"created"}

Init ==
    /\ main_pc = "command" /\ eof = FALSE /\ started = FALSE /\ running = FALSE
    /\ do_exit = FALSE /\ async = "inactive" /\ squelch = FALSE
    /\ mute = FALSE /\ muteDue = FALSE /\ missed = FALSE
    /\ dongle_pc = "none" /\ demod_pc = "none" /\ output_pc = "none"

\* safe_cond_signal: a thread that waits is woken, any other never knows.
Signalled(thread) == IF thread = "waiting" THEN "awake" ELSE thread

\* rtl_fm_set_freq to another frequency, as far as the audio is concerned.
Retune == mute' = TRUE /\ muteDue' = TRUE

-----------------------------------------------------------------------------
(* The command loop *)

Loop(from, to) == main_pc = from /\ main_pc' = to

\* Mutant of StartCommand: whether the radio is started is not looked at.
StartCommandAgain ==
    /\ Loop("command", "start")
    /\ running' = TRUE
    /\ UNCHANGED <<eof, started, threadVars, sharedVars>>

\* START: radio_output_start, then rtl_fm_start.
StartCommand ==
    /\ Loop("command", "start") /\ ~started
    /\ running' = TRUE
    /\ UNCHANGED <<eof, started, threadVars, sharedVars>>

\* rtl_fm_start: the scan's state is reset and the threads are created.
RtlFmStart ==
    /\ Loop("start", "command")
    /\ started' = TRUE
    /\ squelch' = FALSE /\ do_exit' = FALSE
    /\ dongle_pc' = "created" /\ demod_pc' = "test" /\ output_pc' = "test"
    /\ UNCHANGED <<eof, running, async, muteVars, missed>>

\* STOP, or the end of stdin: radio_output_stop, then rtl_fm_stop.
StopCommand ==
    /\ Loop("command", "stop") /\ started
    /\ eof' \in BOOLEAN
    /\ running' = FALSE /\ missed' = FALSE
    /\ UNCHANGED <<started, threadVars, do_exit, async, squelch, muteVars>>

\* The end of stdin when nothing is started.
EndOfInput ==
    /\ Loop("command", "ended") /\ ~started
    /\ eof' = TRUE
    /\ UNCHANGED <<started, running, threadVars, sharedVars>>

\* F= with another frequency; with the same one it is as S=STOP.
TuneCommand ==
    /\ main_pc = "command"
    /\ squelch' = FALSE
    /\ Retune
    /\ UNCHANGED <<mainVars, threadVars, do_exit, async, missed>>

\* S=UP or S=DOWN, when no scan is under way in that direction.
ScanCommand ==
    /\ main_pc = "command" /\ started
    /\ squelch' = TRUE
    /\ Retune
    /\ UNCHANGED <<mainVars, threadVars, do_exit, async, missed>>

ScanStopCommand ==
    /\ main_pc = "command"
    /\ squelch' = FALSE
    /\ UNCHANGED <<mainVars, threadVars, do_exit, async, muteVars, missed>>

\* rtl_fm_stop: the scan ends, and rtlsdr_cancel_async ends the reading if it
\* has begun; what the call returns is not looked at.
CancelAsync ==
    /\ Loop("stop", "exit")
    /\ squelch' = FALSE
    /\ async' = IF async = "running" THEN "canceling" ELSE async
    /\ missed' = (dongle_pc = "created")
    /\ UNCHANGED <<eof, started, running, threadVars, do_exit, muteVars>>

\* Mutant of RequestExit: do_exit is not set.
RequestNothing ==
    /\ Loop("exit", "joinDongle")
    /\ UNCHANGED <<eof, started, running, threadVars, sharedVars>>

RequestExit ==
    /\ Loop("exit", "joinDongle")
    /\ do_exit' = TRUE
    /\ UNCHANGED <<eof, started, running, threadVars, async, squelch, muteVars,
                   missed>>

JoinDongle ==
    /\ Loop("joinDongle", "signalDemod") /\ dongle_pc = "done"
    /\ UNCHANGED <<eof, started, running, threadVars, sharedVars>>

SignalDemod ==
    /\ Loop("signalDemod", "joinDemod")
    /\ demod_pc' = Signalled(demod_pc)
    /\ missed' = (missed \/ demod_pc = "toWait")
    /\ UNCHANGED <<eof, started, running, dongle_pc, output_pc, do_exit, async,
                   squelch, muteVars>>

\* Mutant of JoinDemod: the thread is not waited for.
DetachDemod ==
    /\ Loop("joinDemod", "signalOutput")
    /\ UNCHANGED <<eof, started, running, threadVars, sharedVars>>

JoinDemod ==
    /\ Loop("joinDemod", "signalOutput") /\ demod_pc = "done"
    /\ UNCHANGED <<eof, started, running, threadVars, sharedVars>>

SignalOutput ==
    /\ Loop("signalOutput", "joinOutput")
    /\ output_pc' = Signalled(output_pc)
    /\ missed' = (missed \/ output_pc = "toWait")
    /\ UNCHANGED <<eof, started, running, dongle_pc, demod_pc, do_exit, async,
                   squelch, muteVars>>

JoinOutput ==
    /\ Loop("joinOutput", IF eof THEN "ended" ELSE "command")
    /\ output_pc = "done"
    /\ started' = FALSE
    /\ UNCHANGED <<eof, running, threadVars, sharedVars>>

Command == \/ StartCommand \/ StopCommand \/ EndOfInput
           \/ TuneCommand \/ ScanCommand \/ ScanStopCommand

StartOrStop == \/ RtlFmStart \/ CancelAsync \/ RequestExit \/ JoinDongle
               \/ SignalDemod \/ JoinDemod \/ SignalOutput \/ JoinOutput

-----------------------------------------------------------------------------
(* dongle_thread_fn: rtlsdr_read_async and its callback *)

Dongle(from, to) ==
    /\ dongle_pc = from /\ dongle_pc' = to
    /\ UNCHANGED <<mainVars, output_pc, do_exit, squelch, missed>>

ReadAsync ==
    /\ Dongle("created", "reading")
    /\ async' = "running"
    /\ UNCHANGED <<demod_pc, muteVars>>

\* librtlsdr ends the reading by itself when the device goes away.
DeviceLost ==
    /\ async = "running"
    /\ async' = "canceling"
    /\ UNCHANGED <<mainVars, threadVars, do_exit, squelch, muteVars, missed>>

ReadAsyncReturns ==
    /\ Dongle("reading", "done") /\ async = "canceling"
    /\ async' = "inactive"
    /\ UNCHANGED <<demod_pc, muteVars>>

\* rtlsdr_callback with a block; once do_exit is set it does nothing.
CallbackBegins ==
    /\ Dongle("reading", "mute") /\ ~do_exit
    /\ UNCHANGED <<demod_pc, async, muteVars>>

\* The start of the block is muted if that is asked for ...
CallbackMutes ==
    /\ Dongle("mute", IF mute THEN "clear" ELSE "signal")
    /\ muteDue' = (muteDue /\ ~mute)
    /\ UNCHANGED <<demod_pc, async, mute>>

\* Mutant of CallbackClearsMute: the request stays.
CallbackKeepsMute ==
    /\ Dongle("clear", "signal")
    /\ UNCHANGED <<demod_pc, async, muteVars>>

\* ... and then the request is cleared, be it the same or a later one.
CallbackClearsMute ==
    /\ Dongle("clear", "signal")
    /\ mute' = FALSE
    /\ UNCHANGED <<demod_pc, async, muteDue>>

\* Mutant of CallbackSignals: the demodulator is not told.
CallbackSilent ==
    /\ Dongle("signal", "reading")
    /\ UNCHANGED <<demod_pc, async, muteVars>>

\* The block is stored and the demodulator told.
CallbackSignals ==
    /\ Dongle("signal", "reading")
    /\ demod_pc' = Signalled(demod_pc)
    /\ UNCHANGED <<async, muteVars>>

DongleThread == \/ ReadAsync \/ ReadAsyncReturns \/ CallbackBegins
                \/ CallbackMutes \/ CallbackClearsMute \/ CallbackSignals

-----------------------------------------------------------------------------
(* demod_thread_fn *)

Demod(from, to) ==
    /\ demod_pc = from /\ demod_pc' = to
    /\ UNCHANGED <<mainVars, dongle_pc, do_exit, async, missed>>

DemodTest ==
    /\ Demod("test", IF do_exit THEN "done" ELSE "toWait")
    /\ UNCHANGED <<output_pc, squelch, muteVars>>

DemodWait ==
    /\ Demod("toWait", "waiting")
    /\ UNCHANGED <<output_pc, squelch, muteVars>>

DemodSpuriousWakeup ==
    /\ Demod("waiting", "awake") /\ Spurious
    /\ UNCHANGED <<output_pc, squelch, muteVars>>

FullDemod ==
    /\ Demod("awake", "squelch")
    /\ UNCHANGED <<output_pc, squelch, muteVars>>

\* Noise for too long while the squelch is armed: the scan goes on to its next
\* frequency, if it has not ended meanwhile, and the block is not played.
DemodNoise ==
    /\ Demod("squelch", "test") /\ squelch
    /\ Retune \/ UNCHANGED muteVars
    /\ UNCHANGED <<output_pc, squelch>>

\* A station while the squelch is armed: the scan ends.
DemodStation ==
    /\ Demod("squelch", "signal") /\ squelch
    /\ squelch' = FALSE
    /\ UNCHANGED <<output_pc, muteVars>>

\* No squelch, or noise for not too long yet.
DemodPasses ==
    /\ Demod("squelch", "signal")
    /\ UNCHANGED <<output_pc, squelch, muteVars>>

\* Mutant of DemodSignals: the output thread is not told.
DemodSilent ==
    /\ Demod("signal", "test")
    /\ UNCHANGED <<output_pc, squelch, muteVars>>

\* The result is copied for the output thread, which is told.
DemodSignals ==
    /\ Demod("signal", "test")
    /\ output_pc' = Signalled(output_pc)
    /\ UNCHANGED <<squelch, muteVars>>

DemodThread == \/ DemodTest \/ DemodWait \/ FullDemod \/ DemodNoise
               \/ DemodStation \/ DemodPasses \/ DemodSignals

-----------------------------------------------------------------------------
(* output_thread_fn *)

Output(from, to) ==
    /\ output_pc = from /\ output_pc' = to
    /\ UNCHANGED <<mainVars, dongle_pc, demod_pc, sharedVars>>

OutputTest == Output("test", IF do_exit THEN "done" ELSE "toWait")
OutputWait == Output("toWait", "waiting")
OutputSpuriousWakeup == Output("waiting", "awake") /\ Spurious

\* The block goes to radio_output_write.
OutputWrite == Output("awake", "test")

OutputThread == OutputTest \/ OutputWait \/ OutputWrite

-----------------------------------------------------------------------------
Next ==
    \/ Command
    \/ StartOrStop
    \/ DongleThread
    \/ DeviceLost
    \/ DemodThread
    \/ DemodSpuriousWakeup
    \/ OutputThread
    \/ OutputSpuriousWakeup

Spec == Init /\ [][Next]_vars

\* Every thread runs, and the device delivers blocks as long as it is read.  The
\* command loop finishes what it has begun; commands and wakeups without a
\* signal need not come.
Fairness ==
    /\ WF_vars(StartOrStop)
    /\ WF_vars(DongleThread)
    /\ WF_vars(DemodThread)
    /\ WF_vars(OutputThread)

FairSpec == Spec /\ Fairness

-----------------------------------------------------------------------------
\* The threads of a session never meet those of the one before: when the command
\* loop is about to create them, or has nothing started, all have ended.
OneSetOfThreads ==
    ~started /\ main_pc \in {"command", "start", "ended"} =>
        {dongle_pc, demod_pc, output_pc} \subseteq Ended

\* rtl_fm_stop returns, unless it has come before the dongle's thread was reading
\* or between a thread's test of do_exit and its wait: those are the only ways to
\* hang it.
StopReturns == main_pc = "stop" ~> (main_pc \in {"command", "ended"} \/ missed)

\* As long as the radio plays, no scan mutes it and the device is there, blocks
\* reach the output again and again, although a signal that finds no thread
\* waiting is lost.
Playing == started /\ main_pc = "command" /\ async = "running" /\ ~squelch
AudioFlows == <>[]Playing => []<><<OutputWrite>>_vars

\* A retune mutes one block at the most: once a block has been muted for it, the
\* request is gone, or just being cleared.  (The other direction does not hold: a
\* retune between CallbackMutes and CallbackClearsMute mutes none.)
MuteAtMostOnce == mute /\ ~muteDue => dongle_pc = "clear"

=============================================================================
