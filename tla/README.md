# Verification of the AGL radio service

TLA+ modules, TLC configurations and TLAPS proofs for the radio service of this
repository. Paths below are relative to the directory that holds `src/`; the C and
C++ sources are in `src/src/`.

## 1. The system

The service is one process with a gRPC server (`main-grpc.cc`, `RadioImpl.cc`)
that drives one radio backend, chosen once at start (`RadioImpl::Detect`). With
the RTL-SDR backend a second process, `rtl_fm_helper`, owns the tuner and is
spoken to over two pipes.

| part | state it keeps | operations |
|---|---|---|
| RTL-SDR backend, `radio_impl_rtlsdr.c` | `active`, `scanning`, `current_frequency`, `helper_mutex`, two pipe ends | `set_frequency`, `start`, `stop`, `scan_start`, `scan_stop`, `get_frequency`, each run by the gRPC thread of its call |
| helper command loop, `rtl_fm_helper.c` | `started` | `START`, `STOP`, `F=`, `S=UP`, `S=DOWN`, `S=STOP`; prints `F=` after each retune and `S=` when a scan finds a station |
| rtl_fm control, `rtl_fm.c` | `controller.freqs[0]`, `.scanning`, `.scan_direction`, `demod.squelch_level`, three threads | `rtl_fm_set_freq`, `rtl_fm_get_freq`, `rtl_fm_scan_start`, `rtl_fm_scan_stop`, `rtl_fm_start`, `rtl_fm_stop`; the demodulator thread's scan callbacks |
| status streams, `RadioImpl.cc` | `m_clients`, `m_clients_mutex`, `m_done`, `m_done_mutex`, `m_done_cv` | `GetStatusEvents`, `SendStatusResponse`, `Shutdown` |
| service verbs, `RadioImpl.cc` | `m_playing`, the backend chosen | the RPCs, which check their arguments and call the backend |
| band plans | one of five `{min, max, step}` | the grid test, the scan's step |
| null backend, `radio_impl_null.c` | `active`, `scanning`, `current_frequency` | as the RTL-SDR backend, synchronous |
| Kingfisher backend, `radio_impl_kingfisher.c` | `running`, `corking`, `scanning`, `current_frequency` | as above, through the `si_ctl` program and a GStreamer pipeline |
| rtl_fm signal path, `rtl_fm.c` | one buffer per thread, the filters' remainders | the device's callback, `full_demod`, the output thread |
| audio output, `radio_output_gstreamer.c` | `running`, `extra`, `extra_buf` | open, start, stop, write |
| TEF665x backend, `radio_impl_tef665x.c` | `current_band`, a frequency per band, `scanning`, `running`, `scan_mutex`, `RDS_Mutex`, two kinds of thread | bring-up of the chip, `set_frequency`, `set_band`, `get_rds_info`, `start`, `stop`, `scan_start`, `scan_stop`; a thread per scan, a thread that polls the RDS data |
| legacy AFB binding, `radio-binding.c` | `playing` | verbs that check their arguments and call a backend, the media keys |

The last two are not compiled into the gRPC service (`meson.build`); they are
modelled together, as the repository still ships them.

How they interact:

* calls: a client's RPC runs on a thread of its own and calls the backend
  directly; several clients mean several threads inside the backend;
* messages: the backend writes command lines, the helper answers some of them
  with reply lines. Only `F=` has an answer; a scan produces any number of `F=`
  lines and one `S=` line, unless it is stopped, and waits for no reader;
* shared state: `scanning`, `active` and `current_frequency` are read and written
  outside `helper_mutex` in several places; inside the helper `freqs[0]`,
  `scanning` and the squelch are shared by the command loop and the demodulator
  with no lock at all;
* callbacks: a reply read by the backend becomes a status event, sent by the
  reading thread to every streaming client;
* flags made of mutexes: in the TEF665x backend a locked `scan_mutex` or `RDS_Mutex`
  means that its thread shall go on, and unlocking it is the order to end.

What is hard here: calls of several clients interleave at unlocked flags; a
`read()` is made with the mutex held; several reply lines may arrive in one `read()`;
the demodulator retunes while the command loop does; the helper may die; stream
handlers are woken through a condition variable whose predicate changes without
its mutex; shutdown races with all of it; the TEF665x backend creates a thread for
each scan, and one that polls RDS data for each retune, which have to end before the
next. `PROJECT.json` lists each hazard at its
line with the properties about it.

What makes each part correct:

* backend and helper: the frequency the service reports, the events it sends and
  the tuner agree once everything is quiet; every call gets its own answer and
  returns; no scan survives its stop; everything stays on the band's grid;
* status streams: a connected client gets every event once and in order; a client
  that goes away is removed and its handler returns; shutdown ends every handler;
* band plan: the grid is closed under the scan's step;
* null and Kingfisher backend: chip, backend, events and pipeline agree once no
  call is under way, and each backend is the same radio to a client;
* TEF665x: at most one scan and one RDS thread at a time, every scan ends and leaves
  flag and mutex free for the next, and chip, events and radio agree once quiet;
* audio: a stop ends all three threads before the next start, lost wakeups do not
  stop the audio, no sample is played twice or out of order, and none is lost but
  with a block that was overwritten.

## 2. The modules

| module | models | extends |
|---|---|---|
| `BandPlan` | a band plan, `Valid`, the scan's step | |
| `HelperPipes` | the two pipes and the lines on them | `BandPlan` |
| `RtlFmHelper` | the helper process: command loop and demodulator | `HelperPipes` |
| `RtlsdrBackend` | the backend inside the service, one thread per client | `HelperPipes` |
| `RtlsdrRadio` | backend and helper composed; the properties | both |
| `StatusEvents` | stream handlers, senders, shutdown | |
| `RadioTuner` | abstract: the radio that every backend promises to be | `BandPlan` |
| `NullRadio` | the service's verbs and the null backend | `BandPlan` |
| `Kingfisher` | the Kingfisher backend, the chip, the main loop's thread | `BandPlan` |
| `AudioThreads` | the three threads of rtl_fm, their start and stop | |
| `FmDemod` | what rtl_fm's filters carry from block to block | |
| `RadioOutput` | `radio_output_write` and the sample it carries | |
| `AudioPath` | `FmDemod` and `RadioOutput` composed, with START and STOP | both |
| `Tef665xChip` | the TEF665x chip and its bring-up | |
| `Tef665x` | the TEF665x backend: calls, scan threads, RDS threads | `Tef665xChip` |
| `RadioBinding` | the legacy binding's verbs and media keys over it; the properties | `Tef665x` |
| `MCRtlsdrRadio`, `MCStatusEvents`, `MCKingfisher`, `MCNullRadio`, `MCRadioBinding` | constants for TLC | |
| `*_proofs` | theorems, see section 5 | |

A definition whose comment begins with "Mutant of" is a plausible mistake in the
definition it names. No module uses it; put in the place of that definition it
makes a property fail, which shows that the property depends on the code.

### The radio of all backends (`RadioTuner`)

It plays or does not, seeks or does not, is tuned to a channel and has announced
a channel. Its promise is in the guards: a seek begins only while it plays, the
frequency changes only when the one before has been announced, and a seek ends
only when what it found has been announced. `RtlsdrRadio`, `NullRadio` and
`Kingfisher` each instantiate it with a refinement mapping and state
`ImplementsRadio`. The mapping of the RTL-SDR radio takes everything as announced
once the helper is dead, since no event can come any more. The Kingfisher backend
keeps the promise as long as no two calls overlap, and `overlapped` excuses it
afterwards; the null backend is checked and proved for one client.

### Backend (`RtlsdrBackend`)

The statics of `radio_impl_rtlsdr.c` keep their names. `pc[t]` is the place of the
thread that serves client `t`: `sf_*` in `rtlsdr_set_frequency`, `st_*` and `sp_*`
in start and stop, `sc_*` in `rtlsdr_scan_start`, `ss_lock` in `rtlsdr_scan_stop`.
A section under `helper_mutex` that does not block is one action; a read under the
mutex is two (take the mutex, then read), and the mutex's owner is a variable.
Every test or store of a shared flag outside the mutex is a step of its own: the
test of `scanning` and the store of `current_frequency` in `set_frequency`, the
test and the store of `active` in start and stop, the test, the store and the
later reset of `scanning` in `scan_start`. The check in `RadioImpl::SetFrequency`
is part of `SetFrequencyCall`. `scan_start`'s tests of `active` and `scanning`
are one step. `published` is the last frequency event sent.

`read()` takes every line that is in the pipe as far as its buffer goes, `ReadMax`
lines, and the beginning of the next one perhaps, whose rest the next `read()` then
begins with (kind `rest`). Only the first line is looked at, as the code's `output[0]`
and `sscanf` do. A `write()` to a dead helper fails (the unit's default ignores
SIGPIPE, so it is EPIPE) and `read()` returns 0 then. The helper never waits for its
replies to be read; only a full pipe (`PipeMax` lines) holds up whoever prints.

`dropped`, in `RtlsdrRadio`, is the history of what is lost that way: the kinds of the
lines that came behind another or were torn, since the last `F=` that was looked at.
Where the code loses what a property needs, the property says so by `dropped`: without
the `F=` of the last retune `current_frequency` lags behind the tuner until the next,
and without its `S=` a scan does not return.

### Helper (`RtlFmHelper`)

One action per command, and the demodulator's scan iteration as a thread of its
own (`demod_pc`). A retune is three steps, in both threads, because `freqs[0]` is
stored bare, then increased by the offset of wide band mode (`WbOffset`, 16000),
and no lock protects it: `MainRetune`/`HelperOffset`/`HelperReport` and
`DemodTune`/`DemodOffset`/`DemodReport`. `freqs[0] += 16000` may use the value just
stored or read it again, so `AddOffset` allows both. `rtl_fm_scan_callback` reads
the frequency (`DemodWeak`) before it sets the next one (`DemodTune`);
`rtl_fm_scan_end_callback` tests (`DemodStrong`), stops the scan
(`DemodScanStop`) and reports (`DemodStation`) in three steps. Whether an iteration
hears noise or a station is nondeterministic. Merged into one step are the reads
of squelch, hit counter and `scanning` at the head of an iteration with the
frequency read after them, the tests and flag stores at the head of
`rtl_fm_scan_start`, and a reply's printing with the arming of the squelch that
follows it. `rtl_fm_stop` is `HelperStop` (the request) and `HelperJoined` (the
threads have ended).

### Status streams (`StatusEvents`)

A handler registers, evaluates the predicate of `m_done_cv.wait` with
`m_done_mutex` held, blocks, is woken (also spuriously), evaluates again. A sender
walks the list with `m_clients_mutex` held, one entry per step: it erases a
cancelled entry and notifies, or writes the event. A context whose handler has
returned is destroyed: `IsCancelled` on it may say anything. `Shutdown` is two
steps, the store of `m_done` (which takes no mutex) and the notification; the
server's deadline cancels the calls that are left.

### Null backend and verbs (`NullRadio`)

`RadioImpl::Start` and `Stop` are three steps each: the backend's call, the store
of `m_playing`, the playing event. `null_scan_start` stores and announces each
frequency it passes with the same two steps as `null_set_frequency`. The station
found is announced after `scanning` is cleared, as in the code. `event` and
`playEvent` are the last events sent. The verbs for bands, stereo, quality and RDS
change no state with this backend.

### Kingfisher (`Kingfisher`)

Nothing in `radio_impl_kingfisher.c` is locked: every test and every store of
`running`, `corking`, `scanning` and `current_frequency` outside a function's head
is a step. `si_ctl` and the chip (`tuner`), the pipeline and the audio server that
asks for pauses (`bus`) are external; `si_ctl` may fail to tune, to scan or to be
run at all. A call of it that fails, to tune or to scan, leaves the chip on any
channel: the code knows only its exit status. `handle_message` runs on
the main loop's thread (`handler`) in three steps. The code then calls the scan
callback whether a station was found or not, and so does `ScanReports`.

Histories name the situations in which the code itself gives up the agreement a
property states. They are not excuses found for the model: each is a behaviour of
the code that the model shows when the exception is taken out.

* `ctlFailed`: `si_ctl` failed when it was last to tune the chip, which may then be
  anywhere until the next success. After a failed retune `current_frequency` and the
  event stay what they were. After a failed scan the code means to go back
  (`radio_impl_kingfisher.c:474`, "go back to starting frequency"), but
  `kf_set_frequency` returns at once while `scanning` is still set;
* `popenFailed`: a scan that could not run `si_ctl` leaves `scanning` set;
* `crossed`: a pause or resume was handled in the middle of a start or stop, after
  which the pipeline may play although `running` is clear;
* `overlapped`: two calls were under way at once: a start that crosses a stop may
  leave `running` set and the pipeline stopped, and two retunes may send their
  events in the other order. `StoppedIsSilent` and `ScanFlagMeansScan` hold under
  overlaps too.

### The audio threads (`AudioThreads`)

The threads of the dongle, the demodulator and the output, and the command loop.
`safe_cond_wait` has no predicate, so that the test of `do_exit`, the wait and the
wakeup are steps of their own and a signal that finds nobody waiting is lost;
spurious wakeups happen. `rtl_fm_stop` is one step per line. A store made under a
rwlock is one step with the signal that follows it, and the three `pthread_create`
of `rtl_fm_start` are one step. A block's data is abstracted; the mute that a
retune asks for is in, in the callback's two steps. `missed` is the history of the
two windows in which a stop can hang: it came before the dongle's thread began to
read, so that `rtlsdr_cancel_async` had nothing to cancel, or its signal fell
between a thread's test and its wait.

### The samples (`FmDemod`, `RadioOutput`, `AudioPath`)

`FmDemod` has the stages the helper configures: `low_pass`, `fm_demod` and
`low_pass_real`, and what each carries into the next block. A sample of the device
is its number, a sum is the sequence of its summands, and a value of the
discriminator the two sums it compares; rotation, angles, de-emphasis and the zeros
of the squelch are values and left out. `full_demod` works in place, so that
`lowpassed` holds its own result until the next block. The other demodulators and
filters of `rtl_fm.c` are never configured.

`RadioOutput` has `radio_output_write` with the copies as the code makes them, and
open, start, stop and close; a write is one step, the pipeline is external.

`AudioPath` composes the two: the buffers `lowpassed`, `result` and `output.result`
are handed on without waiting for each other, so that blocks get lost; START and
STOP do not reset what the filters carry, and the last signal of `rtl_fm_stop` runs
the demodulator over what it left itself. A session ends in its coarse order here,
its details are in `AudioThreads`. The helper never calls `radio_output_close`.

### The TEF665x radio (`Tef665xChip`, `Tef665x`, `RadioBinding`)

`Tef665xChip` is the chip, which is external, and `tef665x_chip_init`. A failure ends
the stage of the bring-up it falls into, and the next stage is entered all the same,
so that the backend may serve a chip that never became active or was never tuned.
`patched` says that `tef665x_patch_init` came to its end, not that the chip has every
byte of it: the tables are sent without their last byte. Failures of later transfers
are left out, as nobody looks at what they return.

`Tef665x` has one action per test or store of a shared variable. `pc[c]` is where
caller `c` is: `sf_*` in `tef665x_set_frequency`, `sb_tune` in `set_band`, `ss_*` in
`scan_start`, `sp_*` in `scan_stop`. `scan[s]` and `rds[r]` are the threads. A
`pthread_mutex_trylock` that succeeds locks the mutex, also when the thread only
wants to know whether it shall end. The 300 ms that `set_frequency` sleeps after it
has told the RDS thread to end are modelled by what they are for: the thread polls
every 85 ms, so that the sleep outlasts one look of each RDS thread there was
(`awaited`). The RDS thread ends at once when there are no valid data, and leaves
`RDS_Mutex` locked then. A scan's steps wrap at the band's ends; in FM it looks for
the next multiple of 100 kHz or the frequency it began at, of which `NextOnGrid`
takes the first among `LookAhead` steps. Whether a frequency holds a station is a
free choice. The store of a frequency, the tune and the event are one step (`Tune`,
`Search`): another caller who tunes in between has `crossed`. What the chip plays
while a scan mutes it is left out.

Two histories name where the code gives up what the properties say:

* `crossed`: a call tested `scanning` while another was between that test and its
  end, or while a scan's thread had yet to set it; or the band was changed during a
  scan. A `scan_stop` right after a `scan_start` finds `scanning` clear, returns, and
  has still unlocked the mutex the thread relies on; a `scan_start` after that
  creates a second thread. A change of band in a scan may leave it without an end,
  as the frequency it began at is not in the other band. `Beyond` stops the
  exploration there;
* `hurried`: the `rds` verb created an RDS thread while one that a scan had told to
  end still polled. Only `start` and `stop` are explored then, and likewise when the
  bring-up has failed (`Explored`).

`RadioBinding` has the verbs that change state. The media keys arrive on a thread of
their own and scan only while the binding's `playing` is set, which is still clear
when `tef665x_init` has started the radio. The verb `stereo_mode` with a value calls
a function the TEF665x backend does not have (`set_stereo_mode` is NULL) and is left
out.

## 3. The runs

Passing:

* `one_client`: every call, one at a time, a helper that may die, and replies that
  coalesce or are torn. `OnGrid`; `ScanAgreement` (once settled nothing is left of a
  scan on either side or in the pipe, the clients have been told what `get_frequency`
  returns, and the tuner is there unless the `F=` that said so was lost);
  `StationFoundIsTuned` (`station_found` names where the tuner stays, whatever was
  lost); `EveryCallReturns` (unless the scan's `S=` was lost); `ImplementsRadio`,
  `TypeOK`.
* `tuners`: two clients tune, one of them also starts and stops. No scan is made, so
  that nothing coalesces and `EveryCallReturns` holds without its exception.
  `AnswerOnItsWay`, `EventAgreement`, `PlaybackAgreement`, `EveryCallReturns`.
* `crossed`: one client starts and scans, the other stops and tunes, so that every
  race inside the helper and around the backend's flags is reached. `OneReader`,
  `ScanOnlyWhilePlaying`.
* `status_streams`: two streams, two senders, three events, cancellation and
  shutdown. `StreamComplete`, `CancelledWaiterReturns`, `TypeOK`.
* `null_radio`: one client makes the calls while another stops scans.
  `StatusAgreement` (the last playing event and `m_playing` are what the backend
  does), `StationIsAnnounced` (a scan ends with its station announced and tuned),
  `ImplementsRadio`, `TypeOK`.
* `kingfisher`: one client makes every call, another scans and stops, and the audio
  server pauses and resumes. `TunerAgreement` (chip, backend and last event),
  `PlaybackAgreement` (pipeline, `running`, `corking`),
  `StoppedIsSilent`, `ScanFlagMeansScan`, `ImplementsRadio`, `TypeOK`.
* `audio_threads`: all commands, spurious wakeups, a device that may go away.
  `OneSetOfThreads` (sessions never overlap), `MuteAtMostOnce`, `StopReturns`
  (only the two named windows hang a stop), `AudioFlows` (lost signals do not stop
  the audio), `TypeOK`.
* `radio_output`: `AudioPath` with five blocks over any number of sessions.
  `HeardInOrder` (nothing is played twice or before something earlier),
  `NothingMissing` (without a dropped block all is played, across blocks' ends as
  inside; both except for what the filters carry over from the session before), `WholeFrames`, `CountKept`, `PathTypeOK`.
* `tef665x`: a user who makes every call and the media keys, after a bring-up that
  may fail anywhere. `OneScan` (one scan at the most, and flag and mutex free after
  it), `ScanEnds`, `OneRdsThread` (the sleep in `set_frequency` is what keeps it to
  one), `ChipAgreement` (last event, backend and chip), `TypeOK` (with the grids).

Violated, each showing that the code does not do what a comment or the
documentation says (details under `findings` in `PROJECT.json`):

* `torn_retune`: one client tunes while another's scan ends; the station found is
  reported 16 kHz below a channel.
* `missed_shutdown`: a handler between its test and its wait misses `Shutdown`.
* `odd_samples`: the first odd write plays a stale sample and loses one of its own.

The model shows more behaviours of this kind that have no run of their own. They
are in the model's transitions, and the properties are stated so as to allow them:

* an `S=` line that arrives behind an `F=` line is thrown away, and the scan waits
  on in `read()`; `scan_stop` then waits for its mutex;
* of the `F=` lines that a scan's steps pile up only the first of each `read()` is
  stored and announced: the station found may be announced at a frequency of which
  neither an event nor `get_frequency` ever tells;
* a client stops the radio while another scans: the helper ends the scan without an
  `S=` line, or throws the scan's command away, and the scanning call waits on in the
  same way, with the mutex that a `start` would need;
* two clients tune at once: `current_frequency` stays at the one, the tuner at the
  other, until the next retune;
* a stream's handler that returns leaves its entry in `m_clients` until an event
  comes to it;
* a retune that falls between the callback's mute and the reset of `dongle.mute`
  is not muted;
* two clients start and stop at once: the last playing event may say the opposite
  of what the backend does (why `null_radio` lets one client play);
* a Kingfisher scan that found nothing sends `station_found` all the same, and leaves
  the chip where it ended (`ctlFailed`);
* what the histories `crossed` and `hurried` of `Tef665x` name.

Bounds, all of them constants or guards named for it:

* the band has three channels (two in `crossed` and `kingfisher`),
  which has both ends, an inner channel and both wraps; requests include one off
  the grid and one out of band. The Kingfisher backend leaves the choice of channels
  to `si_ctl`, for which two are enough to be wrong;
* `PipeMax` is what the reply pipe holds, 3 lines (2 in `crossed`) for the kernel's
  64 KiB, and whoever prints waits when it is full, as `printf` does there. `ReadMax`
  is what the buffer of a `read()` holds whole, 2 lines for the code's ten or so in 127
  bytes. With 3 and 2 a read finds one line, two that coalesce, or three of which the
  last stays, whole or torn, to be joined by new ones: every way the code can lose a
  line. `CmdMax` bounds the commands unread when a call begins and stands for a helper
  that keeps up; two are enough for each other's order. The proofs hold for every value
  of all three;
* `crossed` uses the smallest bounds that keep both threads of the helper and both
  clients busy, since it has the most interleavings. Its VIEW, `ReadByActions`, leaves
  out `current_frequency`, `published` and `dropped`, which no action of this model
  reads, no guard and none of the run's two invariants: states that differ only in
  them have the same future;
* in `tef665x` AM has two channels and FM three, of which the middle one is between
  two multiples of 100 kHz: scans of both bands wrap, and an FM scan may begin where
  no later step but its own end stops. `LookAhead` is more than the steps to the next
  multiple. Two scan threads and two RDS threads would be enough for one too many;
* `MaxEvents`: three events, so that a client can miss the middle one;
* `BusMax`: one unhandled request of the audio server and one being handled;
* in `radio_output` a block has five samples, `Downsample` is 2 and the rates are 3
  and 2, for 131072, 6, 200000 and 48000: as there, no factor divides the block, and
  results of odd and even length follow each other. `MaxBlocks` gives five blocks
  for sessions to share, enough for one to be lost between two that are not.
  `odd_samples` writes up to four samples at a time.

Deadlock is checked except where the system may stop: in `status_streams` and
`missed_shutdown` when every handler has returned after shutdown, and in
`audio_threads` when the command loop has ended or a stop hangs.

## 4. Fairness

`FairSpec` of `RtlsdrRadio` assumes weak fairness of every thread's step that
needs no lock, strong fairness of the steps that take `helper_mutex` (the mutex
is handed over if it is free again and again), weak fairness of the helper's
command loop and demodulator, which the scheduler runs, and strong fairness of
`DemodStrong`: a scan that goes on comes by a station. That last one is about the
air and not about the code; without it a scan in an empty band goes on for ever, as
it does in the code. Weak fairness of `HelperJoined` presumes that `rtl_fm_stop`
returns once the demodulator is between iterations; `AudioThreads` shows the two
windows in which it does not (`StopReturns`). No client is obliged to call, and the
helper is not obliged to die.

`FairSpec` of `StatusEvents` assumes that handlers and senders run,
`m_done_mutex` is handed over, and a shutdown once begun goes on. Spurious wakeups
may happen and are never relied on.

`FairSpec` of `AudioThreads` assumes that the three threads run, that the command
loop finishes a start or stop it has begun, and that the device delivers blocks as
long as it is read, which is what `rtlsdr_read_async` does. Commands, spurious
wakeups and the loss of the device need not happen.

`FairSpec` of `RadioBinding` assumes weak fairness of every thread: the bring-up, a
call that has begun, each scan's and each RDS thread. Nobody is obliged to call. That
`ScanEnds` needs no more is worth having: the scan thread neither waits for a station
nor for a lock, as it only tries its mutex.

`NullRadio`, `Kingfisher` and `AudioPath` have safety properties only and no
fairness.

## 5. The proofs

All are machine-checked, for every set of clients, callers, handlers and threads,
every band plan and every bound, from what the modules assume of their constants:
`BandPlanAssumption` (true of the five known plans), `PipesAssumption` (pipe and buffer
hold a line), `HelperAssumption` (16000 is less than every plan's step),
`BackendAssumption`, `StatusAssumption`,
`AudioAssumption`, `KingfisherAssumption`, `NullAssumption`, and for the TEF665x
`ChipAssumption`, `BandsAssumption`, `CallsAssumption` and `LookAheadAssumption` (the
loop over FM steps meets a multiple of 100 kHz, as it does with the code's step).

* `BandPlan_proofs`: the scan's step stays on the grid (`StepStaysOnGrid`) and up
  and down are inverse, at the ends too (`StepsAreInverse`); they rest on
  `GridPointsApart`, that two points of the grid less than a step apart are equal.
* `RtlsdrRadio_proofs`, in seven parts:
  * `TypeCorrect`, `MutexHeldByReader` and `HelperScansWhilePlaying`, that is
    `TypeOK`, `OneReader` and `ScanOnlyWhilePlaying`. The type invariant is
    inductive; the other two are inductive relative to it. For `OneReader` each step
    of a thread is one of three kinds: it stays outside `read()`, takes the free
    mutex into it, or leaves it and releases.
  * `OneTunerStaysOnGrid`: one client tunes and scans, the others, however many,
    start and stop the radio at most (`OnlyTuner`), from the lemma `SoloInvariant`.
    `OnGrid` is not inductive, and if one client tunes while another scans it is
    false (`torn_retune`): it needs `Apart`, that the two threads of the helper never
    retune at once. `Apart` follows from `SoloInv`: while a scan is under way in the
    helper its client is in the loop that waits for the end, behind the scan's command
    there are only starts and stops in the pipe (`ScanIsLast`), neither of which
    retunes, and no `S=` line is on its way; the squelch is armed only in a scan. The
    key arithmetic is `NeverRepeated`: a frequency with the offset is never a
    channel, so that `rtl_fm_set_freq` never takes a retune to a channel for a repeat
    and never drops the reply somebody waits for. The step lemmas look at the steps of
    the one tuner; those of the others are dealt with once, by `OthersStep` (they
    write a start or a stop, or store `active`) and `PlayKeeps` (such a line disturbs
    nothing).
  * As long as nobody scans (`NoScanCalls`), for any number of clients,
    `EveryRetuneHasItsAnswer`, `LastEventIsTuned` and `TunersStayOnGrid`. The
    inductive invariant `TuningInv` says that when the mutex is free there is no
    retune in the pipe, none being carried out and no reply; when it is held, exactly
    one of the three, for the owner's frequency; and that what the next reader will
    publish, or what was last published, is where the tuner is.
  * `PlaybackIsBelieved`, for any number of clients of which one starts and stops the
    radio (`OnlyPlayer`), whatever the others tune and scan. `active` is stored at
    once while START and STOP are still in the pipe, so that `PlayInv` speaks of the
    last of them there: it is the one for what the backend believes, and when there
    is none the helper plays exactly if the backend believes so. The helper has
    handled a STOP only when it has joined its threads. With two clients that start
    and stop the statement is false: `active` is tested, and the line written,
    before it is stored.
  * `OneTunerIsAnswered`, under the same hypothesis and with scans, which
    `EveryRetuneHasItsAnswer` excludes. `AnswerInv` says that replies are on their way
    only to a call that reads, and to a `set_frequency` exactly its own; that
    `scanning` is set only while the call lasts that has set it; and that what is
    stored has been announced, but for the frequency that a `set_frequency` waits for.
  * `OneClientHasARadio`: with one client alone the specification implements
    `RadioTuner`, for every bound, the helper's exit included. To `SoloInv` and
    `AnswerInv` it adds `CallInv`, that what a call has tested of the flags still
    holds when it acts, which is where a second client that starts and stops would
    break it.
  * `ScanEndsInAgreement` and `StationIsWhereTunerIs`, with one tuner beside any number
    of others that start and stop, for every `PipeMax` and `ReadMax`. `SyncInv` says
    where the last report of the tuner's frequency is: the last line in the pipe, or
    read and not yet stored, or stored, or lost with `dropped` saying so. An `S=` is the
    last line of its scan and for the tuner's frequency, since nothing retunes behind
    it; if it is lost, the scan is over in the helper and nothing more comes to the call
    that waits. `ReadLoses` is what one `read()` does: it keeps the order, drops what it
    took behind the first line and the line it tore, and whatever it drops without
    dropping an `F=` is the `S=` at the end. Only one line, the first, can be the rest of
    a torn one (`OneRest`), and what it was is in `dropped` (`RestIsLost`). The
    exceptions are necessary: without them TLC finds both properties violated as soon
    as the pipe holds two lines.
* `StatusEvents_proofs`: `StreamsAreComplete` and `StreamTypeCorrect`, for any number
  of clients, senders and events. The inductive invariant `StreamInv` says that only
  the holder of `m_clients_mutex` is in the list, that each client is in it once, and
  that whoever is in it while an event is sent had registered before. The steps that
  move entries under the iterator are `RemoveStream` (an erase: those yet to be
  visited still are) and `WriteEventStream`.
* `AudioThreads_proofs`: `SessionsDoNotOverlap`. `OneSetOfThreads` needs to know
  how far `rtl_fm_stop` has come: each thread it has joined has ended, and only
  `rtl_fm_start` creates one. From the same invariant `AudioTypeCorrect` (the device
  is read exactly by a dongle thread in `rtlsdr_read_async`) and `OneBlockIsMuted`.
* `AudioPath_proofs`, for every block length, all rates and any number of blocks and
  sessions, from `DemodAssumption` (the factors are positive, and the second filter
  does not raise the rate) and `PathAssumption` (a block is long enough for a result to
  have a sample, as the code's are by far, with 16384 bytes, 6 and 25/6), in four parts:
  * Folds. The filters are folds over a block, the sequence of a fold's results is
    flattened by another, and the provers have no induction with an operator for its
    hypothesis. `Induction` is therefore about a *set* of numbers that has 0 and every
    successor, derived from the library's least element of a well-founded order;
    `Recursion` and the lemmas after it unroll a fold into the function of its steps.
  * The filters. `LowPassGathers`, `LowPassRealGathers` and `DemodulatesAll`: the
    samples of what a filter puts out, followed by what it then carries, are those it
    carried before followed by the block's, in that order; no sum it puts out is empty,
    and a full block has a result.
  * The output. `FramesStayWhole` and `SamplesAreCounted`, for writes of any length.
    `WriteCounts` is what the four cases of a write have in common: what is pushed is
    even, and with what is carried adds up.
  * The path. `PathIsTyped`, `PlayedInOrder`, `PlayedWithoutGaps` and
    `PathKeepsFrames`. `HeardInOrder` and `NothingMissing` speak of what has been
    written, and what is written next comes from the buffers of three threads and the
    remainders of two filters. `PathInv` adds `Stream`, which says the same of all that
    is under way: what was heard, what waits for the output thread, what the
    demodulator has ready, what the filters carry and what the device has delivered,
    one after the other. Each hand-over moves a part of that sequence to its neighbour
    and leaves it as it is, unless it overwrites a part, which drops samples but puts
    none out of order and sets `lost`. A thread that runs over a buffer already taken
    would play it twice; `Session` says that while the output runs it never does, and
    once it is stopped nothing is heard until START sets `since` anew. TLC has checked
    `PathInv` on a smaller instance.
* `Kingfisher_proofs`: `KfTypeCorrect`. `StoppedRadioIsSilent`, for any number of
  clients and without requests of the audio server (with them the exception `crossed`
  is needed, which TLC checks): whoever stops a marked radio still has to stop the
  pipeline, and whoever starts it still has to mark it. `ScanFlagIsCleared`, for
  any number of clients and with all failures. `TunersAgree`: as long as no calls
  overlap the one under way carries what differs between chip, frequency and event,
  and a chip left elsewhere by a failure has `ctlFailed` set (`TunerInv`). `PipelineAgrees`, with requests: a request is handled only of a
  running radio, unless it crosses a start or a stop (`PlayInv`). `KingfisherIsARadio`,
  with requests and all failures: as long as no calls overlap, what has been stored
  and what has been announced differ only between the two steps of the callback, and
  a scan is marked only in a radio that plays and does not scan (`RadioInv`).
* `NullRadio_proofs`: `EveryFrequencyIsAChannel` for any number of clients, and
  `NullRadioIsARadio`: with one client the specification implements `RadioTuner`,
  under the invariant `SoloInv`: outside the two steps of the callback the
  frequency held is the one announced last, what is about to be sent is the
  frequency held, and the backend is marked as scanning exactly between a scan's
  two stores of the flag. `PlayingIsTold` needs only one client that starts and stops
  (`OnlyPlays`), `StationsAreAnnounced` only one that tunes and scans (`OnlyTunes`),
  whatever the others do; `null_radio` is an instance of both.
* `Tef665x_proofs`:
  * `TefTypeCorrect`. What is about to be tuned to is a channel of the band it is for
    (`ArgumentsOnGrid`, `ScansOnGrid`); that the loop over FM steps stops, and where,
    is `NextFrequencyIsChannel`, by the least element of the steps it may stop at.
  * `OneScanAtATime`, from `OneScanInv`: whoever may still create a scan's thread is
    alone and finds none; `scanning` is set exactly while a thread is between its two
    stores; a locked `scan_mutex` belongs to a scan or to one about to be created,
    and is free when a scan clears the flag.
  * `ChipAgrees`, from `ChipInv` and, for the boot states, `BringUp`: only between the
    two steps of a change of band is the chip tuned to something else than the radio
    says.
  * `OneThreadPolls`, as long as one caller at a time tunes or asks for RDS data
    (`OnlyUserPolls`): while it sleeps in `set_frequency`, an RDS thread it has not
    outlasted is one it has ordered to end, or is on its way out (`RdsInv`). With two
    callers the statement is false of the code: one may wake to a mutex that a scan
    has unlocked under the thread the other one has created.

Only model-checked is all liveness (`EveryCallReturns`, `CancelledWaiterReturns`,
`StopReturns`, `AudioFlows`, `ScanEnds`), which is out of the prover's reach under
fairness.

The three properties of the runs that expect a violation are false and have no
theorem. What is true only under a condition, as `OnGrid` without a scan or with one
tuner, has the condition as its theorem's hypothesis.

## 6. Not modelled, and the plan

Not modelled:

* the values that signal processing computes, the GStreamer pipelines, gRPC's
  transport and flow control, configuration files, probing;
* of the TEF665x backend the decoding of RDS data (a function of the bytes read, whose
  result nothing else depends on) and the failure of a transfer after the bring-up;
* of the legacy binding the verbs that only read, the framework's subscriptions, and
  its other backends, which are those of the service;
* the vendored convenience functions, which search, open and set up the device;
* the `q` command of the helper, which nobody sends.

Next, in this order:

1. The TEF665x backend against `RadioTuner`, with failing transfers and several
   callers that tune.
2. The playing events and the tuning events of several clients over `StatusEvents`,
   composed with the verbs: what a client that joins late knows.
3. Proofs: what of the RTL-SDR radio survives clients that scan while others tune
   (what `torn_retune` and `crossed` leave), and the invariants of 1 and 2.
4. The configuration and probing of the backends (`Detect`, band plan by name) as far
   as they decide anything that runs later.
