--------------------------- MODULE RtlsdrBackend ---------------------------
(***************************************************************************)
(* The RTL-SDR backend inside the service (radio_impl_rtlsdr.c): the       *)
(* operations of rtlsdr_impl_ops, each run by the gRPC thread that serves  *)
(* the client's call.  A client has one call in progress at a time.  A     *)
(* section that holds helper_mutex without blocking in read() is one       *)
(* action; every other read or write of the shared flags is a step of its  *)
(* own, because the code makes it outside the mutex.                       *)
(***************************************************************************)
EXTENDS HelperPipes

CONSTANTS
    Clients,     \* the clients, each served by one thread
    NoClient,    \* nobody holds helper_mutex
    Calls,       \* Calls[t]: the operations client t may call
    Requests,    \* the frequencies SetFrequency is called with
    CmdMax       \* a call begins with fewer unhandled commands than this

Operations == {"SetFrequency", "Start", "Stop", "ScanUp", "ScanDown",
               "ScanStop"}

ASSUME BackendAssumption ==
    /\ NoClient \notin Clients
    /\ Calls \in [Clients -> SUBSET Operations]
    /\ Requests \subseteq Nat
    /\ CmdMax \in Nat \ {0}

VARIABLES
    active,              \* the static flags of the backend
    scanning,
    current_frequency,
    helper_mutex,        \* its owner, or NoClient
    published,           \* the last frequency event sent, 0 before the first
    pc,                  \* pc[t]: where the thread serving t is
    frequency,           \* frequency[t]: the argument of set_frequency
    direction,           \* direction[t]: the argument of scan_start
    line                 \* line[t]: the first line its last read() returned

backendVars == <<active, scanning, current_frequency, helper_mutex, published,
                 pc, frequency, direction, line>>
threadVars == <<pc, frequency, direction, line>>

Places == {"idle",
           "sf_stop", "sf_store", "sf_lock", "sf_read",
           "st_lock", "st_set", "sp_lock", "sp_set",
           "sc_mark", "sc_lock", "sc_loop", "sc_read", "sc_line", "sc_done",
           "ss_lock"}

NoLine == [kind |-> "F", freq |-> MinFreq]   \* line[t] between two reads

BackendTypeOK ==
    /\ active \in BOOLEAN /\ scanning \in BOOLEAN
    /\ current_frequency \in Nat
    /\ helper_mutex \in Clients \cup {NoClient}
    /\ published \in Nat
    /\ pc \in [Clients -> Places]
    /\ frequency \in [Clients -> Frequencies]
    /\ direction \in [Clients -> Directions]
    /\ line \in [Clients -> Lines]

\* RadioImpl::Detect has run rtlsdr_init, which sets the band's minimum, and
\* then installed the frequency callback.
BackendInit ==
    /\ active = FALSE /\ scanning = FALSE
    /\ current_frequency = MinFreq
    /\ helper_mutex = NoClient
    /\ published = 0
    /\ pc = [t \in Clients |-> "idle"]
    /\ frequency = [t \in Clients |-> MinFreq]
    /\ direction = [t \in Clients |-> "UP"]
    /\ line = [t \in Clients |-> NoLine]

Unlocked == helper_mutex = NoClient
Goto(t, place) == pc' = [pc EXCEPT ![t] = place]
At(t, place) == pc[t] = place

\* Client t begins a call of op.
Call(t, op) ==
    /\ At(t, "idle")
    /\ op \in Calls[t]
    /\ Len(toHelper) < CmdMax

-----------------------------------------------------------------------------
(* rtlsdr_set_frequency *)

\* Mutant of SetFrequencyCall: only the backend's own test of the range is made.
SetFrequencyCallOffGrid(t) ==
    /\ Call(t, "SetFrequency")
    /\ \E f \in Requests : /\ f >= MinFreq /\ f =< MaxFreq
                          /\ frequency' = [frequency EXCEPT ![t] = f]
    /\ Goto(t, IF scanning THEN "sf_stop" ELSE "sf_store")
    /\ UNCHANGED <<pipeVars, active, scanning, current_frequency, helper_mutex,
                   published, direction, line>>

\* RadioImpl::SetFrequency's test, the backend's range test (which it implies)
\* and the unlocked look at scanning.
SetFrequencyCall(t) ==
    /\ Call(t, "SetFrequency")
    /\ \E f \in Requests : Valid(f) /\ frequency' = [frequency EXCEPT ![t] = f]
    /\ Goto(t, IF scanning THEN "sf_stop" ELSE "sf_store")
    /\ UNCHANGED <<pipeVars, active, scanning, current_frequency, helper_mutex,
                   published, direction, line>>

\* The rtlsdr_scan_stop it calls.
SetFrequencyScanStop(t) ==
    /\ At(t, "sf_stop") /\ Unlocked
    /\ scanning' = FALSE
    /\ WriteCommand(Command("S=STOP", 0))
    /\ Goto(t, "sf_store")
    /\ UNCHANGED <<fromHelper, helper_alive, active, current_frequency,
                   helper_mutex, published, frequency, direction, line>>

SetFrequencyStore(t) ==
    /\ At(t, "sf_store")
    /\ current_frequency' = frequency[t]
    /\ Goto(t, "sf_lock")
    /\ UNCHANGED <<pipeVars, active, scanning, helper_mutex, published,
                   frequency, direction, line>>

\* Mutant of SetFrequencyWrite: the mutex is released after the write, as in
\* rtlsdr_start, and the read is made without it.
SetFrequencyWriteUnlocks(t) ==
    /\ At(t, "sf_lock") /\ Unlocked
    /\ WriteCommand(Command("F=", frequency[t]))
    /\ Goto(t, IF helper_alive THEN "sf_read" ELSE "idle")
    /\ UNCHANGED <<fromHelper, helper_alive, active, scanning, helper_mutex,
                   current_frequency, published, frequency, direction, line>>

\* Lock and write; a failed write unlocks and returns.
SetFrequencyWrite(t) ==
    /\ At(t, "sf_lock") /\ Unlocked
    /\ WriteCommand(Command("F=", frequency[t]))
    /\ IF helper_alive
       THEN /\ helper_mutex' = t
            /\ Goto(t, "sf_read")
       ELSE /\ helper_mutex' = helper_mutex
            /\ Goto(t, "idle")
    /\ UNCHANGED <<fromHelper, helper_alive, active, scanning,
                   current_frequency, published, frequency, direction, line>>

\* Mutant of SetFrequencyRead: the event carries the backend's frequency instead
\* of the helper's answer.
SetFrequencyReadPublishesOwn(t) ==
    /\ At(t, "sf_read")
    /\ ReadLines
    /\ IF Head(fromHelper).kind = "F"
       THEN /\ published' = current_frequency
            /\ helper_mutex' = NoClient
            /\ Goto(t, "idle")
       ELSE UNCHANGED <<published, helper_mutex, pc>>
    /\ UNCHANGED <<toHelper, helper_alive, active, scanning, current_frequency,
                   frequency, direction, line>>

\* The read loop, with the mutex held.  Only the first line of what read()
\* returned is looked at: an F line is published and ends the call, any other
\* is dropped and the loop reads again.
SetFrequencyRead(t) ==
    /\ At(t, "sf_read")
    /\ ReadLines
    /\ IF Head(fromHelper).kind = "F"
       THEN /\ published' = Head(fromHelper).freq
            /\ helper_mutex' = NoClient
            /\ Goto(t, "idle")
       ELSE UNCHANGED <<published, helper_mutex, pc>>
    /\ UNCHANGED <<toHelper, helper_alive, active, scanning, current_frequency,
                   frequency, direction, line>>

\* Mutant of SetFrequencyEOF: the break leaves without unlocking.
SetFrequencyEOFLocked(t) ==
    /\ At(t, "sf_read") /\ EndOfFile
    /\ Goto(t, "idle")
    /\ UNCHANGED <<pipeVars, active, scanning, current_frequency, helper_mutex,
                   published, frequency, direction, line>>

SetFrequencyEOF(t) ==
    /\ At(t, "sf_read") /\ EndOfFile
    /\ helper_mutex' = NoClient
    /\ Goto(t, "idle")
    /\ UNCHANGED <<pipeVars, active, scanning, current_frequency, published,
                   frequency, direction, line>>

-----------------------------------------------------------------------------
(* rtlsdr_start and rtlsdr_stop: active is tested before the lock is taken  *)
(* and set after it is released.                                            *)

StartCall(t) ==
    /\ Call(t, "Start") /\ ~ active
    /\ Goto(t, "st_lock")
    /\ UNCHANGED <<pipeVars, active, scanning, current_frequency, helper_mutex,
                   published, frequency, direction, line>>

StopCall(t) ==
    /\ Call(t, "Stop") /\ active
    /\ Goto(t, "sp_lock")
    /\ UNCHANGED <<pipeVars, active, scanning, current_frequency, helper_mutex,
                   published, frequency, direction, line>>

\* Lock, write, unlock; a failed write returns and leaves active alone.
WriteThenSet(t, here, op, next) ==
    /\ At(t, here) /\ Unlocked
    /\ WriteCommand(Command(op, 0))
    /\ Goto(t, IF helper_alive THEN next ELSE "idle")
    /\ UNCHANGED <<fromHelper, helper_alive, active, scanning,
                   current_frequency, helper_mutex, published, frequency,
                   direction, line>>

StartWrite(t) == WriteThenSet(t, "st_lock", "START", "st_set")

\* Mutant of StopWrite: only the scan is asked to stop.
StopWriteScanOnly(t) == WriteThenSet(t, "sp_lock", "S=STOP", "sp_set")

StopWrite(t) == WriteThenSet(t, "sp_lock", "STOP", "sp_set")

SetActive(t, here, value) ==
    /\ At(t, here)
    /\ active' = value
    /\ Goto(t, "idle")
    /\ UNCHANGED <<pipeVars, scanning, current_frequency, helper_mutex,
                   published, frequency, direction, line>>

StartSet(t) == SetActive(t, "st_set", TRUE)
StopSet(t) == SetActive(t, "sp_set", FALSE)

-----------------------------------------------------------------------------
(* rtlsdr_scan_start *)

ScanOf(dir) == IF dir = "UP" THEN "ScanUp" ELSE "ScanDown"

ScanStartCall(t) ==
    /\ \E dir \in Directions : /\ Call(t, ScanOf(dir))
                               /\ direction' = [direction EXCEPT ![t] = dir]
    /\ active /\ ~ scanning
    /\ Goto(t, "sc_mark")
    /\ UNCHANGED <<pipeVars, active, scanning, current_frequency, helper_mutex,
                   published, frequency, line>>

ScanStartMark(t) ==
    /\ At(t, "sc_mark")
    /\ scanning' = TRUE
    /\ Goto(t, "sc_lock")
    /\ UNCHANGED <<pipeVars, active, current_frequency, helper_mutex,
                   published, frequency, direction, line>>

\* Lock, look at scanning again, write.  A failed write returns without taking
\* scanning back.
ScanStartWrite(t) ==
    /\ At(t, "sc_lock") /\ Unlocked
    /\ IF scanning
       THEN /\ WriteCommand(Command(IF direction[t] = "UP" THEN "S=UP"
                                    ELSE "S=DOWN", 0))
            /\ Goto(t, IF helper_alive THEN "sc_loop" ELSE "idle")
       ELSE /\ toHelper' = toHelper
            /\ Goto(t, "idle")
    /\ UNCHANGED <<fromHelper, helper_alive, active, scanning,
                   current_frequency, helper_mutex, published, frequency,
                   direction, line>>

\* Mutant of ScanLoop: the way out of the loop does not unlock.
ScanLoopLeavesLocked(t) ==
    /\ At(t, "sc_loop") /\ Unlocked
    /\ helper_mutex' = t
    /\ Goto(t, IF scanning THEN "sc_read" ELSE "idle")
    /\ UNCHANGED <<pipeVars, active, scanning, current_frequency, published,
                   frequency, direction, line>>

\* The head of the loop: lock, leave if the scan was stopped, else read() with
\* the mutex held.
ScanLoop(t) ==
    /\ At(t, "sc_loop") /\ Unlocked
    /\ IF scanning
       THEN helper_mutex' = t /\ Goto(t, "sc_read")
       ELSE helper_mutex' = helper_mutex /\ Goto(t, "idle")
    /\ UNCHANGED <<pipeVars, active, scanning, current_frequency, published,
                   frequency, direction, line>>

\* Only the first line is looked at, if it is one.
ScanRead(t) ==
    /\ At(t, "sc_read")
    /\ ReadLines
    /\ IF Head(fromHelper).kind = "rest"
       THEN line' = line /\ Goto(t, "sc_loop")
       ELSE line' = [line EXCEPT ![t] = Head(fromHelper)] /\ Goto(t, "sc_line")
    /\ helper_mutex' = NoClient
    /\ UNCHANGED <<toHelper, helper_alive, active, scanning, current_frequency,
                   published, frequency, direction>>

\* End of file leaves the loop, with scanning as it is.
ScanEOF(t) ==
    /\ At(t, "sc_read") /\ EndOfFile
    /\ helper_mutex' = NoClient
    /\ Goto(t, "idle")
    /\ UNCHANGED <<pipeVars, active, scanning, current_frequency, published,
                   frequency, direction, line>>

\* Mutant of ScanRetuned: the frequency is published but not stored.
ScanRetunedNotStored(t) ==
    /\ At(t, "sc_line") /\ line[t].kind = "F"
    /\ published' = line[t].freq
    /\ line' = [line EXCEPT ![t] = NoLine]
    /\ Goto(t, "sc_loop")
    /\ UNCHANGED <<pipeVars, active, scanning, current_frequency, helper_mutex,
                   frequency, direction>>

\* Outside the mutex: an F line is stored and published.
ScanRetuned(t) ==
    /\ At(t, "sc_line") /\ line[t].kind = "F"
    /\ current_frequency' = line[t].freq
    /\ published' = line[t].freq
    /\ line' = [line EXCEPT ![t] = NoLine]
    /\ Goto(t, "sc_loop")
    /\ UNCHANGED <<pipeVars, active, scanning, helper_mutex, frequency,
                   direction>>

\* An S line is sent as a station_found event, of line[t].freq,
ScanStation(t) ==
    /\ At(t, "sc_line") /\ line[t].kind = "S"
    /\ line' = [line EXCEPT ![t] = NoLine]
    /\ Goto(t, "sc_done")
    /\ UNCHANGED <<pipeVars, active, scanning, current_frequency, helper_mutex,
                   published, frequency, direction>>

\* Mutant of ScanDone: the scan stays marked as under way.
ScanDoneStillMarked(t) ==
    /\ At(t, "sc_done")
    /\ Goto(t, "idle")
    /\ UNCHANGED <<pipeVars, active, scanning, current_frequency, helper_mutex,
                   published, frequency, direction, line>>

\* and after that the scan is marked over.
ScanDone(t) ==
    /\ At(t, "sc_done")
    /\ scanning' = FALSE
    /\ Goto(t, "idle")
    /\ UNCHANGED <<pipeVars, active, current_frequency, helper_mutex,
                   published, frequency, direction, line>>

-----------------------------------------------------------------------------
(* rtlsdr_scan_stop, which has no guard at all *)

ScanStopCall(t) ==
    /\ Call(t, "ScanStop")
    /\ Goto(t, "ss_lock")
    /\ UNCHANGED <<pipeVars, active, scanning, current_frequency, helper_mutex,
                   published, frequency, direction, line>>

ScanStopWrite(t) ==
    /\ At(t, "ss_lock") /\ Unlocked
    /\ scanning' = FALSE
    /\ WriteCommand(Command("S=STOP", 0))
    /\ Goto(t, "idle")
    /\ UNCHANGED <<fromHelper, helper_alive, active, current_frequency,
                   helper_mutex, published, frequency, direction, line>>

-----------------------------------------------------------------------------
\* The client's choice to call, and the steps of a call once it has begun:
\* those that wait for helper_mutex and the others.
CallStep(t) == \/ SetFrequencyCall(t) \/ StartCall(t) \/ StopCall(t)
               \/ ScanStartCall(t) \/ ScanStopCall(t)

LockStep(t) == \/ SetFrequencyScanStop(t) \/ SetFrequencyWrite(t)
               \/ StartWrite(t) \/ StopWrite(t) \/ ScanStartWrite(t)
               \/ ScanLoop(t) \/ ScanStopWrite(t)

FreeStep(t) == \/ SetFrequencyStore(t) \/ SetFrequencyRead(t)
               \/ SetFrequencyEOF(t) \/ StartSet(t) \/ StopSet(t)
               \/ ScanStartMark(t) \/ ScanRead(t) \/ ScanEOF(t)
               \/ ScanRetuned(t) \/ ScanStation(t) \/ ScanDone(t)

ThreadStep(t) == CallStep(t) \/ LockStep(t) \/ FreeStep(t)

=============================================================================
