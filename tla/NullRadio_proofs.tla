-------------------------- MODULE NullRadio_proofs --------------------------
(***************************************************************************)
(* The service with the null backend implements RadioTuner, for one client *)
(* and any band plan; and whatever the clients, it stays on its channels.  *)
(***************************************************************************)
EXTENDS NullRadio, BandPlan_proofs

\* The start has the types.
LEMMA InitTypes == Init => TypeOK
  BY EndsAreChannels DEF Init, TypeOK

\* Every step keeps the types: the scan steps from channel to channel.
LEMMA NextTypes == TypeOK /\ [Next]_vars => TypeOK'
<1> SUFFICES ASSUME TypeOK, [Next]_vars PROVE TypeOK'
  OBVIOUS
<1> USE DEF TypeOK, Goto, Step, Call, flagVars, argVars, eventVars
<1>1. CASE UNCHANGED vars
  BY <1>1 DEF vars
<1>2. ASSUME NEW c \in Clients, Verbs(c) PROVE TypeOK'
  BY <1>2 DEF Verbs, StartCall, StartMarks, StartSends, StopCall, StopMarks,
     StopSends, Marks, SendsPlaying
<1>3. ASSUME NEW c \in Clients, Tuning(c) PROVE TypeOK'
  BY <1>3 DEF Tuning, SetFrequencyCall, SetFrequency, CallbackReads, CallbackSends
<1>4. ASSUME NEW c \in Clients, Scanning(c) PROVE TypeOK'
  <2>1. CASE ScanSteps(c)
    BY <2>1, StepStaysOnGrid DEF ScanSteps
  <2>2. CASE ~ScanSteps(c)
    BY <1>4, <2>2 DEF Scanning, ScanStartCall, ScanStartMarks, ScanUnmarks,
       ScanReports, ScanStopCall
  <2> QED
    BY <2>1, <2>2
<1> QED
  BY <1>1, <1>2, <1>3, <1>4 DEF Next

\* However many clients tune and scan at once, every frequency held, to be set or
\* sent is a channel of the band plan.
THEOREM EveryFrequencyIsAChannel == Spec => []TypeOK
  BY InitTypes, NextTypes, PTL DEF Spec

-----------------------------------------------------------------------------
(* One client *)

Announced == IF event = 0 THEN MinFreq ELSE event

\* Between the store of a frequency and its event the client is in the callback,
\* with the frequency stored; scanning is set exactly in the first part of a scan.
SoloInv ==
    /\ TypeOK
    /\ \A c \in Clients :
          /\ pc[c] \notin {"cb_read", "cb_send"} => Announced = current_frequency
          /\ pc[c] = "cb_send" => told[c] = current_frequency
          /\ scanning <=> pc[c] \in {"sc_step", "sc_unmark"}
          /\ pc[c] = "sc_mark" => active

\* One client has nothing under way at the start.
LEMMA InitSolo == Init => SoloInv
  BY InitTypes DEF Init, SoloInv, Announced

\* The one client's calls keep what they announce and mark in step.
LEMMA NextSolo ==
    ASSUME NEW c, Clients = {c}, SoloInv, [Next]_vars
    PROVE  SoloInv'
<1>1. TypeOK'
  BY NextTypes DEF SoloInv
<1> USE ChannelsArePositive DEF SoloInv, Announced, TypeOK, Goto, Step, Call,
        flagVars, argVars, eventVars
<1>2. CASE UNCHANGED vars
  BY <1>1, <1>2 DEF vars
<1>3. CASE Verbs(c)
  BY <1>1, <1>3 DEF Verbs, StartCall, StartMarks, StartSends, StopCall, StopMarks,
     StopSends, Marks, SendsPlaying
<1>4. CASE Tuning(c)
  BY <1>1, <1>4 DEF Tuning, SetFrequencyCall, SetFrequency, CallbackReads,
     CallbackSends
<1>5. CASE Scanning(c)
  BY <1>1, <1>5 DEF Scanning, ScanStartCall, ScanStartMarks, ScanSteps, ScanUnmarks,
     ScanReports, ScanStopCall
<1> QED
  BY <1>2, <1>3, <1>4, <1>5 DEF Next

\* The abstract radio has the same band.
LEMMA SameChannels == Radio!Channels = Channels
  BY DEF Channels, Valid, Radio!Channels, Radio!Valid

\* The start is a start of the abstract radio.
LEMMA InitImplements == Init => Radio!Init
  BY DEF Init, Radio!Init

\* Each of the one client's steps is a step of the abstract radio or none.
LEMMA NextImplements ==
    ASSUME NEW c, Clients = {c}, SoloInv, SoloInv', [Next]_vars
    PROVE  [Radio!Next]_Radio!vars
<1> USE ChannelsArePositive DEF SoloInv, Announced, TypeOK, Goto, Step, Call,
        flagVars, argVars, eventVars, Radio!vars
<1>1. CASE UNCHANGED vars
  BY <1>1 DEF vars
<1>2. CASE Verbs(c)
  <2>1. CASE StartCall(c) \/ StopCall(c)
    <3>1. Radio!StartOrStop \/ UNCHANGED Radio!vars
      BY <2>1 DEF StartCall, StopCall, Radio!StartOrStop
    <3> QED
      BY <3>1 DEF Radio!Next
  <2>2. CASE StartMarks(c) \/ StopMarks(c) \/ StartSends(c) \/ StopSends(c)
    BY <2>2 DEF StartMarks, StopMarks, StartSends, StopSends, Marks, SendsPlaying
  <2> QED
    BY <1>2, <2>1, <2>2 DEF Verbs
<1>3. CASE Tuning(c)
  <2>1. CASE SetFrequency(c)
    BY <2>1, SameChannels DEF SetFrequency, Radio!Next, Radio!Retune
  <2>2. CASE CallbackSends(c)
    BY <2>2 DEF CallbackSends, Radio!Next, Radio!Announce
  <2>3. CASE SetFrequencyCall(c) \/ CallbackReads(c)
    BY <2>3 DEF SetFrequencyCall, CallbackReads
  <2> QED
    BY <1>3, <2>1, <2>2, <2>3 DEF Tuning
<1>4. CASE Scanning(c)
  <2>1. CASE ScanStartMarks(c)
    BY <2>1 DEF ScanStartMarks, Radio!Next, Radio!BeginSeek
  <2>2. CASE ScanUnmarks(c)
    BY <2>2 DEF ScanUnmarks, Radio!Next, Radio!EndSeek
  <2>3. CASE ScanStartCall(c) \/ ScanSteps(c) \/ ScanReports(c) \/ ScanStopCall(c)
    BY <2>3 DEF ScanStartCall, ScanSteps, ScanReports, ScanStopCall
  <2> QED
    BY <1>4, <2>1, <2>2, <2>3 DEF Scanning
<1> QED
  BY <1>1, <1>2, <1>3, <1>4 DEF Next

\* Of a client that makes one call after the other, the service with the null
\* backend is the radio every backend promises to be.
THEOREM NullRadioIsARadio ==
    ASSUME NEW c, Clients = {c}
    PROVE  Spec => ImplementsRadio
<1>1. Init => SoloInv /\ Radio!Init
  BY InitSolo, InitImplements
<1>2. SoloInv /\ [Next]_vars => SoloInv'
  BY NextSolo
<1>3. SoloInv /\ SoloInv' /\ [Next]_vars => [Radio!Next]_Radio!vars
  BY NextImplements
<1> QED
  BY <1>1, <1>2, <1>3, PTL DEF Spec, ImplementsRadio, Radio!Spec

-----------------------------------------------------------------------------
(* What the clients are told *)

\* Only one client starts and stops the radio.
OnlyPlays(user) ==
    \A c \in Clients \ {user} : Calls[c] \cap {"Start", "Stop"} = {}

StartOrStopPlaces == {"st_mark", "st_event", "sp_mark", "sp_event"}

\* How far the one that starts and stops has come tells which of the backend's flag,
\* m_playing and the event are those of its call.
StatusInv(user) ==
    /\ \A c \in Clients \ {user} : pc[c] \notin StartOrStopPlaces
    /\ pc[user] \in {"st_mark", "st_event"} => active
    /\ pc[user] \in {"sp_mark", "sp_event"} => ~active
    /\ pc[user] \notin {"st_mark", "sp_mark"} => m_playing = active
    /\ pc[user] \notin StartOrStopPlaces => playEvent = active

\* Every step of a start or stop brings one more of them up to date.
LEMMA NextStatus ==
    ASSUME NEW user \in Clients, OnlyPlays(user), TypeOK, StatusInv(user), [Next]_vars
    PROVE  StatusInv(user)'
<1> USE DEF TypeOK, StatusInv, StartOrStopPlaces, Goto, Step, Call, flagVars, argVars,
            eventVars
<1>1. CASE UNCHANGED vars
  BY <1>1 DEF vars
<1>2. ASSUME NEW c \in Clients, Verbs(c) PROVE StatusInv(user)'
  <2>1. c = user
    <3>1. CASE StartCall(c) \/ StopCall(c)
      BY <3>1 DEF StartCall, StopCall, OnlyPlays
    <3>2. CASE ~(StartCall(c) \/ StopCall(c))
      BY <1>2, <3>2 DEF Verbs, StartMarks, StartSends, StopMarks, StopSends, Marks,
         SendsPlaying
    <3> QED
      BY <3>1, <3>2
  <2>2. CASE StartCall(c) \/ StopCall(c)
    BY <2>1, <2>2 DEF StartCall, StopCall
  <2>3. CASE StartMarks(c) \/ StopMarks(c)
    <3>1. CASE StartMarks(c)
      BY <2>1, <3>1 DEF StartMarks, Marks
    <3>2. CASE StopMarks(c)
      BY <2>1, <3>2 DEF StopMarks, Marks
    <3> QED
      BY <2>3, <3>1, <3>2
  <2>4. CASE StartSends(c) \/ StopSends(c)
    BY <2>1, <2>4 DEF StartSends, StopSends, SendsPlaying
  <2> QED
    BY <1>2, <2>2, <2>3, <2>4 DEF Verbs
<1>3. ASSUME NEW c \in Clients, Tuning(c) PROVE StatusInv(user)'
  BY <1>3 DEF Tuning, SetFrequencyCall, SetFrequency, CallbackReads, CallbackSends
<1>4. ASSUME NEW c \in Clients, Scanning(c) PROVE StatusInv(user)'
  BY <1>4 DEF Scanning, ScanStartCall, ScanStartMarks, ScanSteps, ScanUnmarks,
     ScanReports, ScanStopCall
<1> QED
  BY <1>1, <1>2, <1>3, <1>4 DEF Next

\* As long as one client at a time starts and stops the radio, whatever the others tune
\* and scan, m_playing and the last playing event say what the backend does once no call
\* is under way.
THEOREM PlayingIsTold ==
    ASSUME NEW user \in Clients, OnlyPlays(user)
    PROVE  Spec => []StatusAgreement
<1>1. Init => TypeOK /\ StatusInv(user)
  BY InitTypes DEF Init, StatusInv, StartOrStopPlaces
<1>2. TypeOK /\ StatusInv(user) /\ [Next]_vars => TypeOK' /\ StatusInv(user)'
  BY NextTypes, NextStatus
<1>3. StatusInv(user) => StatusAgreement
  BY DEF StatusInv, StatusAgreement, Quiet, StartOrStopPlaces
<1> QED
  BY <1>1, <1>2, <1>3, PTL DEF Spec

\* Only one client tunes and scans; the others may end its scans.
OnlyTunes(user) ==
    \A c \in Clients \ {user} : Calls[c] \cap {"SetFrequency", "ScanStart"} = {}

TuningPlaces == {"sf_set", "cb_read", "cb_send", "sc_mark", "sc_step", "sc_unmark", "sc_found"}

\* From the callback on that client holds the frequency it was to set, and when its
\* scan is about to report it has sent it.
FoundInv(user) ==
    /\ \A c \in Clients \ {user} : pc[c] \notin TuningPlaces
    /\ pc[user] \in {"cb_read", "cb_send"} => frequency[user] = current_frequency
    /\ pc[user] = "cb_send" => told[user] = frequency[user]
    /\ pc[user] = "sc_found" => event = frequency[user]

\* Nobody else changes the frequency, or sends one, in between.
LEMMA NextFound ==
    ASSUME NEW user \in Clients, OnlyTunes(user), TypeOK, FoundInv(user), [Next]_vars
    PROVE  FoundInv(user)'
<1> USE DEF FoundInv, TuningPlaces, TypeOK, Goto, Step, Call, flagVars, argVars,
            eventVars
<1>1. CASE UNCHANGED vars
  BY <1>1 DEF vars
<1>2. ASSUME NEW c \in Clients, Verbs(c) PROVE FoundInv(user)'
  BY <1>2 DEF Verbs, StartCall, StartMarks, StartSends, StopCall, StopMarks,
     StopSends, Marks, SendsPlaying
<1>3. ASSUME NEW c \in Clients, Tuning(c) PROVE FoundInv(user)'
  <2>1. c = user
    BY <1>3 DEF Tuning, SetFrequencyCall, SetFrequency, CallbackReads, CallbackSends,
       OnlyTunes
  <2> QED
    BY <1>3, <2>1 DEF Tuning, SetFrequencyCall, SetFrequency, CallbackReads, CallbackSends
<1>4. ASSUME NEW c \in Clients, Scanning(c) PROVE FoundInv(user)'
  BY <1>4 DEF Scanning, ScanStartCall, ScanStartMarks, ScanSteps, ScanUnmarks,
     ScanReports, ScanStopCall, OnlyTunes
<1> QED
  BY <1>1, <1>2, <1>3, <1>4 DEF Next

\* As long as one client at a time tunes and scans, whoever stops its scans, a scan
\* reports a station only after the frequency event that says it is tuned to.
THEOREM StationsAreAnnounced ==
    ASSUME NEW user \in Clients, OnlyTunes(user)
    PROVE  Spec => StationIsAnnounced
<1>1. Init => TypeOK /\ FoundInv(user)
  BY InitTypes DEF Init, FoundInv, TuningPlaces
<1>2. TypeOK /\ FoundInv(user) /\ [Next]_vars => TypeOK' /\ FoundInv(user)'
  BY NextTypes, NextFound
<1>3. FoundInv(user) => [\A c \in Clients : ScanReports(c) => event = frequency[c]]_vars
  BY DEF FoundInv, ScanReports, Step, TuningPlaces
<1> QED
  BY <1>1, <1>2, <1>3, PTL DEF Spec, StationIsAnnounced

=============================================================================
