------------------------- MODULE Kingfisher_proofs -------------------------
(***************************************************************************)
(* Theorems about the Kingfisher backend, for any number of clients.       *)
(***************************************************************************)
EXTENDS Kingfisher, BandPlan_proofs

\* Where the threads are, without the values they carry.
PlacesOK ==
    /\ pc \in [Clients -> Places]
    /\ caller \in [Clients -> {"idle", "sc_found"}]

\* No thread is anywhere at the start.
LEMMA InitPlaces == Init => PlacesOK
  BY DEF Init, PlacesOK, Places

\* Every thread stays at one of kf_impl_ops's steps.
LEMMA NextPlaces == PlacesOK /\ [Next]_vars => PlacesOK'
<1> SUFFICES ASSUME PlacesOK, [Next]_vars PROVE PlacesOK'
  OBVIOUS
<1> USE DEF PlacesOK, Places, ScanPlaces, StartOrStopPlaces, At, Goto, Step, Call
<1>1. CASE UNCHANGED vars
  BY <1>1 DEF vars, clientVars, argVars
<1>2. ASSUME NEW c \in Clients, SetFrequency(c) PROVE PlacesOK'
  BY <1>2 DEF SetFrequency, SetFrequencyCall, SetFrequencyTunes, SetFrequencyFails,
     SetFrequencyStores, CallbackReads, CallbackSends, argVars
<1>3. ASSUME NEW c \in Clients, StartOrStop(c) PROVE PlacesOK'
  BY <1>3 DEF StartOrStop, StartCall, StartPlays, StartMarks, StopCall, StopMarks,
     StopPipeline, StopUncorks, argVars
<1>4. ASSUME NEW c \in Clients, Scan(c) PROVE PlacesOK'
  BY <1>4 DEF Scan, ScanCall, ScanMarks, ScanRunsSiCtl, ScanPopenFails, ScanFinds,
     ScanFails, ScanStores, ScanGoesBack, ScanReports, ScanDone, argVars
<1>5. CASE RequestState \/ HandlerTakes \/ HandlerFlags \/ HandlerSets
  BY <1>5 DEF RequestState, HandlerTakes, HandlerFlags, HandlerSets, clientVars, argVars
<1> QED
  BY <1>1, <1>2, <1>3, <1>4, <1>5 DEF Next

-----------------------------------------------------------------------------
(* The pipeline, when the audio server asks for no pauses *)

NoRequests == bus = << >> /\ handler = "idle"

SilenceInv == PlacesOK /\ NoRequests /\ StoppedIsSilent

\* An audio server that asks for nothing leaves the bus and the handler idle.
LEMMA NextNoRequests ==
    ASSUME ~Corking, NoRequests, [Next]_vars
    PROVE  NoRequests'
<1> USE DEF NoRequests
<1>1. CASE UNCHANGED vars
  BY <1>1 DEF vars, playVars
<1>2. ASSUME NEW c \in Clients, SetFrequency(c) PROVE NoRequests'
  BY <1>2 DEF SetFrequency, SetFrequencyCall, SetFrequencyTunes, SetFrequencyFails,
     SetFrequencyStores, CallbackReads, CallbackSends, playVars
<1>3. ASSUME NEW c \in Clients, StartOrStop(c) PROVE NoRequests'
  BY <1>3 DEF StartOrStop, StartCall, StartPlays, StartMarks, StopCall, StopMarks,
     StopPipeline, StopUncorks, playVars
<1>4. ASSUME NEW c \in Clients, Scan(c) PROVE NoRequests'
  BY <1>4 DEF Scan, ScanCall, ScanMarks, ScanRunsSiCtl, ScanPopenFails, ScanFinds,
     ScanFails, ScanStores, ScanGoesBack, ScanReports, ScanDone, playVars
<1>5. ~RequestState /\ ~HandlerTakes /\ ~HandlerFlags /\ ~HandlerSets
  BY DEF RequestState, HandlerTakes, HandlerFlags, HandlerSets
<1> QED
  BY <1>1, <1>2, <1>3, <1>4, <1>5 DEF Next

\* A thread that is about to set running, or to stop the pipeline, stays that
\* unless it is the one that takes the step.
LEMMA NextSilent ==
    ASSUME ~Corking, SilenceInv, [Next]_vars
    PROVE  StoppedIsSilent'
<1> DEFINE Waiting == {"st_mark", "sp_null"}
<1> USE DEF SilenceInv, PlacesOK, NoRequests, StoppedIsSilent, Places, ScanPlaces,
            StartOrStopPlaces, At, Goto, Step, Call
<1>1. CASE UNCHANGED vars
  BY <1>1 DEF vars, playVars, clientVars
<1>2. ASSUME NEW c \in Clients, UNCHANGED playVars, pc[c] \notin Waiting,
             \E place : pc' = [pc EXCEPT ![c] = place]
      PROVE  StoppedIsSilent'
  BY <1>2 DEF playVars
<1>3. ASSUME NEW c \in Clients, SetFrequency(c) PROVE StoppedIsSilent'
  BY <1>2, <1>3 DEF SetFrequency, SetFrequencyCall, SetFrequencyTunes,
     SetFrequencyFails, SetFrequencyStores, CallbackReads, CallbackSends
<1>4. ASSUME NEW c \in Clients, Scan(c) PROVE StoppedIsSilent'
  BY <1>2, <1>4 DEF Scan, ScanCall, ScanMarks, ScanRunsSiCtl, ScanPopenFails,
     ScanFinds, ScanFails, ScanStores, ScanGoesBack, ScanReports, ScanDone
<1>5. ASSUME NEW c \in Clients, StartOrStop(c) PROVE StoppedIsSilent'
  <2>1. CASE StartCall(c) \/ StopCall(c)
    BY <1>2, <2>1 DEF StartCall, StopCall
  <2>2. CASE StartPlays(c)
    BY <2>2 DEF StartPlays
  <2>3. CASE StartMarks(c)
    BY <2>3 DEF StartMarks
  <2>4. CASE StopMarks(c)
    BY <2>4 DEF StopMarks
  <2>5. CASE StopPipeline(c)
    BY <2>5 DEF StopPipeline
  <2>6. CASE StopUncorks(c)
    BY <2>6 DEF StopUncorks
  <2> QED
    BY <1>5, <2>1, <2>2, <2>3, <2>4, <2>5, <2>6 DEF StartOrStop
<1>6. ~RequestState /\ ~HandlerTakes /\ ~HandlerFlags /\ ~HandlerSets
  BY DEF RequestState, HandlerTakes, HandlerFlags, HandlerSets
<1> QED
  BY <1>1, <1>3, <1>4, <1>5, <1>6 DEF Next

\* kf_start and kf_stop take no lock, but as long as the audio server asks for no
\* pauses, no crossing of any number of them leaves a radio playing that is marked
\* as stopped.
THEOREM StoppedRadioIsSilent ==
    ASSUME ~Corking
    PROVE  Spec => []StoppedIsSilent
<1>1. Init => SilenceInv
  BY InitPlaces DEF Init, SilenceInv, NoRequests, StoppedIsSilent
<1>2. SilenceInv /\ [Next]_vars => SilenceInv'
  BY NextPlaces, NextNoRequests, NextSilent DEF SilenceInv
<1>3. SilenceInv => StoppedIsSilent
  BY DEF SilenceInv
<1> QED
  BY <1>1, <1>2, <1>3, PTL DEF Spec

-----------------------------------------------------------------------------
(* The scan's flag *)

\* Only a scan sets scanning, and only the end of one, or a failed popen, leaves it.
LEMMA NextScanFlag ==
    ASSUME PlacesOK, ScanFlagMeansScan, [Next]_vars
    PROVE  ScanFlagMeansScan'
<1> USE DEF PlacesOK, ScanFlagMeansScan, InScan, Places, ScanPlaces,
            StartOrStopPlaces, At, Goto, Step, Call
<1>1. CASE UNCHANGED vars
  BY <1>1 DEF vars, tuneVars, clientVars, argVars
<1>2. ASSUME NEW c \in Clients, scanning' => scanning, popenFailed' = popenFailed,
             InScan(c) => InScan(c)',
             \A d \in Clients \ {c} : InScan(d) => InScan(d)'
      PROVE  ScanFlagMeansScan'
  BY <1>2
<1>3. ASSUME NEW c \in Clients, SetFrequency(c) PROVE ScanFlagMeansScan'
  BY <1>2, <1>3, ZenonT(40) DEF SetFrequency, SetFrequencyCall, SetFrequencyTunes,
     SetFrequencyFails, SetFrequencyStores, CallbackReads, CallbackSends, tuneVars,
     argVars
<1>4. ASSUME NEW c \in Clients, StartOrStop(c) PROVE ScanFlagMeansScan'
  BY <1>2, <1>4 DEF StartOrStop, StartCall, StartPlays, StartMarks, StopCall,
     StopMarks, StopPipeline, StopUncorks, tuneVars, argVars
<1>5. ASSUME NEW c \in Clients, Scan(c) PROVE ScanFlagMeansScan'
  <2>1. CASE ScanMarks(c)
    BY <2>1 DEF ScanMarks
  <2>2. CASE ScanPopenFails(c)
    BY <2>2 DEF ScanPopenFails
  <2>3. CASE ScanDone(c)
    BY <2>3 DEF ScanDone
  <2>4. CASE ScanCall(c) \/ ScanRunsSiCtl(c) \/ ScanReports(c)
    BY <1>2, <2>4 DEF ScanCall, ScanRunsSiCtl, ScanReports, tuneVars, argVars
  <2>5. CASE ScanFinds(c) \/ ScanFails(c)
    BY <1>2, <2>5 DEF ScanFinds, ScanFails
  <2>6. CASE ScanStores(c) \/ ScanGoesBack(c)
    BY <1>2, <2>6 DEF ScanStores, ScanGoesBack, tuneVars
  <2> QED
    BY <1>5, <2>1, <2>2, <2>3, <2>4, <2>5, <2>6 DEF Scan
<1>6. CASE RequestState \/ HandlerTakes \/ HandlerFlags \/ HandlerSets
  BY <1>6 DEF RequestState, HandlerTakes, HandlerFlags, HandlerSets, tuneVars,
     clientVars, argVars
<1> QED
  BY <1>1, <1>3, <1>4, <1>5, <1>6 DEF Next

\* However many clients scan and tune at once, scanning is never left set by a scan
\* that has run si_ctl and is over.
THEOREM ScanFlagIsCleared == Spec => []ScanFlagMeansScan
<1>1. Init => PlacesOK /\ ScanFlagMeansScan
  BY InitPlaces DEF Init, ScanFlagMeansScan
<1>2. PlacesOK /\ ScanFlagMeansScan /\ [Next]_vars => (PlacesOK /\ ScanFlagMeansScan)'
  BY NextPlaces, NextScanFlag
<1> QED
  BY <1>1, <1>2, PTL DEF Spec

-----------------------------------------------------------------------------
(* Types, and where chip, frequency and event agree *)

\* A frequency that a scan stores has been found.
TypeInv == TypeOK /\ \A c \in Clients : pc[c] = "sc_store" => found[c] # 0

\* The start has the types.
LEMMA InitTypes == Init => TypeInv
<1>1. MinFreq \in Channels /\ << >> \in Seq({"PAUSED", "PLAYING"})
  BY EndsAreChannels
<1> QED
  BY <1>1 DEF Init, TypeInv, TypeOK, Places, PipelineStates

\* What is posted on the bus and taken from it are states.
LEMMA BusKeeps ==
    ASSUME TypeOK, RequestState \/ HandlerTakes
    PROVE  bus' \in Seq({"PAUSED", "PLAYING"})
<1>1. CASE RequestState
  <2>1. bus \in Seq({"PAUSED", "PLAYING"})
        /\ \E state \in {"PAUSED", "PLAYING"} : bus' = Append(bus, state)
    BY <1>1 DEF TypeOK, RequestState
  <2> QED
    BY <2>1
<1>2. CASE HandlerTakes
  <2>1. bus \in Seq({"PAUSED", "PLAYING"}) /\ bus # << >> /\ bus' = Tail(bus)
    BY <1>2 DEF TypeOK, HandlerTakes
  <2> QED
    BY <2>1
<1> QED
  BY <1>1, <1>2

\* Every step keeps the types: only frequencies of the band are tuned to, found and sent.
LEMMA NextTypes == TypeInv /\ [Next]_vars => TypeInv'
<1> SUFFICES ASSUME TypeInv, [Next]_vars PROVE TypeInv'
  OBVIOUS
<1>0. MinFreq \in Channels /\ << >> \in Seq({"PAUSED", "PLAYING"})
  BY EndsAreChannels
<1> USE <1>0 DEF TypeInv, TypeOK, Places, ScanPlaces, StartOrStopPlaces, PipelineStates,
            At, Goto, Step, Call, playVars, tuneVars, argVars, clientVars
<1>1. CASE UNCHANGED vars
  BY <1>1 DEF vars
<1>2. ASSUME NEW c \in Clients, SetFrequency(c) PROVE TypeInv'
  <2>1. CASE SetFrequencyCall(c)
    BY <2>1 DEF SetFrequencyCall
  <2>2. CASE SetFrequencyTunes(c)
    BY <2>2 DEF SetFrequencyTunes
  <2>3. CASE SetFrequencyFails(c)
    BY <2>3 DEF SetFrequencyFails
  <2>4. CASE SetFrequencyStores(c)
    BY <2>4 DEF SetFrequencyStores
  <2>5. CASE CallbackReads(c)
    BY <2>5 DEF CallbackReads
  <2>6. CASE CallbackSends(c)
    BY <2>6 DEF CallbackSends
  <2> QED
    BY <1>2, <2>1, <2>2, <2>3, <2>4, <2>5, <2>6 DEF SetFrequency
<1>3. ASSUME NEW c \in Clients, StartOrStop(c) PROVE TypeInv'
  <2>1. CASE StartCall(c)
    BY <2>1 DEF StartCall
  <2>2. CASE StartPlays(c)
    BY <2>2 DEF StartPlays
  <2>3. CASE StartMarks(c)
    BY <2>3 DEF StartMarks
  <2>4. CASE StopCall(c)
    BY <2>4 DEF StopCall
  <2>5. CASE StopMarks(c)
    BY <2>5 DEF StopMarks
  <2>6. CASE StopPipeline(c)
    <3>1. bus' \in Seq({"PAUSED", "PLAYING"})
      BY <1>0, <2>6 DEF StopPipeline
    <3>2. pipeline' \in PipelineStates
      BY <2>6 DEF StopPipeline
    <3> QED
      BY <2>6, <3>1, <3>2 DEF StopPipeline, PipelineStates, Busy
  <2>7. CASE StopUncorks(c)
    BY <2>7 DEF StopUncorks
  <2> QED
    BY <1>3, <2>1, <2>2, <2>3, <2>4, <2>5, <2>6, <2>7 DEF StartOrStop
<1>4. ASSUME NEW c \in Clients, Scan(c) PROVE TypeInv'
  <2>1. CASE ScanCall(c)
    BY <2>1 DEF ScanCall
  <2>2. CASE ScanMarks(c)
    BY <2>2 DEF ScanMarks
  <2>3. CASE ScanRunsSiCtl(c)
    BY <2>3 DEF ScanRunsSiCtl
  <2>4. CASE ScanPopenFails(c)
    BY <2>4 DEF ScanPopenFails
  <2>5. CASE ScanFinds(c)
    BY <2>5, ChannelsArePositive DEF ScanFinds
  <2>6. CASE ScanFails(c)
    BY <2>6 DEF ScanFails
  <2>7. CASE ScanStores(c)
    BY <2>7 DEF ScanStores
  <2>8. CASE ScanGoesBack(c)
    BY <2>8, ZenonT(40) DEF ScanGoesBack
  <2>9. CASE ScanReports(c)
    BY <2>9 DEF ScanReports
  <2>10. CASE ScanDone(c)
    BY <2>10 DEF ScanDone
  <2> QED
    BY <1>4, <2>1, <2>2, <2>3, <2>4, <2>5, <2>6, <2>7, <2>8, <2>9, <2>10 DEF Scan
<1>5. CASE RequestState
  BY <1>5, BusKeeps DEF RequestState
<1>6. CASE HandlerTakes
  <2>1. bus' \in Seq({"PAUSED", "PLAYING"})
    BY <1>6, BusKeeps
  <2>2. handler' \in Handling
    BY <1>6 DEF HandlerTakes, Handling
  <2> QED
    BY <1>6, <2>1, <2>2 DEF HandlerTakes
<1>7. CASE HandlerFlags \/ HandlerSets
  BY <1>7, ZenonT(40) DEF HandlerFlags, HandlerSets, Handling
<1> QED
  BY <1>1, <1>2, <1>3, <1>4, <1>5, <1>6, <1>7 DEF Next

\* The backend keeps its types, and tunes to, takes and sends only frequencies of the
\* band, however many clients tune and scan at once and whatever si_ctl fails to do.
THEOREM KfTypeCorrect == Spec => []TypeOK
<1>1. TypeInv => TypeOK
  BY DEF TypeInv
<1> QED
  BY <1>1, InitTypes, NextTypes, PTL DEF Spec

\* As long as no calls have overlapped there is one at most under way.
Alone == \A c, d \in Clients : pc[c] # "idle" /\ pc[d] # "idle" => c = d

\* Between a tune of the chip and the store of its frequency, and between that and the
\* event, the one call under way carries what is to be stored or sent.
TunerInv ==
    ~overlapped =>
        /\ Alone
        /\ \/ event \in {0, current_frequency}
           \/ \E c \in Clients : pc[c] \in {"cb_read", "cb_send"}
        /\ \/ ctlFailed \/ tuner = current_frequency
           \/ \E c \in Clients : pc[c] \in {"sf_store", "sc_store"}
        /\ \A c \in Clients :
              /\ pc[c] = "cb_send" => told[c] = current_frequency
              /\ pc[c] = "sf_store" => tuner = frequency[c]
              /\ pc[c] = "sc_store" => tuner = found[c]

\* A step that is taken without an overlap finds the other clients idle.
LEMMA StepAlone ==
    ASSUME NEW c \in Clients, NEW place, Goto(c, place), ~overlapped', PlacesOK
    PROVE  /\ ~overlapped
           /\ \A d \in Clients \ {c} : pc[d] = "idle" /\ pc'[d] = "idle"
           /\ pc'[c] = place
BY DEF Goto, PlacesOK

\* Each step of the one call under way brings chip, frequency or event up to date.
LEMMA NextTuner == PlacesOK /\ TypeInv /\ TunerInv /\ [Next]_vars => TunerInv'
<1> SUFFICES ASSUME PlacesOK, TypeInv, TunerInv, [Next]_vars, ~overlapped'
             PROVE  TunerInv'
  BY DEF TunerInv
<1> USE DEF TypeInv, TypeOK, TunerInv, Alone, At, Step, Call, playVars, tuneVars, argVars,
            clientVars
<1>1. CASE UNCHANGED vars
  BY <1>1 DEF vars
<1>2. ASSUME NEW c \in Clients, SetFrequency(c) PROVE TunerInv'
  <2>1. CASE SetFrequencyCall(c)
    BY <2>1, StepAlone DEF SetFrequencyCall
  <2>2. CASE SetFrequencyTunes(c)
    BY <2>2, StepAlone DEF SetFrequencyTunes
  <2>3. CASE SetFrequencyFails(c)
    BY <2>3, StepAlone DEF SetFrequencyFails
  <2>4. CASE SetFrequencyStores(c)
    BY <2>4, StepAlone DEF SetFrequencyStores
  <2>5. CASE CallbackReads(c)
    BY <2>5, StepAlone DEF CallbackReads
  <2>6. CASE CallbackSends(c)
    BY <2>6, StepAlone DEF CallbackSends
  <2> QED
    BY <1>2, <2>1, <2>2, <2>3, <2>4, <2>5, <2>6 DEF SetFrequency
<1>3. ASSUME NEW c \in Clients, StartOrStop(c) PROVE TunerInv'
  <2>1. CASE StartCall(c)
    BY <2>1, StepAlone DEF StartCall
  <2>2. CASE StartPlays(c)
    BY <2>2, StepAlone DEF StartPlays
  <2>3. CASE StartMarks(c)
    BY <2>3, StepAlone DEF StartMarks
  <2>4. CASE StopCall(c)
    BY <2>4, StepAlone DEF StopCall
  <2>5. CASE StopMarks(c)
    BY <2>5, StepAlone DEF StopMarks
  <2>6. CASE StopPipeline(c)
    BY <2>6, StepAlone DEF StopPipeline
  <2>7. CASE StopUncorks(c)
    BY <2>7, StepAlone DEF StopUncorks
  <2> QED
    BY <1>3, <2>1, <2>2, <2>3, <2>4, <2>5, <2>6, <2>7 DEF StartOrStop
<1>4. ASSUME NEW c \in Clients, Scan(c) PROVE TunerInv'
  <2>1. CASE ScanCall(c)
    BY <2>1, StepAlone DEF ScanCall
  <2>2. CASE ScanMarks(c)
    BY <2>2, StepAlone DEF ScanMarks
  <2>3. CASE ScanRunsSiCtl(c)
    BY <2>3, StepAlone DEF ScanRunsSiCtl
  <2>4. CASE ScanPopenFails(c)
    BY <2>4, StepAlone DEF ScanPopenFails
  <2>5. CASE ScanFinds(c)
    BY <2>5, StepAlone DEF ScanFinds
  <2>6. CASE ScanFails(c)
    BY <2>6, StepAlone DEF ScanFails
  <2>7. CASE ScanStores(c)
    BY <2>7, StepAlone DEF ScanStores
  <2>8. CASE ScanGoesBack(c)
    BY <2>8, StepAlone DEF ScanGoesBack
  <2>9. CASE ScanReports(c)
    BY <2>9, StepAlone DEF ScanReports
  <2>10. CASE ScanDone(c)
    BY <2>10, StepAlone DEF ScanDone
  <2> QED
    BY <1>4, <2>1, <2>2, <2>3, <2>4, <2>5, <2>6, <2>7, <2>8, <2>9, <2>10 DEF Scan
<1>5. CASE RequestState \/ HandlerTakes \/ HandlerFlags \/ HandlerSets
  BY <1>5 DEF RequestState, HandlerTakes, HandlerFlags, HandlerSets
<1> QED
  BY <1>1, <1>2, <1>3, <1>4, <1>5 DEF Next

\* As long as no calls overlap, clients and backend agree on the frequency once all is
\* quiet, and so does the chip, unless the last si_ctl that was to tune it failed: a
\* failure of an earlier one has left nothing behind.
THEOREM TunersAgree == Spec => []TunerAgreement
<1>1. Init => PlacesOK /\ TypeInv /\ TunerInv
  BY InitPlaces, InitTypes DEF Init, TunerInv, Alone
<1>2. PlacesOK /\ TypeInv /\ TunerInv /\ [Next]_vars => (PlacesOK /\ TypeInv /\ TunerInv)'
  BY NextPlaces, NextTypes, NextTuner
<1>3. TunerInv => TunerAgreement
  BY DEF TunerInv, TunerAgreement, Quiet, At
<1> QED
  BY <1>1, <1>2, <1>3, PTL DEF Spec

-----------------------------------------------------------------------------
(* The state of the pipeline *)

Expected(state) ==
    state \in IF ~running THEN {"READY", "NULL"}
              ELSE IF corking THEN {"PAUSED"} ELSE {"PLAYING"}

\* While a start has begun to play or a stop to mark, and not crossed by a request, the
\* handler rests; otherwise it handles requests of a running radio only, and has brought
\* the flag before the state up to date.
PlayInv ==
    ~overlapped =>
        /\ Alone
        /\ \A c \in Clients : pc[c] \in {"sp_null", "sp_uncork"} => ~running
        /\ ~crossed =>
              /\ \A c \in Clients :
                    /\ pc[c] \in {"st_mark", "sp_null", "sp_uncork"} => handler = "idle"
                    /\ pc[c] = "st_mark" => pipeline = "PLAYING"
                    /\ pc[c] = "sp_uncork" => pipeline = "NULL" /\ bus = << >>
              /\ (\A c \in Clients : pc[c] \notin {"st_mark", "sp_null", "sp_uncork"}) =>
                    /\ handler # "idle" \/ bus # << >> => running
                    /\ handler = "set PAUSED" => corking
                    /\ handler = "set PLAYING" => ~corking
                    /\ handler \notin {"set PAUSED", "set PLAYING"} => Expected(pipeline)

\* So do all steps of clients and handler.
LEMMA NextPlay == PlacesOK /\ TypeInv /\ PlayInv /\ [Next]_vars => PlayInv'
<1> SUFFICES ASSUME PlacesOK, TypeInv, PlayInv, [Next]_vars, ~overlapped'
             PROVE  PlayInv'
  BY DEF PlayInv
<1> USE DEF TypeInv, TypeOK, PlayInv, Expected, Alone, At, Step, Call, Busy, playVars, tuneVars,
            argVars, clientVars, StartOrStopPlaces, Handling
<1>1. CASE UNCHANGED vars
  BY <1>1 DEF vars
<1>2. ASSUME NEW c \in Clients, SetFrequency(c) PROVE PlayInv'
  <2>1. CASE SetFrequencyCall(c)
    BY <2>1, StepAlone DEF SetFrequencyCall
  <2>2. CASE SetFrequencyTunes(c)
    BY <2>2, StepAlone DEF SetFrequencyTunes
  <2>3. CASE SetFrequencyFails(c)
    BY <2>3, StepAlone DEF SetFrequencyFails
  <2>4. CASE SetFrequencyStores(c)
    BY <2>4, StepAlone DEF SetFrequencyStores
  <2>5. CASE CallbackReads(c)
    BY <2>5, StepAlone DEF CallbackReads
  <2>6. CASE CallbackSends(c)
    BY <2>6, StepAlone, ZenonT(40) DEF CallbackSends
  <2> QED
    BY <1>2, <2>1, <2>2, <2>3, <2>4, <2>5, <2>6 DEF SetFrequency
<1>3. ASSUME NEW c \in Clients, StartOrStop(c) PROVE PlayInv'
  <2>1. CASE StartCall(c)
    BY <2>1, StepAlone DEF StartCall
  <2>2. CASE StartPlays(c)
    BY <2>2, StepAlone DEF StartPlays
  <2>3. CASE StartMarks(c)
    BY <2>3, StepAlone DEF StartMarks
  <2>4. CASE StopCall(c)
    BY <2>4, StepAlone DEF StopCall
  <2>5. CASE StopMarks(c)
    BY <2>5, StepAlone DEF StopMarks
  <2>6. CASE StopPipeline(c)
    BY <2>6, StepAlone DEF StopPipeline
  <2>7. CASE StopUncorks(c)
    BY <2>7, StepAlone DEF StopUncorks
  <2> QED
    BY <1>3, <2>1, <2>2, <2>3, <2>4, <2>5, <2>6, <2>7 DEF StartOrStop
<1>4. ASSUME NEW c \in Clients, Scan(c) PROVE PlayInv'
  <2>1. CASE ScanCall(c)
    BY <2>1, StepAlone DEF ScanCall
  <2>2. CASE ScanMarks(c)
    BY <2>2, StepAlone DEF ScanMarks
  <2>3. CASE ScanRunsSiCtl(c)
    BY <2>3, StepAlone DEF ScanRunsSiCtl
  <2>4. CASE ScanPopenFails(c)
    BY <2>4, StepAlone DEF ScanPopenFails
  <2>5. CASE ScanFinds(c)
    BY <2>5, StepAlone DEF ScanFinds
  <2>6. CASE ScanFails(c)
    BY <2>6, StepAlone DEF ScanFails
  <2>7. CASE ScanStores(c)
    BY <2>7, StepAlone DEF ScanStores
  <2>8. CASE ScanGoesBack(c)
    BY <2>8, StepAlone DEF ScanGoesBack
  <2>9. CASE ScanReports(c)
    BY <2>9, StepAlone DEF ScanReports
  <2>10. CASE ScanDone(c)
    BY <2>10, StepAlone DEF ScanDone
  <2> QED
    BY <1>4, <2>1, <2>2, <2>3, <2>4, <2>5, <2>6, <2>7, <2>8, <2>9, <2>10 DEF Scan
<1>5. CASE RequestState
  BY <1>5 DEF RequestState
<1>6. CASE HandlerTakes
  BY <1>6 DEF HandlerTakes
<1>7. CASE HandlerFlags
  BY <1>7 DEF HandlerFlags
<1>8. CASE HandlerSets
  BY <1>8 DEF HandlerSets
<1> QED
  BY <1>1, <1>2, <1>3, <1>4, <1>5, <1>6, <1>7, <1>8 DEF Next

\* As long as no start or stop was crossed by another call or a request of the audio
\* server, the pipeline is in the state that running and corking say once all is quiet,
\* however the requests themselves are interleaved with calls.
THEOREM PipelineAgrees == Spec => []PlaybackAgreement
<1>1. Init => PlacesOK /\ TypeInv /\ PlayInv
  BY InitPlaces, InitTypes DEF Init, PlayInv, Alone, Expected
<1>2. PlacesOK /\ TypeInv /\ PlayInv /\ [Next]_vars => (PlacesOK /\ TypeInv /\ PlayInv)'
  BY NextPlaces, NextTypes, NextPlay
<1>3. PlayInv => PlaybackAgreement
  BY DEF PlayInv, PlaybackAgreement, Expected, Quiet, At
<1> QED
  BY <1>1, <1>2, <1>3, PTL DEF Spec

-----------------------------------------------------------------------------
(* The radio that every backend promises to be *)

Announced == IF event = 0 THEN MinFreq ELSE event

\* As long as no calls have overlapped, a frequency is announced before the next is
\* stored, and a scan that is about to be marked has been found in place to begin.
RadioInv ==
    ~overlapped =>
        /\ \/ Announced = current_frequency
           \/ \E c \in Clients : pc[c] \in {"cb_read", "cb_send"}
        /\ \A c \in Clients : pc[c] = "sc_mark" => running /\ ~scanning

KfInv == PlacesOK /\ TypeInv /\ TunerInv

\* Nobody else stores, announces, stops or scans between two steps of the one call.
LEMMA NextRadio == KfInv /\ RadioInv /\ [Next]_vars => RadioInv'
<1> SUFFICES ASSUME KfInv, RadioInv, [Next]_vars, ~overlapped'
             PROVE  RadioInv'
  BY DEF RadioInv
<1> USE ChannelsArePositive
    DEF KfInv, TypeInv, TypeOK, TunerInv, RadioInv, Announced, Alone, At, Step, Call,
        playVars, tuneVars, argVars, clientVars
<1>1. CASE UNCHANGED vars
  BY <1>1 DEF vars
<1>2. ASSUME NEW c \in Clients, SetFrequency(c) PROVE RadioInv'
  <2>1. CASE SetFrequencyCall(c)
    BY <2>1, StepAlone DEF SetFrequencyCall
  <2>2. CASE SetFrequencyTunes(c)
    BY <2>2, StepAlone DEF SetFrequencyTunes
  <2>3. CASE SetFrequencyFails(c)
    BY <2>3, StepAlone DEF SetFrequencyFails
  <2>4. CASE SetFrequencyStores(c)
    BY <2>4, StepAlone DEF SetFrequencyStores
  <2>5. CASE CallbackReads(c)
    BY <2>5, StepAlone DEF CallbackReads
  <2>6. CASE CallbackSends(c)
    <3>1. /\ ~overlapped /\ pc'[c] \in {"idle", "sc_found"}
          /\ \A d \in Clients \ {c} : pc'[d] = "idle"
      BY <2>6, StepAlone DEF CallbackSends, PlacesOK
    <3>2. event' = current_frequency /\ current_frequency' = current_frequency
      BY <2>6, <3>1 DEF CallbackSends
    <3> QED
      BY <3>1, <3>2
  <2> QED
    BY <1>2, <2>1, <2>2, <2>3, <2>4, <2>5, <2>6 DEF SetFrequency
<1>3. ASSUME NEW c \in Clients, StartOrStop(c) PROVE RadioInv'
  <2>1. CASE StartCall(c) \/ StopCall(c)
    BY <2>1, StepAlone DEF StartCall, StopCall
  <2>2. CASE StartPlays(c) \/ StartMarks(c)
    BY <2>2, StepAlone DEF StartPlays, StartMarks
  <2>3. CASE StopMarks(c) \/ StopPipeline(c) \/ StopUncorks(c)
    BY <2>3, StepAlone DEF StopMarks, StopPipeline, StopUncorks
  <2> QED
    BY <1>3, <2>1, <2>2, <2>3 DEF StartOrStop
<1>4. ASSUME NEW c \in Clients, Scan(c) PROVE RadioInv'
  <2>1. CASE ScanCall(c) \/ ScanMarks(c)
    BY <2>1, StepAlone DEF ScanCall, ScanMarks
  <2>2. CASE ScanRunsSiCtl(c) \/ ScanPopenFails(c)
    BY <2>2, StepAlone DEF ScanRunsSiCtl, ScanPopenFails
  <2>3. CASE ScanFinds(c) \/ ScanFails(c)
    BY <2>3, StepAlone DEF ScanFinds, ScanFails
  <2>4. CASE ScanStores(c)
    BY <2>4, StepAlone DEF ScanStores
  <2>5. CASE ScanGoesBack(c)
    BY <2>5, StepAlone DEF ScanGoesBack
  <2>6. CASE ScanReports(c) \/ ScanDone(c)
    BY <2>6, StepAlone DEF ScanReports, ScanDone
  <2> QED
    BY <1>4, <2>1, <2>2, <2>3, <2>4, <2>5, <2>6 DEF Scan
<1>5. CASE RequestState \/ HandlerTakes \/ HandlerFlags \/ HandlerSets
  BY <1>5 DEF RequestState, HandlerTakes, HandlerFlags, HandlerSets
<1> QED
  BY <1>1, <1>2, <1>3, <1>4, <1>5 DEF Next

\* The abstract radio has the same band.
LEMMA SameChannels == Radio!Channels = Channels
  BY DEF Channels, Valid, Radio!Channels, Radio!Valid

\* Each step of a call that overlaps with no other is a step of the abstract radio or
\* none; the handler of the audio server's requests takes none.
LEMMA NextImplements ==
    ASSUME KfInv, RadioInv, [Next]_vars, ~overlapped'
    PROVE  [Radio!Next]_Radio!vars
<1> USE ChannelsArePositive
    DEF KfInv, TypeInv, TypeOK, TunerInv, RadioInv, Announced, Alone, At, Step, Call,
        playVars, tuneVars, Radio!vars
<1>1. CASE UNCHANGED vars
  BY <1>1 DEF vars
<1>2. ASSUME NEW c \in Clients, SetFrequency(c)
      PROVE  [Radio!Next]_Radio!vars
  <2>1. CASE SetFrequencyStores(c)
    BY <2>1, StepAlone, SameChannels DEF SetFrequencyStores, Radio!Next, Radio!Retune
  <2>2. CASE CallbackSends(c)
    BY <2>2, StepAlone DEF CallbackSends, Radio!Next, Radio!Announce
  <2>3. CASE SetFrequencyCall(c) \/ SetFrequencyTunes(c) \/ SetFrequencyFails(c)
             \/ CallbackReads(c)
    BY <2>3 DEF SetFrequencyCall, SetFrequencyTunes, SetFrequencyFails, CallbackReads
  <2> QED
    BY <1>2, <2>1, <2>2, <2>3 DEF SetFrequency
<1>3. ASSUME NEW c \in Clients, StartOrStop(c)
      PROVE  [Radio!Next]_Radio!vars
  <2>1. CASE StartMarks(c) \/ StopMarks(c)
    BY <2>1 DEF StartMarks, StopMarks, Radio!Next, Radio!StartOrStop
  <2>2. CASE StartCall(c) \/ StartPlays(c) \/ StopCall(c) \/ StopPipeline(c) \/ StopUncorks(c)
    BY <2>2 DEF StartCall, StartPlays, StopCall, StopPipeline, StopUncorks
  <2> QED
    BY <1>3, <2>1, <2>2 DEF StartOrStop
<1>4. ASSUME NEW c \in Clients, Scan(c)
      PROVE  [Radio!Next]_Radio!vars
  <2>1. CASE ScanMarks(c)
    BY <2>1, StepAlone DEF ScanMarks, Radio!Next, Radio!BeginSeek
  <2>2. CASE ScanStores(c)
    BY <2>2, StepAlone, SameChannels DEF ScanStores, Radio!Next, Radio!Retune
  <2>3. CASE ScanDone(c)
    BY <2>3, StepAlone DEF ScanDone, Radio!Next, Radio!EndSeek
  <2>4. CASE ScanCall(c) \/ ScanRunsSiCtl(c) \/ ScanPopenFails(c) \/ ScanFinds(c)
             \/ ScanFails(c) \/ ScanGoesBack(c) \/ ScanReports(c)
    BY <2>4 DEF ScanCall, ScanRunsSiCtl, ScanPopenFails, ScanFinds, ScanFails,
       ScanGoesBack, ScanReports
  <2> QED
    BY <1>4, <2>1, <2>2, <2>3, <2>4 DEF Scan
<1>5. CASE RequestState \/ HandlerTakes \/ HandlerFlags \/ HandlerSets
  BY <1>5 DEF RequestState, HandlerTakes, HandlerFlags, HandlerSets
<1> QED
  BY <1>1, <1>2, <1>3, <1>4, <1>5 DEF Next

\* As long as no calls overlap, whatever si_ctl fails to do and the audio server asks for,
\* this backend is the radio every backend promises to be.
THEOREM KingfisherIsARadio == Spec => ImplementsRadio
<1>1. Init => KfInv /\ RadioInv /\ Radio!Init
  BY InitPlaces, InitTypes
  DEF Init, KfInv, TunerInv, RadioInv, Announced, Alone, Radio!Init
<1>2. KfInv /\ RadioInv /\ [Next]_vars => KfInv' /\ RadioInv'
  BY NextPlaces, NextTypes, NextTuner, NextRadio DEF KfInv
<1>3. KfInv /\ RadioInv /\ [Next]_vars => [Radio!Next \/ overlapped']_(Radio!vars)
  BY NextImplements
<1> QED
  BY <1>1, <1>2, <1>3, PTL DEF Spec, ImplementsRadio

=============================================================================
