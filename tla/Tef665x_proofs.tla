--------------------------- MODULE Tef665x_proofs ---------------------------
(***************************************************************************)
(* The TEF665x radio, for any band plans, callers and numbers of threads:  *)
(* every frequency is a channel, there is one scan at a time and it leaves *)
(* nothing locked, the chip ends up where the radio says, and one thread   *)
(* polls the RDS data as long as one caller makes the calls that begin it. *)
(***************************************************************************)
EXTENDS RadioBinding, FiniteSetTheorems, WellFoundedInduction, TLAPS

AMp == INSTANCE BandPlan_proofs
       WITH MinFreq <- AmMin, MaxFreq <- AmMax, FreqStep <- AmStep
FMp == INSTANCE BandPlan_proofs
       WITH MinFreq <- FmMin, MaxFreq <- FmMax, FreqStep <- FmStep

-----------------------------------------------------------------------------
(* The two bands *)

\* The constants of the bands, spelled out.
LEMMA BandConstants ==
    /\ AmMin \in Nat \ {0} /\ AmMax \in Nat /\ AmStep \in Nat \ {0}
    /\ FmMin \in Nat \ {0} /\ FmMax \in Nat /\ FmStep \in Nat \ {0}
    /\ AmMin < AmMax /\ AmMax < FmMin /\ FmMin < FmMax
    /\ (AmMax - AmMin) % AmStep = 0 /\ (FmMax - FmMin) % FmStep = 0
BY BandsAssumption, ChipAssumption DEF AM!BandPlanAssumption, FM!BandPlanAssumption

\* A band's channels are numbers between its ends, which are channels themselves.
LEMMA ChannelsAreBetween ==
    ASSUME NEW band \in Bands
    PROVE  /\ \A f \in ChannelsOf(band) : f \in Nat /\ f \in MinOf(band) .. MaxOf(band)
           /\ MinOf(band) \in ChannelsOf(band) /\ MaxOf(band) \in ChannelsOf(band)
           /\ StepOf(band) \in Nat \ {0}
BY BandConstants
DEF Bands, ChannelsOf, MinOf, MaxOf, StepOf, AM!Channels, FM!Channels, AM!Valid, FM!Valid

\* No channel of one band is between the other band's ends.
LEMMA BandsApart ==
    ASSUME NEW band \in Bands, NEW f \in AM!Channels \cup FM!Channels,
           f \in MinOf(band) .. MaxOf(band)
    PROVE  f \in ChannelsOf(band)
BY BandConstants
DEF Bands, ChannelsOf, MinOf, MaxOf, AM!Channels, FM!Channels, AM!Valid, FM!Valid

\* As many steps as one likes keep to the FM grid.
LEMMA FmStepsKeepGrid ==
    ASSUME NEW f \in FM!Channels, NEW k \in Nat, NEW step \in {FmStep, -FmStep},
           f + step * k \in FmMin .. FmMax
    PROVE  f + step * k \in FM!Channels
<1>1. /\ f - FmMin \in Int /\ (f - FmMin) % FmStep = 0 /\ f \in Nat
      /\ FmStep \in Nat \ {0} /\ FmMin \in Nat
  BY BandConstants DEF FM!Channels, FM!Valid
<1>2. PICK q \in Int : f - FmMin = FmStep * q
  BY <1>1, FMp!NoRemainderIsMultiple, BandsAssumption
  DEF FM!BandPlanAssumption, FMp!BandPlanAssumption
<1>3. PICK j \in {k, -k} : step * k = FmStep * j /\ step * k \in Int
  <2>1. CASE step = FmStep
    BY <1>1, <2>1
  <2>2. CASE step = -FmStep
    <3>1. (-FmStep) * k = FmStep * (-k) /\ FmStep * (-k) \in Int
      BY <1>1, SMTT(20)
    <3>2. QED
      BY <2>2, <3>1
  <2>3. QED
    BY <2>1, <2>2
<1>4. FmStep * (q + j) = FmStep * q + FmStep * j
  BY <1>1, FMp!Distributes, BandsAssumption
  DEF FM!BandPlanAssumption, FMp!BandPlanAssumption
<1>5. (f + step * k) - FmMin = FmStep * (q + j) /\ f + step * k \in Int
  BY <1>1, <1>2, <1>3, <1>4
<1>6. ((f + step * k) - FmMin) % FmStep = 0
  BY <1>1, <1>5, FMp!MultipleHasNoRemainder, BandsAssumption
  DEF FM!BandPlanAssumption, FMp!BandPlanAssumption
<1>7. QED
  BY <1>6, <1>1 DEF FM!Channels, FM!Valid

\* A set of numbers that is not empty has a least one.
LEMMA LeastElement ==
    ASSUME NEW S \in SUBSET Nat, S # {}
    PROVE  \E m \in S : \A n \in S : m =< n
<1> DEFINE Less == {ss \in Nat \X Nat : ss[1] < ss[2]}
<1>1. IsWellFoundedOn(Less, Nat)
  BY NatLessThanWellFounded DEF OpToRel
<1>2. PICK m \in S : \A n \in S : <<n, m>> \notin Less
  <2> HIDE DEF Less
  <2> QED
    BY <1>1, WFMin, Zenon
<1>3. ASSUME NEW n \in S
      PROVE  m =< n
  <2>1. n \in Nat /\ m \in Nat /\ <<n, m>> \notin Less
    BY <1>2
  <2>2. <<n, m>> \in Nat \X Nat /\ <<n, m>>[1] = n /\ <<n, m>>[2] = m
    BY <2>1
  <2>3. ~(n < m)
    BY <2>1, <2>2
  <2> QED
    BY <2>1, <2>3
<1> QED
  BY <1>3

\* The loop over the FM steps ends, after one step or more.
LEMMA LookAheadIsEnough ==
    ASSUME NEW f \in FM!Channels, NEW step \in {FmStep, -FmStep}, NEW init \in Nat
    PROVE  \E k \in Nat : NextOnGrid(f, step, init) = f + step * k
<1> DEFINE Stops == {k \in 1 .. LookAhead : Round(f + k * step) \/ f + k * step = init}
<1>1. PICK k \in 1 .. LookAhead : Round(f + k * step)
  BY LookAheadAssumption
<1>2. k \in Stops /\ Stops \subseteq Nat
  BY <1>1, LookAheadAssumption
<1>3. PICK m \in Stops : \A n \in Stops : m =< n
  <2> HIDE DEF Stops
  <2> QED
    BY <1>2, LeastElement
<1>4. Min(Stops) \in Stops
  BY <1>3 DEF Min
<1>5. QED
  BY <1>2, <1>4 DEF NextOnGrid

\* The channel after a channel: the scan's step, wrapped, stays on the band's grid.
LEMMA NextFrequencyIsChannel ==
    ASSUME NEW s \in ScanThreads, current_band \in Bands,
           current_am_frequency \in AM!Channels, current_fm_frequency \in FM!Channels,
           scan[s].step \in {StepOf(current_band), -StepOf(current_band)},
           scan[s].init \in Nat
    PROVE  NextFrequency(s) \in ChannelsOf(current_band)
<1> DEFINE b == current_band
           step == scan[s].step
<1>1. SUFFICES ASSUME NEW next \in Int, next \in MinOf(b) .. MaxOf(b) =>
                                               next \in ChannelsOf(b),
                      next = IF b = "FM"
                             THEN NextOnGrid(Current, step, scan[s].init)
                             ELSE Current + step
               PROVE  NextFrequency(s) \in ChannelsOf(b)
  <2>1. CASE b = "FM"
    <3>1. Current \in FM!Channels /\ step \in {FmStep, -FmStep}
      BY <2>1 DEF Current, StepOf
    <3>2. PICK k \in Nat : NextOnGrid(Current, step, scan[s].init) = Current + step * k
      BY <3>1, LookAheadIsEnough
    <3>3. Current + step * k \in Int
      BY <3>1, BandConstants, ChannelsAreBetween DEF FM!Channels
    <3>4. Current + step * k \in FmMin .. FmMax => Current + step * k \in FM!Channels
      BY <3>1, FmStepsKeepGrid
    <3> QED
      BY <1>1, <2>1, <3>2, <3>3, <3>4 DEF MinOf, MaxOf, ChannelsOf
  <2>2. CASE b = "AM"
    <3>1. /\ Current \in Int /\ Current - AmMin \in Int
          /\ (Current - AmMin) % AmStep = 0
          /\ step \in {AmStep, -AmStep}
      BY <2>2, BandConstants DEF Current, StepOf, AM!Channels, AM!Valid
    <3>2. /\ ((Current - AmMin) + AmStep) % AmStep = 0
          /\ ((Current - AmMin) - AmStep) % AmStep = 0
      BY <3>1, BandConstants, AMp!StepKeepsRemainder, BandsAssumption
      DEF AM!BandPlanAssumption, AMp!BandPlanAssumption
    <3>3. Current + step \in Int /\ ((Current + step) - AmMin) % AmStep = 0
      <4>1. CASE step = AmStep
        <5>1. (Current + step) - AmMin = (Current - AmMin) + AmStep
          BY <3>1, <4>1, BandConstants
        <5> QED
          BY <3>1, <3>2, <4>1, <5>1, BandConstants
      <4>2. CASE step = -AmStep
        <5>1. (Current + step) - AmMin = (Current - AmMin) - AmStep
          BY <3>1, <4>2, BandConstants
        <5> QED
          BY <3>1, <3>2, <4>2, <5>1, BandConstants
      <4> QED
        BY <3>1, <4>1, <4>2
    <3>4. Current + step \in AmMin .. AmMax => Current + step \in AM!Channels
      BY <3>3, BandConstants DEF AM!Channels, AM!Valid
    <3> QED
      BY <1>1, <2>2, <3>3, <3>4 DEF MinOf, MaxOf, ChannelsOf
  <2> QED
    BY <2>1, <2>2 DEF Bands
<1>2. /\ MinOf(b) \in ChannelsOf(b) /\ MaxOf(b) \in ChannelsOf(b)
      /\ MinOf(b) \in Int /\ MaxOf(b) \in Int /\ MinOf(b) < MaxOf(b)
  BY ChannelsAreBetween, BandConstants DEF Bands, MinOf, MaxOf
<1>3. NextFrequency(s) = IF next > MaxOf(b) THEN MinOf(b)
                         ELSE IF next < MinOf(b) THEN MaxOf(b) ELSE next
  BY <1>1, <1>2 DEF NextFrequency
<1> QED
  BY <1>1, <1>2, <1>3

-----------------------------------------------------------------------------
(* Type correctness: what is about to be tuned to is a channel, too. *)

Searching == {"home", "loop", "step", "wait", "judge"}

ArgumentsOnGrid ==
    \A c \in Callers :
        /\ pc[c] = "sf_test" => frequency[c] \in AM!Channels \cup FM!Channels
        /\ pc[c] = "sf_tune" => frequency[c] \in ChannelsOf(current_band)

ScansOnGrid ==
    \A s \in ScanThreads :
        scan[s].at \in Searching =>
            /\ scan[s].init \in ChannelsOf(current_band)
            /\ scan[s].step \in {StepOf(current_band), -StepOf(current_band)}

TypeInv == TypeOK /\ (~crossed => ArgumentsOnGrid /\ ScansOnGrid)

Scans == [at: ScanPlaces, init: Nat, new: Nat, step: Int, direction: Directions]

\* The locals of a thread that does not run have their types.
LEMMA NoScanType == NoScan \in Scans
BY DEF NoScan, Scans, ScanPlaces, Directions

\* So have those of a thread just created.
LEMMA NewScanType ==
    ASSUME NEW d \in Directions
    PROVE  /\ [NoScan EXCEPT !.at = "created", !.direction = d] \in Scans
           /\ [NoScan EXCEPT !.at = "created", !.direction = d].at = "created"
<1>1. [NoScan EXCEPT !.at = "created"] \in Scans
  BY NoScanType DEF Scans, ScanPlaces
<1>2. [NoScan EXCEPT !.at = "created"].at = "created"
  BY NoScanType DEF Scans
<1>3. [NoScan EXCEPT !.at = "created", !.direction = d]
        = [[NoScan EXCEPT !.at = "created"] EXCEPT !.direction = d]
  OBVIOUS
<1> QED
  BY <1>1, <1>2, <1>3 DEF Scans

\* The backend begins on both grids.
LEMMA TypeInit == Init => TypeInv
<1> SUFFICES ASSUME Init PROVE TypeInv
  OBVIOUS
<1>1. /\ AmMin \in AM!Channels /\ AmMin \in Nat
      /\ FmMin \in FM!Channels /\ FmMin \in Nat
  BY BandConstants DEF AM!Channels, FM!Channels, AM!Valid, FM!Valid
<1>2. ChipTypeOK
  BY DEF Init, TefInit, ChipInit, ChipTypeOK
<1>3. pc \in [Callers -> Places] /\ \A c \in Callers : pc[c] = "idle"
  BY DEF Init, TefInit, Places
<1>4. scan \in [ScanThreads -> Scans] /\ \A s \in ScanThreads : scan[s].at = "none"
  BY NoScanType DEF Init, TefInit, NoScan
<1>5. TypeOK
  BY <1>1, <1>2, <1>3, <1>4 DEF Init, TefInit, TypeOK, TefTypeOK, Bands, Directions, Scans
<1> QED
  BY <1>3, <1>4, <1>5 DEF TypeInv, ArgumentsOnGrid, ScansOnGrid, Searching

\* A tune to a channel of the band keeps the types and the grid.
LEMMA TuneType ==
    ASSUME TypeOK, ~crossed, NEW f \in ChannelsOf(current_band), Tune(f),
           UNCHANGED current_band
    PROVE  /\ chip' \in [state: {"boot", "idle", "active"}, patched: BOOLEAN,
                      tuned: Nat, muted: BOOLEAN]
           /\ current_am_frequency' \in AM!Channels /\ current_am_frequency' \in Nat
           /\ current_fm_frequency' \in FM!Channels /\ current_fm_frequency' \in Nat
           /\ event' \in Nat
<1>1. f \in Nat /\ current_band \in Bands
  BY ChannelsAreBetween DEF TypeOK, TefTypeOK
<1>2. chip' \in [state: {"boot", "idle", "active"}, patched: BOOLEAN,
                 tuned: Nat, muted: BOOLEAN]
  BY <1>1 DEF Tune, TuneTo, Command, TypeOK, TefTypeOK, ChipTypeOK
<1> QED
  BY <1>1, <1>2 DEF Tune, Store, TypeOK, TefTypeOK, ChipTypeOK, Bands, ChannelsOf

\* Every step keeps the types and the grid, which a crossing need not.
LEMMA TypeNext ==
    ASSUME TypeInv, [Next]_vars
    PROVE  TypeInv'
<1> USE DEF TypeInv, TypeOK, TefTypeOK, ChipTypeOK
<1>1. CASE UNCHANGED vars
  BY <1>1 DEF vars, tuneVars, callVars, argVars, rdsVars, scanVars, ArgumentsOnGrid,
     ScansOnGrid
<1>2. CASE Beyond
  BY <1>1, <1>2 DEF Beyond
<1>3. CASE InitStep
  <2>1. chip' \in [state: {"boot", "idle", "active"}, patched: BOOLEAN,
                   tuned: Nat, muted: BOOLEAN]
    BY <1>3, ChipAssumption, ZenonT(40)
    DEF InitStep, InitEnds, Boot, PatchLoads, PatchFails, StartCmd, IdleState,
        WaitActive, Stage, TuneTo, SetMute, Command
  <2>2. boot' \in {"patch", "start", "idle", "active", "ready", "serving"}
    BY <1>3
    DEF InitStep, InitEnds, Boot, PatchLoads, PatchFails, StartCmd, IdleState,
        WaitActive, Stage
  <2>3. running' \in BOOLEAN /\ UNCHANGED <<tuneVars, callVars, rdsVars, scanVars,
                                           crossed, playing>>
    BY <1>3 DEF InitStep, InitEnds
  <2> QED
    BY <2>1, <2>2, <2>3 DEF tuneVars, callVars, argVars, rdsVars, scanVars,
       ArgumentsOnGrid, ScansOnGrid
<1>4. ASSUME NEW c \in Callers, Call(c) PROVE TypeInv'
  <2> USE DEF Goto, Step, Places, StartPlaces, StopPlaces, TunePlaces, Bands,
              Directions, tuneVars, callVars, argVars, rdsVars, scanVars
  <2>1. CASE FrequencyVerb(c)
    BY <1>4, <2>1, ChannelsAreBetween
    DEF FrequencyVerb, Verb, ArgumentsOnGrid, ScansOnGrid, ChannelsOf
  <2>2. CASE BandVerb(c)
    BY <2>2, ZenonT(40)
    DEF BandVerb, Verb, SetBand, OthersTune, ScansAlive, ArgumentsOnGrid, ScansOnGrid,
        Searching
  <2>3. CASE RdsVerb(c)
    BY <2>3 DEF RdsVerb, Verb, GetRdsInfo, ArgumentsOnGrid, ScansOnGrid, Unused, RdsAlive
  <2>4. CASE StartVerb(c) \/ StopVerb(c)
    BY <2>4, ZenonT(40) DEF StartVerb, StopVerb, TefStart, TefStop, SetMute, Command, Verb,
       ArgumentsOnGrid, ScansOnGrid
  <2>5. CASE ScanStartVerb(c) \/ OnEvent(c)
    <3>1. PICK d \in Directions : ScanStart(c, d) /\ UNCHANGED playing
      BY <2>5 DEF ScanStartVerb, OnEvent
    <3>2. /\ pc' \in [Callers -> Places] /\ direction' \in [Callers -> Directions]
          /\ \A e \in Callers : pc'[e] \in {"sf_test", "sf_tune"} => pc'[e] = pc[e]
      BY <3>1 DEF ScanStart, ScanCall
    <3> QED
      BY <3>1, <3>2 DEF ScanStart, ScanCall, ArgumentsOnGrid, ScansOnGrid
  <2>6. CASE ScanStopVerb(c)
    BY <2>6 DEF ScanStopVerb, ScanStop, ScanCall, ArgumentsOnGrid, ScansOnGrid
  <2> QED
    BY <1>4, <2>1, <2>2, <2>3, <2>4, <2>5, <2>6 DEF Call
<1>5. ASSUME NEW c \in Callers, GoesOn(c) PROVE TypeInv'
  <2> USE DEF Goto, Step, Places, StartPlaces, StopPlaces, TunePlaces, Bands,
              Directions, tuneVars, callVars, argVars, rdsVars, scanVars
  <2>0. ~crossed /\ UNCHANGED playing
    BY <1>5 DEF GoesOn
  <2>1. CASE SetFrequencyReturns(c)
    BY <2>0, <2>1 DEF SetFrequencyReturns, FindsSet, FindsClear, ArgumentsOnGrid, ScansOnGrid
  <2>2. CASE SetFrequencyTests(c)
    <3>1. crossed' \/ frequency[c] \in ChannelsOf(current_band)
      BY <2>0, <2>2, BandsApart DEF SetFrequencyTests, ArgumentsOnGrid
    <3> QED
      BY <2>0, <2>2, <3>1 DEF SetFrequencyTests, FindsClear, ArgumentsOnGrid, ScansOnGrid
  <2>3. CASE SetFrequencyTunes(c)
    <3>1. frequency[c] \in ChannelsOf(current_band)
      BY <2>0, <2>3 DEF SetFrequencyTunes, ArgumentsOnGrid
    <3> QED
      BY <2>0, <2>3, <3>1, TuneType DEF SetFrequencyTunes, ArgumentsOnGrid, ScansOnGrid
  <2>4. CASE SetFrequencyStopsRds(c)
    <3>1. RdsAlive \in SUBSET RdsThreads
      BY DEF RdsAlive
    <3>2. awaited' \in [Callers -> SUBSET RdsThreads] /\ RDS_Mutex' \in BOOLEAN
      BY <2>4, <3>1 DEF SetFrequencyStopsRds
    <3>3. PICK place \in {"idle", "sf_wait"} : pc' = [pc EXCEPT ![c] = place]
      BY <2>4 DEF SetFrequencyStopsRds
    <3>4. /\ pc' \in [Callers -> Places]
          /\ \A e \in Callers : pc'[e] \in {"sf_test", "sf_tune"} => pc'[e] = pc[e]
      BY <3>3
    <3>5. UNCHANGED <<chip, boot, running, tuneVars, argVars, rds, hurried, scanVars,
                      crossed>>
      BY <2>4 DEF SetFrequencyStopsRds
    <3> QED
      BY <2>0, <3>2, <3>4, <3>5 DEF ArgumentsOnGrid, ScansOnGrid
  <2>5. CASE Slept(c) /\ GetRdsInfo(c)
    BY <2>0, <2>5 DEF Slept, GetRdsInfo, RdsAlive, Unused, ArgumentsOnGrid, ScansOnGrid
  <2>6. CASE SetBandTunes(c)
    <3>1. Current \in Nat
      BY DEF Current
    <3> QED
      BY <2>0, <2>6, <3>1 DEF SetBandTunes, TuneTo, Command, ArgumentsOnGrid, ScansOnGrid
  <2>7. CASE ScanStartTests(c) \/ ScanStopWaits(c)
    BY <2>0, <2>7, ZenonT(40) DEF ScanStartTests, ScanStopWaits, ScanCall, FindsSet, FindsClear,
       ArgumentsOnGrid, ScansOnGrid
  <2>8. CASE ScanStopUnlocks(c) \/ ScanStartTries(c)
    BY <2>0, <2>8, ZenonT(40)
    DEF ScanStopUnlocks, ScanStartTries, ScanCall, ArgumentsOnGrid, ScansOnGrid
  <2>9. CASE ScanStartCreates(c)
    <3>1. /\ pc' \in [Callers -> Places] /\ direction' \in [Callers -> Directions]
          /\ \A e \in Callers : pc'[e] \in {"sf_test", "sf_tune"} => pc'[e] = pc[e]
      BY <2>9 DEF ScanStartCreates, ScanCall
    <3>2. \/ scan' = scan
          \/ \E s : scan' = [scan EXCEPT ![s] = [NoScan EXCEPT !.at = "created",
                                               !.direction = direction[c]]]
      BY <2>9 DEF ScanStartCreates
    <3> DEFINE new == [NoScan EXCEPT !.at = "created", !.direction = direction[c]]
    <3>3. new \in Scans /\ new.at = "created"
      BY NewScanType
    <3>4. scan' \in [ScanThreads -> Scans]
          /\ \A s \in ScanThreads : scan'[s].at \in Searching => scan'[s] = scan[s]
      <4> scan \in [ScanThreads -> Scans]
        BY DEF Scans
      <4>1. \E s : scan' = [scan EXCEPT ![s] = new] \/ scan' = scan
        BY <3>2
      <4> HIDE DEF new
      <4> QED
        BY <3>3, <4>1 DEF Searching
    <3> QED
      BY <2>0, <2>9, <3>1, <3>4 DEF ScanStartCreates, ScanCall, ArgumentsOnGrid,
         ScansOnGrid, Scans
  <2> QED
    BY <1>5, <2>1, <2>2, <2>3, <2>4, <2>5, <2>6, <2>7, <2>8, <2>9
    DEF GoesOn, SetFrequency, Scan
<1>6. ASSUME NEW s \in ScanThreads, ScanGoesOn(s) PROVE TypeInv'
  <2> USE DEF Thread, ScanPlaces, Searching, tuneVars, callVars, argVars, rdsVars, scanVars
  <2>0. ~crossed /\ UNCHANGED playing
    BY <1>6 DEF ScanGoesOn
  <2>1. CASE ScanBegins(s)
    <3>1. /\ Current \in ChannelsOf(current_band) /\ Current \in Nat
          /\ StepOf(current_band) \in Nat \ {0}
      BY <2>0, ChannelsAreBetween DEF Current, ChannelsOf, Bands
    <3>2. PICK step \in {StepOf(current_band), -StepOf(current_band)} :
             scan' = [scan EXCEPT ![s].at = "home", ![s].init = Current,
                                  ![s].direction = "FORWARD", ![s].step = step]
      BY <2>1 DEF ScanBegins
    <3>3. scan' = [scan EXCEPT ![s] = [scan[s] EXCEPT !.at = "home", !.init = Current,
                                          !.direction = "FORWARD", !.step = step]]
      BY <3>2
    <3> DEFINE new == [scan[s] EXCEPT !.at = "home", !.init = Current,
                                      !.direction = "FORWARD", !.step = step]
    <3>4. scan \in [ScanThreads -> Scans] /\ step \in Int
      BY <3>1 DEF Scans
    <3>5. /\ new \in Scans /\ new.init = Current /\ new.step = step
      BY <3>1, <3>4 DEF Scans, Directions
    <3>6. scan' \in [ScanThreads -> Scans]
      BY <3>3, <3>4, <3>5
    <3>7. scan'[s] = new /\ \A u \in ScanThreads \ {s} : scan'[u] = scan[u]
      BY <3>3, <3>4
    <3>8. UNCHANGED current_band
      BY <2>1 DEF ScanBegins
    <3>9. ScansOnGrid'
      <4> HIDE DEF new
      <4> QED
        BY <2>0, <3>1, <3>5, <3>7, <3>8 DEF ScansOnGrid
    <3>10. scan' \in [ScanThreads -> Scans] /\ ScansOnGrid'
      BY <3>6, <3>9
    <3> QED
      BY <2>0, <2>1, <3>10 DEF ScanBegins, ArgumentsOnGrid, Scans
  <2>2. CASE ScanHome(s)
    <3>1. scan[s].init \in ChannelsOf(current_band)
      BY <2>0, <2>2 DEF ScanHome, ScansOnGrid
    <3> QED
      BY <2>0, <2>2, <3>1, TuneType DEF ScanHome, Search, ArgumentsOnGrid, ScansOnGrid
  <2>3. CASE ScanSteps(s)
    <3>1. NextFrequency(s) \in ChannelsOf(current_band) /\ NextFrequency(s) \in Nat
      BY <2>0, <2>3, NextFrequencyIsChannel, ChannelsAreBetween DEF ScanSteps, ScansOnGrid
    <3> QED
      BY <2>0, <2>3, <3>1, TuneType, ZenonT(40) DEF ScanSteps, Search, ArgumentsOnGrid, ScansOnGrid
  <2>4. CASE ScanLoopEnds(s) \/ ScanJudges(s) \/ ScanLoop(s) \/ ScanUnlocks(s)
    <3>1. /\ UNCHANGED <<chip, tuneVars, boot, running, callVars, rdsVars, crossed>>
          /\ scan_mutex' \in BOOLEAN /\ scanning' = scanning
      BY <2>4 DEF ScanLoopEnds, ScanJudges, ScanLoop, ScanUnlocks
    <3>2. scan[s].at \in {"loop", "wait", "judge", "unlock"}
      BY <2>4 DEF ScanLoopEnds, ScanJudges, ScanLoop, ScanUnlocks
    <3>3. \E to \in {"unlock", "step", "judge", "loop", "clear"} :
             /\ scan' = [scan EXCEPT ![s] = [IF to = "unlock" THEN NoScan
                                             ELSE scan[s] EXCEPT !.at = to]]
             /\ scan[s].at = "unlock" => to = "clear"
      BY <2>4 DEF ScanLoopEnds, ScanJudges, ScanLoop, ScanUnlocks
    <3>4. PICK to \in {"unlock", "step", "judge", "loop", "clear"} :
             /\ scan[s].at = "unlock" => to = "clear"
             /\ \/ scan' = [scan EXCEPT ![s] = [scan[s] EXCEPT !.at = to]]
                \/ to = "unlock" /\ scan' = [scan EXCEPT ![s] = [NoScan EXCEPT !.at = to]]
      BY <3>3
    <3>5. CASE scan' = [scan EXCEPT ![s] = [scan[s] EXCEPT !.at = to]]
      <4>1. scan \in [ScanThreads -> Scans]
        BY DEF Scans
      <4>2. /\ [scan[s] EXCEPT !.at = to] \in Scans
            /\ [scan[s] EXCEPT !.at = to].init = scan[s].init
            /\ [scan[s] EXCEPT !.at = to].step = scan[s].step
            /\ [scan[s] EXCEPT !.at = to].at = to
        BY <4>1 DEF Scans
      <4>3. scan' \in [ScanThreads -> Scans]
        BY <3>5, <4>1, <4>2
      <4>4. /\ scan'[s].init = scan[s].init /\ scan'[s].step = scan[s].step
            /\ scan'[s].at = to
            /\ \A u \in ScanThreads \ {s} : scan'[u] = scan[u]
        BY <3>5, <4>1, <4>2
      <4>5. ScansOnGrid'
        BY <2>0, <3>1, <3>2, <3>4, <4>4 DEF ScansOnGrid
      <4> QED
        BY <2>0, <3>1, <4>3, <4>5 DEF ArgumentsOnGrid, Scans
    <3>6. CASE /\ to = "unlock"
               /\ scan' = [scan EXCEPT ![s] = [NoScan EXCEPT !.at = to]]
      <4>1. [NoScan EXCEPT !.at = to] \in Scans /\ [NoScan EXCEPT !.at = to].at = "unlock"
        BY <3>6 DEF NoScan, Scans, Directions
      <4>2. scan' \in [ScanThreads -> Scans]
            /\ \A u \in ScanThreads : scan'[u].at \in Searching => scan'[u] = scan[u]
        BY <3>6, <4>1 DEF Scans
      <4> QED
        BY <2>0, <3>1, <4>2 DEF ArgumentsOnGrid, ScansOnGrid, Scans
    <3> QED
      BY <3>4, <3>5, <3>6
  <2>5. CASE ScanClears(s)
    <3>1. scan' \in [ScanThreads -> Scans]
          /\ \A u \in ScanThreads : scan'[u].at \in Searching => scan'[u] = scan[u]
      BY <2>5, NoScanType DEF ScanClears, NoScan, Scans
    <3> QED
      BY <2>0, <2>5, <3>1 DEF ScanClears, ArgumentsOnGrid, ScansOnGrid, Scans
  <2>6. ScanThread(s)
    BY <1>6 DEF ScanGoesOn
  <2> QED
    BY <2>1, <2>2, <2>3, <2>4, <2>5, <2>6, Zenon DEF ScanThread
<1>7. ASSUME NEW r \in RdsThreads, RdsGoesOn(r) PROVE TypeInv'
  <2>1. /\ UNCHANGED <<chip, boot, running, tuneVars, pc, argVars, hurried, scanVars,
                       crossed, playing>>
        /\ RDS_Mutex' \in BOOLEAN
    BY <1>7 DEF RdsGoesOn, RdsThread, RdsBegins, RdsPolls, RdsLeaves, RdsStep
  <2>2. \E to \in {"none", "polling", "leaving"} : rds' = [rds EXCEPT ![r] = to]
    BY <1>7 DEF RdsGoesOn, RdsThread, RdsBegins, RdsPolls, RdsLeaves, RdsStep
  <2>3. \/ awaited' = awaited
        \/ awaited' = [c \in Callers |-> awaited[c] \ {r}]
    BY <1>7 DEF RdsGoesOn, RdsThread, RdsBegins, RdsPolls, RdsLeaves
  <2> QED
    BY <2>1, <2>2, <2>3 DEF tuneVars, argVars, scanVars, ArgumentsOnGrid, ScansOnGrid
<1> QED
  BY <1>1, <1>2, <1>3, <1>4, <1>5, <1>6, <1>7 DEF Next

\* Every variable of backend and binding keeps its type, and the current frequency of
\* either band stays on the band's grid through tunes, changes of band and scans.
THEOREM TefTypeCorrect == Spec => []TypeOK
<1>1. TypeInv => TypeOK
  BY DEF TypeInv
<1> QED
  BY <1>1, TypeInit, TypeNext, PTL DEF Spec

-----------------------------------------------------------------------------
(* One scan *)

\* A caller between its test of scanning and the creation of a thread.
Starting == {c \in Callers : pc[c] \in {"ss_try", "ss_flag"}}

\* The threads that have set the flag.
Marked == {s \in ScanThreads : scan[s].at \notin {"none", "created"}}

\* Whoever is starting a scan is alone, the flag is set as long as a thread is marked,
\* and a locked mutex belongs to a scan or to one that is about to be created.
OneScanInv ==
    /\ \A s, u \in ScansAlive : s = u
    /\ scanning <=> Marked # {}
    /\ Starting # {} => ScansAlive = {}
    /\ \A c, d \in Starting : c = d
    /\ scan_mutex => ScansAlive # {} \/ \E c \in Starting : pc[c] = "ss_flag"
    /\ \A s \in ScanThreads : scan[s].at = "clear" => ~scan_mutex

ScanInv == TypeInv /\ (~crossed => OneScanInv)

\* It begins without a scan.
LEMMA ScanInit == Init => ScanInv
<1> SUFFICES ASSUME Init PROVE OneScanInv
  BY TypeInit DEF ScanInv
<1>1. \A s \in ScanThreads : scan[s].at = "none"
  BY DEF Init, TefInit, NoScan
<1>2. \A c \in Callers : pc[c] = "idle"
  BY DEF Init, TefInit
<1>3. ~scanning /\ ~scan_mutex
  BY DEF Init, TefInit
<1> QED
  BY <1>1, <1>2, <1>3 DEF OneScanInv, ScansAlive, Starting, Marked

\* A step that leaves the scan alone, and nobody's start of one on its way.
LEMMA ScanLeftAlone ==
    ASSUME OneScanInv, UNCHANGED scanVars,
           \A c \in Callers : pc'[c] = pc[c] \/ {pc[c], pc'[c]} \cap {"ss_try", "ss_flag"} = {}
    PROVE  OneScanInv'
<1>1. Starting' = Starting /\ \A c \in Starting : pc'[c] = pc[c]
  BY DEF Starting
<1> QED
  BY <1>1 DEF OneScanInv, ScansAlive, Marked, scanVars

\* A thread that goes on, from mark to mark.
LEMMA ScanMoves ==
    ASSUME OneScanInv, scan \in [ScanThreads -> Scans], NEW s \in ScanThreads, NEW new,
           scan' = [scan EXCEPT ![s] = new], UNCHANGED <<pc, scanning>>,
           s \in Marked, new.at \notin {"none", "created"},
           new.at = "clear" => ~scan_mutex'
    PROVE  OneScanInv'
<1>1. scan'[s] = new /\ \A u \in ScanThreads \ {s} : scan'[u] = scan[u]
  OBVIOUS
<1>2. s \in ScansAlive /\ \A u \in ScanThreads \ {s} : scan[u].at = "none"
  BY DEF OneScanInv, ScansAlive, Marked
<1>3. ScansAlive' = ScansAlive /\ Marked' = Marked /\ Starting' = Starting
  BY <1>1, <1>2 DEF ScansAlive, Marked, Starting
<1> QED
  BY <1>1, <1>2, <1>3 DEF OneScanInv

\* The scan's thread: it takes its mark, goes on, and gives mutex and mark back.
LEMMA ScanThreadSteps ==
    ASSUME TypeInv, OneScanInv, ~crossed, NEW s \in ScanThreads, ScanThread(s)
    PROVE  OneScanInv'
<1>1. scan \in [ScanThreads -> Scans]
  BY DEF TypeInv, TypeOK, TefTypeOK, Scans
<1>2. UNCHANGED pc
  BY DEF ScanThread, ScanBegins, ScanHome, ScanLoopEnds, ScanLoop, ScanSteps, ScanJudges,
     ScanUnlocks, ScanClears, Thread, callVars
<1>3. CASE ScanBegins(s)
  <2>1. s \in ScansAlive /\ \A u \in ScanThreads \ {s} : scan[u].at = "none"
    BY <1>3 DEF ScanBegins, OneScanInv, ScansAlive
  <2>2. scan'[s].at = "home" /\ \A u \in ScanThreads \ {s} : scan'[u] = scan[u]
    BY <1>1, <1>3 DEF ScanBegins, Scans
  <2>3. ScansAlive' = ScansAlive /\ Marked' = {s} /\ Starting' = Starting
    BY <1>2, <2>1, <2>2 DEF ScansAlive, Marked, Starting
  <2> QED
    BY <1>2, <1>3, <2>1, <2>2, <2>3 DEF ScanBegins, OneScanInv
<1>4. CASE ScanSteps(s)
  <2>1. scan' = [scan EXCEPT ![s] = [scan[s] EXCEPT !.at = "wait", !.new = NextFrequency(s)]]
    BY <1>4 DEF ScanSteps
  <2>2. [scan[s] EXCEPT !.at = "wait", !.new = NextFrequency(s)].at = "wait"
    BY <1>1 DEF Scans
  <2> QED
    BY <1>1, <1>2, <1>4, <2>1, <2>2, ScanMoves DEF ScanSteps, Marked
<1>5. CASE ScanHome(s) \/ ScanLoopEnds(s) \/ ScanLoop(s) \/ ScanJudges(s) \/ ScanUnlocks(s)
  <2>1. PICK to \in {"loop", "unlock", "step", "judge", "clear"} :
           /\ scan' = [scan EXCEPT ![s] = [IF to = "unlock" THEN NoScan
                                           ELSE scan[s] EXCEPT !.at = to]]
           /\ to = "clear" => ~scan_mutex'
    BY <1>5 DEF ScanHome, ScanLoopEnds, ScanLoop, ScanJudges, ScanUnlocks, Thread
  <2>2. s \in Marked /\ scanning' = scanning
    BY <1>5 DEF ScanHome, ScanLoopEnds, ScanLoop, ScanJudges, ScanUnlocks, Thread, Marked
  <2>3. [IF to = "unlock" THEN NoScan ELSE scan[s] EXCEPT !.at = to].at = to
    BY <1>1, NoScanType DEF Scans
  <2> QED
    BY <1>1, <1>2, <2>1, <2>2, <2>3, ScanMoves
<1>6. CASE ScanClears(s)
  <2>1. s \in ScansAlive /\ \A u \in ScanThreads \ {s} : scan[u].at = "none"
    BY <1>6 DEF ScanClears, OneScanInv, ScansAlive
  <2>2. scan'[s].at = "none" /\ \A u \in ScanThreads \ {s} : scan'[u] = scan[u]
    BY <1>1, <1>6 DEF ScanClears, NoScan
  <2>3. ScansAlive' = {} /\ Marked' = {} /\ Starting' = Starting /\ ~scan_mutex'
    BY <1>2, <1>6, <2>1, <2>2 DEF ScanClears, ScansAlive, Marked, Starting, OneScanInv
  <2> QED
    BY <1>2, <1>6, <2>1, <2>2, <2>3 DEF ScanClears, OneScanInv
<1> QED
  BY <1>3, <1>4, <1>5, <1>6 DEF ScanThread

\* The calls that start and stop scans.
LEMMA ScanCallSteps ==
    ASSUME TypeInv, OneScanInv, ~crossed, ~crossed', NEW c \in Callers, Scan(c)
    PROVE  OneScanInv'
<1>1. scan \in [ScanThreads -> Scans] /\ pc \in [Callers -> Places]
  BY DEF TypeInv, TypeOK, TefTypeOK, Scans
<1>2. ASSUME FindsClear(c)
      PROVE  ScansAlive = {} /\ Starting \subseteq {c}
  BY <1>2 DEF FindsClear, Crossing, OthersTune, OneScanInv, Starting, ScansAlive, Marked,
     StartPlaces
<1>3. ASSUME NEW place, pc' = [pc EXCEPT ![c] = place], UNCHANGED scanVars,
             {pc[c], place} \cap {"ss_try", "ss_flag"} = {}
      PROVE  OneScanInv'
  BY <1>1, <1>3, ScanLeftAlone
<1>4. CASE ScanStartTests(c) \/ ScanStopWaits(c)
  <2>1. PICK place : pc' = [pc EXCEPT ![c] = place] /\ UNCHANGED scanVars
                     /\ pc[c] \notin {"ss_try", "ss_flag"}
                     /\ \/ place \in {"ss_stop", "idle"}
                        \/ place = "ss_try" /\ FindsClear(c)
    BY <1>4 DEF ScanStartTests, ScanStopWaits, ScanCall, Step, Goto
  <2>2. CASE place = "ss_try"
    <3>1. Starting' = {c} /\ UNCHANGED <<ScansAlive, Marked>>
      BY <1>1, <1>2, <2>1, <2>2 DEF Starting, ScansAlive, Marked, scanVars
    <3>2. Starting = {}
      BY <1>2, <2>1, <2>2 DEF Starting
    <3> QED
      BY <1>2, <2>1, <2>2, <3>1, <3>2 DEF OneScanInv, scanVars
  <2> QED
    BY <1>3, <2>1, <2>2
<1>5. CASE ScanStopUnlocks(c)
  <2>1. PICK place \in {"ss_busy", "sp_busy"} : pc' = [pc EXCEPT ![c] = place]
    BY <1>5 DEF ScanStopUnlocks, ScanCall, Step, Goto
  <2>2. pc[c] \notin {"ss_try", "ss_flag"} /\ ~scan_mutex' /\ UNCHANGED <<scan, scanning>>
    BY <1>5 DEF ScanStopUnlocks, ScanCall, Step, Goto
  <2>3. UNCHANGED <<Starting, ScansAlive, Marked>>
    BY <1>1, <2>1, <2>2 DEF Starting, ScansAlive, Marked
  <2> QED
    BY <2>2, <2>3 DEF OneScanInv
<1>6. CASE ScanStartTries(c)
  <2>1. c \in Starting /\ pc[c] = "ss_try" /\ UNCHANGED <<scan, scanning>> /\ scan_mutex'
    BY <1>6 DEF ScanStartTries, ScanCall, Step, Starting
  <2>2. ~scan_mutex /\ ScansAlive = {}
    BY <2>1 DEF OneScanInv
  <2>3. pc' = [pc EXCEPT ![c] = "ss_flag"]
    BY <1>6, <2>2 DEF ScanStartTries, ScanCall, Step, Goto
  <2>4. UNCHANGED <<Starting, ScansAlive, Marked>> /\ pc'[c] = "ss_flag"
    BY <1>1, <2>1, <2>3 DEF Starting, ScansAlive, Marked
  <2> QED
    BY <2>1, <2>2, <2>4 DEF OneScanInv, ScansAlive
<1>7. CASE ScanStartCreates(c)
  <2>1. c \in Starting /\ UNCHANGED <<scan_mutex, scanning>>
        /\ pc' = [pc EXCEPT ![c] = "idle"]
    BY <1>7 DEF ScanStartCreates, ScanCall, Step, Goto, Starting
  <2>2. ScansAlive = {} /\ Starting = {c} /\ Marked = {} /\ ~scanning
    BY <2>1 DEF OneScanInv, ScansAlive, Marked
  <2> DEFINE s == Unused(ScanThreads, ScansAlive)
             new == [NoScan EXCEPT !.at = "created", !.direction = direction[c]]
  <2>3. s \in ScanThreads /\ scan' = [scan EXCEPT ![s] = new]
    BY <1>7, <2>2 DEF ScanStartCreates, Unused
  <2>4. new.at = "created"
    BY NewScanType DEF TypeInv, TypeOK, TefTypeOK
  <2>5. scan'[s].at = "created" /\ \A u \in ScanThreads \ {s} : scan'[u].at = "none"
    <3> HIDE DEF s, new
    <3> QED
      BY <1>1, <2>2, <2>3, <2>4 DEF ScansAlive
  <2>6. ScansAlive' = {s} /\ Marked' = {} /\ Starting' = {}
    <3> HIDE DEF s, new
    <3> QED
      BY <1>1, <2>1, <2>2, <2>3, <2>5 DEF ScansAlive, Marked, Starting
  <2> QED
    <3> HIDE DEF s, new
    <3> QED
      BY <2>1, <2>2, <2>3, <2>5, <2>6 DEF OneScanInv
<1> QED
  BY <1>4, <1>5, <1>6, <1>7 DEF Scan

\* Every step keeps to one scan.
LEMMA ScanNext ==
    ASSUME ScanInv, [Next]_vars
    PROVE  ScanInv'
<1> SUFFICES ASSUME ~crossed' PROVE OneScanInv'
  BY TypeNext DEF ScanInv
<1>0. TypeInv /\ pc \in [Callers -> Places]
  BY DEF ScanInv, TypeInv, TypeOK, TefTypeOK
<1>1. CASE UNCHANGED vars \/ Beyond
  <2>1. UNCHANGED <<crossed, scanVars, pc>>
    BY <1>1 DEF vars, Beyond, callVars
  <2> QED
    BY <2>1, ScanLeftAlone DEF ScanInv
<1>2. CASE InitStep
  <2>1. UNCHANGED <<crossed, scanVars, pc>>
    BY <1>2 DEF InitStep, InitEnds, callVars
  <2> QED
    BY <2>1, ScanLeftAlone DEF ScanInv
<1>3. ASSUME NEW c \in Callers, Call(c) PROVE OneScanInv'
  <2>1. ~crossed /\ UNCHANGED scanVars
    BY <1>3 DEF Call, FrequencyVerb, BandVerb, RdsVerb, StartVerb, StopVerb, ScanStartVerb,
       ScanStopVerb, OnEvent, Verb, SetBand, GetRdsInfo, TefStart, TefStop, ScanStart,
       ScanStop
  <2>2. /\ pc[c] = "idle"
        /\ \/ UNCHANGED pc
           \/ \E place \in {"idle", "sf_test", "sb_tune", "ss_test", "sp_unlock"} :
                 pc' = [pc EXCEPT ![c] = place]
    BY <1>3 DEF Call, FrequencyVerb, BandVerb, RdsVerb, StartVerb, StopVerb, ScanStartVerb,
       ScanStopVerb, OnEvent, Verb, SetBand, GetRdsInfo, TefStart, TefStop, ScanStart,
       ScanStop, ScanCall, Step, Goto, callVars
  <2> QED
    BY <1>0, <2>1, <2>2, ScanLeftAlone DEF ScanInv
<1>4. ASSUME NEW c \in Callers, GoesOn(c) PROVE OneScanInv'
  <2>1. CASE Scan(c)
    BY <1>0, <1>4, <2>1, ScanCallSteps DEF GoesOn, ScanInv
  <2>2. CASE SetFrequency(c) \/ SetBandTunes(c)
    <3>1. UNCHANGED scanVars
      BY <2>2 DEF SetFrequency, SetBandTunes, SetFrequencyReturns, SetFrequencyTests,
         SetFrequencyTunes, SetFrequencyStopsRds, GetRdsInfo
    <3>2. /\ pc[c] \notin {"ss_try", "ss_flag"}
          /\ \E place \in {"idle", "sf_tune", "sf_rds", "sf_wait"} :
                pc' = [pc EXCEPT ![c] = place]
      BY <2>2 DEF SetFrequency, SetBandTunes, SetFrequencyReturns, SetFrequencyTests,
         SetFrequencyTunes, SetFrequencyStopsRds, Slept, GetRdsInfo, Step, Goto
    <3> QED
      BY <1>0, <1>4, <3>1, <3>2, ScanLeftAlone DEF GoesOn, ScanInv
  <2> QED
    BY <1>4, <2>1, <2>2 DEF GoesOn
<1>5. ASSUME NEW s \in ScanThreads, ScanGoesOn(s) PROVE OneScanInv'
  BY <1>0, <1>5, ScanThreadSteps DEF ScanGoesOn, ScanInv
<1>6. ASSUME NEW r \in RdsThreads, RdsGoesOn(r) PROVE OneScanInv'
  <2>1. ~crossed /\ UNCHANGED <<pc, scanVars>>
    BY <1>6 DEF RdsGoesOn, RdsThread, RdsBegins, RdsPolls, RdsLeaves, RdsStep
  <2> QED
    BY <2>1, ScanLeftAlone DEF ScanInv
<1> QED
  BY <1>1, <1>2, <1>3, <1>4, <1>5, <1>6 DEF Next

\* A set of which any two elements are the same has one at the most.
LEMMA AtMostOne ==
    ASSUME NEW S, \A x, y \in S : x = y
    PROVE  Cardinality(S) =< 1
<1>1. CASE S = {}
  BY <1>1, FS_EmptySet
<1>2. CASE S # {}
  <2>1. PICK x \in S : S = {x}
    BY <1>2
  <2> QED
    BY <2>1, FS_Singleton
<1> QED
  BY <1>1, <1>2

\* tef665x_scan_start, scan_stop and the scan's thread keep a single scan, and leave
\* flag and mutex free when it is over, although the mutex is unlocked by anyone and
\* the flag set late.
THEOREM OneScanAtATime == Spec => []OneScan
<1>1. ScanInv => OneScan
  <2> SUFFICES ASSUME OneScanInv
               PROVE  /\ Cardinality(ScansAlive) =< 1
                      /\ Quiet => ~scanning /\ ~scan_mutex
    BY DEF ScanInv, OneScan
  <2>1. Cardinality(ScansAlive) =< 1
    BY AtMostOne DEF OneScanInv
  <2>2. Quiet => ~scanning /\ ~scan_mutex
    BY DEF Quiet, OneScanInv, Starting, Marked, ScansAlive
  <2> QED
    BY <2>1, <2>2
<1> QED
  BY <1>1, ScanInit, ScanNext, PTL DEF Spec

-----------------------------------------------------------------------------
(* Chip, backend and events *)

\* Nobody calls before the bring-up has ended.
BringUp ==
    boot # "serving" =>
        /\ \A c \in Callers : pc[c] = "idle"
        /\ ScansAlive = {}
        /\ chip.muted /\ ~running
        /\ Current = AmMin
        /\ boot # "ready" => chip.tuned = 0

\* The chip is active only with its patch, and an inactive one is not tuned.  Only
\* between the two steps of a change of band may it be tuned to something else than
\* what the radio says.
ChipInv ==
    /\ BringUp
    /\ chip.state # "boot" \/ boot = "start" => chip.patched
    /\ chip.state # "active" => chip.tuned = 0
    /\ boot = "serving" /\ chip.state = "active" => chip.muted = ~running
    /\ chip.tuned \in {0, Current} \/ \E c \in Callers : pc[c] = "sb_tune"
    /\ event \in {0, current_am_frequency, current_fm_frequency}

\* The chip begins without its patch, muted and not tuned.
LEMMA ChipStart == Init => ChipInv
BY DEF Init, TefInit, ChipInit, ChipInv, BringUp, ScansAlive, NoScan, Current

\* A tune, by a call or a scan, brings chip, frequency and event together.
LEMMA ChipTunes ==
    ASSUME TypeOK, ChipInv, NEW f \in Nat, Tune(f), boot = "serving",
           UNCHANGED <<boot, running, current_band>>
    PROVE  ChipInv'
<1>1. /\ chip' = IF chip.state = "active" THEN [chip EXCEPT !.tuned = f] ELSE chip
      /\ event' = f /\ Current' = f
      /\ f \in {current_am_frequency', current_fm_frequency'}
  BY DEF Tune, TuneTo, Command, Store, Current
<1>2. /\ chip'.state = chip.state /\ chip'.patched = chip.patched
      /\ chip'.muted = chip.muted
      /\ chip'.tuned = IF chip.state = "active" THEN f ELSE chip.tuned
  BY <1>1 DEF TypeOK, TefTypeOK, ChipTypeOK
<1> QED
  BY <1>1, <1>2 DEF ChipInv, BringUp

\* A step that touches neither chip nor frequencies.
LEMMA ChipLeftAlone ==
    ASSUME ChipInv, boot = "serving", UNCHANGED <<chip, boot, running, tuneVars>>,
           \A c \in Callers : pc[c] = "sb_tune" => pc'[c] = "sb_tune"
    PROVE  ChipInv'
BY DEF ChipInv, BringUp, tuneVars, Current

\* The bring-up: each stage with its failures.
LEMMA ChipInitSteps ==
    ASSUME TypeOK, ChipInv, InitStep
    PROVE  ChipInv'
<1> USE DEF TypeOK, TefTypeOK, ChipTypeOK
<1>1. boot # "serving" /\ UNCHANGED <<tuneVars, pc, scan>>
  BY DEF InitStep, InitEnds, Boot, PatchLoads, PatchFails, StartCmd, IdleState, WaitActive,
     Stage, callVars, scanVars
<1>2. /\ \A c \in Callers : pc'[c] = "idle"
      /\ ScansAlive' = {} /\ Current' = AmMin /\ Current = AmMin
      /\ event' \in {0, current_am_frequency', current_fm_frequency'}
  BY <1>1 DEF ChipInv, BringUp, ScansAlive, Current, tuneVars
<1>3. CASE Boot /\ UNCHANGED running
  <2>1. CASE PatchLoads \/ PatchFails \/ StartCmd
    BY <1>1, <1>2, <1>3, <2>1 DEF PatchLoads, PatchFails, StartCmd, Stage, ChipInv, BringUp
  <2>2. CASE IdleState
    BY <1>1, <1>2, <1>3, <2>2 DEF IdleState, Stage, ChipInv, BringUp
  <2>3. CASE WaitActive
    BY <1>1, <1>2, <1>3, <2>3 DEF WaitActive, Stage, TuneTo, Command, ChipInv, BringUp
  <2> QED
    BY <1>3, <2>1, <2>2, <2>3 DEF Boot
<1>4. CASE InitEnds
  BY <1>1, <1>2, <1>4 DEF InitEnds, Stage, SetMute, Command, ChipInv, BringUp
<1> QED
  BY <1>3, <1>4 DEF InitStep

\* Every step keeps chip, frequency and event together, but for a change of band.
LEMMA ChipNext ==
    ASSUME TypeInv, ChipInv, [Next]_vars
    PROVE  ChipInv'
<1>0. TypeOK /\ pc \in [Callers -> Places]
  BY DEF TypeInv, TypeOK, TefTypeOK
<1>1. CASE UNCHANGED vars \/ Beyond
  BY <1>1 DEF vars, Beyond, callVars, tuneVars, scanVars, ChipInv, BringUp, ScansAlive,
     Current
<1>2. CASE InitStep
  BY <1>0, <1>2, ChipInitSteps
<1>3. ASSUME NEW c \in Callers, Call(c) PROVE ChipInv'
  <2>0. boot = "serving" /\ pc[c] = "idle"
    BY <1>3 DEF Call, FrequencyVerb, BandVerb, RdsVerb, StartVerb, StopVerb, ScanStartVerb,
       ScanStopVerb, OnEvent, Verb
  <2>1. CASE BandVerb(c)
    <3>1. /\ pc' = [pc EXCEPT ![c] = "sb_tune"]
          /\ UNCHANGED <<chip, boot, running, current_am_frequency, current_fm_frequency,
                         event>>
      BY <2>1 DEF BandVerb, SetBand, Goto
    <3>2. pc'[c] = "sb_tune"
      BY <1>0, <3>1
    <3> QED
      BY <2>0, <3>1, <3>2 DEF ChipInv, BringUp
  <2>2. CASE StartVerb(c) \/ StopVerb(c)
    <3>1. \/ SetMute(FALSE) /\ running' = TRUE
          \/ SetMute(TRUE) /\ running' = FALSE
      BY <2>2 DEF StartVerb, StopVerb, TefStart, TefStop
    <3>2. UNCHANGED <<boot, tuneVars, pc>> /\ Current' = Current
      BY <2>2 DEF StartVerb, StopVerb, TefStart, TefStop, callVars, tuneVars, Current
    <3>3. ASSUME NEW b \in BOOLEAN, SetMute(b)
          PROVE  /\ chip'.state = chip.state /\ chip'.patched = chip.patched
                 /\ chip'.tuned = chip.tuned
                 /\ chip.state = "active" => chip'.muted = b
      BY <1>0, <3>3 DEF SetMute, Command, TypeOK, TefTypeOK, ChipTypeOK
    <3>4. CASE SetMute(FALSE) /\ running' = TRUE
      BY <2>0, <3>2, <3>3, <3>4 DEF ChipInv, BringUp, tuneVars
    <3>5. CASE SetMute(TRUE) /\ running' = FALSE
      BY <2>0, <3>2, <3>3, <3>5 DEF ChipInv, BringUp, tuneVars
    <3> QED
      BY <3>1, <3>4, <3>5
  <2>3. CASE FrequencyVerb(c) \/ RdsVerb(c) \/ ScanStartVerb(c) \/ ScanStopVerb(c) \/ OnEvent(c)
    <3>1. UNCHANGED <<chip, boot, running, tuneVars>>
      BY <2>3 DEF FrequencyVerb, RdsVerb, ScanStartVerb, ScanStopVerb, OnEvent, GetRdsInfo,
         ScanStart, ScanStop, ScanCall
    <3>2. \E place : pc' = [pc EXCEPT ![c] = place]
      BY <2>3 DEF FrequencyVerb, RdsVerb, ScanStartVerb, ScanStopVerb, OnEvent, GetRdsInfo,
         ScanStart, ScanStop, ScanCall, Step, Goto
    <3> QED
      BY <1>0, <2>0, <3>1, <3>2, ChipLeftAlone
  <2> QED
    BY <1>3, <2>1, <2>2, <2>3 DEF Call
<1>4. ASSUME NEW c \in Callers, GoesOn(c) PROVE ChipInv'
  <2>1. pc[c] # "idle"
    BY <1>4 DEF GoesOn, SetFrequency, SetBandTunes, Scan, SetFrequencyReturns,
       SetFrequencyTests, SetFrequencyTunes, SetFrequencyStopsRds, Slept, ScanStartTests,
       ScanStopWaits, ScanStopUnlocks, ScanStartTries, ScanStartCreates, ScanCall, Step
  <2>2. boot = "serving" /\ ~crossed
    BY <1>4, <2>1 DEF ChipInv, BringUp, GoesOn
  <2>3. CASE SetFrequencyTunes(c)
    BY <1>0, <2>2, <2>3, ChipTunes DEF SetFrequencyTunes, TypeOK, TefTypeOK
  <2>4. CASE SetBandTunes(c)
    <3>1. TuneTo(Current) /\ UNCHANGED <<boot, running, tuneVars>>
      BY <2>4 DEF SetBandTunes
    <3>2. /\ chip'.state = chip.state /\ chip'.patched = chip.patched
          /\ chip'.muted = chip.muted
          /\ chip'.tuned = IF chip.state = "active" THEN Current ELSE chip.tuned
      BY <1>0, <3>1 DEF TuneTo, Command, TypeOK, TefTypeOK, ChipTypeOK
    <3> QED
      BY <2>2, <3>1, <3>2 DEF ChipInv, BringUp, tuneVars, Current
  <2>5. CASE SetFrequency(c) /\ ~SetFrequencyTunes(c)
    <3>1. UNCHANGED <<chip, boot, running, tuneVars>> /\ pc[c] # "sb_tune"
      BY <2>5 DEF SetFrequency, SetFrequencyReturns, SetFrequencyTests,
         SetFrequencyStopsRds, Slept, GetRdsInfo, Step
    <3>2. \E place : pc' = [pc EXCEPT ![c] = place]
      BY <2>5 DEF SetFrequency, SetFrequencyReturns, SetFrequencyTests,
         SetFrequencyStopsRds, Slept, GetRdsInfo, Step, Goto
    <3> QED
      BY <1>0, <2>2, <3>1, <3>2, ChipLeftAlone
  <2>6. CASE Scan(c)
    <3>1. UNCHANGED <<chip, boot, running, tuneVars>> /\ pc[c] # "sb_tune"
      BY <2>6 DEF Scan, ScanStartTests, ScanStopWaits, ScanStopUnlocks, ScanStartTries,
         ScanStartCreates, ScanCall, Step
    <3>2. \E place : pc' = [pc EXCEPT ![c] = place]
      BY <2>6 DEF Scan, ScanStartTests, ScanStopWaits, ScanStopUnlocks, ScanStartTries,
         ScanStartCreates, ScanCall, Step, Goto
    <3> QED
      BY <1>0, <2>2, <3>1, <3>2, ChipLeftAlone
  <2> QED
    BY <1>4, <2>3, <2>4, <2>5, <2>6 DEF GoesOn
<1>5. ASSUME NEW s \in ScanThreads, ScanGoesOn(s) PROVE ChipInv'
  <2>0. ~crossed /\ ScanThread(s)
    BY <1>5 DEF ScanGoesOn
  <2>1. s \in ScansAlive /\ UNCHANGED <<boot, running, pc>>
    BY <2>0 DEF ScanThread, ScanBegins, ScanHome, ScanLoopEnds, ScanLoop, ScanSteps,
       ScanJudges, ScanUnlocks, ScanClears, Thread, callVars, ScansAlive
  <2>2. boot = "serving"
    BY <2>1 DEF ChipInv, BringUp
  <2>3. CASE ScanHome(s)
    <3>1. Search(scan[s].init) /\ scan[s].init \in Nat
      BY <1>0, <2>3 DEF ScanHome, TypeOK, TefTypeOK
    <3> QED
      BY <1>0, <2>1, <2>2, <3>1, ChipTunes DEF Search
  <2>4. CASE ScanSteps(s)
    <3>1. NextFrequency(s) \in ChannelsOf(current_band) /\ NextFrequency(s) \in Nat
      BY <1>0, <2>0, <2>4, NextFrequencyIsChannel, ChannelsAreBetween
      DEF ScanSteps, ScansOnGrid, Searching, TypeInv, TypeOK, TefTypeOK
    <3> QED
      BY <1>0, <2>1, <2>2, <2>4, <3>1, ChipTunes DEF ScanSteps, Search
  <2>5. CASE ~ScanHome(s) /\ ~ScanSteps(s)
    <3>1. UNCHANGED <<chip, tuneVars>>
      BY <2>0, <2>5 DEF ScanThread, ScanBegins, ScanLoopEnds, ScanLoop, ScanJudges,
         ScanUnlocks, ScanClears
    <3> QED
      BY <2>1, <2>2, <3>1, ChipLeftAlone
  <2> QED
    BY <2>3, <2>4, <2>5
<1>6. ASSUME NEW r \in RdsThreads, RdsGoesOn(r) PROVE ChipInv'
  <2>1. UNCHANGED <<chip, boot, running, tuneVars, pc, scanVars>>
    BY <1>6 DEF RdsGoesOn, RdsThread, RdsBegins, RdsPolls, RdsLeaves, RdsStep
  <2> QED
    BY <2>1 DEF ChipInv, BringUp, ScansAlive, tuneVars, scanVars, Current
<1> QED
  BY <1>1, <1>2, <1>3, <1>4, <1>5, <1>6 DEF Next

\* Once all is quiet the chip is where the radio says and muted unless it plays, it is
\* active only with its patch, and the last event is true of its band, whatever failed
\* in tef665x_chip_init.
THEOREM ChipAgrees == Spec => []ChipAgreement
<1>1. ChipInv => ChipAgreement
  BY DEF ChipInv, ChipAgreement, Quiet
<1>2. Init => TypeInv /\ ChipInv
  BY TypeInit, ChipStart
<1>3. TypeInv /\ ChipInv /\ [Next]_vars => TypeInv' /\ ChipInv'
  BY TypeNext, ChipNext
<1> QED
  BY <1>1, <1>2, <1>3, PTL DEF Spec

-----------------------------------------------------------------------------
(* One RDS thread *)

\* Only user makes the calls that create an RDS thread.
OnlyUserPolls(user) ==
    \A c \in Callers \ {user} : Calls[c] \cap {"frequency", "rds"} = {}

Retuning == {"sf_test", "sf_tune", "sf_rds", "sf_wait"}

\* While set_frequency sleeps, an RDS thread it has not outlasted yet has not seen the
\* order to end, or has and is on its way out.
RdsInv(user) ==
    /\ pc \in [Callers -> Places] /\ rds \in [RdsThreads -> {"none", "created", "polling", "leaving"}]
    /\ awaited \in [Callers -> SUBSET RdsThreads]
    /\ \A c \in Callers \ {user} : pc[c] \notin Retuning
    /\ ~hurried =>
          /\ \A r, q \in RdsAlive : r = q
          /\ pc[user] = "sf_wait" =>
                \A r \in RdsAlive : r \in awaited[user] /\ (RDS_Mutex => rds[r] = "leaving")

\* It begins without an RDS thread.
LEMMA RdsInit == \A user \in Callers : Init => RdsInv(user)
BY DEF Init, TefInit, RdsInv, Retuning, RdsAlive, Places

\* The creation of a thread when there is none.
LEMMA RdsCreates ==
    ASSUME NEW user \in Callers, RdsInv(user), NEW c \in Callers, GetRdsInfo(c),
           RdsAlive = {} \/ hurried'
    PROVE  /\ rds' \in [RdsThreads -> {"none", "created", "polling", "leaving"}]
           /\ ~hurried' => \A r, q \in RdsAlive' : r = q
<1>1. CASE RDS_Mutex
  <2>1. UNCHANGED rds /\ UNCHANGED hurried
    BY <1>1 DEF GetRdsInfo, rdsVars
  <2> QED
    BY <2>1 DEF RdsInv, RdsAlive
<1>2. CASE ~RDS_Mutex
  <2> DEFINE new == Unused(RdsThreads, RdsAlive)
  <2>1. rds' = [rds EXCEPT ![new] = "created"] /\ RdsAlive # RdsThreads
    BY <1>2 DEF GetRdsInfo
  <2>2. RdsAlive = {} => RdsAlive' \subseteq {new}
    <3> HIDE DEF new
    <3> QED
      BY <2>1 DEF RdsAlive, RdsInv
  <2>3. rds' \in [RdsThreads -> {"none", "created", "polling", "leaving"}]
    <3> HIDE DEF new
    <3> QED
      BY <2>1 DEF RdsInv
  <2> QED
    <3> HIDE DEF new
    <3> QED
      BY <2>2, <2>3
<1> QED
  BY <1>1, <1>2

\* An RDS thread that looks at the mutex either leaves or need not.
LEMMA RdsThreadSteps ==
    ASSUME NEW user \in Callers, RdsInv(user), NEW r \in RdsThreads, RdsThread(r)
    PROVE  RdsInv(user)'
<1>0. UNCHANGED <<pc, hurried>> /\ r \in RdsAlive
  BY DEF RdsThread, RdsBegins, RdsPolls, RdsLeaves, RdsStep, RdsAlive
<1>1. PICK to \in {"none", "polling", "leaving"} : rds' = [rds EXCEPT ![r] = to]
  BY DEF RdsThread, RdsBegins, RdsPolls, RdsLeaves, RdsStep
<1>2. \/ awaited' = awaited
      \/ awaited' = [c \in Callers |-> awaited[c] \ {r}]
  BY DEF RdsThread, RdsBegins, RdsPolls, RdsLeaves
<1>3. /\ awaited' \in [Callers -> SUBSET RdsThreads]
      /\ rds' \in [RdsThreads -> {"none", "created", "polling", "leaving"}]
      /\ \A q \in RdsThreads \ {r} : rds'[q] = rds[q]
      /\ rds'[r] = to
  BY <1>1, <1>2 DEF RdsInv
<1>4. RdsAlive' \subseteq RdsAlive
  BY <1>0, <1>3 DEF RdsAlive
<1>5. ASSUME ~hurried, pc[user] = "sf_wait", NEW q \in RdsAlive'
      PROVE  q \in awaited'[user] /\ (RDS_Mutex' => rds'[q] = "leaving")
  <2>1. q = r /\ r \in awaited[user] /\ (RDS_Mutex => rds[r] = "leaving")
    BY <1>0, <1>4, <1>5 DEF RdsInv
  <2>2. to # "none"
    BY <1>3, <1>5, <2>1 DEF RdsAlive
  <2>3. CASE RdsBegins(r)
    BY <1>0, <1>1, <1>3, <2>1, <2>2, <2>3 DEF RdsBegins, RdsStep, RdsInv
  <2>4. CASE RdsPolls(r)
    BY <1>1, <1>3, <2>1, <2>4 DEF RdsPolls, RdsStep, RdsInv
  <2>5. CASE RdsLeaves(r)
    BY <1>1, <1>3, <2>1, <2>2, <2>5 DEF RdsLeaves, RdsStep, RdsInv
  <2> QED
    BY <2>3, <2>4, <2>5 DEF RdsThread
<1> QED
  BY <1>0, <1>3, <1>4, <1>5 DEF RdsInv

\* Every step keeps to one RDS thread.
LEMMA RdsNext ==
    ASSUME NEW user \in Callers, OnlyUserPolls(user), TypeInv, RdsInv(user), [Next]_vars
    PROVE  RdsInv(user)'
<1> USE DEF RdsInv, Retuning
<1>0. pc' \in [Callers -> Places]
  BY TypeNext DEF TypeInv, TypeOK, TefTypeOK
<1>1. ASSUME UNCHANGED <<rds, awaited, hurried>>, RDS_Mutex' => RDS_Mutex,
             NEW c \in Callers,
             UNCHANGED pc \/ \E place : /\ pc' = [pc EXCEPT ![c] = place]
                                        /\ place # "sf_wait"
                                        /\ place \in Retuning => pc[c] \in Retuning \/ c = user
      PROVE  RdsInv(user)'
  <2>1. RdsAlive' = RdsAlive
    BY <1>1 DEF RdsAlive
  <2>2. \A d \in Callers : /\ pc'[d] = "sf_wait" => pc[d] = "sf_wait"
                           /\ d # user => pc'[d] \notin Retuning
    <3>1. CASE UNCHANGED pc
      BY <3>1
    <3>2. ASSUME NEW place, pc' = [pc EXCEPT ![c] = place], place # "sf_wait",
                 place \in Retuning => pc[c] \in Retuning \/ c = user
          PROVE  \A d \in Callers : /\ pc'[d] = "sf_wait" => pc[d] = "sf_wait"
                                    /\ d # user => pc'[d] \notin Retuning
      BY <3>2
    <3> QED
      BY <1>1, <3>1, <3>2
  <2>3. pc'[user] = "sf_wait" => pc[user] = "sf_wait"
    BY <2>2
  <2>4. ~hurried' => /\ \A q, r \in RdsAlive' : q = r
                     /\ pc'[user] = "sf_wait" =>
                           \A r \in RdsAlive' : r \in awaited'[user] /\ (RDS_Mutex' => rds'[r] = "leaving")
    BY <1>1, <2>1, <2>3
  <2> QED
    BY <1>0, <1>1, <2>2, <2>4
<1>2. CASE UNCHANGED vars \/ Beyond \/ InitStep
  <2>1. UNCHANGED <<RDS_Mutex, rds, awaited, hurried, pc>>
    BY <1>2 DEF vars, Beyond, InitStep, InitEnds, callVars, rdsVars
  <2> QED
    BY <1>1, <2>1
<1>3. ASSUME NEW c \in Callers, Call(c) PROVE RdsInv(user)'
  <2>1. CASE RdsVerb(c)
    <3>1. c = user /\ GetRdsInfo(c) /\ pc[c] = "idle"
      BY <2>1, CallsAssumption DEF RdsVerb, Verb, OnlyUserPolls
    <3>2. pc' = [pc EXCEPT ![c] = "idle"] /\ UNCHANGED awaited
      BY <3>1 DEF GetRdsInfo, Goto
    <3>3. \/ RDS_Mutex /\ UNCHANGED rdsVars
          \/ RdsAlive = {} \/ hurried'
      BY <3>1 DEF GetRdsInfo
    <3>4. CASE RDS_Mutex /\ UNCHANGED rdsVars
      <4>1. UNCHANGED <<RDS_Mutex, rds, hurried, awaited>>
        BY <3>2, <3>4 DEF rdsVars
      <4>2. "idle" # "sf_wait" /\ "idle" \notin Retuning
        OBVIOUS
      <4> QED
        BY <1>1, <3>2, <4>1, <4>2
    <3>5. CASE RdsAlive = {} \/ hurried'
      BY <1>0, <3>1, <3>2, <3>5, RdsCreates
    <3> QED
      BY <3>3, <3>4, <3>5
  <2>2. CASE FrequencyVerb(c)
    <3>1. c = user
      BY <2>2, CallsAssumption DEF FrequencyVerb, Verb, OnlyUserPolls
    <3> QED
      BY <1>1, <2>2, <3>1 DEF FrequencyVerb, Goto, rdsVars
  <2>3. CASE ScanStartVerb(c) \/ OnEvent(c)
    BY <1>1, <2>3 DEF ScanStartVerb, OnEvent, ScanStart, ScanCall, Step, Goto
  <2>4. CASE BandVerb(c) \/ StartVerb(c) \/ StopVerb(c) \/ ScanStopVerb(c)
    BY <1>1, <2>4 DEF BandVerb, StartVerb, StopVerb, ScanStopVerb, SetBand, TefStart,
       TefStop, ScanStop, ScanCall, Step, Goto, rdsVars, callVars
  <2> QED
    BY <1>3, <2>1, <2>2, <2>3, <2>4 DEF Call
<1>4. ASSUME NEW c \in Callers, GoesOn(c) PROVE RdsInv(user)'
  <2>1. CASE SetFrequencyReturns(c) \/ SetFrequencyTests(c) \/ SetFrequencyTunes(c)
    BY <1>1, <2>1 DEF SetFrequencyReturns, SetFrequencyTests, SetFrequencyTunes, Step, Goto,
       rdsVars
  <2>2. CASE SetFrequencyStopsRds(c)
    <3>1. c = user
      BY <2>2 DEF SetFrequencyStopsRds
    <3>2. CASE current_band = "FM"
      <4>1. /\ ~RDS_Mutex' /\ UNCHANGED <<rds, hurried>>
            /\ pc' = [pc EXCEPT ![user] = "sf_wait"]
            /\ awaited' = [awaited EXCEPT ![user] = RdsAlive]
        BY <2>2, <3>1, <3>2 DEF SetFrequencyStopsRds, Goto
      <4>2. RdsAlive' = RdsAlive /\ RdsAlive \in SUBSET RdsThreads
        BY <4>1 DEF RdsAlive
      <4> QED
        BY <1>0, <4>1, <4>2
    <3>3. CASE current_band # "FM"
      BY <1>1, <2>2, <3>3 DEF SetFrequencyStopsRds, Goto
    <3> QED
      BY <3>2, <3>3
  <2>3. CASE Slept(c) /\ GetRdsInfo(c)
    <3>1. c = user /\ pc[user] = "sf_wait" /\ awaited[user] = {}
      BY <2>3 DEF Slept
    <3>2. RdsAlive = {} \/ hurried
      BY <3>1
    <3>3. hurried => hurried'
      BY <2>3 DEF GetRdsInfo, rdsVars
    <3>4. pc' = [pc EXCEPT ![c] = "idle"] /\ UNCHANGED awaited
      BY <2>3 DEF GetRdsInfo, Goto
    <3> QED
      BY <1>0, <2>3, <3>1, <3>2, <3>3, <3>4, RdsCreates
  <2>4. CASE SetBandTunes(c) \/ Scan(c)
    BY <1>1, <2>4 DEF SetBandTunes, Scan, ScanStartTests, ScanStopWaits, ScanStopUnlocks,
       ScanStartTries, ScanStartCreates, ScanCall, Step, Goto, rdsVars
  <2> QED
    BY <1>4, <2>1, <2>2, <2>3, <2>4 DEF GoesOn, SetFrequency
<1>5. ASSUME NEW s \in ScanThreads, ScanGoesOn(s) PROVE RdsInv(user)'
  BY <1>1, <1>5 DEF ScanGoesOn, ScanThread, ScanBegins, ScanHome, ScanLoopEnds, ScanLoop,
     ScanSteps, ScanJudges, ScanUnlocks, ScanClears, Thread, rdsVars, callVars
<1>6. ASSUME NEW r \in RdsThreads, RdsGoesOn(r) PROVE RdsInv(user)'
  BY <1>6, RdsThreadSteps DEF RdsGoesOn
<1> QED
  BY <1>2, <1>3, <1>4, <1>5, <1>6 DEF Next

\* tef665x_set_frequency's sleep keeps to one RDS thread, whoever scans, as long as one
\* caller at a time tunes or asks for RDS data: with two, one may wake to a mutex that
\* a scan has unlocked under the thread the other one has created.
THEOREM OneThreadPolls ==
    ASSUME NEW user \in Callers, OnlyUserPolls(user)
    PROVE  Spec => []OneRdsThread
<1>1. Init => TypeInv /\ RdsInv(user)
  BY TypeInit, RdsInit
<1>2. TypeInv /\ RdsInv(user) /\ [Next]_vars => TypeInv' /\ RdsInv(user)'
  BY TypeNext, RdsNext
<1>3. RdsInv(user) => OneRdsThread
  BY AtMostOne DEF RdsInv, OneRdsThread
<1> QED
  BY <1>1, <1>2, <1>3, PTL DEF Spec

=============================================================================
