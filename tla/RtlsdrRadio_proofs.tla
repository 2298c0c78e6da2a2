------------------------- MODULE RtlsdrRadio_proofs -------------------------
(***************************************************************************)
(* Safety of the RTL-SDR radio for any number of clients, any band plan    *)
(* and any bounds: types, helper_mutex, the helper's scan, the grid of the *)
(* band, the answers to F=, and the abstract radio it implements.          *)
(***************************************************************************)
EXTENDS RtlsdrRadio, BandPlan_proofs

-----------------------------------------------------------------------------
(* What the operations on the pipes do to their types.                      *)

\* A command the backend writes is one of the protocol's.
LEMMA RetuneType ==
    ASSUME NEW f \in Frequencies
    PROVE  Command("F=", f) \in Commands
BY DEF Command, Commands

\* The commands that carry no frequency are commands of the protocol.
LEMMA CommandType ==
    ASSUME NEW op \in ScanOps \cup PlainOps
    PROVE  Command(op, 0) \in Commands
BY DEF Command, Commands

\* A line the helper prints is one of the protocol's.
LEMMA LineType ==
    ASSUME NEW kind \in {"F", "S"}, NEW f \in Nat
    PROVE  ReplyLine(kind, f) \in Lines
BY DEF ReplyLine, Lines, Kinds

\* Writing a command of S to a pipe of such commands keeps it one, whether the
\* helper lives or not.
LEMMA WriteType ==
    ASSUME NEW S, toHelper \in Seq(S), NEW c \in S, WriteCommand(c)
    PROVE  toHelper' \in Seq(S)
BY DEF WriteCommand

\* Printing a line of S to a pipe of such lines keeps it one.
LEMMA PrintType ==
    ASSUME NEW S, fromHelper \in Seq(S), NEW l \in S, PrintLine(l)
    PROVE  fromHelper' \in Seq(S)
BY DEF PrintLine

\* The command loop takes a command of S and leaves the others.
LEMMA NextCommandType ==
    ASSUME NEW S, toHelper \in Seq(S), NEW ops, NextCommand(ops)
    PROVE  toHelper' \in Seq(S) /\ Head(toHelper) \in S
BY DEF NextCommand

\* What is left of a line is a line of its own kind, with its frequency.
LEMMA TornType ==
    ASSUME NEW l \in Lines
    PROVE  Torn(l) \in Lines /\ Torn(l).freq = l.freq /\ Torn(l).kind = "rest"
BY DEF Torn, Lines, Kinds

\* read() takes the first line and perhaps more, and leaves the others as they were,
\* but for the beginning of the first of them.
LEMMA ReadLeaves ==
    ASSUME NEW S, fromHelper \in Seq(S), \A l \in S : Torn(l) \in S, ReadLines
    PROVE  /\ fromHelper' \in Seq(S) /\ Head(fromHelper) = fromHelper[1]
           /\ Taken \in 1 .. Len(fromHelper)
           /\ Len(fromHelper') = Len(fromHelper) - Taken
           /\ \A i \in 1 .. Len(fromHelper') :
                 \/ fromHelper'[i] = fromHelper[i + Taken]
                 \/ i = 1 /\ fromHelper'[i] = Torn(fromHelper[i + Taken])
<1> DEFINE left == SubSeq(fromHelper, ReadMax + 1, Len(fromHelper))
<1>1. /\ left \in Seq(S) /\ Len(left) \in 0 .. Len(fromHelper) - 1
      /\ \A i \in 1 .. Len(left) : left[i] = fromHelper[ReadMax + i]
      /\ Len(left) > 0 => Len(left) = Len(fromHelper) - ReadMax
  BY PipesAssumption DEF ReadLines
<1>2. CASE fromHelper' = left
  BY <1>1, <1>2, PipesAssumption DEF ReadLines, Taken
<1>3. CASE left # << >> /\ fromHelper' = <<Torn(Head(left))>> \o Tail(left)
  <2>1. Head(left) = left[1] /\ Head(left) \in S /\ Tail(left) \in Seq(S)
    BY <1>1, <1>3
  <2>2. Torn(Head(left)) \in S
    BY <2>1
  <2> HIDE DEF left
  <2>3. /\ fromHelper' \in Seq(S) /\ Len(fromHelper') = Len(left)
        /\ fromHelper'[1] = Torn(left[1])
        /\ \A i \in 2 .. Len(left) : fromHelper'[i] = left[i]
    BY <1>1, <1>3, <2>1, <2>2
  <2>4. QED
    BY <1>1, <1>3, <2>3, PipesAssumption DEF ReadLines, Taken
<1>4. QED
  BY <1>2, <1>3 DEF ReadLines

\* read() returns a line of S and leaves such lines.
LEMMA ReadType ==
    ASSUME NEW S, fromHelper \in Seq(S), \A l \in S : Torn(l) \in S, ReadLines
    PROVE  fromHelper' \in Seq(S) /\ Head(fromHelper) \in S
<1>1. fromHelper' \in Seq(S)
  BY ReadLeaves
<1>2. Head(fromHelper) \in S
  BY DEF ReadLines
<1>3. QED
  BY <1>1, <1>2

\* The same of the protocol's lines.
LEMMA ReadLineType ==
    ASSUME fromHelper \in Seq(Lines), ReadLines
    PROVE  fromHelper' \in Seq(Lines) /\ Head(fromHelper) \in Lines
BY ReadType, TornType

\* read() empties a pipe of one line.
LEMMA LoneLineRead ==
    ASSUME fromHelper \in Seq(Lines), Len(fromHelper) = 1, ReadLines
    PROVE  fromHelper' = << >>
<1>1. fromHelper' \in Seq(Lines) /\ Len(fromHelper') = Len(fromHelper) - Taken
      /\ Taken \in 1 .. Len(fromHelper)
  BY TornType, ReadLeaves
<1>2. QED
  BY <1>1

-----------------------------------------------------------------------------
(* What a retune does to the types, however it is interrupted.              *)

\* The offset can be taken off any value of freqs[0] without wrapping below
\* zero, and a step from the result is a frequency of the band's range again.
LEMMA StepIsFrequency ==
    ASSUME freqs0 \in Frequencies, NEW dir
    PROVE  Tuned \in Nat /\ StepFrom(Tuned, dir) \in Frequencies
BY BandPlanAssumption, HelperAssumption
DEF Frequencies, Tuned, StepFrom, StepUp, StepDown

\* Adding the offset, in either build, leaves freqs[0] a frequency.
LEMMA OffsetType ==
    ASSUME freqs0 \in Frequencies, NEW f \in Frequencies, AddOffset(f)
    PROVE  freqs0' \in Frequencies
BY BandPlanAssumption, HelperAssumption DEF Frequencies, AddOffset

\* main's entry into rtl_fm_set_freq keeps the types of what it writes.
LEMMA MainRetuneType ==
    ASSUME HelperTypeOK, NEW f \in Frequencies, MainRetune(f)
    PROVE  /\ {freqs0', main_freq'} \subseteq Frequencies
           /\ main_pc' \in {"command", "joining", "offset", "report"}
BY DEF HelperTypeOK, MainRetune

-----------------------------------------------------------------------------
(* Type correctness.                                                        *)

\* What rtlsdr_init leaves has the declared types.
LEMMA TypeInit == Init => TypeOK
<1> SUFFICES ASSUME Init PROVE TypeOK
  OBVIOUS
<1> USE BandPlanAssumption DEF Init
<1>1. PipesTypeOK
  BY DEF PipesInit, PipesTypeOK
<1>2. MinFreq \in Frequencies /\ MinFreq + WbOffset \in Frequencies
  BY HelperAssumption DEF Frequencies
<1>3. HelperTypeOK
  BY <1>2 DEF HelperInit, HelperTypeOK, Directions
<1>4. NoLine \in Lines
  BY DEF NoLine, Lines, Kinds
<1>5. BackendTypeOK
  BY <1>2, <1>4 DEF BackendInit, BackendTypeOK, Directions, Places
<1>6. QED
  BY <1>1, <1>3, <1>5 DEF TypeOK

\* The backend's variables are not the helper's to change.
LEMMA TypeHelper == TypeOK /\ Helper => TypeOK'
<1> SUFFICES ASSUME PipesTypeOK, HelperTypeOK, BackendTypeOK, HelperNext,
                    UNCHANGED backendVars
             PROVE  PipesTypeOK' /\ HelperTypeOK' /\ BackendTypeOK'
  BY DEF TypeOK, Helper, ByHelper
<1> USE DEF mainVars, demodVars
<1>a. BackendTypeOK'
  BY DEF BackendTypeOK, backendVars
<1>b. MinFreq \in Frequencies
  BY BandPlanAssumption DEF Frequencies
<1>c. ASSUME NEW ops, NextCommand(ops), UNCHANGED <<fromHelper, helper_alive>>
      PROVE  PipesTypeOK' /\ Head(toHelper) \in Commands
  BY <1>c, NextCommandType DEF PipesTypeOK
<1>d. ASSUME NEW kind \in {"F", "S"}, NEW f \in Nat,
             PrintLine(ReplyLine(kind, f)), UNCHANGED <<toHelper, helper_alive>>
      PROVE  PipesTypeOK'
  BY <1>d, LineType, PrintType DEF PipesTypeOK
<1>e. UNCHANGED pipeVars => PipesTypeOK'
  BY DEF PipesTypeOK, pipeVars
<1>1. CASE HelperStart
  BY <1>a, <1>c, <1>1 DEF HelperStart, HelperTypeOK, StopScan
<1>2. CASE HelperStop
  BY <1>a, <1>c, <1>2 DEF HelperStop, HelperTypeOK, StopScan
<1>3. CASE HelperJoined
  BY <1>a, <1>e, <1>3 DEF HelperJoined, HelperTypeOK
<1>4. CASE HelperSetFreq
  <2>1. PipesTypeOK' /\ Head(toHelper).freq \in Frequencies
    <3>1. PipesTypeOK' /\ Head(toHelper) \in Commands
      BY <1>c, <1>4 DEF HelperSetFreq
    <3>2. Head(toHelper).op = "F="
      BY <1>4 DEF HelperSetFreq, NextCommand
    <3>3. QED
      BY <3>1, <3>2 DEF Commands, ScanOps, PlainOps
  <2>2. QED
    BY <1>a, <1>4, <2>1, MainRetuneType
    DEF HelperSetFreq, HelperTypeOK, StopScan
<1>5. CASE HelperScanStart
  <2>1. PipesTypeOK'
    BY <1>c, <1>5 DEF HelperScanStart
  <2>2. ScanDirection \in Directions
    BY DEF ScanDirection, Directions
  <2>3. StepFrom(Tuned, ScanDirection) \in Frequencies
    BY StepIsFrequency DEF HelperTypeOK
  <2>4. HelperTypeOK'
    BY <1>5, <2>2, <2>3, MainRetuneType
    DEF HelperScanStart, StartScan, HelperTypeOK
  <2>5. QED
    BY <1>a, <2>1, <2>4
<1>6. CASE HelperScanStop
  BY <1>a, <1>c, <1>6 DEF HelperScanStop, HelperTypeOK, StopScan
<1>7. CASE HelperOffset
  <2>1. freqs0' \in Frequencies
    BY <1>7, OffsetType DEF HelperOffset, HelperTypeOK
  <2>2. QED
    BY <1>a, <1>e, <1>7, <2>1 DEF HelperOffset, HelperTypeOK
<1>8. CASE HelperReport
  <2>1. PipesTypeOK'
    BY <1>d, <1>8 DEF HelperReport, HelperTypeOK, Frequencies
  <2>2. HelperTypeOK'
    BY <1>b, <1>8 DEF HelperReport, HelperTypeOK
  <2>3. QED
    BY <1>a, <2>1, <2>2
<1>9. CASE HelperExit
  <2>1. << >> \in Seq(Commands)
    OBVIOUS
  <2>2. PipesTypeOK'
    BY <1>9, <2>1 DEF HelperExit, PipesTypeOK
  <2>3. HelperTypeOK'
    BY <1>9 DEF HelperExit, helperVars, HelperTypeOK
  <2>4. QED
    BY <1>a, <2>2, <2>3
<1>10. CASE DemodWeak
  <2>1. StepFrom(Tuned, scan_direction) \in Frequencies
    BY StepIsFrequency DEF HelperTypeOK
  <2>2. QED
    BY <1>a, <1>e, <1>10, <2>1 DEF DemodWeak, HelperTypeOK
<1>11. CASE DemodTune
  BY <1>a, <1>e, <1>11 DEF DemodTune, HelperTypeOK
<1>12. CASE DemodOffset
  <2>1. freqs0' \in Frequencies
    BY <1>12, OffsetType DEF DemodOffset, HelperTypeOK
  <2>2. QED
    BY <1>a, <1>e, <1>12, <2>1 DEF DemodOffset, HelperTypeOK
<1>13. CASE DemodReport
  <2>1. PipesTypeOK'
    BY <1>d, <1>13 DEF DemodReport, HelperTypeOK, Frequencies
  <2>2. QED
    BY <1>a, <1>13, <2>1 DEF DemodReport, HelperTypeOK
<1>14. CASE DemodStrong
  BY <1>a, <1>e, <1>14 DEF DemodStrong, HelperTypeOK
<1>15. CASE DemodScanStop
  BY <1>a, <1>e, <1>15 DEF DemodScanStop, HelperTypeOK, StopScan
<1>16. CASE DemodStation
  <2>1. PipesTypeOK'
    BY <1>d, <1>16, StepIsFrequency DEF DemodStation, HelperTypeOK
  <2>2. QED
    BY <1>a, <1>16, <2>1 DEF DemodStation, HelperTypeOK
<1>17. QED
  BY <1>1, <1>2, <1>3, <1>4, <1>5, <1>6, <1>7, <1>8, <1>9, <1>10, <1>11,
     <1>12, <1>13, <1>14, <1>15, <1>16
  DEF HelperNext, HelperCommand, DemodStep

\* The backend takes lines from the reply pipe in read() only.
LEMMA BackendReads ==
    ASSUME NEW t \in Clients, ThreadStep(t)
    PROVE  ReadLines \/ UNCHANGED fromHelper
<1>1. CASE CallStep(t)
  BY <1>1 DEF CallStep, SetFrequencyCall, StartCall, StopCall, ScanStartCall,
              ScanStopCall, pipeVars
<1>2. CASE LockStep(t)
  BY <1>2 DEF LockStep, SetFrequencyScanStop, SetFrequencyWrite, StartWrite,
              StopWrite, WriteThenSet, ScanStartWrite, ScanLoop, ScanStopWrite,
              pipeVars
<1>3. CASE FreeStep(t)
  BY <1>3 DEF FreeStep, SetFrequencyStore, SetFrequencyRead, SetFrequencyEOF,
              StartSet, StopSet, SetActive, ScanStartMark, ScanRead, ScanEOF,
              ScanRetuned, ScanStation, ScanDone, pipeVars
<1>4. QED
  BY <1>1, <1>2, <1>3 DEF ThreadStep

\* A step that leaves the pipe alone drops nothing.
LEMMA NothingRead ==
    ASSUME fromHelper \in Seq(Lines), Record, UNCHANGED fromHelper
    PROVE  UNCHANGED dropped
BY DEF Record, Taken

\* A read() drops lines that are in the pipe.
LEMMA ReadDrops ==
    ASSUME fromHelper \in Seq(Lines), ReadLines
    PROVE  /\ Behind \subseteq {fromHelper[i].kind : i \in 2 .. Len(fromHelper)}
           /\ Behind \subseteq Kinds
<1>1. /\ Taken \in 1 .. Len(fromHelper) /\ fromHelper' \in Seq(Lines)
      /\ Len(fromHelper') = Len(fromHelper) - Taken
  BY TornType, ReadLeaves
<1>2. Behind \subseteq {fromHelper[i].kind : i \in 2 .. Len(fromHelper)}
  <2>1. Taken + 1 =< Len(fromHelper) \/ fromHelper' = << >>
    BY <1>1
  <2> HIDE DEF Taken
  <2>2. QED
    BY <1>1, <2>1 DEF Behind
<1>3. \A i \in 2 .. Len(fromHelper) : fromHelper[i].kind \in Kinds
  <2>1. \A i \in 2 .. Len(fromHelper) : fromHelper[i] \in Lines
    OBVIOUS
  <2>2. QED
    BY <2>1 DEF Lines
<1>4. QED
  BY <1>2, <1>3

\* What is dropped are lines of the protocol.
LEMMA RecordType ==
    ASSUME fromHelper \in Seq(Lines), dropped \subseteq Kinds, Record,
           ReadLines \/ UNCHANGED fromHelper
    PROVE  dropped' \subseteq Kinds
<1>1. CASE UNCHANGED fromHelper
  BY <1>1, NothingRead
<1>2. CASE ReadLines
  BY <1>2, ReadDrops DEF Record
<1>3. QED
  BY <1>1, <1>2

\* Nor are the helper's the backend's.
LEMMA TypeBackend == TypeOK /\ Backend => TypeOK'
<1> SUFFICES ASSUME PipesTypeOK, HelperTypeOK, BackendTypeOK,
                    UNCHANGED helperVars, NEW t \in Clients, ThreadStep(t)
             PROVE  PipesTypeOK' /\ HelperTypeOK' /\ BackendTypeOK'
  BY RecordType, BackendReads DEF TypeOK, Backend, ByBackend, PipesTypeOK
<1>1. HelperTypeOK'
  BY DEF HelperTypeOK, helperVars, mainVars, demodVars
<1>2. NoLine \in Lines
  BY BandPlanAssumption DEF NoLine, Lines, Kinds
<1> USE BackendAssumption DEF PipesTypeOK, BackendTypeOK, Goto, Places
<1>3. CASE SetFrequencyCall(t)
  <2>1. PipesTypeOK'
    BY <1>3 DEF SetFrequencyCall, pipeVars
  <2>2. PICK f \in Requests :
           Valid(f) /\ frequency' = [frequency EXCEPT ![t] = f]
    BY <1>3 DEF SetFrequencyCall
  <2>3. f \in Frequencies
    BY <2>2 DEF Valid, Frequencies
  <2>4. BackendTypeOK'
    BY <1>3, <2>2, <2>3 DEF SetFrequencyCall
  <2>5. QED
    BY <1>1, <2>1, <2>4
<1>4. CASE StartCall(t)
  <2>1. PipesTypeOK'
    BY <1>4 DEF StartCall, pipeVars
  <2>2. BackendTypeOK'
    BY <1>4 DEF StartCall
  <2>3. QED
    BY <1>1, <2>1, <2>2
<1>5. CASE StopCall(t)
  <2>1. PipesTypeOK'
    BY <1>5 DEF StopCall, pipeVars
  <2>2. BackendTypeOK'
    BY <1>5 DEF StopCall
  <2>3. QED
    BY <1>1, <2>1, <2>2
<1>6. CASE ScanStartCall(t)
  <2>1. PipesTypeOK'
    BY <1>6 DEF ScanStartCall, pipeVars
  <2>2. BackendTypeOK'
    BY <1>6 DEF ScanStartCall, Directions
  <2>3. QED
    BY <1>1, <2>1, <2>2
<1>7. CASE ScanStopCall(t)
  <2>1. PipesTypeOK'
    BY <1>7 DEF ScanStopCall, pipeVars
  <2>2. BackendTypeOK'
    BY <1>7 DEF ScanStopCall
  <2>3. QED
    BY <1>1, <2>1, <2>2
<1>8. CASE SetFrequencyScanStop(t)
  <2>1. PipesTypeOK'
    BY <1>8, CommandType, WriteType
    DEF SetFrequencyScanStop, ScanOps, PlainOps
  <2>2. BackendTypeOK'
    BY <1>8 DEF SetFrequencyScanStop
  <2>3. QED
    BY <1>1, <2>1, <2>2
<1>9. CASE SetFrequencyWrite(t)
  <2>1. PipesTypeOK'
    BY <1>9, RetuneType, WriteType DEF SetFrequencyWrite
  <2>2. BackendTypeOK'
    BY <1>9 DEF SetFrequencyWrite
  <2>3. QED
    BY <1>1, <2>1, <2>2
<1>10. CASE StartWrite(t)
  <2>1. PipesTypeOK'
    BY <1>10, CommandType, WriteType
    DEF StartWrite, WriteThenSet, ScanOps, PlainOps
  <2>2. BackendTypeOK'
    BY <1>10 DEF StartWrite, WriteThenSet
  <2>3. QED
    BY <1>1, <2>1, <2>2
<1>11. CASE StopWrite(t)
  <2>1. PipesTypeOK'
    BY <1>11, CommandType, WriteType
    DEF StopWrite, WriteThenSet, ScanOps, PlainOps
  <2>2. BackendTypeOK'
    BY <1>11 DEF StopWrite, WriteThenSet
  <2>3. QED
    BY <1>1, <2>1, <2>2
<1>12. CASE ScanStartWrite(t)
  <2>1. PipesTypeOK'
    BY <1>12, CommandType, WriteType DEF ScanStartWrite, ScanOps, PlainOps
  <2>2. BackendTypeOK'
    BY <1>12 DEF ScanStartWrite
  <2>3. QED
    BY <1>1, <2>1, <2>2
<1>13. CASE ScanLoop(t)
  <2>1. PipesTypeOK'
    BY <1>13 DEF ScanLoop, pipeVars
  <2>2. BackendTypeOK'
    BY <1>13 DEF ScanLoop
  <2>3. QED
    BY <1>1, <2>1, <2>2
<1>14. CASE ScanStopWrite(t)
  <2>1. PipesTypeOK'
    BY <1>14, CommandType, WriteType DEF ScanStopWrite, ScanOps, PlainOps
  <2>2. BackendTypeOK'
    BY <1>14 DEF ScanStopWrite
  <2>3. QED
    BY <1>1, <2>1, <2>2
<1>15. CASE SetFrequencyStore(t)
  <2>1. PipesTypeOK'
    BY <1>15 DEF SetFrequencyStore, pipeVars
  <2>2. BackendTypeOK'
    BY <1>15 DEF SetFrequencyStore, Frequencies
  <2>3. QED
    BY <1>1, <2>1, <2>2
<1>16. CASE SetFrequencyRead(t)
  <2>1. PipesTypeOK'
    BY <1>16, ReadLineType DEF SetFrequencyRead
  <2>2. BackendTypeOK'
    <3>1. Head(fromHelper) \in Lines
      BY <1>16, ReadLineType DEF SetFrequencyRead
    <3>2. Head(fromHelper).freq \in Nat
      BY <3>1 DEF Lines
    <3>3. QED
      BY <1>16, <3>2 DEF SetFrequencyRead
  <2>3. QED
    BY <1>1, <2>1, <2>2
<1>17. CASE SetFrequencyEOF(t)
  <2>1. PipesTypeOK'
    BY <1>17 DEF SetFrequencyEOF, pipeVars
  <2>2. BackendTypeOK'
    BY <1>17 DEF SetFrequencyEOF
  <2>3. QED
    BY <1>1, <2>1, <2>2
<1>18. CASE StartSet(t)
  <2>1. PipesTypeOK'
    BY <1>18 DEF StartSet, SetActive, pipeVars
  <2>2. BackendTypeOK'
    BY <1>18 DEF StartSet, SetActive
  <2>3. QED
    BY <1>1, <2>1, <2>2
<1>19. CASE StopSet(t)
  <2>1. PipesTypeOK'
    BY <1>19 DEF StopSet, SetActive, pipeVars
  <2>2. BackendTypeOK'
    BY <1>19 DEF StopSet, SetActive
  <2>3. QED
    BY <1>1, <2>1, <2>2
<1>20. CASE ScanStartMark(t)
  <2>1. PipesTypeOK'
    BY <1>20 DEF ScanStartMark, pipeVars
  <2>2. BackendTypeOK'
    BY <1>20 DEF ScanStartMark
  <2>3. QED
    BY <1>1, <2>1, <2>2
<1>21. CASE ScanRead(t)
  <2>1. PipesTypeOK'
    BY <1>21, ReadLineType DEF ScanRead
  <2>2. BackendTypeOK'
    BY <1>21, ReadLineType DEF ScanRead
  <2>3. QED
    BY <1>1, <2>1, <2>2
<1>22. CASE ScanEOF(t)
  <2>1. PipesTypeOK'
    BY <1>22 DEF ScanEOF, pipeVars
  <2>2. BackendTypeOK'
    BY <1>22 DEF ScanEOF
  <2>3. QED
    BY <1>1, <2>1, <2>2
<1>23. CASE ScanRetuned(t)
  <2>1. PipesTypeOK'
    BY <1>23 DEF ScanRetuned, pipeVars
  <2>2. BackendTypeOK'
    BY <1>23, <1>2 DEF ScanRetuned, Lines
  <2>3. QED
    BY <1>1, <2>1, <2>2
<1>24. CASE ScanStation(t)
  <2>1. PipesTypeOK'
    BY <1>24 DEF ScanStation, pipeVars
  <2>2. BackendTypeOK'
    BY <1>24, <1>2 DEF ScanStation, Lines
  <2>3. QED
    BY <1>1, <2>1, <2>2
<1>25. CASE ScanDone(t)
  <2>1. PipesTypeOK'
    BY <1>25 DEF ScanDone, pipeVars
  <2>2. BackendTypeOK'
    BY <1>25 DEF ScanDone
  <2>3. QED
    BY <1>1, <2>1, <2>2
<1>26. QED
  BY <1>3, <1>4, <1>5, <1>6, <1>7, <1>8, <1>9, <1>10,
     <1>11, <1>12, <1>13, <1>14, <1>15, <1>16, <1>17, <1>18,
     <1>19, <1>20, <1>21, <1>22, <1>23, <1>24, <1>25
  DEF ThreadStep, CallStep, LockStep, FreeStep

\* Every variable of the radio keeps its type: the flags and frequencies of the
\* backend, the helper's controller, and the lines in the two pipes.
THEOREM TypeCorrect == Spec => []TypeOK
<1>1. TypeOK /\ UNCHANGED vars => TypeOK'
  BY DEF TypeOK, PipesTypeOK, HelperTypeOK, BackendTypeOK, vars, pipeVars,
         helperVars, mainVars, demodVars, backendVars
<1>2. TypeOK /\ [Next]_vars => TypeOK'
  BY <1>1, TypeHelper, TypeBackend DEF Next
<1>3. QED
  BY <1>2, TypeInit, PTL DEF Spec

-----------------------------------------------------------------------------
(* The mutex.  A step of a thread either leaves the set of readers alone, or *)
(* makes its thread the one reader, or takes it out.                         *)

Reading == {"sf_read", "sc_read"}

\* A step from and to places outside read() that leaves the mutex alone.
LEMMA OtherPlace ==
    ASSUME BackendTypeOK, OneReader, NEW t \in Clients, NEW place,
           pc[t] \notin Reading, place \notin Reading, Goto(t, place),
           UNCHANGED helper_mutex
    PROVE  OneReader'
BY DEF BackendTypeOK, OneReader, Readers, Reading, Goto

\* A thread that takes the free mutex and goes into read().
LEMMA BeginRead ==
    ASSUME BackendTypeOK, OneReader, NEW t \in Clients, NEW place,
           Unlocked, place \in Reading, Goto(t, place), helper_mutex' = t
    PROVE  OneReader'
<1>1. Readers = {}
  BY DEF OneReader, Unlocked
<1>2. Readers' = {t}
  BY <1>1 DEF BackendTypeOK, Readers, Reading, Goto
<1>3. QED
  BY <1>2, BackendAssumption DEF OneReader

\* The reader that comes out of read() and releases the mutex.
LEMMA EndRead ==
    ASSUME BackendTypeOK, OneReader, NEW t \in Clients, NEW place,
           pc[t] \in Reading, place \notin Reading, Goto(t, place),
           helper_mutex' = NoClient
    PROVE  OneReader'
<1>1. Readers = {t}
  BY BackendAssumption DEF OneReader, Readers, Reading
<1>2. Readers' = {}
  BY <1>1 DEF BackendTypeOK, Readers, Reading, Goto
<1>3. QED
  BY <1>2 DEF OneReader

\* Every step of a thread of the backend is of one of these kinds.
LEMMA ReaderBackend == TypeOK /\ OneReader /\ Backend => OneReader'
<1> SUFFICES ASSUME BackendTypeOK, OneReader, NEW t \in Clients,
                    ThreadStep(t)
             PROVE  OneReader'
  BY DEF TypeOK, Backend, ByBackend
<1> USE DEF At, Call, Reading
<1>1. CASE SetFrequencyCall(t)
  BY <1>1, OtherPlace DEF SetFrequencyCall
<1>2. CASE StartCall(t)
  BY <1>2, OtherPlace DEF StartCall
<1>3. CASE StopCall(t)
  BY <1>3, OtherPlace DEF StopCall
<1>4. CASE ScanStartCall(t)
  BY <1>4, OtherPlace DEF ScanStartCall
<1>5. CASE ScanStopCall(t)
  BY <1>5, OtherPlace DEF ScanStopCall
<1>6. CASE SetFrequencyScanStop(t)
  BY <1>6, OtherPlace DEF SetFrequencyScanStop
<1>7. CASE StartWrite(t)
  BY <1>7, OtherPlace DEF StartWrite, WriteThenSet
<1>8. CASE StopWrite(t)
  BY <1>8, OtherPlace DEF StopWrite, WriteThenSet
<1>9. CASE ScanStartWrite(t)
  BY <1>9, OtherPlace DEF ScanStartWrite
<1>10. CASE ScanStopWrite(t)
  BY <1>10, OtherPlace DEF ScanStopWrite
<1>11. CASE SetFrequencyStore(t)
  BY <1>11, OtherPlace DEF SetFrequencyStore
<1>12. CASE StartSet(t)
  BY <1>12, OtherPlace DEF StartSet, SetActive
<1>13. CASE StopSet(t)
  BY <1>13, OtherPlace DEF StopSet, SetActive
<1>14. CASE ScanStartMark(t)
  BY <1>14, OtherPlace DEF ScanStartMark
<1>15. CASE ScanRetuned(t)
  BY <1>15, OtherPlace DEF ScanRetuned
<1>16. CASE ScanStation(t)
  BY <1>16, OtherPlace DEF ScanStation
<1>17. CASE ScanDone(t)
  BY <1>17, OtherPlace DEF ScanDone
<1>18. CASE SetFrequencyWrite(t)
  <2>1. CASE helper_alive
    BY <1>18, <2>1, BeginRead DEF SetFrequencyWrite
  <2>2. CASE ~ helper_alive
    BY <1>18, <2>2, OtherPlace DEF SetFrequencyWrite
  <2>3. QED
    BY <2>1, <2>2
<1>19. CASE ScanLoop(t)
  <2>1. CASE scanning
    BY <1>19, <2>1, BeginRead DEF ScanLoop
  <2>2. CASE ~ scanning
    BY <1>19, <2>2, OtherPlace DEF ScanLoop
  <2>3. QED
    BY <2>1, <2>2
<1>20. CASE SetFrequencyEOF(t)
  BY <1>20, EndRead DEF SetFrequencyEOF
<1>21. CASE ScanRead(t)
  BY <1>21, EndRead DEF ScanRead
<1>22. CASE ScanEOF(t)
  BY <1>22, EndRead DEF ScanEOF
<1>23. CASE SetFrequencyRead(t)
  <2>1. CASE Head(fromHelper).kind = "F"
    BY <1>23, <2>1, EndRead DEF SetFrequencyRead
  <2>2. CASE Head(fromHelper).kind # "F"
    BY <1>23, <2>2 DEF SetFrequencyRead, OneReader, Readers
  <2>3. QED
    BY <2>1, <2>2
<1>24. QED
  BY <1>1, <1>2, <1>3, <1>4, <1>5, <1>6, <1>7, <1>8,
     <1>9, <1>10, <1>11, <1>12, <1>13, <1>14, <1>15, <1>16,
     <1>17, <1>18, <1>19, <1>20, <1>21, <1>22, <1>23
  DEF ThreadStep, CallStep, LockStep, FreeStep

\* helper_mutex is held exactly while its owner is inside read(): no way out of
\* a call leaves it locked and no two threads read the helper's replies.
THEOREM MutexHeldByReader == Spec => []OneReader
<1>1. Init => OneReader
  BY DEF Init, BackendInit, OneReader, Readers
<1>2. TypeOK /\ OneReader /\ Helper => OneReader'
  BY DEF Helper, ByHelper, backendVars, OneReader, Readers
<1>3. TypeOK /\ OneReader /\ UNCHANGED vars => OneReader'
  BY DEF vars, backendVars, OneReader, Readers
<1>4. TypeOK /\ OneReader /\ [Next]_vars => OneReader'
  BY <1>2, <1>3, ReaderBackend DEF Next
<1>5. QED
  BY <1>1, <1>4, TypeCorrect, PTL DEF Spec

-----------------------------------------------------------------------------
(* The helper's scan.                                                       *)

\* The demodulator steps or ends a scan only while the radio plays: no command
\* order and no race between the command loop and the demodulator leaves a
\* scan running in a stopped or stopping helper.
THEOREM HelperScansWhilePlaying == Spec => []ScanOnlyWhilePlaying
<1>1. Init => ScanOnlyWhilePlaying
  BY DEF Init, HelperInit, ScanOnlyWhilePlaying
<1>2. TypeOK /\ ScanOnlyWhilePlaying /\ Helper => ScanOnlyWhilePlaying'
  <2> SUFFICES ASSUME HelperTypeOK, ScanOnlyWhilePlaying, HelperNext
               PROVE  ScanOnlyWhilePlaying'
    BY DEF TypeOK, Helper, ByHelper
  <2> USE DEF ScanOnlyWhilePlaying, NextCommand, HelperTypeOK, mainVars,
             demodVars
  <2>1. CASE HelperStart
    BY <2>1 DEF HelperStart, StopScan
  <2>2. CASE HelperStop
    BY <2>2 DEF HelperStop, StopScan
  <2>3. CASE HelperJoined
    BY <2>3 DEF HelperJoined
  <2>4. CASE HelperSetFreq
    BY <2>4 DEF HelperSetFreq, MainRetune, StopScan
  <2>5. CASE HelperScanStart
    BY <2>5 DEF HelperScanStart, StartScan, MainRetune
  <2>6. CASE HelperScanStop
    BY <2>6 DEF HelperScanStop, StopScan
  <2>7. CASE HelperOffset
    BY <2>7 DEF HelperOffset
  <2>8. CASE HelperReport
    BY <2>8 DEF HelperReport
  <2>9. CASE HelperExit
    BY <2>9 DEF HelperExit, helperVars
  <2>10. CASE DemodWeak
    BY <2>10 DEF DemodWeak, Iteration
  <2>11. CASE DemodTune
    BY <2>11 DEF DemodTune
  <2>12. CASE DemodOffset
    BY <2>12 DEF DemodOffset
  <2>13. CASE DemodReport
    BY <2>13 DEF DemodReport
  <2>14. CASE DemodStrong
    BY <2>14 DEF DemodStrong, Iteration
  <2>15. CASE DemodScanStop
    BY <2>15 DEF DemodScanStop, StopScan
  <2>16. CASE DemodStation
    BY <2>16 DEF DemodStation
  <2>17. QED
    BY <2>1, <2>2, <2>3, <2>4, <2>5, <2>6, <2>7, <2>8, <2>9, <2>10, <2>11,
       <2>12, <2>13, <2>14, <2>15, <2>16
    DEF HelperNext, HelperCommand, DemodStep
<1>3. ScanOnlyWhilePlaying /\ Backend => ScanOnlyWhilePlaying'
  BY DEF Backend, ByBackend, helperVars, mainVars, demodVars, ScanOnlyWhilePlaying
<1>4. ScanOnlyWhilePlaying /\ UNCHANGED vars => ScanOnlyWhilePlaying'
  BY DEF vars, helperVars, mainVars, demodVars, ScanOnlyWhilePlaying
<1>5. TypeOK /\ ScanOnlyWhilePlaying /\ [Next]_vars => ScanOnlyWhilePlaying'
  BY <1>2, <1>3, <1>4 DEF Next
<1>6. QED
  BY <1>1, <1>5, TypeCorrect, PTL DEF Spec

-----------------------------------------------------------------------------
(***************************************************************************)
(* The band's grid and the answers to F=.  Nothing protects                *)
(* controller.freqs[0] from the two threads of the helper, so that the     *)
(* radio stays on the grid only while their retunes keep apart.  They do   *)
(* when one client alone tunes and scans, whoever starts and stops the     *)
(* radio, and when nobody scans: any number of clients may start, stop,    *)
(* tune and stop scans concurrently then, every F= gets its own answer,    *)
(* and the last frequency event sent is the tuner's frequency.             *)
(***************************************************************************)

PlayOps == {"START", "STOP"}

\* The pipe holds nothing but starts and stops.
OnlyPlays == \A i \in DOMAIN toHelper : toHelper[i].op \in PlayOps

\* While main is inside rtl_fm_set_freq the demodulator is idle and stays so,
\* and while the demodulator is busy main has nothing to do but to start and stop.
Apart ==
    helper_alive =>
        /\ Retuning => demod_pc = "idle" /\ ~ squelch
        /\ demod_pc # "idle" => OnlyPlays

-----------------------------------------------------------------------------
(* Steps on the grid.                                                       *)

\* A command that carries no frequency keeps the pipe on the grid.
LEMMA GridCommandType ==
    ASSUME NEW op \in ScanOps \cup PlainOps
    PROVE  Command(op, 0) \in GridCommands
BY CommandType DEF Command, GridCommands, ScanOps, PlainOps

\* So does a retune to a channel.
LEMMA GridRetuneType ==
    ASSUME NEW f \in Frequencies, f \in Channels
    PROVE  Command("F=", f) \in GridCommands
BY RetuneType DEF Command, GridCommands

\* A reply for a channel keeps the pipe on the grid.
LEMMA GridLineType ==
    ASSUME NEW kind \in {"F", "S"}, NEW f \in Channels
    PROVE  ReplyLine(kind, f) \in GridLines
BY LineType, ChannelsAreNat DEF ReplyLine, GridLines

\* What read() returns of such a pipe, and leaves in it, is on the grid.
LEMMA ReadGridType ==
    ASSUME fromHelper \in Seq(GridLines), ReadLines
    PROVE  fromHelper' \in Seq(GridLines) /\ Head(fromHelper) \in GridLines
<1>1. \A l \in GridLines : Torn(l) \in GridLines
  BY TornType DEF GridLines
<1>2. QED
  BY <1>1, ReadType

\* freqs[0] with the offset is never a channel itself, nor what a retune
\* compares it with: every retune to a channel is carried out.
LEMMA NeverRepeated ==
    ASSUME Tuned \in Channels, freqs0 \in Frequencies, NEW f \in Channels
    PROVE  freqs0 # f
<1>1. /\ Tuned - MinFreq \in Int /\ f - MinFreq \in Int
      /\ FreqStep \in Nat \ {0} /\ Tuned \in Int /\ f \in Int
      /\ (Tuned - MinFreq) % FreqStep = 0 /\ (f - MinFreq) % FreqStep = 0
  BY BandPlanAssumption DEF Channels, Valid
<1>2. freqs0 = Tuned + WbOffset /\ WbOffset \in Nat
  BY <1>1, HelperAssumption DEF Tuned, Frequencies
<1>3. SUFFICES ASSUME freqs0 = f PROVE FALSE
  OBVIOUS
<1>4. /\ Tuned - MinFreq =< f - MinFreq
      /\ f - MinFreq < (Tuned - MinFreq) + FreqStep
  BY <1>1, <1>2, <1>3, HelperAssumption, BandPlanAssumption
<1>5. Tuned - MinFreq = f - MinFreq
  BY <1>1, <1>4, GridPointsApart
<1>6. QED
  BY <1>1, <1>2, <1>3, <1>5, HelperAssumption, BandPlanAssumption

\* The offset added to a channel, in either build, tunes to that channel.
LEMMA OffsetTunes ==
    ASSUME NEW f \in Channels, freqs0 = f, AddOffset(f)
    PROVE  Tuned' = f
<1>1. f \in Nat /\ WbOffset \in Nat
  BY ChannelsAreNat, BandPlanAssumption, HelperAssumption
<1>2. freqs0' = f + WbOffset
  BY <1>1 DEF AddOffset
<1>3. QED
  BY <1>1, <1>2 DEF Tuned

\* The radio starts at the band's minimum, which is a channel.
LEMMA GridInit == Init => OnGrid
<1>1. Init => Tuned = MinFreq
  BY BandPlanAssumption, HelperAssumption DEF Init, HelperInit, Tuned
<1>2. QED
  BY <1>1, EndsAreChannels
  DEF Init, PipesInit, HelperInit, BackendInit, NoLine, OnGrid, TunerOnGrid

\* The helper leaves the grid neither by a command, whose frequency was checked
\* by the service, nor by a scan step, which wraps at the band's ends, as long
\* as its threads keep apart.
LEMMA GridHelper == TypeOK /\ OnGrid /\ Apart /\ Helper => OnGrid'
<1> SUFFICES ASSUME TypeOK, OnGrid, Apart, HelperNext, UNCHANGED backendVars
             PROVE  OnGrid'
  BY DEF Helper, ByHelper
<1> DEFINE Locals == {main_freq, demod_freq} \subseteq Channels
<1>a. /\ toHelper \in Seq(GridCommands) /\ fromHelper \in Seq(GridLines)
      /\ Locals /\ TunerOnGrid /\ helper_alive
      /\ freqs0 \in Frequencies /\ scan_direction \in Directions
  <2>1. helper_alive
    BY DEF HelperNext, HelperCommand, DemodStep, NextCommand, HelperStart,
           HelperStop, HelperJoined, HelperSetFreq, HelperScanStart,
           HelperScanStop, HelperOffset, HelperReport, HelperExit, Iteration,
           DemodWeak, DemodTune, DemodOffset, DemodReport, DemodStrong,
           DemodScanStop, DemodStation
  <2>2. QED
    BY <2>1 DEF OnGrid, TunerOnGrid, TypeOK, HelperTypeOK
<1>b. SUFFICES /\ toHelper' \in Seq(GridCommands)
               /\ fromHelper' \in Seq(GridLines)
               /\ Locals' /\ TunerOnGrid'
  BY DEF OnGrid, TunerOnGrid, backendVars
<1>c. ASSUME NEW ops, NextCommand(ops)
      PROVE  /\ toHelper' \in Seq(GridCommands)
             /\ Head(toHelper) \in GridCommands /\ main_pc = "command"
             /\ ops \cap PlayOps = {} => demod_pc = "idle" /\ Tuned \in Channels
  <2>1. /\ toHelper' \in Seq(GridCommands) /\ Head(toHelper) \in GridCommands
        /\ main_pc = "command" /\ Head(toHelper).op \in ops
    BY <1>a, <1>c, NextCommandType DEF NextCommand
  <2>2. OnlyPlays => Head(toHelper).op \in PlayOps
    BY <1>a, <1>c DEF NextCommand, OnlyPlays
  <2>3. QED
    BY <1>a, <2>1, <2>2 DEF Apart, TunerOnGrid
<1>d. ASSUME UNCHANGED <<main_pc, demod_pc, freqs0, main_freq, demod_freq>>
      PROVE  Locals' /\ TunerOnGrid'
  BY <1>a, <1>d DEF TunerOnGrid, Tuned
<1>e. ASSUME main_pc = "command", demod_pc = "idle", Tuned \in Channels,
             UNCHANGED <<demod_pc, demod_freq>>,
             NEW f \in Channels, MainRetune(f)
      PROVE  Locals' /\ TunerOnGrid'
  BY <1>a, <1>e DEF MainRetune, TunerOnGrid, Tuned
<1>f. ASSUME demod_pc # "idle" \/ squelch
      PROVE  main_pc \notin {"offset", "report"}
  BY <1>a, <1>f DEF Apart, Retuning
<1> USE DEF mainVars, demodVars
<1> HIDE DEF Locals
<1>1. CASE HelperStart
  BY <1>a, <1>c, <1>d, <1>1 DEF HelperStart
<1>2. CASE HelperStop
  <2>1. toHelper' \in Seq(GridCommands) /\ main_pc = "command"
    BY <1>c, <1>2 DEF HelperStop
  <2>2. main_pc' # "offset" /\ Tuned' = Tuned
    BY <1>2, <2>1 DEF HelperStop, Tuned
  <2>3. QED
    BY <1>a, <1>2, <2>1, <2>2 DEF HelperStop, TunerOnGrid, Locals
<1>3. CASE HelperJoined
  BY <1>a, <1>3 DEF HelperJoined, pipeVars, TunerOnGrid, Tuned, Locals
<1>4. CASE HelperSetFreq
  <2>1. NextCommand({"F="}) /\ MainRetune(Head(toHelper).freq)
    BY <1>4 DEF HelperSetFreq
  <2>2. Head(toHelper).freq \in Channels
    BY <1>c, <2>1 DEF NextCommand, GridCommands
  <2>3. QED
    BY <1>a, <1>c, <1>e, <1>4, <2>1, <2>2 DEF HelperSetFreq, PlayOps
<1>5. CASE HelperScanStart
  <2>1. NextCommand(ScanOps)
    BY <1>5 DEF HelperScanStart
  <2>2. CASE UNCHANGED <<main_pc, main_freq, freqs0>>
    BY <1>a, <1>c, <1>d, <1>5, <2>1, <2>2 DEF HelperScanStart
  <2>3. CASE StartScan(ScanDirection)
    <3>1. main_pc = "command" /\ demod_pc = "idle" /\ Tuned \in Channels
      BY <1>c, <2>1 DEF ScanOps, PlayOps
    <3>2. StepFrom(Tuned, ScanDirection) \in Channels
      BY <3>1, StepStaysOnGrid DEF ScanDirection, Directions
    <3>3. MainRetune(StepFrom(Tuned, ScanDirection))
      BY <2>3 DEF StartScan
    <3>4. QED
      BY <1>a, <1>c, <1>e, <1>5, <2>1, <3>1, <3>2, <3>3 DEF HelperScanStart
  <2>4. QED
    BY <1>5, <2>2, <2>3 DEF HelperScanStart
<1>6. CASE HelperScanStop
  BY <1>a, <1>c, <1>d, <1>6 DEF HelperScanStop
<1>7. CASE HelperOffset
  <2>1. demod_pc = "idle" /\ freqs0 = main_freq /\ main_freq \in Channels
    BY <1>a, <1>7 DEF HelperOffset, Apart, Retuning, TunerOnGrid, Locals
  <2>2. Tuned' \in Channels
    BY <1>7, <2>1, OffsetTunes DEF HelperOffset
  <2>3. QED
    BY <1>a, <1>7, <2>1, <2>2 DEF HelperOffset, pipeVars, TunerOnGrid, Locals
<1>8. CASE HelperReport
  <2>1. fromHelper' \in Seq(GridLines)
    BY <1>a, <1>8, GridLineType, PrintType DEF HelperReport, Locals
  <2>2. demod_pc = "idle" /\ Tuned \in Channels
    BY <1>a, <1>8 DEF HelperReport, Apart, Retuning, TunerOnGrid
  <2>3. QED
    BY <1>a, <1>8, <2>1, <2>2, EndsAreChannels
    DEF HelperReport, TunerOnGrid, Tuned, Locals
<1>9. CASE HelperExit
  <2>1. << >> \in Seq(GridCommands)
    OBVIOUS
  <2>2. QED
    BY <1>a, <1>d, <1>9, <2>1 DEF HelperExit, helperVars
<1>10. CASE DemodWeak
  <2>1. Tuned \in Channels /\ main_pc # "offset"
    BY <1>a, <1>f, <1>10 DEF DemodWeak, Iteration, TunerOnGrid
  <2>2. StepFrom(Tuned, scan_direction) \in Channels
    BY <1>a, <2>1, StepStaysOnGrid
  <2>3. QED
    BY <1>a, <1>10, <2>1, <2>2
    DEF DemodWeak, pipeVars, TunerOnGrid, Tuned, Locals
<1>11. CASE DemodTune
  BY <1>a, <1>f, <1>11 DEF DemodTune, pipeVars, TunerOnGrid, Tuned, Locals
<1>12. CASE DemodOffset
  <2>1. /\ main_pc # "offset" /\ freqs0 = demod_freq /\ demod_freq \in Channels
    BY <1>a, <1>f, <1>12 DEF DemodOffset, TunerOnGrid, Locals
  <2>2. Tuned' \in Channels
    BY <1>12, <2>1, OffsetTunes DEF DemodOffset
  <2>3. QED
    BY <1>a, <1>12, <2>1, <2>2 DEF DemodOffset, pipeVars, TunerOnGrid, Locals
<1>13. CASE DemodReport
  <2>1. fromHelper' \in Seq(GridLines)
    BY <1>a, <1>13, GridLineType, PrintType DEF DemodReport, Locals
  <2>2. QED
    BY <1>a, <1>f, <1>13, <2>1 DEF DemodReport, TunerOnGrid, Tuned, Locals
<1>14. CASE DemodStrong
  BY <1>a, <1>f, <1>14
  DEF DemodStrong, Iteration, pipeVars, TunerOnGrid, Tuned, Locals
<1>15. CASE DemodScanStop
  BY <1>a, <1>f, <1>15
  DEF DemodScanStop, pipeVars, TunerOnGrid, Tuned, Locals
<1>16. CASE DemodStation
  <2>1. main_pc # "offset" /\ Tuned \in Channels
    BY <1>a, <1>f, <1>16 DEF DemodStation, TunerOnGrid
  <2>2. fromHelper' \in Seq(GridLines)
    BY <1>a, <1>16, <2>1, GridLineType, PrintType DEF DemodStation
  <2>3. QED
    BY <1>a, <1>16, <2>1, <2>2 DEF DemodStation, TunerOnGrid, Tuned, Locals
<1>17. QED
  BY <1>1, <1>2, <1>3, <1>4, <1>5, <1>6, <1>7, <1>8, <1>9, <1>10, <1>11,
     <1>12, <1>13, <1>14, <1>15, <1>16
  DEF HelperNext, HelperCommand, DemodStep

\* The backend leaves the grid neither by a request, which RadioImpl checked,
\* nor by what it reads from the helper.
LEMMA GridBackend == TypeOK /\ OnGrid /\ Backend => OnGrid'
<1> SUFFICES ASSUME TypeOK, OnGrid, UNCHANGED helperVars,
                    NEW t \in Clients, ThreadStep(t)
             PROVE  OnGrid'
  BY DEF Backend, ByBackend
<1>a. NoLine.freq \in Channels
  BY EndsAreChannels DEF NoLine
<1>b. /\ frequency \in [Clients -> Frequencies] /\ frequency[t] \in Frequencies
      /\ line \in [Clients -> Lines]
  BY DEF TypeOK, BackendTypeOK
<1>c. {main_freq', demod_freq'} \subseteq Channels /\ TunerOnGrid'
  BY DEF OnGrid, helperVars, mainVars, demodVars, TunerOnGrid, Tuned
<1> USE <1>c DEF OnGrid
<1>1. CASE SetFrequencyCall(t)
  <2>1. PICK f \in Requests :
           Valid(f) /\ frequency' = [frequency EXCEPT ![t] = f]
    BY <1>1 DEF SetFrequencyCall
  <2>2. f \in Channels
    BY <2>1, BackendAssumption, BandPlanAssumption DEF Channels, Valid
  <2>3. QED
    BY <1>b, <1>1, <2>1, <2>2 DEF SetFrequencyCall, pipeVars
<1>2. CASE StartCall(t)
  BY <1>2 DEF StartCall, pipeVars
<1>3. CASE StopCall(t)
  BY <1>3 DEF StopCall, pipeVars
<1>4. CASE ScanStartCall(t)
  BY <1>4 DEF ScanStartCall, pipeVars
<1>5. CASE ScanStopCall(t)
  BY <1>5 DEF ScanStopCall, pipeVars
<1>6. CASE SetFrequencyScanStop(t)
  <2>1. toHelper' \in Seq(GridCommands)
    BY <1>b, <1>6, GridCommandType, WriteType
    DEF SetFrequencyScanStop, ScanOps, PlainOps
  <2>2. QED
    BY <1>6, <2>1 DEF SetFrequencyScanStop
<1>7. CASE SetFrequencyWrite(t)
  <2>1. toHelper' \in Seq(GridCommands)
    BY <1>b, <1>7, GridRetuneType, WriteType DEF SetFrequencyWrite
  <2>2. QED
    BY <1>7, <2>1 DEF SetFrequencyWrite
<1>8. CASE StartWrite(t)
  <2>1. toHelper' \in Seq(GridCommands)
    BY <1>b, <1>8, GridCommandType, WriteType
    DEF StartWrite, WriteThenSet, ScanOps, PlainOps
  <2>2. QED
    BY <1>8, <2>1 DEF StartWrite, WriteThenSet
<1>9. CASE StopWrite(t)
  <2>1. toHelper' \in Seq(GridCommands)
    BY <1>b, <1>9, GridCommandType, WriteType
    DEF StopWrite, WriteThenSet, ScanOps, PlainOps
  <2>2. QED
    BY <1>9, <2>1 DEF StopWrite, WriteThenSet
<1>10. CASE ScanStartWrite(t)
  <2>1. toHelper' \in Seq(GridCommands)
    BY <1>b, <1>10, GridCommandType, WriteType
    DEF ScanStartWrite, ScanOps, PlainOps
  <2>2. QED
    BY <1>10, <2>1 DEF ScanStartWrite
<1>11. CASE ScanLoop(t)
  BY <1>11 DEF ScanLoop, pipeVars
<1>12. CASE ScanStopWrite(t)
  <2>1. toHelper' \in Seq(GridCommands)
    BY <1>b, <1>12, GridCommandType, WriteType
    DEF ScanStopWrite, ScanOps, PlainOps
  <2>2. QED
    BY <1>12, <2>1 DEF ScanStopWrite
<1>13. CASE SetFrequencyStore(t)
  BY <1>13 DEF SetFrequencyStore, pipeVars
<1>14. CASE SetFrequencyRead(t)
  <2>1. fromHelper' \in Seq(GridLines) /\ Head(fromHelper) \in GridLines
    BY <1>14, ReadGridType DEF SetFrequencyRead
  <2>2. Head(fromHelper).freq \in Channels
    BY <2>1 DEF GridLines
  <2>3. QED
    BY <1>b, <1>14, <2>1, <2>2 DEF SetFrequencyRead
<1>15. CASE SetFrequencyEOF(t)
  BY <1>15 DEF SetFrequencyEOF, pipeVars
<1>16. CASE StartSet(t)
  BY <1>16 DEF StartSet, SetActive, pipeVars
<1>17. CASE StopSet(t)
  BY <1>17 DEF StopSet, SetActive, pipeVars
<1>18. CASE ScanStartMark(t)
  BY <1>18 DEF ScanStartMark, pipeVars
<1>19. CASE ScanRead(t)
  <2>1. fromHelper' \in Seq(GridLines) /\ Head(fromHelper) \in GridLines
    BY <1>19, ReadGridType DEF ScanRead
  <2>2. Head(fromHelper).freq \in Channels
    BY <2>1 DEF GridLines
  <2>3. QED
    BY <1>b, <1>19, <2>1, <2>2 DEF ScanRead
<1>20. CASE ScanEOF(t)
  BY <1>20 DEF ScanEOF, pipeVars
<1>21. CASE ScanRetuned(t)
  BY <1>a, <1>b, <1>21 DEF ScanRetuned, pipeVars
<1>22. CASE ScanStation(t)
  BY <1>a, <1>b, <1>22 DEF ScanStation, pipeVars
<1>23. CASE ScanDone(t)
  BY <1>23 DEF ScanDone, pipeVars
<1>24. QED
  BY <1>1, <1>2, <1>3, <1>4, <1>5, <1>6, <1>7, <1>8,
     <1>9, <1>10, <1>11, <1>12, <1>13, <1>14, <1>15, <1>16,
     <1>17, <1>18, <1>19, <1>20, <1>21, <1>22, <1>23
  DEF ThreadStep, CallStep, LockStep, FreeStep

-----------------------------------------------------------------------------
(* One client that tunes and scans.                                         *)

\* The others start and stop the radio at most.
OnlyTuner(c) == \A t \in Clients \ {c} : Calls[t] \subseteq {"Start", "Stop"}

PlayPlaces == {"st_lock", "st_set", "sp_lock", "sp_set"}

OthersPlay(c) == \A t \in Clients \ {c} : pc[t] \in PlayPlaces \cup {"idle"}

Scans == {i \in DOMAIN toHelper : toHelper[i].op \in ScanOps}
Stations == {i \in DOMAIN fromHelper : fromHelper[i].kind = "S"}

\* Behind a scan command there are only starts and stops.
ScanIsLast ==
    \A i \in Scans, j \in DOMAIN toHelper : i < j => toHelper[j].op \in PlayOps

\* The helper's scan is under way.
Busy == ctl_scanning \/ demod_pc # "idle"

\* The thread is in the loop that waits for the end of the scan.
InScan(t) == \/ pc[t] \in {"sc_loop", "sc_read"}
             \/ pc[t] = "sc_line" /\ line[t].kind = "F"

\* Nothing is printed after a station.
StationIsLast == \A i \in Stations : i = Len(fromHelper)

\* The client is in that loop from the moment it asks for the scan until it has read
\* the station that ends it, and the helper, all that time, has no command to retune.
Solo(c) ==
    /\ OthersPlay(c)
    /\ pc[c] \in {"sc_lock", "sc_loop", "sc_read", "sc_line"} => scanning
    /\ Stations # {} => InScan(c) /\ StationIsLast
    /\ helper_alive =>
          /\ Busy \/ Scans # {} => InScan(c)
          /\ Busy => OnlyPlays /\ Stations = {}
          /\ Scans # {} => ScanIsLast /\ Stations = {}
          /\ Stations # {} => OnlyPlays /\ ~ Retuning

\* The squelch and the demodulator follow the scan.
ScanPhases ==
    helper_alive =>
        /\ squelch => ctl_scanning
        /\ arming <=> Retuning /\ ctl_scanning
        /\ Retuning => demod_pc = "idle" /\ ~ squelch
        /\ demod_pc = "station" => ~ ctl_scanning

SoloInv(c) == TypeOK /\ OnGrid /\ Solo(c) /\ ScanPhases

\* What it is for.
LEMMA SoloApart ==
    ASSUME NEW c, SoloInv(c)
    PROVE  Apart
BY DEF SoloInv, Solo, ScanPhases, Apart, Busy

\* A scan is no start or stop.
LEMMA PlaysNotScans == OnlyPlays => Scans = {} /\ Retunes = {}
BY DEF OnlyPlays, Scans, Retunes, PlayOps, ScanOps

\* When a scan command is taken only starts and stops are left; when another is,
\* those behind a scan stay there.
LEMMA ScanTaken ==
    ASSUME toHelper \in Seq(Commands), NEW ops, NextCommand(ops),
           Scans # {} => ScanIsLast
    PROVE  /\ Head(toHelper).op \in ScanOps => OnlyPlays' /\ Scans # {}
           /\ Scans' # {} => ScanIsLast' /\ Scans # {}
           /\ OnlyPlays => OnlyPlays' /\ Head(toHelper).op \in PlayOps
<1>1. /\ toHelper # << >> /\ toHelper' = Tail(toHelper)
      /\ Len(toHelper) \in Nat \ {0} /\ Len(toHelper') = Len(toHelper) - 1
      /\ DOMAIN toHelper = 1 .. Len(toHelper)
      /\ DOMAIN toHelper' = 1 .. (Len(toHelper) - 1)
      /\ \A i \in DOMAIN toHelper' : toHelper'[i] = toHelper[i + 1]
      /\ Head(toHelper) = toHelper[1]
  BY DEF NextCommand
<1>2. \A i \in DOMAIN toHelper' : i + 1 \in DOMAIN toHelper /\ i \in Nat \ {0}
  BY <1>1
<1>3. \A i \in Scans' : i + 1 \in Scans
  BY <1>1, <1>2 DEF Scans
<1>4. ASSUME Head(toHelper).op \in ScanOps
      PROVE  OnlyPlays' /\ Scans # {}
  <2>1. 1 \in Scans /\ ScanIsLast
    BY <1>1, <1>4 DEF Scans
  <2>2. QED
    BY <1>1, <1>2, <2>1 DEF ScanIsLast, OnlyPlays
<1>5. ASSUME NEW i \in Scans'
      PROVE  ScanIsLast' /\ Scans # {}
  <2>1. Scans # {} /\ ScanIsLast
    BY <1>3, <1>5
  <2>2. ASSUME NEW k \in Scans', NEW j \in DOMAIN toHelper', k < j
        PROVE  toHelper'[j].op \in PlayOps
    <3>1. k \in DOMAIN toHelper'
      BY <2>2 DEF Scans
    <3>2. k + 1 \in Scans /\ j + 1 \in DOMAIN toHelper /\ k + 1 < j + 1
      BY <1>2, <1>3, <2>2, <3>1
    <3>3. QED
      BY <1>1, <2>1, <2>2, <3>2 DEF ScanIsLast
  <2>3. QED
    BY <2>1, <2>2 DEF ScanIsLast
<1>6. ASSUME OnlyPlays
      PROVE  OnlyPlays' /\ Head(toHelper).op \in PlayOps
  BY <1>1, <1>2, <1>6 DEF OnlyPlays
<1>7. QED
  BY <1>4, <1>5, <1>6

\* A command that asks for no scan keeps the pipe free of scans.
LEMMA NoScanWritten ==
    ASSUME toHelper \in Seq(Commands), NEW c \in Commands, c.op \notin ScanOps,
           WriteCommand(c), Scans = {}
    PROVE  Scans' = {}
BY DEF WriteCommand, Scans

\* One that does is the last.
LEMMA ScanWritten ==
    ASSUME toHelper \in Seq(Commands), NEW c \in Commands,
           WriteCommand(c), Scans = {}
    PROVE  ScanIsLast'
<1>1. Len(toHelper) \in Nat /\ DOMAIN toHelper = 1 .. Len(toHelper)
  OBVIOUS
<1>2. CASE helper_alive
  <2>1. /\ DOMAIN toHelper' = 1 .. (Len(toHelper) + 1)
        /\ \A i \in DOMAIN toHelper : toHelper'[i] = toHelper[i]
    BY <1>2 DEF WriteCommand
  <2>2. Scans' \subseteq {Len(toHelper) + 1}
    BY <1>1, <2>1 DEF Scans
  <2>3. QED
    BY <1>1, <2>1, <2>2 DEF ScanIsLast
<1>3. CASE ~ helper_alive
  BY <1>3 DEF WriteCommand, ScanIsLast, Scans
<1>4. QED
  BY <1>2, <1>3

\* A start or a stop changes nothing of that.
LEMMA PlayKeeps ==
    ASSUME toHelper \in Seq(Commands), NEW op \in PlayOps,
           WriteCommand(Command(op, 0))
    PROVE  /\ Scans' = Scans
           /\ OnlyPlays => OnlyPlays'
           /\ ScanIsLast => ScanIsLast'
<1>1. CASE helper_alive
  <2>1. /\ toHelper' = Append(toHelper, Command(op, 0))
        /\ Len(toHelper) \in Nat
        /\ DOMAIN toHelper = 1 .. Len(toHelper)
        /\ DOMAIN toHelper' = 1 .. (Len(toHelper) + 1)
        /\ \A i \in DOMAIN toHelper : toHelper'[i] = toHelper[i]
        /\ toHelper'[Len(toHelper) + 1] = Command(op, 0)
        /\ Command(op, 0).op \in PlayOps /\ Command(op, 0).op \notin ScanOps
    BY <1>1, CommandType DEF WriteCommand, PlayOps, PlainOps, ScanOps, Command
  <2>2. \A i \in DOMAIN toHelper' \ DOMAIN toHelper : i = Len(toHelper) + 1
    BY <2>1
  <2>3. Scans' = Scans
    BY <2>1, <2>2 DEF Scans
  <2>4. QED
    BY <2>1, <2>2, <2>3 DEF OnlyPlays, ScanIsLast
<1>2. CASE ~ helper_alive
  BY <1>2 DEF WriteCommand, Scans, OnlyPlays, ScanIsLast
<1>3. QED
  BY <1>1, <1>2

\* Printing a retune announces no station.
LEMMA NoStationPrinted ==
    ASSUME fromHelper \in Seq(Lines), NEW f \in Nat,
           PrintLine(ReplyLine("F", f)), Stations = {}
    PROVE  Stations' = {}
BY DEF PrintLine, ReplyLine, Stations, Lines

\* The helper's process and its state are not the backend's to change.
LEMMA HelperKept == Backend => UNCHANGED <<helperVars, helper_alive>>
BY DEF Backend, ByBackend, ThreadStep, CallStep, LockStep, FreeStep, pipeVars,
       SetFrequencyCall, StartCall, StopCall, ScanStartCall, ScanStopCall,
       SetFrequencyScanStop, SetFrequencyWrite, StartWrite, StopWrite,
       ScanStartWrite, ScanLoop, ScanStopWrite, WriteThenSet, SetActive,
       SetFrequencyStore, SetFrequencyRead, SetFrequencyEOF, StartSet,
       StopSet, ScanStartMark, ScanRead, ScanEOF, ScanRetuned, ScanStation,
       ScanDone

\* The others go from one place of theirs to the next.
LEMMA OthersStay ==
    ASSUME NEW c \in Clients, OnlyTuner(c), TypeOK, OthersPlay(c), Backend
    PROVE  OthersPlay(c)'
<1> PICK t \in Clients : ThreadStep(t)
  BY DEF Backend, ByBackend
<1>1. pc \in [Clients -> Places]
  BY DEF TypeOK, BackendTypeOK
<1> USE DEF Goto, At, Call, PlayPlaces
<1>2. ASSUME t # c
      PROVE  pc' \in [Clients -> Places] /\ pc'[t] \in PlayPlaces \cup {"idle"}
             /\ \A u \in Clients \ {t} : pc'[u] = pc[u]
  <2>1. pc[t] \in PlayPlaces \cup {"idle"} /\ Calls[t] \subseteq {"Start", "Stop"}
    BY <1>2 DEF OthersPlay, OnlyTuner
  <2>2. QED
    BY <1>1, <2>1
    DEF ThreadStep, CallStep, LockStep, FreeStep,
        SetFrequencyCall, StartCall, StopCall, ScanStartCall, ScanStopCall, ScanOf,
        Directions, SetFrequencyScanStop, SetFrequencyWrite, StartWrite, StopWrite,
        ScanStartWrite, ScanLoop, ScanStopWrite, WriteThenSet, SetActive,
        SetFrequencyStore, SetFrequencyRead, SetFrequencyEOF, StartSet,
        StopSet, ScanStartMark, ScanRead, ScanEOF, ScanRetuned, ScanStation,
        ScanDone, Places
<1>3. ASSUME t = c
      PROVE  \A u \in Clients \ {t} : pc'[u] = pc[u]
  BY <1>1
  DEF ThreadStep, CallStep, LockStep, FreeStep,
      SetFrequencyCall, StartCall, StopCall, ScanStartCall, ScanStopCall,
      SetFrequencyScanStop, SetFrequencyWrite, StartWrite, StopWrite,
      ScanStartWrite, ScanLoop, ScanStopWrite, WriteThenSet, SetActive,
      SetFrequencyStore, SetFrequencyRead, SetFrequencyEOF, StartSet,
      StopSet, ScanStartMark, ScanRead, ScanEOF, ScanRetuned, ScanStation,
      ScanDone
<1>4. QED
  BY <1>2, <1>3 DEF OthersPlay

\* They write starts and stops, and store active.
LEMMA OthersStep ==
    ASSUME NEW c \in Clients, OnlyTuner(c), TypeOK, OthersPlay(c),
           NEW t \in Clients \ {c}, ThreadStep(t)
    PROVE  /\ UNCHANGED <<fromHelper, helper_alive, scanning, current_frequency,
                          published, frequency, line>>
           /\ pc'[c] = pc[c]
           /\ \/ UNCHANGED toHelper
              \/ \E op \in PlayOps : WriteCommand(Command(op, 0))
<1>1. /\ pc \in [Clients -> Places] /\ pc[t] \in PlayPlaces \cup {"idle"}
      /\ Calls[t] \subseteq {"Start", "Stop"}
  BY DEF TypeOK, BackendTypeOK, OthersPlay, OnlyTuner
<1>2. StartCall(t) \/ StopCall(t) \/ StartWrite(t) \/ StopWrite(t) \/ StartSet(t) \/ StopSet(t)
  BY <1>1
  DEF ThreadStep, CallStep, LockStep, FreeStep, At, Call, PlayPlaces,
      SetFrequencyCall, ScanStartCall, ScanStopCall, ScanOf, Directions,
      SetFrequencyScanStop, SetFrequencyWrite, ScanStartWrite, ScanLoop, ScanStopWrite,
      SetFrequencyStore, SetFrequencyRead, SetFrequencyEOF, ScanStartMark, ScanRead,
      ScanEOF, ScanRetuned, ScanStation, ScanDone
<1>3. QED
  BY <1>1, <1>2
  DEF StartCall, StopCall, StartWrite, StopWrite, StartSet, StopSet, WriteThenSet,
      SetActive, Goto, At, Call, pipeVars, PlayOps

\* The steps of the helper keep the one client's scan to itself.
LEMMA SoloHelper ==
    ASSUME NEW c \in Clients, SoloInv(c), Helper
    PROVE  Solo(c)' /\ ScanPhases'
<1>a. /\ toHelper \in Seq(Commands) /\ fromHelper \in Seq(Lines)
      /\ Solo(c) /\ ScanPhases /\ HelperNext /\ UNCHANGED backendVars
      /\ freqs0 \in Frequencies /\ {main_freq, demod_freq} \subseteq Nat
  BY DEF SoloInv, TypeOK, PipesTypeOK, HelperTypeOK, Frequencies, Helper, ByHelper
<1>b. (InScan(c)' <=> InScan(c)) /\ pc' = pc /\ OthersPlay(c)'
  BY <1>a DEF InScan, Solo, OthersPlay, backendVars
<1>c. ASSUME NEW ops, NextCommand(ops)
      PROVE  /\ helper_alive /\ ~ Retuning /\ ~ arming
             /\ Scans' # {} => ScanIsLast' /\ Scans # {}
             /\ OnlyPlays => OnlyPlays'
             /\ ops \cap PlayOps = {} =>
                   /\ ~ Busy /\ ~ squelch /\ ~ ctl_scanning /\ demod_pc = "idle"
                   /\ Stations = {}
  <2>1. helper_alive /\ toHelper # << >> /\ main_pc = "command"
        /\ Head(toHelper).op \in ops
    BY <1>c DEF NextCommand
  <2>2. ~ Retuning /\ ~ arming
    BY <1>a, <2>1 DEF ScanPhases, Retuning
  <2>3. /\ Scans' # {} => ScanIsLast' /\ Scans # {}
        /\ OnlyPlays => OnlyPlays' /\ Head(toHelper).op \in PlayOps
    BY <1>a, <1>c, <2>1, ScanTaken DEF Solo
  <2>4. ops \cap PlayOps = {} =>
           /\ ~ Busy /\ ~ squelch /\ ~ ctl_scanning /\ demod_pc = "idle"
           /\ Stations = {}
    BY <1>a, <2>1, <2>3 DEF Solo, ScanPhases, Busy
  <2>5. QED
    BY <2>1, <2>2, <2>3, <2>4
<1>d. ASSUME NEW ops, NextCommand(ops), ops \cap ScanOps = {},
             UNCHANGED <<fromHelper, helper_alive>>, Busy' => Busy,
             Retuning' => ops \cap PlayOps = {}
      PROVE  Solo(c)'
  BY <1>a, <1>b, <1>c, <1>d DEF Solo, Stations, StationIsLast, backendVars
<1>e. ASSUME helper_alive', helper_alive, Busy, Stations' = {},
             UNCHANGED toHelper
      PROVE  Solo(c)'
  BY <1>a, <1>b, <1>e, PlaysNotScans DEF Solo, OnlyPlays, Scans, backendVars
<1> USE DEF mainVars, demodVars
<1>1. CASE HelperStart
  BY <1>a, <1>c, <1>d, <1>1
  DEF HelperStart, StopScan, Busy, ScanPhases, Retuning, ScanOps, PlayOps
<1>2. CASE HelperStop
  BY <1>a, <1>c, <1>d, <1>2
  DEF HelperStop, StopScan, Busy, ScanPhases, Retuning, ScanOps, PlayOps
<1>3. CASE HelperJoined
  BY <1>a, <1>b, <1>3
  DEF HelperJoined, pipeVars, Busy, Solo, OnlyPlays, ScanIsLast, Scans, Stations, StationIsLast,
      ScanPhases, Retuning, backendVars
<1>4. CASE HelperSetFreq
  BY <1>a, <1>c, <1>d, <1>4
  DEF HelperSetFreq, StopScan, MainRetune, Busy, ScanPhases, Retuning, ScanOps, PlayOps
<1>5. CASE HelperScanStart
  <2>1. Head(toHelper).op \in ScanOps /\ NextCommand(ScanOps)
    BY <1>5 DEF HelperScanStart, NextCommand
  <2>2. /\ OnlyPlays' /\ Scans # {}
        /\ helper_alive /\ ~ Busy /\ ~ Retuning /\ ~ squelch /\ ~ arming
        /\ demod_pc = "idle" /\ ~ ctl_scanning
    BY <1>a, <1>c, <2>1, ScanTaken DEF Solo, ScanOps, PlayOps
  <2>3. Stations' = {} /\ InScan(c)' /\ Scans' = {}
    BY <1>a, <1>b, <1>5, <2>2, PlaysNotScans
    DEF HelperScanStart, Solo, Stations, OnlyPlays, Scans, ScanOps, PlayOps
  <2>4. Solo(c)'
    BY <1>a, <1>b, <2>2, <2>3 DEF Solo, backendVars
  <2>5. ScanPhases'
    BY <1>a, <1>5, <2>2
    DEF HelperScanStart, StartScan, MainRetune, ScanPhases, Retuning
  <2>6. QED
    BY <2>4, <2>5
<1>6. CASE HelperScanStop
  BY <1>a, <1>c, <1>d, <1>6
  DEF HelperScanStop, StopScan, Busy, ScanPhases, Retuning, ScanOps, PlayOps
<1>7. CASE HelperOffset
  BY <1>a, <1>b, <1>7
  DEF HelperOffset, pipeVars, Busy, Solo, OnlyPlays, ScanIsLast, Scans, Stations, StationIsLast,
      ScanPhases, Retuning, backendVars
<1>8. CASE HelperReport
  <2>1. ScanPhases'
    BY <1>a, <1>8 DEF HelperReport, ScanPhases, Retuning
  <2>2. Stations = {}
    BY <1>a, <1>8 DEF HelperReport, Solo, Retuning
  <2>3. Stations' = {}
    BY <1>a, <1>8, <2>2, NoStationPrinted DEF HelperReport
  <2>4. Solo(c)'
    BY <1>a, <1>b, <1>8, <2>3
    DEF HelperReport, Solo, Busy, Scans, OnlyPlays, ScanIsLast, backendVars
  <2>5. QED
    BY <2>1, <2>4
<1>9. CASE HelperExit
  BY <1>a, <1>b, <1>9
  DEF HelperExit, Solo, Stations, StationIsLast, ScanPhases, backendVars
<1>10. CASE DemodWeak
  BY <1>a, <1>e, <1>10
  DEF DemodWeak, Iteration, pipeVars, Busy, Solo, Stations, ScanPhases, Retuning
<1>11. CASE DemodTune
  BY <1>a, <1>b, <1>11
  DEF DemodTune, pipeVars, Busy, Solo, OnlyPlays, ScanIsLast, Scans, Stations, StationIsLast,
      ScanPhases, Retuning, backendVars
<1>12. CASE DemodOffset
  BY <1>a, <1>e, <1>12
  DEF DemodOffset, pipeVars, Busy, Solo, Stations, ScanPhases, Retuning
<1>13. CASE DemodReport
  <2>1. Stations' = {}
    BY <1>a, <1>13, NoStationPrinted DEF DemodReport, Busy, Solo
  <2>2. QED
    BY <1>a, <1>e, <1>13, <2>1
    DEF DemodReport, Busy, Solo, ScanPhases, Retuning
<1>14. CASE DemodStrong
  BY <1>a, <1>e, <1>14
  DEF DemodStrong, Iteration, pipeVars, Busy, Solo, Stations, ScanPhases, Retuning
<1>15. CASE DemodScanStop
  BY <1>a, <1>e, <1>15
  DEF DemodScanStop, StopScan, pipeVars, Busy, Solo, Stations, ScanPhases,
      Retuning
<1>16. CASE DemodStation
  <2>1. /\ helper_alive /\ Busy /\ ~ ctl_scanning /\ OnlyPlays
        /\ InScan(c)
    BY <1>a, <1>16 DEF DemodStation, Busy, Solo, ScanPhases
  <2>2. ~ Busy' /\ Scans' = {}
    BY <1>16, <2>1 DEF DemodStation, Busy, Scans, OnlyPlays, ScanOps, PlayOps
  <2>3. StationIsLast'
    BY <1>a, <1>16, <2>1 DEF DemodStation, PrintLine, Solo, Stations, StationIsLast
  <2>4. OnlyPlays' /\ ~ Retuning'
    BY <1>a, <1>16, <2>1 DEF DemodStation, ScanPhases, OnlyPlays, Retuning
  <2>5. Solo(c)'
    BY <1>a, <1>b, <2>1, <2>2, <2>3, <2>4 DEF Solo, backendVars
  <2>6. QED
    BY <1>a, <1>16, <2>5 DEF DemodStation, ScanPhases, Retuning
<1>17. QED
  BY <1>a, <1>1, <1>2, <1>3, <1>4, <1>5, <1>6, <1>7, <1>8, <1>9, <1>10, <1>11,
     <1>12, <1>13, <1>14, <1>15, <1>16
  DEF HelperNext, HelperCommand, DemodStep

\* A read() moves the stations it leaves towards the head, and one that it tears is
\* none any more.
LEMMA StationsRead ==
    ASSUME fromHelper \in Seq(Lines), ReadLines
    PROVE  /\ \A i \in Stations' :
                 i + Taken \in Stations /\ fromHelper'[i] = fromHelper[i + Taken]
           /\ StationIsLast => StationIsLast'
<1>1. /\ fromHelper' \in Seq(Lines) /\ Taken \in 1 .. Len(fromHelper)
      /\ Len(fromHelper') = Len(fromHelper) - Taken
      /\ \A i \in 1 .. Len(fromHelper') :
            \/ fromHelper'[i] = fromHelper[i + Taken]
            \/ i = 1 /\ fromHelper'[i] = Torn(fromHelper[i + Taken])
  BY TornType, ReadLeaves
<1> HIDE DEF Taken
<1>2. ASSUME NEW i \in Stations'
      PROVE  i + Taken \in Stations /\ fromHelper'[i] = fromHelper[i + Taken]
  <2>1. /\ i \in 1 .. Len(fromHelper') /\ fromHelper'[i].kind = "S"
        /\ i + Taken \in 1 .. Len(fromHelper)
    BY <1>1, <1>2 DEF Stations
  <2>2. fromHelper[i + Taken] \in Lines
    BY <2>1
  <2>3. fromHelper'[i] # Torn(fromHelper[i + Taken])
    BY <2>1, <2>2, TornType
  <2>4. QED
    BY <1>1, <2>1, <2>3 DEF Stations
<1>3. ASSUME StationIsLast
      PROVE  StationIsLast'
  <2>1. ASSUME NEW i \in Stations'
        PROVE  i = Len(fromHelper')
    <3>1. i \in 1 .. Len(fromHelper')
      BY <1>1, <2>1 DEF Stations
    <3>2. i + Taken = Len(fromHelper)
      BY <1>2, <1>3, <2>1 DEF StationIsLast
    <3>3. {i, Taken, Len(fromHelper)} \subseteq Int
      BY <1>1, <3>1
    <3>4. Len(fromHelper') = Len(fromHelper) - Taken
      BY <1>1
    <3>5. QED
      BY <3>2, <3>3, <3>4
  <2>2. QED
    BY <2>1 DEF StationIsLast
<1>4. QED
  BY <1>2, <1>3

\* A step of the one client from a place outside the scan's loop, which asks for
\* no scan, leaves everything quiet.
LEMMA SoloQuiet ==
    ASSUME NEW c \in Clients, Solo(c), OthersPlay(c)', ~ InScan(c),
           UNCHANGED <<helperVars, helper_alive>>,
           helper_alive /\ Scans = {} => Scans' = {},
           ReadLines \/ UNCHANGED fromHelper, fromHelper \in Seq(Lines),
           pc'[c] \in {"sc_lock", "sc_loop", "sc_read", "sc_line"} => scanning'
    PROVE  Solo(c)'
<1>1. Stations = {} /\ (helper_alive => ~ Busy /\ Scans = {})
  BY DEF Solo
<1>2. Busy' <=> Busy
  BY DEF Busy, helperVars, demodVars
<1>3. Stations' = {}
  BY <1>1, StationsRead DEF Stations
<1>4. QED
  BY <1>1, <1>2, <1>3 DEF Solo

\* One that leaves the pipes alone and enters or stays in the loop keeps the
\* scan its own.
LEMMA SoloScanning ==
    ASSUME NEW c \in Clients, Solo(c), OthersPlay(c)', UNCHANGED helperVars,
           UNCHANGED pipeVars, InScan(c), InScan(c)', scanning'
    PROVE  Solo(c)'
<1>1. /\ (Busy' <=> Busy) /\ Scans' = Scans /\ Stations' = Stations
      /\ helper_alive' = helper_alive
      /\ (OnlyPlays' <=> OnlyPlays) /\ (ScanIsLast' <=> ScanIsLast)
      /\ (StationIsLast' <=> StationIsLast) /\ (Retuning' <=> Retuning)
  BY DEF Busy, Scans, Stations, OnlyPlays, ScanIsLast, StationIsLast, Retuning, helperVars,
         mainVars, demodVars, pipeVars
<1>2. QED
  BY <1>1 DEF Solo

\* The steps of the one client: it asks for a scan when none is under way, and
\* leaves its loop only for the station that ended it or with the helper.
LEMMA SoloBackend ==
    ASSUME NEW c \in Clients, OnlyTuner(c), SoloInv(c), Backend
    PROVE  Solo(c)' /\ ScanPhases'
<1> PICK t \in Clients : ThreadStep(t)
  BY DEF Backend, ByBackend
<1>a. /\ toHelper \in Seq(Commands) /\ fromHelper \in Seq(Lines)
      /\ pc \in [Clients -> Places] /\ line \in [Clients -> Lines]
      /\ frequency[c] \in Frequencies /\ Solo(c)
      /\ UNCHANGED helperVars /\ OthersPlay(c)'
  BY OthersStay DEF SoloInv, Solo, TypeOK, PipesTypeOK, BackendTypeOK, Backend, ByBackend
<1>b. helper_alive' = helper_alive
  BY HelperKept
<1>c. ScanPhases'
  BY <1>a, <1>b DEF SoloInv, ScanPhases, Retuning, helperVars, mainVars, demodVars
<1>d. ASSUME toHelper' = toHelper
      PROVE  Scans' = Scans
  BY <1>d DEF Scans
<1>e. ASSUME NEW op \in PlainOps, WriteCommand(Command(op, 0)), Scans = {}
      PROVE  Scans' = {}
  BY <1>a, <1>e, CommandType, NoScanWritten DEF Command, PlainOps, ScanOps
<1>f. CASE t # c
  <2>1. /\ UNCHANGED <<fromHelper, helper_alive, scanning, line>> /\ pc'[c] = pc[c]
        /\ \/ UNCHANGED toHelper
           \/ \E op \in PlayOps : WriteCommand(Command(op, 0))
    BY <1>a, <1>f, OthersStep DEF SoloInv, Solo
  <2>2. /\ Scans' = Scans /\ Stations' = Stations /\ (InScan(c)' <=> InScan(c))
        /\ OnlyPlays => OnlyPlays'
        /\ ScanIsLast => ScanIsLast'
        /\ StationIsLast' <=> StationIsLast
    BY <1>a, <2>1, PlayKeeps DEF Scans, Stations, StationIsLast, InScan, OnlyPlays, ScanIsLast
  <2>3. (Busy' <=> Busy) /\ (Retuning' <=> Retuning)
    BY <1>a DEF Busy, Retuning, helperVars, mainVars, demodVars
  <2>4. QED
    BY <1>a, <1>c, <2>1, <2>2, <2>3 DEF Solo
<1> USE DEF Goto, At, Call, InScan
<1>1. CASE SetFrequencyCall(c)
  BY <1>a, <1>b, <1>c, <1>d, <1>1, SoloQuiet DEF SetFrequencyCall, pipeVars
<1>2. CASE StartCall(c)
  BY <1>a, <1>b, <1>c, <1>d, <1>2, SoloQuiet DEF StartCall, pipeVars
<1>3. CASE StopCall(c)
  BY <1>a, <1>b, <1>c, <1>d, <1>3, SoloQuiet DEF StopCall, pipeVars
<1>4. CASE ScanStartCall(c)
  BY <1>a, <1>b, <1>c, <1>d, <1>4, SoloQuiet DEF ScanStartCall, pipeVars
<1>5. CASE ScanStopCall(c)
  BY <1>a, <1>b, <1>c, <1>d, <1>5, SoloQuiet DEF ScanStopCall, pipeVars
<1>6. CASE SetFrequencyScanStop(c)
  BY <1>a, <1>b, <1>c, <1>e, <1>6, SoloQuiet
  DEF SetFrequencyScanStop, PlainOps
<1>7. CASE SetFrequencyWrite(c)
  <2>1. Scans = {} => Scans' = {}
    BY <1>a, <1>7, RetuneType, NoScanWritten
    DEF SetFrequencyWrite, Command, ScanOps
  <2>2. QED
    BY <1>a, <1>b, <1>c, <1>7, <2>1, SoloQuiet DEF SetFrequencyWrite
<1>8. CASE StartWrite(c)
  BY <1>a, <1>b, <1>c, <1>e, <1>8, SoloQuiet
  DEF StartWrite, WriteThenSet, PlainOps
<1>9. CASE StopWrite(c)
  BY <1>a, <1>b, <1>c, <1>e, <1>9, SoloQuiet
  DEF StopWrite, WriteThenSet, PlainOps
<1>10. CASE ScanStartWrite(c)
  <2>1. CASE ~ helper_alive
    BY <1>a, <1>b, <1>c, <1>10, <2>1, SoloQuiet DEF ScanStartWrite
  <2>2. CASE helper_alive
    <3>1. /\ scanning /\ ~ Busy /\ Scans = {} /\ Stations = {}
      BY <1>a, <1>10, <2>2 DEF ScanStartWrite, Solo
    <3>2. PICK op \in ScanOps : WriteCommand(Command(op, 0))
      BY <1>10, <3>1 DEF ScanStartWrite, ScanOps
    <3>3. ScanIsLast'
      BY <1>a, <3>1, <3>2, CommandType, ScanWritten
    <3>4. ~ Busy' /\ Stations' = {} /\ InScan(c)' /\ scanning'
      BY <1>a, <1>10, <2>2, <3>1
      DEF ScanStartWrite, Busy, Stations, helperVars, demodVars
    <3>5. QED
      BY <1>a, <1>c, <3>3, <3>4 DEF Solo
  <2>3. QED
    BY <2>1, <2>2
<1>11. CASE ScanLoop(c)
  <2>1. scanning
    BY <1>a, <1>11 DEF ScanLoop, Solo
  <2>2. QED
    BY <1>a, <1>c, <1>11, <2>1, SoloScanning DEF ScanLoop
<1>12. CASE ScanStopWrite(c)
  BY <1>a, <1>b, <1>c, <1>e, <1>12, SoloQuiet DEF ScanStopWrite, PlainOps
<1>13. CASE SetFrequencyStore(c)
  BY <1>a, <1>b, <1>c, <1>d, <1>13, SoloQuiet DEF SetFrequencyStore, pipeVars
<1>14. CASE SetFrequencyRead(c)
  BY <1>a, <1>b, <1>c, <1>d, <1>14, SoloQuiet DEF SetFrequencyRead
<1>15. CASE SetFrequencyEOF(c)
  BY <1>a, <1>b, <1>c, <1>d, <1>15, SoloQuiet DEF SetFrequencyEOF, pipeVars
<1>16. CASE StartSet(c)
  BY <1>a, <1>b, <1>c, <1>d, <1>16, SoloQuiet DEF StartSet, SetActive, pipeVars
<1>17. CASE StopSet(c)
  BY <1>a, <1>b, <1>c, <1>d, <1>17, SoloQuiet DEF StopSet, SetActive, pipeVars
<1>18. CASE ScanStartMark(c)
  BY <1>a, <1>b, <1>c, <1>d, <1>18, SoloQuiet DEF ScanStartMark, pipeVars
<1>19. CASE ScanRead(c)
  <2>1. /\ Head(fromHelper) = fromHelper[1] /\ 1 \in DOMAIN fromHelper
        /\ fromHelper[1] \in Lines
        /\ (Stations # {} => StationIsLast) => (Stations' # {} => StationIsLast' /\ Stations # {})
    BY <1>a, <1>19, TornType, ReadLeaves, StationsRead DEF ScanRead
  <2>2. /\ Scans' = Scans /\ (Busy' <=> Busy) /\ (Retuning' <=> Retuning)
        /\ (OnlyPlays' <=> OnlyPlays) /\ (ScanIsLast' <=> ScanIsLast)
        /\ scanning' /\ scanning
    BY <1>a, <1>19
    DEF ScanRead, Scans, OnlyPlays, ScanIsLast, Busy, Retuning, helperVars, mainVars,
        demodVars, Solo
  <2>3. CASE fromHelper[1].kind # "S"
    <3>1. InScan(c)'
      BY <1>a, <1>19, <2>1, <2>3 DEF ScanRead, Lines, Kinds
    <3>2. QED
      BY <1>a, <1>b, <1>c, <1>19, <2>1, <2>2, <3>1 DEF ScanRead, Solo
  <2>4. CASE fromHelper[1].kind = "S"
    <3>1. 1 \in Stations
      BY <1>a, <2>1, <2>4 DEF Stations
    <3>2. helper_alive => ~ Busy /\ Scans = {}
      BY <1>a, <3>1 DEF Solo
    <3>3. Len(fromHelper) = 1
      BY <1>a, <3>1 DEF Solo, StationIsLast
    <3>4. fromHelper' = << >>
      BY <1>a, <1>19, <3>3, LoneLineRead DEF ScanRead
    <3>5. Stations' = {}
      BY <3>4 DEF Stations
    <3>6. QED
      BY <1>a, <1>b, <1>c, <2>2, <3>2, <3>5 DEF Solo
  <2>5. QED
    BY <2>3, <2>4
<1>20. CASE ScanEOF(c)
  BY <1>a, <1>b, <1>c, <1>20 DEF ScanEOF, EndOfFile, Solo, Stations, pipeVars
<1>21. CASE ScanRetuned(c)
  BY <1>a, <1>c, <1>21, SoloScanning DEF ScanRetuned, Solo
<1>22. CASE ScanStation(c)
  BY <1>a, <1>b, <1>c, <1>d, <1>22, SoloQuiet DEF ScanStation, pipeVars
<1>23. CASE ScanDone(c)
  BY <1>a, <1>b, <1>c, <1>d, <1>23, SoloQuiet DEF ScanDone, pipeVars
<1>24. QED
  BY <1>f, <1>1, <1>2, <1>3, <1>4, <1>5, <1>6, <1>7, <1>8, <1>9, <1>10, <1>11,
     <1>12, <1>13, <1>14, <1>15, <1>16, <1>17, <1>18, <1>19, <1>20, <1>21,
     <1>22, <1>23
  DEF ThreadStep, CallStep, LockStep, FreeStep

\* The inductive invariant of a radio that one client tunes and scans.
LEMMA SoloInvariant ==
    ASSUME NEW c \in Clients, OnlyTuner(c)
    PROVE  Spec => []SoloInv(c)
<1>1. Init => SoloInv(c)
  <2>1. Init => Solo(c) /\ ScanPhases
    BY DEF Init, PipesInit, HelperInit, BackendInit, Solo, OthersPlay, ScanPhases, Busy,
           Scans, Stations, InScan, Retuning
  <2>2. QED
    BY <2>1, TypeInit, GridInit DEF SoloInv
<1>2. SoloInv(c) /\ [Next]_vars => SoloInv(c)'
  <2>1. SoloInv(c) /\ Helper => SoloInv(c)'
    BY SoloApart, TypeHelper, GridHelper, SoloHelper DEF SoloInv
  <2>2. SoloInv(c) /\ Backend => SoloInv(c)'
    BY TypeBackend, GridBackend, SoloBackend DEF SoloInv
  <2>3. SoloInv(c) /\ UNCHANGED vars => SoloInv(c)'
    <3> SUFFICES ASSUME SoloInv(c), UNCHANGED vars PROVE SoloInv(c)'
      OBVIOUS
    <3>1. TypeOK'
      BY DEF SoloInv, TypeOK, PipesTypeOK, HelperTypeOK, BackendTypeOK, vars,
             pipeVars, helperVars, mainVars, demodVars, backendVars
    <3>2. OnGrid'
      BY DEF SoloInv, OnGrid, TunerOnGrid, Tuned, vars, pipeVars, helperVars,
             mainVars, demodVars, backendVars
    <3>3. Solo(c)' /\ ScanPhases'
      BY DEF SoloInv, Solo, OthersPlay, OnlyPlays, ScanIsLast, ScanPhases, Busy,
             Scans, Stations, StationIsLast, InScan,
             Retuning, vars, pipeVars, helperVars, mainVars, demodVars,
             backendVars
    <3>4. QED
      BY <3>1, <3>2, <3>3 DEF SoloInv
  <2>4. QED
    BY <2>1, <2>2, <2>3 DEF Next
<1>3. QED
  BY <1>1, <1>2, PTL DEF Spec

\* The radio that one client alone tunes and scans, with any band plan, any sequence
\* of its calls and any number of others that start and stop the radio meanwhile,
\* never leaves the band's grid: the demodulator and the command loop, which share
\* freqs[0] without a lock, do not retune at the same time.
THEOREM OneTunerStaysOnGrid ==
    ASSUME NEW c \in Clients, OnlyTuner(c)
    PROVE  Spec => []OnGrid
<1>1. SoloInv(c) => OnGrid
  BY DEF SoloInv
<1>2. QED
  BY <1>1, SoloInvariant, PTL

-----------------------------------------------------------------------------
(* As long as nobody scans.                                                 *)


NoScanCalls == \A t \in Clients : Calls[t] \cap {"ScanUp", "ScanDown"} = {}

\* No scan is under way anywhere, nor about to be.
NoScan ==
    /\ ~ scanning /\ ~ ctl_scanning /\ ~ squelch /\ ~ arming
    /\ demod_pc = "idle"
    /\ \A t \in Clients :
          pc[t] \notin {"sf_stop", "sc_mark", "sc_lock", "sc_loop", "sc_read",
                        "sc_line", "sc_done"}
    /\ Scans = {}

\* The reply pipe and the commands that will be answered are the mutex
\* owner's business alone.
Matched ==
    helper_alive =>
        IF helper_mutex = NoClient
        THEN fromHelper = << >> /\ Retunes = {} /\ ~ Retuning
        ELSE AnswerComing(frequency[helper_mutex])

\* What the next reader will publish, or what was last published, is where the
\* tuner is.
EventMatched ==
    helper_alive =>
        /\ fromHelper # << >> => fromHelper[1].freq = Tuned
        /\ main_pc = "report" => main_freq = Tuned
        /\ fromHelper = << >> /\ ~ Retuning =>
               published = Tuned \/ (published = 0 /\ Tuned = MinFreq)

TuningInv == TypeOK /\ OnGrid /\ OneReader /\ NoScan /\ Matched /\ EventMatched

-----------------------------------------------------------------------------
(* What a command written or read does to the retunes that wait.            *)

\* A command that is not F= does not touch the retunes in the pipe.
LEMMA NoRetuneWritten ==
    ASSUME toHelper \in Seq(Commands), NEW c \in Commands, c.op # "F=",
           WriteCommand(c)
    PROVE  /\ Retunes' = Retunes
           /\ \A f : RetunePending(f) => RetunePending(f)'
<1>1. CASE helper_alive
  <2>1. /\ toHelper' = Append(toHelper, c)
        /\ Len(toHelper') = Len(toHelper) + 1 /\ Len(toHelper) \in Nat
        /\ DOMAIN toHelper = 1 .. Len(toHelper)
        /\ DOMAIN toHelper' = 1 .. (Len(toHelper) + 1)
        /\ \A i \in DOMAIN toHelper : toHelper'[i] = toHelper[i]
        /\ toHelper'[Len(toHelper) + 1] = c
    BY <1>1 DEF WriteCommand
  <2>2. Retunes' = Retunes
    BY <2>1 DEF Retunes
  <2>3. QED
    BY <2>1, <2>2 DEF RetunePending, Retunes
<1>2. CASE ~ helper_alive
  BY <1>2 DEF WriteCommand, Retunes, RetunePending
<1>3. QED
  BY <1>1, <1>2

\* F= written to a pipe that holds no other retune is the one pending.
LEMMA RetuneWritten ==
    ASSUME toHelper \in Seq(Commands), NEW f \in Frequencies, helper_alive,
           Retunes = {}, WriteCommand(Command("F=", f))
    PROVE  RetunePending(f)'
<1>1. /\ toHelper' = Append(toHelper, Command("F=", f))
      /\ Len(toHelper) \in Nat
      /\ DOMAIN toHelper = 1 .. Len(toHelper)
      /\ DOMAIN toHelper' = 1 .. (Len(toHelper) + 1)
      /\ \A i \in DOMAIN toHelper : toHelper'[i] = toHelper[i]
      /\ toHelper'[Len(toHelper) + 1] = Command("F=", f)
  BY RetuneType DEF WriteCommand
<1>2. Retunes' = {Len(toHelper) + 1}
  BY <1>1 DEF Retunes, Command
<1>3. QED
  BY <1>1, <1>2 DEF RetunePending, Command

\* Taking a command that is not F= leaves the pending retune pending.
LEMMA NoRetuneTaken ==
    ASSUME toHelper \in Seq(Commands), NEW ops, NextCommand(ops),
           Head(toHelper).op # "F="
    PROVE  /\ Retunes = {} => Retunes' = {}
           /\ \A f : RetunePending(f) => RetunePending(f)'
<1>1. /\ toHelper # << >> /\ toHelper' = Tail(toHelper)
      /\ Len(toHelper) \in Nat \ {0}
      /\ DOMAIN toHelper = 1 .. Len(toHelper)
      /\ DOMAIN toHelper' = 1 .. (Len(toHelper) - 1)
      /\ \A i \in DOMAIN toHelper' : toHelper'[i] = toHelper[i + 1]
      /\ Head(toHelper) = toHelper[1]
  BY DEF NextCommand
<1>2. \A i \in Retunes' : i + 1 \in Retunes /\ i \in Nat
  BY <1>1 DEF Retunes
<1>3. \A i \in Retunes : i - 1 \in Retunes' /\ i \in Nat
  BY <1>1 DEF Retunes
<1>4. Retunes = {} => Retunes' = {}
  BY <1>2
<1>5. ASSUME NEW f, RetunePending(f)
      PROVE  RetunePending(f)'
  <2>1. PICK i \in Retunes : toHelper[i].freq = f /\ Retunes = {i}
    BY <1>5 DEF RetunePending
  <2>2. i - 1 \in Retunes' /\ i \in Nat /\ (i - 1) + 1 = i
    BY <1>3
  <2>3. toHelper'[i - 1] = toHelper[i]
    BY <1>1, <2>2 DEF Retunes
  <2>4. Retunes' = {i - 1}
    BY <1>2, <2>1, <2>2
  <2>5. QED
    BY <2>1, <2>2, <2>3, <2>4 DEF RetunePending
<1>6. QED
  BY <1>4, <1>5

\* The F= the command loop takes is the pending one, and the last.
LEMMA RetuneTaken ==
    ASSUME toHelper \in Seq(Commands), NEW f, RetunePending(f),
           NextCommand({"F="})
    PROVE  Head(toHelper).freq = f /\ Retunes' = {}
<1>1. /\ toHelper # << >> /\ toHelper' = Tail(toHelper)
      /\ Len(toHelper) \in Nat \ {0}
      /\ DOMAIN toHelper = 1 .. Len(toHelper)
      /\ DOMAIN toHelper' = 1 .. (Len(toHelper) - 1)
      /\ \A i \in DOMAIN toHelper' : toHelper'[i] = toHelper[i + 1]
      /\ Head(toHelper) = toHelper[1] /\ Head(toHelper).op = "F="
  BY DEF NextCommand
<1>2. 1 \in Retunes
  BY <1>1 DEF Retunes
<1>3. Retunes = {1} /\ toHelper[1].freq = f
  BY <1>2 DEF RetunePending
<1>4. \A i \in Retunes' : i + 1 \in Retunes /\ i \in Nat \ {0}
  BY <1>1 DEF Retunes
<1>5. QED
  BY <1>1, <1>3, <1>4

-----------------------------------------------------------------------------
(* No scan begins.                                                          *)

\* A pipe without scan commands yields none.
LEMMA NoScanTaken ==
    ASSUME toHelper \in Seq(Commands), NEW ops, NextCommand(ops), Scans = {}
    PROVE  Head(toHelper).op \notin ScanOps /\ Scans' = {}
<1>1. Head(toHelper).op \notin ScanOps
  BY ScanTaken
<1>2. QED
  BY <1>1, ScanTaken

\* With no scan about, main alone retunes.
LEMMA NoScanApart == NoScan => Apart
BY DEF NoScan, Apart

\* Without a scan the demodulator has nothing to do.
LEMMA NoScanDemod == NoScan => ~ DemodStep
BY DEF NoScan, DemodStep, DemodWeak, DemodTune, DemodOffset, DemodReport,
       DemodStrong, DemodScanStop, DemodStation, Iteration

\* The helper starts no scan that it was not asked for.
LEMMA NoScanHelper == TypeOK /\ NoScan /\ Helper => NoScan'
<1> SUFFICES ASSUME toHelper \in Seq(Commands), NoScan, HelperNext,
                    UNCHANGED backendVars
             PROVE  NoScan'
  BY DEF TypeOK, PipesTypeOK, Helper, ByHelper
<1>a. ASSUME UNCHANGED toHelper
      PROVE  Scans' = Scans
  BY <1>a DEF Scans
<1> USE DEF NoScan, backendVars, mainVars, demodVars
<1>1. CASE HelperStart
  BY <1>1, NoScanTaken DEF HelperStart, StopScan
<1>2. CASE HelperStop
  BY <1>2, NoScanTaken DEF HelperStop, StopScan
<1>3. CASE HelperJoined
  BY <1>a, <1>3 DEF HelperJoined, pipeVars
<1>4. CASE HelperSetFreq
  BY <1>4, NoScanTaken DEF HelperSetFreq, StopScan
<1>5. CASE HelperScanStart
  BY <1>5, NoScanTaken DEF HelperScanStart, NextCommand
<1>6. CASE HelperScanStop
  BY <1>6, NoScanTaken DEF HelperScanStop, StopScan
<1>7. CASE HelperOffset
  BY <1>a, <1>7 DEF HelperOffset, pipeVars
<1>8. CASE HelperReport
  BY <1>a, <1>8 DEF HelperReport
<1>9. CASE HelperExit
  <2>1. Scans' = {}
    BY <1>9 DEF HelperExit, Scans
  <2>2. QED
    BY <1>9, <2>1 DEF HelperExit, helperVars
<1>10. ~ DemodStep
  BY NoScanDemod
<1>11. QED
  BY <1>1, <1>2, <1>3, <1>4, <1>5, <1>6, <1>7, <1>8, <1>9, <1>10
  DEF HelperNext, HelperCommand

\* The steps a thread takes when nobody scans.
LEMMA TuningSteps ==
    ASSUME NoScanCalls, NoScan, NEW t \in Clients, ThreadStep(t)
    PROVE  \/ SetFrequencyCall(t) \/ StartCall(t) \/ StopCall(t)
           \/ ScanStopCall(t) \/ SetFrequencyWrite(t) \/ StartWrite(t)
           \/ StopWrite(t) \/ ScanStopWrite(t) \/ SetFrequencyStore(t)
           \/ SetFrequencyRead(t) \/ SetFrequencyEOF(t) \/ StartSet(t)
           \/ StopSet(t)
<1>1. ~ ScanStartCall(t)
  BY DEF NoScanCalls, ScanStartCall, Call, ScanOf
<1>2. ~ (SetFrequencyScanStop(t) \/ ScanStartMark(t) \/ ScanStartWrite(t))
  BY DEF NoScan, At, SetFrequencyScanStop, ScanStartMark, ScanStartWrite
<1>3. ~ (ScanLoop(t) \/ ScanRead(t) \/ ScanEOF(t))
  BY DEF NoScan, At, ScanLoop, ScanRead, ScanEOF
<1>4. ~ (ScanRetuned(t) \/ ScanStation(t) \/ ScanDone(t))
  BY DEF NoScan, At, ScanRetuned, ScanStation, ScanDone
<1>5. QED
  BY <1>1, <1>2, <1>3, <1>4 DEF ThreadStep, CallStep, LockStep, FreeStep

\* The backend asks for no scan when nobody calls scan_start.
LEMMA NoScanBackend == NoScanCalls /\ TypeOK /\ NoScan /\ Backend => NoScan'
<1> SUFFICES ASSUME NoScanCalls, toHelper \in Seq(Commands),
                    pc \in [Clients -> Places],
                    frequency \in [Clients -> Frequencies], NoScan, UNCHANGED helperVars,
                    NEW t \in Clients, ThreadStep(t)
             PROVE  NoScan'
  BY DEF TypeOK, PipesTypeOK, BackendTypeOK, Backend, ByBackend
<1>a. ASSUME UNCHANGED toHelper
      PROVE  Scans' = Scans
  BY <1>a DEF Scans
<1>b. ASSUME NEW op \in PlainOps, WriteCommand(Command(op, 0)), Scans = {}
      PROVE  Scans' = {}
  BY <1>b, CommandType, NoScanWritten DEF Command, PlainOps, ScanOps
<1> USE DEF NoScan, helperVars, mainVars, demodVars, Goto, Places
<1>1. CASE SetFrequencyCall(t)
  BY <1>a, <1>1 DEF SetFrequencyCall, pipeVars
<1>2. CASE StartCall(t)
  BY <1>a, <1>2 DEF StartCall, pipeVars
<1>3. CASE StopCall(t)
  BY <1>a, <1>3 DEF StopCall, pipeVars
<1>4. CASE ScanStopCall(t)
  BY <1>a, <1>4 DEF ScanStopCall, pipeVars
<1>5. CASE SetFrequencyWrite(t)
  <2>1. Scans' = {}
    BY <1>5, RetuneType, NoScanWritten DEF SetFrequencyWrite, Command, ScanOps
  <2>2. QED
    BY <1>5, <2>1 DEF SetFrequencyWrite
<1>6. CASE StartWrite(t)
  BY <1>b, <1>6 DEF StartWrite, WriteThenSet, PlainOps
<1>7. CASE StopWrite(t)
  BY <1>b, <1>7 DEF StopWrite, WriteThenSet, PlainOps
<1>8. CASE ScanStopWrite(t)
  BY <1>b, <1>8 DEF ScanStopWrite, PlainOps
<1>9. CASE SetFrequencyStore(t)
  BY <1>a, <1>9 DEF SetFrequencyStore, pipeVars
<1>10. CASE SetFrequencyRead(t)
  BY <1>a, <1>10 DEF SetFrequencyRead
<1>11. CASE SetFrequencyEOF(t)
  BY <1>a, <1>11 DEF SetFrequencyEOF, pipeVars
<1>12. CASE StartSet(t)
  BY <1>a, <1>12 DEF StartSet, SetActive, pipeVars
<1>13. CASE StopSet(t)
  BY <1>a, <1>13 DEF StopSet, SetActive, pipeVars
<1>14. QED
  BY <1>1, <1>2, <1>3, <1>4, <1>5, <1>6, <1>7, <1>8, <1>9, <1>10, <1>11,
     <1>12, <1>13, TuningSteps

-----------------------------------------------------------------------------
(* Answers and the calls they belong to.                                    *)

\* A step that writes no retune, reads and prints nothing and leaves the mutex
\* alone cannot mix the answers up.
LEMMA MatchedKept ==
    ASSUME toHelper \in Seq(Commands), Matched, EventMatched,
           UNCHANGED <<fromHelper, helper_alive, helper_mutex, published,
                       freqs0, main_freq>>,
           Retuning' <=> Retuning, main_pc' = "report" <=> main_pc = "report",
           helper_mutex # NoClient =>
               frequency'[helper_mutex] = frequency[helper_mutex],
           \/ toHelper' = toHelper
           \/ \E op \in PlainOps : WriteCommand(Command(op, 0))
    PROVE  Matched' /\ EventMatched'
<1>1. /\ Retunes' = Retunes
      /\ \A f : RetunePending(f) => RetunePending(f)'
  <2>1. CASE toHelper' = toHelper
    BY <2>1 DEF Retunes, RetunePending
  <2>2. CASE \E op \in PlainOps : WriteCommand(Command(op, 0))
    BY <2>2, CommandType, NoRetuneWritten DEF Command, PlainOps
  <2>3. QED
    BY <2>1, <2>2
<1>2. Matched'
  BY <1>1 DEF Matched, AnswerComing
<1>3. EventMatched'
  BY DEF EventMatched, Tuned
<1>4. QED
  BY <1>2, <1>3

\* The backend's threads keep retunes and answers matched: only the owner of
\* helper_mutex writes an F=, when none is under way, and only it reads.
LEMMA MatchedBackend ==
    NoScanCalls /\ TuningInv /\ Backend => Matched' /\ EventMatched'
<1> SUFFICES ASSUME NoScanCalls, TuningInv, UNCHANGED helperVars,
                    NEW t \in Clients, ThreadStep(t)
             PROVE  Matched' /\ EventMatched'
  BY DEF Backend, ByBackend
<1> USE DEF TuningInv, helperVars, mainVars, Retuning
<1>1. /\ toHelper \in Seq(Commands)
      /\ frequency \in [Clients -> Frequencies] /\ frequency[t] \in Frequencies
  BY DEF TypeOK, PipesTypeOK, BackendTypeOK
<1>2. pc[t] \in {"sf_read", "sc_read"} <=> helper_mutex = t
  BY BackendAssumption DEF OneReader, Readers
<1>3. CASE SetFrequencyCall(t)
  <2>1. helper_mutex # t
    BY <1>2, <1>3 DEF SetFrequencyCall, Call, At
  <2>2. helper_mutex # NoClient =>
            frequency'[helper_mutex] = frequency[helper_mutex]
    BY <1>1, <1>3, <2>1 DEF SetFrequencyCall, TypeOK, BackendTypeOK
  <2>3. QED
    BY <1>1, <1>3, <2>2, MatchedKept DEF SetFrequencyCall, pipeVars
<1>4. CASE StartCall(t)
  BY <1>1, <1>4, MatchedKept DEF StartCall, pipeVars
<1>5. CASE StopCall(t)
  BY <1>1, <1>5, MatchedKept DEF StopCall, pipeVars
<1>6. CASE ScanStopCall(t)
  BY <1>1, <1>6, MatchedKept DEF ScanStopCall, pipeVars
<1>7. CASE SetFrequencyWrite(t)
  <2>1. CASE helper_alive
    <3>1. fromHelper = << >> /\ Retunes = {} /\ ~ Retuning
      BY <1>7, <2>1 DEF SetFrequencyWrite, Unlocked, Matched
    <3>2. RetunePending(frequency[t])'
      <4>1. RetunePending(frequency[t])' <=> \E i \in Retunes' :
                toHelper'[i].freq = frequency'[t] /\ Retunes' = {i}
        BY DEF RetunePending
      <4>2. frequency' = frequency
        BY <1>7 DEF SetFrequencyWrite
      <4>3. QED
        BY <1>1, <1>7, <2>1, <3>1, <4>1, <4>2, RetuneWritten
        DEF SetFrequencyWrite, RetunePending
    <3>3. Matched'
      BY <1>7, <2>1, <3>1, <3>2, BackendAssumption
      DEF SetFrequencyWrite, Matched, AnswerComing, RetunePending
    <3>4. EventMatched'
      BY <1>7 DEF SetFrequencyWrite, EventMatched, Tuned
    <3>5. QED
      BY <3>3, <3>4
  <2>2. CASE ~ helper_alive
    BY <1>7, <2>2 DEF SetFrequencyWrite, Matched, EventMatched
  <2>3. QED
    BY <2>1, <2>2
<1>8. CASE StartWrite(t)
  BY <1>1, <1>8, MatchedKept DEF StartWrite, WriteThenSet, PlainOps
<1>9. CASE StopWrite(t)
  BY <1>1, <1>9, MatchedKept DEF StopWrite, WriteThenSet, PlainOps
<1>10. CASE ScanStopWrite(t)
  BY <1>1, <1>10, MatchedKept DEF ScanStopWrite, PlainOps
<1>11. CASE SetFrequencyStore(t)
  BY <1>1, <1>11, MatchedKept DEF SetFrequencyStore, pipeVars
<1>12. CASE SetFrequencyRead(t)
  <2>1. CASE helper_alive
    <3>1. AnswerComing(frequency[t]) /\ fromHelper # << >>
      BY <1>2, <1>12, <2>1, BackendAssumption
      DEF SetFrequencyRead, At, Matched, ReadLines
    <3>2. /\ fromHelper = <<ReplyLine("F", frequency[t])>>
          /\ Retunes = {} /\ ~ Retuning
      BY <3>1 DEF AnswerComing
    <3>3. /\ Head(fromHelper).kind = "F"
          /\ Head(fromHelper).freq = fromHelper[1].freq
      BY <3>2 DEF ReplyLine
    <3>4. published' = Tuned
      BY <1>12, <2>1, <3>1, <3>3 DEF SetFrequencyRead, EventMatched
    <3>5. Retunes' = {}
      BY <1>12, <3>2 DEF SetFrequencyRead, Retunes
    <3>6. fromHelper' = << >>
      BY <1>12, <3>2, LoneLineRead DEF SetFrequencyRead, TypeOK, PipesTypeOK
    <3>7. QED
      BY <1>12, <3>2, <3>3, <3>4, <3>5, <3>6
      DEF SetFrequencyRead, Matched, EventMatched, Tuned
  <2>2. CASE ~ helper_alive
    BY <1>12, <2>2 DEF SetFrequencyRead, Matched, EventMatched
  <2>3. QED
    BY <2>1, <2>2
<1>13. CASE SetFrequencyEOF(t)
  BY <1>13 DEF SetFrequencyEOF, EndOfFile, pipeVars, Matched, EventMatched
<1>14. CASE StartSet(t)
  BY <1>1, <1>14, MatchedKept DEF StartSet, SetActive, pipeVars
<1>15. CASE StopSet(t)
  BY <1>1, <1>15, MatchedKept DEF StopSet, SetActive, pipeVars
<1>16. QED
  BY <1>3, <1>4, <1>5, <1>6, <1>7, <1>8, <1>9, <1>10, <1>11, <1>12, <1>13,
     <1>14, <1>15, TuningSteps

\* A command that is not a retune leaves everything but the queue's positions.
LEMMA MatchedNoRetune ==
    ASSUME toHelper \in Seq(Commands), Matched, EventMatched,
           UNCHANGED <<fromHelper, helper_alive, helper_mutex, frequency,
                       published, freqs0, main_freq>>,
           main_pc' \in {"command", "joining"},
           NEW ops, NextCommand(ops), "F=" \notin ops
    PROVE  Matched' /\ EventMatched'
<1>1. /\ Retunes = {} => Retunes' = {}
      /\ \A f : RetunePending(f) => RetunePending(f)'
      /\ ~ Retuning /\ ~ Retuning'
  BY NoRetuneTaken DEF NextCommand, Retuning
<1>2. Matched'
  BY <1>1 DEF Matched, AnswerComing
<1>3. EventMatched'
  BY <1>1 DEF EventMatched, Tuned, Retuning
<1>4. QED
  BY <1>2, <1>3

\* The helper keeps them matched: it answers the one F= there is, once.
LEMMA MatchedHelper == TuningInv /\ Helper => Matched' /\ EventMatched'
<1> SUFFICES ASSUME TuningInv, HelperNext, UNCHANGED backendVars
             PROVE  Matched' /\ EventMatched'
  BY DEF Helper, ByHelper
<1> DEFINE f == frequency[helper_mutex]
<1>a. /\ toHelper \in Seq(Commands) /\ Matched /\ EventMatched
      /\ TunerOnGrid /\ demod_pc = "idle" /\ freqs0 \in Frequencies
      /\ main_freq \in Channels
      /\ UNCHANGED <<helper_mutex, frequency, published>>
  BY DEF TuningInv, TypeOK, PipesTypeOK, HelperTypeOK, OnGrid, NoScan,
         backendVars
<1> USE DEF mainVars, Retuning
<1>1. CASE HelperStart
  BY <1>a, <1>1, MatchedNoRetune DEF HelperStart, NextCommand
<1>2. CASE HelperStop
  BY <1>a, <1>2, MatchedNoRetune DEF HelperStop, NextCommand
<1>3. CASE HelperJoined
  BY <1>a, <1>3, MatchedKept DEF HelperJoined, pipeVars
<1>4. CASE HelperSetFreq
  <2>1. /\ helper_alive /\ Head(toHelper) = toHelper[1] /\ 1 \in Retunes
        /\ Head(toHelper) \in GridCommands /\ Head(toHelper).op = "F="
        /\ NextCommand({"F="}) /\ main_pc = "command"
    <3>1. Head(toHelper) \in GridCommands
      BY <1>4, NextCommandType DEF HelperSetFreq, TuningInv, OnGrid
    <3>2. QED
      BY <1>a, <1>4, <3>1 DEF HelperSetFreq, NextCommand, Retunes
  <2>2. /\ helper_mutex # NoClient /\ fromHelper = << >> /\ RetunePending(f)
    BY <1>a, <2>1 DEF Matched, AnswerComing
  <2>3. Head(toHelper).freq = f /\ Retunes' = {}
    BY <1>a, <2>1, <2>2, RetuneTaken
  <2>4. freqs0 # f
    BY <1>a, <2>1, <2>3, NeverRepeated DEF GridCommands, TunerOnGrid
  <2>5. main_pc' = "offset" /\ main_freq' = f /\ fromHelper' = << >>
    BY <1>4, <2>2, <2>3, <2>4 DEF HelperSetFreq, MainRetune
  <2>6. Matched'
    BY <1>a, <2>2, <2>3, <2>5 DEF Matched, AnswerComing
  <2>7. EventMatched'
    BY <2>5 DEF EventMatched
  <2>8. QED
    BY <2>6, <2>7
<1>5. CASE HelperScanStart
  <2>1. Head(toHelper).op \in ScanOps /\ NextCommand(ScanOps)
    BY <1>5 DEF HelperScanStart, NextCommand
  <2>2. QED
    BY <1>a, <2>1, NoScanTaken DEF TuningInv, NoScan
<1>6. CASE HelperScanStop
  BY <1>a, <1>6, MatchedNoRetune DEF HelperScanStop, NextCommand
<1>b. ASSUME helper_alive, main_pc \in {"offset", "report"}
      PROVE  /\ helper_mutex # NoClient /\ fromHelper = << >>
             /\ Retunes = {} /\ main_freq = f
  BY <1>a, <1>b DEF Matched, AnswerComing
<1>7. CASE HelperOffset
  <2>1. Tuned' = main_freq
    BY <1>a, <1>7, OffsetTunes DEF HelperOffset, TunerOnGrid
  <2>2. Retunes' = {}
    BY <1>b, <1>7 DEF HelperOffset, pipeVars, Retunes
  <2>3. Matched'
    BY <1>a, <1>b, <1>7, <2>2 DEF HelperOffset, pipeVars, Matched, AnswerComing
  <2>4. EventMatched'
    BY <1>b, <1>7, <2>1 DEF HelperOffset, pipeVars, EventMatched
  <2>5. QED
    BY <2>3, <2>4
<1>8. CASE HelperReport
  <2>1. fromHelper' = <<ReplyLine("F", f)>> /\ main_freq = Tuned
    BY <1>a, <1>b, <1>8 DEF HelperReport, PrintLine, EventMatched
  <2>2. Retunes' = {}
    BY <1>b, <1>8 DEF HelperReport, Retunes
  <2>3. Matched'
    BY <1>a, <1>b, <1>8, <2>1, <2>2 DEF HelperReport, Matched, AnswerComing
  <2>4. EventMatched'
    BY <1>b, <1>8, <2>1 DEF HelperReport, EventMatched, ReplyLine, Tuned
  <2>5. QED
    BY <2>3, <2>4
<1>9. CASE HelperExit
  BY <1>9 DEF HelperExit, Matched, EventMatched
<1>10. ~ DemodStep
  BY NoScanDemod DEF TuningInv
<1>11. QED
  BY <1>1, <1>2, <1>3, <1>4, <1>5, <1>6, <1>7, <1>8, <1>9, <1>10
  DEF HelperNext, HelperCommand

-----------------------------------------------------------------------------
\* The inductive invariant of a radio that nobody scans.
LEMMA TuningInvariant ==
    ASSUME NoScanCalls
    PROVE  Spec => []TuningInv
<1>1. Init => TuningInv
  <2> SUFFICES ASSUME Init PROVE NoScan /\ Matched /\ EventMatched /\ OneReader
    BY TypeInit, GridInit DEF TuningInv
  <2>1. DOMAIN toHelper = {}
    BY DEF Init, PipesInit
  <2>2. Tuned = MinFreq
    BY BandPlanAssumption, HelperAssumption DEF Init, HelperInit, Tuned
  <2>3. NoScan /\ OneReader
    BY <2>1 DEF Init, HelperInit, BackendInit, NoScan, Scans, OneReader, Readers
  <2>4. Matched /\ EventMatched
    BY <2>1, <2>2 DEF Init, PipesInit, HelperInit, BackendInit, Matched,
                      EventMatched, Retunes, Retuning
  <2>5. QED
    BY <2>3, <2>4
<1>2. TuningInv /\ UNCHANGED vars => TuningInv'
  <2> SUFFICES ASSUME TuningInv, UNCHANGED vars PROVE TuningInv'
    OBVIOUS
  <2> USE DEF TuningInv, vars, pipeVars, helperVars, mainVars, demodVars,
              backendVars
  <2>1. TypeOK'
    BY DEF TypeOK, PipesTypeOK, HelperTypeOK, BackendTypeOK
  <2>2. OnGrid' /\ OneReader' /\ NoScan'
    BY DEF OnGrid, TunerOnGrid, Tuned, OneReader, Readers, NoScan, Scans
  <2>3. Matched' /\ EventMatched'
    BY MatchedKept DEF TypeOK, PipesTypeOK, Retuning
  <2>4. QED
    BY <2>1, <2>2, <2>3
<1>3. TuningInv /\ Helper => TuningInv'
  <2>1. OneReader /\ Helper => OneReader'
    BY DEF Helper, ByHelper, backendVars, OneReader, Readers
  <2>2. QED
    BY <2>1, TypeHelper, NoScanApart, GridHelper, NoScanHelper, MatchedHelper
    DEF TuningInv
<1>4. TuningInv /\ Backend => TuningInv'
  BY TypeBackend, GridBackend, ReaderBackend, NoScanBackend, MatchedBackend
  DEF TuningInv
<1>5. TuningInv /\ [Next]_vars => TuningInv'
  BY <1>2, <1>3, <1>4 DEF Next
<1>6. QED
  BY <1>1, <1>5, PTL DEF Spec

\* A client that waits for the answer to its F= has exactly one answer coming,
\* for its own frequency, however many clients tune at once.
THEOREM EveryRetuneHasItsAnswer ==
    ASSUME NoScanCalls
    PROVE  Spec => []AnswerOnItsWay
<1>1. TuningInv => AnswerOnItsWay
  BY BackendAssumption
  DEF TuningInv, OneReader, Readers, Matched, AnswerOnItsWay, At
<1>2. QED
  BY <1>1, TuningInvariant, PTL

\* The last frequency event sent is where the tuner is, once everything has
\* settled, however many clients tune at once.
THEOREM LastEventIsTuned ==
    ASSUME NoScanCalls
    PROVE  Spec => []EventAgreement
<1>1. TuningInv => EventAgreement
  <2> SUFFICES ASSUME TuningInv, Settled
               PROVE  published = Tuned \/ (published = 0 /\ Tuned = MinFreq)
    BY DEF EventAgreement
  <2>1. Readers = {} /\ helper_mutex \in Clients \cup {NoClient}
    BY DEF TuningInv, Settled, Readers, At, TypeOK, BackendTypeOK
  <2>2. helper_mutex = NoClient
    BY <2>1 DEF TuningInv, OneReader
  <2>3. QED
    BY <2>2 DEF TuningInv, Settled, Matched, EventMatched
<1>2. QED
  BY <1>1, TuningInvariant, PTL

\* However many clients tune at once, nothing ever leaves the band's grid.
THEOREM TunersStayOnGrid ==
    ASSUME NoScanCalls
    PROVE  Spec => []OnGrid
<1>1. TuningInv => OnGrid
  BY DEF TuningInv
<1>2. QED
  BY <1>1, TuningInvariant, PTL

-----------------------------------------------------------------------------
(***************************************************************************)
(* Playing.  The helper learns that it plays from START and STOP, which    *)
(* wait in the pipe while the backend has already gone on, and it is done  *)
(* with a STOP only when its threads have ended.                           *)
(***************************************************************************)

\* One client alone starts and stops the radio; the others do what they like.
OnlyPlayer(p) ==
    \A t \in Clients \ {p} : Calls[t] \cap {"Start", "Stop"} = {}

Plays == {i \in DOMAIN toHelper : toHelper[i].op \in PlayOps}

\* What active will be when the call under way has stored it.
Believed(p) ==
    \/ active /\ pc[p] # "sp_set"
    \/ pc[p] = "st_set"

\* The last START or STOP in the pipe is op.
LastPlay(op) ==
    \E i \in Plays : (\A j \in Plays : j =< i) /\ toHelper[i].op = op

\* The backend believes what the helper does once it has handled what is in the
\* pipe.
PlayInv(p) ==
    /\ \A t \in Clients \ {p} : pc[t] \notin PlayPlaces
    /\ helper_alive =>
           \/ Plays = {} /\ (Believed(p) <=> started /\ main_pc # "joining")
           \/ Believed(p) /\ LastPlay("START")
           \/ ~ Believed(p) /\ LastPlay("STOP")

\* A command that is not START or STOP leaves those in the pipe alone.
LEMMA NoPlayWritten ==
    ASSUME toHelper \in Seq(Commands), NEW c \in Commands, c.op \notin PlayOps,
           WriteCommand(c)
    PROVE  /\ Plays' = Plays
           /\ \A i \in Plays : toHelper'[i] = toHelper[i]
<1>1. CASE helper_alive
  <2>1. /\ toHelper' = Append(toHelper, c)
        /\ Len(toHelper) \in Nat
        /\ DOMAIN toHelper = 1 .. Len(toHelper)
        /\ DOMAIN toHelper' = 1 .. (Len(toHelper) + 1)
        /\ \A i \in DOMAIN toHelper : toHelper'[i] = toHelper[i]
        /\ toHelper'[Len(toHelper) + 1] = c
    BY <1>1 DEF WriteCommand
  <2>2. QED
    BY <2>1 DEF Plays
<1>2. CASE ~ helper_alive
  BY <1>2 DEF WriteCommand, Plays
<1>3. QED
  BY <1>1, <1>2

\* START and STOP are the last when they have been written.
LEMMA PlayWritten ==
    ASSUME toHelper \in Seq(Commands), NEW op \in PlayOps, helper_alive,
           WriteCommand(Command(op, 0))
    PROVE  LastPlay(op)'
<1>1. /\ toHelper' = Append(toHelper, Command(op, 0))
      /\ Len(toHelper) \in Nat
      /\ DOMAIN toHelper' = 1 .. (Len(toHelper) + 1)
      /\ toHelper'[Len(toHelper) + 1] = Command(op, 0)
  BY CommandType DEF WriteCommand, PlayOps, PlainOps
<1>2. /\ Len(toHelper) + 1 \in Plays'
      /\ \A j \in Plays' : j =< Len(toHelper) + 1
      /\ toHelper'[Len(toHelper) + 1].op = op
  BY <1>1 DEF Plays, Command
<1>3. QED
  BY <1>2 DEF LastPlay

\* The command loop takes the first command; the last START or STOP stays the
\* last, or is the one taken.
LEMMA PlayTaken ==
    ASSUME toHelper \in Seq(Commands), NEW ops, NextCommand(ops)
    PROVE  /\ \A op : LastPlay(op) =>
                 LastPlay(op)' \/ (Plays' = {} /\ Head(toHelper).op = op)
           /\ Plays = {} => Plays' = {} /\ Head(toHelper).op \notin PlayOps
<1>1. /\ toHelper # << >> /\ toHelper' = Tail(toHelper)
      /\ Len(toHelper) \in Nat \ {0}
      /\ DOMAIN toHelper = 1 .. Len(toHelper)
      /\ DOMAIN toHelper' = 1 .. (Len(toHelper) - 1)
      /\ \A i \in DOMAIN toHelper' : toHelper'[i] = toHelper[i + 1]
      /\ Head(toHelper) = toHelper[1]
  BY DEF NextCommand
<1>2. /\ \A i \in Plays' : i + 1 \in Plays /\ i \in Nat \ {0}
      /\ \A i \in Plays : i = 1 \/ i - 1 \in Plays'
      /\ Plays \subseteq Nat
      /\ 1 \in Plays <=> Head(toHelper).op \in PlayOps
  BY <1>1 DEF Plays
<1>3. ASSUME NEW op, LastPlay(op)
      PROVE  LastPlay(op)' \/ (Plays' = {} /\ Head(toHelper).op = op)
  <2>1. PICK i \in Plays : (\A j \in Plays : j =< i) /\ toHelper[i].op = op
    BY <1>3 DEF LastPlay
  <2>2. CASE i = 1
    <3>1. Plays' = {}
      BY <1>2, <2>1, <2>2
    <3>2. QED
      BY <1>1, <2>1, <2>2, <3>1
  <2>3. CASE i # 1
    <3>1. i - 1 \in Plays' /\ \A j \in Plays' : j =< i - 1
      BY <1>2, <2>1, <2>3
    <3>2. toHelper'[i - 1] = toHelper[i]
      BY <1>1, <1>2, <2>1, <3>1 DEF Plays
    <3>3. QED
      BY <2>1, <3>1, <3>2 DEF LastPlay
  <2>4. QED
    BY <2>2, <2>3
<1>4. QED
  BY <1>2, <1>3

\* The helper carries out the commands in the order they were given.
LEMMA PlayHelper ==
    ASSUME NEW p \in Clients, TypeOK, PlayInv(p), Helper
    PROVE  PlayInv(p)'
<1>1. /\ toHelper \in Seq(Commands) /\ UNCHANGED <<active, pc>>
      /\ HelperNext /\ started \in BOOLEAN
  BY DEF TypeOK, PipesTypeOK, HelperTypeOK, Helper, ByHelper, backendVars
<1>2. Believed(p)' <=> Believed(p)
  BY <1>1 DEF Believed
<1>3. ASSUME UNCHANGED <<toHelper, helper_alive, started>>,
             main_pc' = "joining" <=> main_pc = "joining"
      PROVE  PlayInv(p)'
  BY <1>1, <1>2, <1>3 DEF PlayInv, Plays, LastPlay
<1>4. ASSUME NEW ops, NextCommand(ops), UNCHANGED helper_alive
      PROVE  /\ main_pc = "command" /\ Head(toHelper).op \in ops
             /\ \/ PlayInv(p)'
                \/ /\ Plays' = {} /\ Head(toHelper).op \notin PlayOps
                   /\ Believed(p) <=> started /\ main_pc # "joining"
                \/ Plays' = {} /\ Believed(p) /\ Head(toHelper).op = "START"
                \/ Plays' = {} /\ ~ Believed(p) /\ Head(toHelper).op = "STOP"
  <2>1. /\ \A op \in PlayOps : LastPlay(op) =>
               LastPlay(op)' \/ (Plays' = {} /\ Head(toHelper).op = op)
        /\ Plays = {} => Plays' = {} /\ Head(toHelper).op \notin PlayOps
    BY <1>1, <1>4, PlayTaken
  <2>2. helper_alive /\ main_pc = "command" /\ Head(toHelper).op \in ops
    BY <1>4 DEF NextCommand
  <2>3. QED
    BY <1>1, <1>2, <1>4, <2>1, <2>2 DEF PlayInv, PlayOps
<1> USE DEF mainVars, demodVars
<1>5. ASSUME NEW ops, NextCommand(ops), ops \cap PlayOps = {},
             UNCHANGED <<helper_alive, started>>, main_pc' # "joining"
      PROVE  PlayInv(p)'
  BY <1>1, <1>2, <1>4, <1>5 DEF PlayInv, PlayOps
<1>6. CASE HelperStart
  <2>1. NextCommand({"START"}) /\ started' /\ main_pc' = main_pc
        /\ UNCHANGED helper_alive
    BY <1>6 DEF HelperStart
  <2>2. Head(toHelper).op = "START" /\ "START" \in PlayOps
    BY <2>1 DEF NextCommand, PlayOps
  <2>3. QED
    BY <1>1, <1>2, <1>4, <2>1, <2>2 DEF PlayInv
<1>7. CASE HelperStop
  <2>1. /\ NextCommand({"STOP"}) /\ UNCHANGED <<started, helper_alive>>
        /\ started => main_pc' = "joining"
    BY <1>7 DEF HelperStop
  <2>2. Head(toHelper).op = "STOP" /\ "STOP" \in PlayOps
    BY <2>1 DEF NextCommand, PlayOps
  <2>3. QED
    BY <1>1, <1>2, <1>4, <2>1, <2>2 DEF PlayInv
<1>8. CASE HelperJoined
  BY <1>1, <1>2, <1>8 DEF HelperJoined, pipeVars, PlayInv, Plays, LastPlay
<1>9. CASE HelperSetFreq
  BY <1>4, <1>5, <1>9 DEF HelperSetFreq, MainRetune, PlayOps
<1>10. CASE HelperScanStart
  BY <1>4, <1>5, <1>10
  DEF HelperScanStart, StartScan, MainRetune, PlayOps, ScanOps
<1>11. CASE HelperScanStop
  BY <1>4, <1>5, <1>11 DEF HelperScanStop, PlayOps
<1>12. CASE HelperOffset
  BY <1>3, <1>12 DEF HelperOffset, pipeVars
<1>13. CASE HelperReport
  BY <1>3, <1>13 DEF HelperReport
<1>14. CASE HelperExit
  BY <1>1, <1>14 DEF HelperExit, PlayInv
<1>15. CASE DemodStep
  BY <1>3, <1>15
  DEF DemodStep, DemodWeak, DemodTune, DemodOffset, DemodReport, DemodStrong,
      DemodScanStop, DemodStation, pipeVars
<1>16. QED
  BY <1>1, <1>6, <1>7, <1>8, <1>9, <1>10, <1>11, <1>12, <1>13, <1>14, <1>15
  DEF HelperNext, HelperCommand

\* The backend writes the command before it stores what it has asked for.
LEMMA PlayBackend ==
    ASSUME NEW p \in Clients, OnlyPlayer(p), TypeOK, PlayInv(p), Backend
    PROVE  PlayInv(p)'
<1> SUFFICES ASSUME NEW t \in Clients, ThreadStep(t)
             PROVE  PlayInv(p)'
  BY DEF Backend, ByBackend
<1>1. /\ toHelper \in Seq(Commands) /\ pc \in [Clients -> Places]
      /\ frequency \in [Clients -> Frequencies]
      /\ UNCHANGED <<started, main_pc, helper_alive>>
  BY HelperKept DEF TypeOK, PipesTypeOK, BackendTypeOK, helperVars, mainVars
<1> USE DEF Goto, At, Call, PlayPlaces
<1>2. ASSUME pc[t] \notin PlayPlaces, UNCHANGED active,
             NEW place \in Places \ PlayPlaces, Goto(t, place),
             \/ UNCHANGED toHelper
             \/ \E c \in Commands : c.op \notin PlayOps /\ WriteCommand(c)
      PROVE  PlayInv(p)'
  <2>1. Plays' = Plays /\ \A i \in Plays : toHelper'[i] = toHelper[i]
    BY <1>1, <1>2, NoPlayWritten DEF Plays
  <2>2. Believed(p)' <=> Believed(p)
    BY <1>1, <1>2 DEF Believed
  <2>3. \A op : LastPlay(op)' <=> LastPlay(op)
    BY <2>1 DEF LastPlay
  <2>4. QED
    BY <1>1, <1>2, <2>1, <2>2, <2>3 DEF PlayInv
<1>3. ASSUME NEW op \in ScanOps \cup {"S=STOP"},
             WriteCommand(Command(op, 0))
      PROVE  \E c \in Commands : c.op \notin PlayOps /\ WriteCommand(c)
  BY <1>3, CommandType DEF Command, PlainOps, PlayOps, ScanOps
<1>4. ASSUME NEW op \in PlayOps, t = p, WriteCommand(Command(op, 0)),
             UNCHANGED active,
             Goto(t, IF helper_alive
                     THEN IF op = "START" THEN "st_set" ELSE "sp_set"
                     ELSE "idle")
      PROVE  PlayInv(p)'
  <2>1. CASE helper_alive
    BY <1>1, <1>4, <2>1, PlayWritten DEF PlayInv, Believed, PlayOps
  <2>2. CASE ~ helper_alive
    BY <1>1, <1>4, <2>2 DEF PlayInv
  <2>3. QED
    BY <2>1, <2>2
<1>5. pc[t] \in PlayPlaces => t = p
  BY DEF PlayInv
<1>6. CASE SetFrequencyCall(t)
  BY <1>2, <1>6 DEF SetFrequencyCall, pipeVars, Places
<1>7. CASE StartCall(t)
  BY <1>1, <1>7 DEF StartCall, OnlyPlayer, PlayInv, Plays, LastPlay, Believed, pipeVars
<1>8. CASE StopCall(t)
  BY <1>1, <1>8 DEF StopCall, OnlyPlayer, PlayInv, Plays, LastPlay, Believed, pipeVars
<1>9. CASE ScanStartCall(t)
  BY <1>2, <1>9 DEF ScanStartCall, pipeVars, Places
<1>10. CASE ScanStopCall(t)
  BY <1>2, <1>10 DEF ScanStopCall, pipeVars, Places
<1>11. CASE SetFrequencyScanStop(t)
  BY <1>2, <1>3, <1>11 DEF SetFrequencyScanStop, Places
<1>12. CASE SetFrequencyWrite(t)
  <2>1. /\ Command("F=", frequency[t]) \in Commands
        /\ Command("F=", frequency[t]).op \notin PlayOps
    BY <1>1, RetuneType DEF Command, PlayOps
  <2>2. QED
    BY <1>2, <1>12, <2>1 DEF SetFrequencyWrite, Places
<1>13. CASE StartWrite(t)
  BY <1>4, <1>5, <1>13 DEF StartWrite, WriteThenSet, PlayOps
<1>14. CASE StopWrite(t)
  BY <1>4, <1>5, <1>14 DEF StopWrite, WriteThenSet, PlayOps
<1>15. CASE ScanStartWrite(t)
  BY <1>2, <1>3, <1>15 DEF ScanStartWrite, ScanOps, Places
<1>16. CASE ScanLoop(t)
  BY <1>2, <1>16 DEF ScanLoop, pipeVars, Places
<1>17. CASE ScanStopWrite(t)
  BY <1>2, <1>3, <1>17 DEF ScanStopWrite, Places
<1>18. CASE SetFrequencyStore(t)
  BY <1>2, <1>18 DEF SetFrequencyStore, pipeVars, Places
<1>19. CASE SetFrequencyRead(t)
  BY <1>1, <1>2, <1>19 DEF SetFrequencyRead, Places
<1>20. CASE SetFrequencyEOF(t)
  BY <1>2, <1>20 DEF SetFrequencyEOF, pipeVars, Places
<1>21. CASE StartSet(t)
  BY <1>1, <1>5, <1>21
  DEF StartSet, SetActive, PlayInv, Plays, LastPlay, Believed, pipeVars
<1>22. CASE StopSet(t)
  BY <1>1, <1>5, <1>22
  DEF StopSet, SetActive, PlayInv, Plays, LastPlay, Believed, pipeVars
<1>23. CASE ScanStartMark(t)
  BY <1>2, <1>23 DEF ScanStartMark, pipeVars, Places
<1>24. CASE ScanRead(t)
  BY <1>2, <1>24 DEF ScanRead, Places
<1>25. CASE ScanEOF(t)
  BY <1>2, <1>25 DEF ScanEOF, pipeVars, Places
<1>26. CASE ScanRetuned(t)
  BY <1>2, <1>26 DEF ScanRetuned, pipeVars, Places
<1>27. CASE ScanStation(t)
  BY <1>2, <1>27 DEF ScanStation, pipeVars, Places
<1>28. CASE ScanDone(t)
  BY <1>2, <1>28 DEF ScanDone, pipeVars, Places
<1>29. QED
  BY <1>6, <1>7, <1>8, <1>9, <1>10, <1>11, <1>12, <1>13, <1>14, <1>15, <1>16,
     <1>17, <1>18, <1>19, <1>20, <1>21, <1>22, <1>23, <1>24, <1>25, <1>26,
     <1>27, <1>28
  DEF ThreadStep, CallStep, LockStep, FreeStep

\* As long as one client starts and stops the radio, whatever the others tune and
\* scan meanwhile, the backend believes that it plays exactly when the helper does,
\* once everything has settled.
THEOREM PlaybackIsBelieved ==
    ASSUME NEW p \in Clients, OnlyPlayer(p)
    PROVE  Spec => []PlaybackAgreement
<1>1. Init => PlayInv(p)
  <2> SUFFICES ASSUME Init PROVE PlayInv(p)
    OBVIOUS
  <2>1. DOMAIN toHelper = {}
    BY DEF Init, PipesInit
  <2>2. QED
    BY <2>1 DEF Init, HelperInit, BackendInit, PlayInv, Plays, Believed, PlayPlaces
<1>2. TypeOK /\ PlayInv(p) /\ [Next]_vars => PlayInv(p)'
  <2>1. PlayInv(p) /\ UNCHANGED vars => PlayInv(p)'
    BY DEF vars, pipeVars, helperVars, mainVars, backendVars, PlayInv, Plays,
           LastPlay, Believed
  <2>2. QED
    BY <2>1, PlayHelper, PlayBackend DEF Next
<1>3. TypeOK /\ PlayInv(p) => PlaybackAgreement
  <2> SUFFICES ASSUME TypeOK, PlayInv(p), Settled PROVE active = started
    BY DEF PlaybackAgreement
  <2>1. Plays = {}
    BY DEF Settled, Plays
  <2>2. active <=> started
    BY <2>1 DEF PlayInv, LastPlay, Believed, Settled, At
  <2>3. QED
    BY <2>2 DEF TypeOK, HelperTypeOK, BackendTypeOK
<1>4. QED
  BY <1>1, <1>2, <1>3, TypeCorrect, PTL DEF Spec

-----------------------------------------------------------------------------
(***************************************************************************)
(* What the one client that tunes is told, whoever starts and stops the    *)
(* radio.  Its calls follow each other, so that the helper answers to it   *)
(* alone, and what it stores and what it announces never drift apart.      *)
(***************************************************************************)

\* The client has stored a frequency of its own and not been told of it yet.
Setting == {"sf_lock", "sf_read"}

\* The replies in the pipe are a scan's, or the one that a set_frequency reads.
Awaited(c) ==
    fromHelper # << >> =>
        InScan(c) \/ (pc[c] = "sf_read" /\ fromHelper = <<ReplyLine("F", frequency[c])>>)

\* Replies are on their way only to a call that reads, and to a set_frequency
\* exactly its own; a scan is marked only while its call lasts; and whatever has
\* been stored has been announced, but for what a set_frequency waits for.
AnswerInv(c) ==
    /\ Awaited(c)
    /\ pc[c] \in Setting => current_frequency = frequency[c]
    /\ helper_alive =>
          /\ pc[c] = "sf_read" => AnswerComing(frequency[c])
          /\ pc[c] # "sf_read" => Retunes = {} /\ (Retuning => ctl_scanning)
          /\ pc[c] \notin Setting => Told
          /\ pc[c] # "sf_stop"
          /\ scanning => pc[c] \in {"sc_lock", "sc_loop", "sc_read", "sc_line",
                                    "sc_done"}

OneTunerInv(c) == SoloInv(c) /\ AnswerInv(c)

\* A scan begins when no reply is on its way, and ends when none is.
LEMMA AnswerBackend ==
    ASSUME NEW c \in Clients, OnlyTuner(c), OneTunerInv(c), Backend
    PROVE  AnswerInv(c)'
<1> PICK t \in Clients : ThreadStep(t)
  BY DEF Backend, ByBackend
<1>1. /\ toHelper \in Seq(Commands) /\ pc \in [Clients -> Places]
      /\ fromHelper \in Seq(Lines) /\ line \in [Clients -> Lines]
      /\ frequency \in [Clients -> Frequencies] /\ frequency[c] \in Frequencies
      /\ TypeOK /\ Solo(c) /\ OthersPlay(c) /\ AnswerInv(c)
      /\ UNCHANGED helper_alive /\ UNCHANGED helperVars
  BY HelperKept
  DEF OneTunerInv, SoloInv, Solo, TypeOK, PipesTypeOK, BackendTypeOK
<1>2. UNCHANGED <<ctl_scanning, main_freq>> /\ Retuning' = Retuning
  BY <1>1 DEF helperVars, mainVars, Retuning
<1> USE DEF Goto, At, Call
<1>3. ASSUME pc[c] # "sf_read",
             \/ UNCHANGED toHelper
             \/ \E d \in Commands : d.op # "F=" /\ WriteCommand(d)
      PROVE  helper_alive' => Retunes' = {} /\ (Retuning' => ctl_scanning')
  BY <1>1, <1>2, <1>3, NoRetuneWritten DEF AnswerInv, Retunes
<1>4. ASSUME NEW op \in ScanOps \cup PlainOps, WriteCommand(Command(op, 0))
      PROVE  \E d \in Commands : d.op # "F=" /\ WriteCommand(d)
  BY <1>4, CommandType DEF Command, PlainOps, ScanOps
<1>5. ASSUME pc[c] # "sf_read", pc'[c] # "sf_read",
             pc[c] \notin Setting \/ pc'[c] \in Setting \/ Told' \/ ~ helper_alive,
             UNCHANGED <<published, current_frequency>> \/ pc'[c] \in Setting \/ Told',
             \/ UNCHANGED toHelper
             \/ \E d \in Commands : d.op # "F=" /\ WriteCommand(d),
             fromHelper' # << >> => fromHelper # << >> /\ InScan(c)',
             pc'[c] \in Setting => current_frequency' = frequency'[c],
             helper_alive => pc'[c] # "sf_stop",
             helper_alive /\ scanning' =>
                pc'[c] \in {"sc_lock", "sc_loop", "sc_read", "sc_line", "sc_done"}
      PROVE  AnswerInv(c)'
  BY <1>1, <1>3, <1>5 DEF AnswerInv, Awaited, Told
<1>a. CASE t # c
  <2>1. /\ UNCHANGED <<fromHelper, scanning, current_frequency, published,
                       frequency, line>>
        /\ pc'[c] = pc[c]
        /\ \/ UNCHANGED toHelper
           \/ \E op \in PlayOps : WriteCommand(Command(op, 0))
    BY <1>1, <1>a, OthersStep
  <2>2. /\ Retunes' = Retunes
        /\ \A f : RetunePending(f) => RetunePending(f)'
    <3>1. ASSUME NEW op \in PlayOps, WriteCommand(Command(op, 0))
          PROVE  Retunes' = Retunes /\ \A f : RetunePending(f) => RetunePending(f)'
      BY <1>1, <3>1, CommandType, NoRetuneWritten DEF Command, PlayOps, PlainOps
    <3>2. QED
      BY <2>1, <3>1 DEF Retunes, RetunePending
  <2>3. AnswerComing(frequency[c]) => AnswerComing(frequency[c])'
    BY <1>2, <2>1, <2>2 DEF AnswerComing
  <2>4. QED
    BY <1>1, <1>2, <2>1, <2>2, <2>3 DEF AnswerInv, Awaited, Told, InScan
<1>6. CASE CallStep(c)
  BY <1>1, <1>5, <1>6
  DEF CallStep, SetFrequencyCall, StartCall, StopCall, ScanStartCall,
      ScanStopCall, pipeVars, AnswerInv, Awaited, Setting, InScan
<1>7. CASE SetFrequencyScanStop(c)
  BY <1>1, <1>4, <1>5, <1>7 DEF SetFrequencyScanStop, PlainOps, AnswerInv, Awaited, Setting, InScan
<1>8. CASE SetFrequencyStore(c)
  BY <1>1, <1>5, <1>8 DEF SetFrequencyStore, pipeVars, AnswerInv, Awaited, Setting, InScan
<1>9. CASE SetFrequencyWrite(c)
  <2>1. CASE helper_alive
    <3>1. /\ pc[c] = "sf_lock" /\ pc'[c] = "sf_read" /\ fromHelper = << >>
          /\ Retunes = {} /\ ~ Retuning
      BY <1>1, <1>9, <2>1 DEF SetFrequencyWrite, AnswerInv, Awaited, InScan, Solo, Busy, Setting
    <3>2. RetunePending(frequency[c])'
      <4>1. RetunePending(frequency[c])' <=> \E i \in Retunes' :
                toHelper'[i].freq = frequency'[c] /\ Retunes' = {i}
        BY DEF RetunePending
      <4>2. frequency' = frequency
        BY <1>9 DEF SetFrequencyWrite
      <4>3. QED
        BY <1>1, <1>9, <2>1, <3>1, <4>1, <4>2, RetuneWritten
        DEF SetFrequencyWrite, RetunePending
    <3>3. AnswerComing(frequency[c])'
      BY <1>2, <1>9, <3>1, <3>2 DEF SetFrequencyWrite, AnswerComing, RetunePending
    <3>4. QED
      BY <1>1, <1>9, <2>1, <3>1, <3>3 DEF SetFrequencyWrite, AnswerInv, Awaited, Setting
  <2>2. CASE ~ helper_alive
    BY <1>1, <1>9, <2>2 DEF SetFrequencyWrite, AnswerInv, Awaited, InScan, Setting
  <2>3. QED
    BY <2>1, <2>2
<1>10. CASE StartWrite(c) \/ StopWrite(c)
  BY <1>1, <1>4, <1>5, <1>10
  DEF StartWrite, StopWrite, WriteThenSet, PlainOps, AnswerInv, Awaited, Setting, InScan
<1>11. CASE StartSet(c) \/ StopSet(c)
  BY <1>1, <1>5, <1>11
  DEF StartSet, StopSet, SetActive, pipeVars, AnswerInv, Awaited, Setting, InScan
<1>12. CASE ScanStopWrite(c)
  BY <1>1, <1>4, <1>5, <1>12 DEF ScanStopWrite, PlainOps, AnswerInv, Awaited, Setting, InScan
<1>13. CASE ScanStartMark(c)
  BY <1>1, <1>5, <1>13 DEF ScanStartMark, pipeVars, AnswerInv, Awaited, Setting, InScan
<1>14. CASE ScanStartWrite(c)
  BY <1>1, <1>4, <1>5, <1>14 DEF ScanStartWrite, ScanOps, Solo, AnswerInv, Awaited, Setting, InScan
<1>15. CASE ScanLoop(c)
  BY <1>1, <1>5, <1>15 DEF ScanLoop, pipeVars, Solo, AnswerInv, Awaited, Setting, InScan
<1>16. CASE ScanRead(c)
  <2>1. Head(fromHelper) = fromHelper[1] /\ 1 \in DOMAIN fromHelper
        /\ fromHelper[1] \in Lines
    BY <1>1, <1>16, TornType, ReadLeaves DEF ScanRead
  <2>2. ASSUME fromHelper[1].kind = "S"
        PROVE  fromHelper' = << >>
    <3>1. 1 \in Stations
      BY <2>1, <2>2 DEF Stations
    <3>2. Len(fromHelper) = 1
      BY <1>1, <3>1 DEF Solo, StationIsLast
    <3>3. QED
      BY <1>1, <1>16, <3>2, LoneLineRead DEF ScanRead
  <2>3. fromHelper' # << >> => fromHelper # << >> /\ InScan(c)'
    BY <1>1, <1>16, <2>1, <2>2 DEF ScanRead, ReadLines, InScan, Lines, Kinds
  <2>4. QED
    BY <1>1, <1>5, <1>16, <2>3 DEF ScanRead, AnswerInv, Setting
<1>17. CASE ScanEOF(c)
  BY <1>1, <1>5, <1>17 DEF ScanEOF, EndOfFile, pipeVars, AnswerInv, Awaited, Setting, InScan
<1>18. CASE ScanRetuned(c)
  BY <1>1, <1>5, <1>18 DEF ScanRetuned, pipeVars, AnswerInv, Awaited, Setting, InScan, Told, Solo
<1>19. CASE ScanStation(c)
  BY <1>1, <1>5, <1>19 DEF ScanStation, pipeVars, AnswerInv, Awaited, Setting, InScan
<1>20. CASE ScanDone(c)
  BY <1>1, <1>5, <1>20 DEF ScanDone, pipeVars, AnswerInv, Awaited, Setting, InScan
<1>21. CASE SetFrequencyRead(c)
  <2>1. CASE helper_alive
    <3>1. AnswerComing(frequency[c]) /\ fromHelper # << >>
      BY <1>1, <1>21, <2>1 DEF SetFrequencyRead, ReadLines, AnswerInv
    <3>2. /\ Head(fromHelper) = ReplyLine("F", frequency[c]) /\ Len(fromHelper) = 1
          /\ Retunes = {} /\ ~ Retuning
      BY <3>1 DEF AnswerComing
    <3>3. /\ pc'[c] = "idle" /\ published' = current_frequency
          /\ fromHelper' = << >>
      BY <1>1, <1>21, <3>2, LoneLineRead
      DEF SetFrequencyRead, ReplyLine, AnswerInv, Setting
    <3>4. Retunes' = {} /\ ~ Retuning'
      BY <1>2, <1>21, <3>2 DEF SetFrequencyRead, Retunes
    <3>5. QED
      BY <1>1, <1>21, <2>1, <3>3, <3>4 DEF SetFrequencyRead, AnswerInv, Awaited, Told, Setting
  <2>2. CASE ~ helper_alive
    <3>1. fromHelper = <<ReplyLine("F", frequency[c])>>
      BY <1>1, <1>21 DEF SetFrequencyRead, ReadLines, AnswerInv, Awaited, InScan
    <3>2. fromHelper' = << >>
      BY <1>1, <1>21, <3>1, LoneLineRead DEF SetFrequencyRead
    <3>3. QED
      BY <1>1, <1>21, <2>2, <3>1, <3>2
      DEF SetFrequencyRead, ReplyLine, AnswerInv, Awaited, Setting
  <2>3. QED
    BY <2>1, <2>2
<1>22. CASE SetFrequencyEOF(c)
  BY <1>1, <1>22 DEF SetFrequencyEOF, EndOfFile, pipeVars, AnswerInv, Awaited, Setting
<1>23. QED
  BY <1>1, <1>a, <1>6, <1>7, <1>8, <1>9, <1>10, <1>11, <1>12, <1>13, <1>14, <1>15, <1>16,
     <1>17, <1>18, <1>19, <1>20, <1>21, <1>22
  DEF ThreadStep, LockStep, FreeStep

\* The helper answers to the call that waits, and to no other.
LEMMA AnswerHelper ==
    ASSUME NEW c \in Clients, OneTunerInv(c), Helper
    PROVE  AnswerInv(c)'
<1>1. /\ toHelper \in Seq(Commands) /\ HelperNext
      /\ Solo(c) /\ ScanPhases /\ AnswerInv(c) /\ TypeOK /\ OnGrid
      /\ UNCHANGED <<pc, frequency, published, current_frequency, scanning>>
      /\ InScan(c)' = InScan(c) /\ Told' = Told
  BY DEF OneTunerInv, SoloInv, TypeOK, PipesTypeOK, Helper, ByHelper, backendVars, InScan, Told
<1>2. ASSUME UNCHANGED helper_alive,
             fromHelper' # << >> => pc[c] = "sf_read" \/ InScan(c),
             pc[c] = "sf_read" => AnswerComing(frequency[c])',
             pc[c] # "sf_read" => Retunes' = {} /\ (Retuning' => ctl_scanning')
      PROVE  AnswerInv(c)'
  BY <1>1, <1>2 DEF AnswerInv, Awaited, AnswerComing
<1>3. ASSUME helper_alive, UNCHANGED <<fromHelper, helper_alive, main_freq>>,
             Retuning' <=> Retuning, Retuning => ctl_scanning' = ctl_scanning,
             Retunes = {} => Retunes' = {},
             \A f : RetunePending(f) => RetunePending(f)'
      PROVE  AnswerInv(c)'
  BY <1>1, <1>2, <1>3 DEF AnswerInv, Awaited, AnswerComing
<1>4. ASSUME NEW ops, NextCommand(ops), "F=" \notin ops,
             UNCHANGED <<fromHelper, helper_alive, main_freq>>,
             main_pc' \in {"command", "joining"}
      PROVE  AnswerInv(c)'
  <2>1. /\ Head(toHelper).op # "F=" /\ helper_alive
        /\ ~ Retuning /\ ~ Retuning'
    BY <1>4 DEF NextCommand, Retuning
  <2>2. QED
    BY <1>1, <1>3, <1>4, <2>1, NoRetuneTaken
<1>5. ASSUME helper_alive, pc[c] = "sf_read"
      PROVE  ~ Busy /\ Scans = {} /\ AnswerComing(frequency[c])
  BY <1>1, <1>5 DEF Solo, InScan, AnswerInv
<1> USE DEF mainVars, demodVars
<1>6. CASE HelperStart
  BY <1>4, <1>6 DEF HelperStart, NextCommand
<1>7. CASE HelperStop
  BY <1>4, <1>7 DEF HelperStop, NextCommand
<1>8. CASE HelperJoined
  BY <1>3, <1>8 DEF HelperJoined, pipeVars, Retuning, Retunes, RetunePending
<1>9. CASE HelperSetFreq
  <2>1. /\ helper_alive /\ 1 \in Retunes /\ Head(toHelper).op = "F="
        /\ Head(toHelper) \in GridCommands
        /\ NextCommand({"F="}) /\ main_pc = "command"
    <3>1. Head(toHelper) \in GridCommands
      BY <1>1, <1>9, NextCommandType DEF HelperSetFreq, OnGrid
    <3>2. QED
      BY <1>1, <1>9, <3>1 DEF HelperSetFreq, NextCommand, Retunes
  <2>2. /\ pc[c] = "sf_read" /\ fromHelper = << >>
        /\ RetunePending(frequency[c]) /\ demod_pc = "idle"
    BY <1>1, <1>5, <2>1 DEF AnswerInv, AnswerComing, Busy
  <2>3. Head(toHelper).freq = frequency[c] /\ Retunes' = {}
    BY <1>1, <2>1, <2>2, RetuneTaken
  <2>4. Tuned \in Channels /\ freqs0 \in Frequencies
    BY <1>1, <2>1, <2>2 DEF OnGrid, TunerOnGrid, TypeOK, HelperTypeOK
  <2>5. freqs0 # frequency[c]
    BY <2>1, <2>3, <2>4, NeverRepeated DEF GridCommands
  <2>6. main_pc' = "offset" /\ main_freq' = frequency[c] /\ fromHelper' = << >>
    BY <1>9, <2>2, <2>3, <2>5 DEF HelperSetFreq, MainRetune
  <2>7. AnswerComing(frequency[c])'
    BY <1>1, <2>3, <2>6 DEF AnswerComing, Retuning
  <2>8. QED
    BY <1>2, <1>9, <2>2, <2>7 DEF HelperSetFreq
<1>10. CASE HelperScanStart
  <2>1. Head(toHelper).op \in ScanOps /\ NextCommand(ScanOps) /\ helper_alive
    BY <1>10 DEF HelperScanStart, NextCommand
  <2>2. Scans # {}
    BY <1>1, <2>1, NoScanTaken
  <2>3. InScan(c) /\ pc[c] # "sf_read"
    BY <1>1, <2>1, <2>2 DEF Solo, InScan
  <2>4. Retunes' = {}
    BY <1>1, <2>1, <2>3, NoRetuneTaken DEF AnswerInv, ScanOps
  <2>5. Retuning' => ctl_scanning'
    BY <1>10 DEF HelperScanStart, NextCommand, StartScan, Retuning
  <2>6. QED
    BY <1>2, <1>10, <2>3, <2>4, <2>5 DEF HelperScanStart
<1>11. CASE HelperScanStop
  BY <1>4, <1>11 DEF HelperScanStop, NextCommand
<1>12. CASE HelperOffset
  BY <1>3, <1>12 DEF HelperOffset, pipeVars, Retuning, Retunes, RetunePending
<1>13. CASE HelperReport
  <2>1. CASE pc[c] = "sf_read"
    <3>1. /\ fromHelper = << >> /\ Retunes = {} /\ main_freq = frequency[c]
      BY <1>5, <1>13, <2>1 DEF HelperReport, AnswerComing, Retuning
    <3>2. AnswerComing(frequency[c])'
      BY <1>1, <1>13, <3>1 DEF HelperReport, PrintLine, AnswerComing, Retunes, Retuning
    <3>3. QED
      BY <1>2, <1>13, <2>1, <3>2 DEF HelperReport
  <2>2. CASE pc[c] # "sf_read"
    <3>1. Retunes = {} /\ ctl_scanning
      BY <1>1, <1>13, <2>2 DEF HelperReport, AnswerInv, Retuning
    <3>2. InScan(c)
      BY <1>1, <1>13, <3>1 DEF HelperReport, Solo, Busy
    <3>3. QED
      BY <1>2, <1>13, <2>2, <3>1, <3>2 DEF HelperReport, Retunes
  <2>3. QED
    BY <2>1, <2>2
<1>14. CASE HelperExit
  BY <1>1, <1>14 DEF HelperExit, AnswerInv, Awaited
<1>15. CASE DemodStep
  <2>1. /\ helper_alive /\ Busy /\ UNCHANGED <<toHelper, helper_alive, main_pc>>
        /\ ctl_scanning' = ctl_scanning \/ ~ Retuning
    BY <1>1, <1>15
    DEF DemodStep, DemodWeak, DemodTune, DemodOffset, DemodReport, DemodStrong,
        DemodScanStop, DemodStation, Iteration, pipeVars, Busy, ScanPhases
  <2>2. InScan(c) /\ pc[c] # "sf_read"
    BY <1>1, <1>5, <2>1 DEF Solo
  <2>3. Retunes' = {} /\ (Retuning' => ctl_scanning')
    BY <1>1, <2>1, <2>2 DEF AnswerInv, Retunes, Retuning
  <2>4. QED
    BY <1>2, <2>1, <2>2, <2>3
<1>16. QED
  BY <1>1, <1>6, <1>7, <1>8, <1>9, <1>10, <1>11, <1>12, <1>13, <1>14, <1>15
  DEF HelperNext, HelperCommand

\* And what its client is told and answered is part of that invariant.
LEMMA OneTunerInvariant ==
    ASSUME NEW c \in Clients, OnlyTuner(c)
    PROVE  Spec => []OneTunerInv(c)
<1>1. Init => AnswerInv(c)
  <2> SUFFICES ASSUME Init PROVE AnswerInv(c)
    OBVIOUS
  <2>1. DOMAIN toHelper = {} /\ fromHelper = << >> /\ pc[c] = "idle"
    BY DEF Init, PipesInit, BackendInit
  <2>2. QED
    BY <2>1 DEF Init, HelperInit, BackendInit, AnswerInv, Awaited, Setting, Retunes,
                Retuning, Told
<1>2. SoloInv(c) /\ AnswerInv(c) /\ [Next]_vars => AnswerInv(c)'
  <2>1. UNCHANGED vars /\ AnswerInv(c) => AnswerInv(c)'
    BY DEF vars, pipeVars, helperVars, mainVars, backendVars, AnswerInv, Awaited, InScan,
           AnswerComing, RetunePending, Retunes, Retuning, Told
  <2>2. QED
    BY <2>1, AnswerBackend, AnswerHelper DEF OneTunerInv, Next
<1>3. QED
  BY <1>1, <1>2, SoloInvariant, PTL DEF Spec, OneTunerInv

\* The one client that tunes and scans gets the answer to its own F=, also right after
\* a scan, whose replies come by the same pipe.
THEOREM OneTunerIsAnswered ==
    ASSUME NEW c \in Clients, OnlyTuner(c)
    PROVE  Spec => []AnswerOnItsWay
<1>1. OneTunerInv(c) => AnswerOnItsWay
  BY DEF OneTunerInv, SoloInv, Solo, OthersPlay, PlayPlaces, AnswerInv, AnswerOnItsWay, At
<1>2. QED
  BY <1>1, OneTunerInvariant, PTL

-----------------------------------------------------------------------------
(***************************************************************************)
(* One client alone.  Nobody else starts and stops the radio either: the   *)
(* flags that a call has tested still hold when it acts on them.           *)
(***************************************************************************)

\* What the call under way has tested.
CallInv(c) ==
    /\ pc[c] = "sc_mark" => active /\ ~ scanning
    /\ pc[c] \in {"st_lock", "st_set"} => ~ active
    /\ pc[c] \in {"sp_lock", "sp_set"} => active

\* A call acts on what it has tested.
LEMMA CallNext ==
    ASSUME NEW c, Clients = {c}, TypeOK, CallInv(c), [Next]_vars
    PROVE  CallInv(c)'
<1> USE DEF CallInv
<1>1. CASE UNCHANGED backendVars
  BY <1>1 DEF backendVars
<1>2. CASE ThreadStep(c)
  <2>1. /\ pc \in [Clients -> Places] /\ frequency \in [Clients -> Frequencies]
        /\ c \in Clients
    BY DEF TypeOK, BackendTypeOK
  <2>2. QED
    BY <1>2, <2>1
    DEF ThreadStep, CallStep, LockStep, FreeStep, Goto, At, Call,
        SetFrequencyCall, StartCall, StopCall, ScanStartCall, ScanStopCall,
        SetFrequencyScanStop, SetFrequencyWrite, StartWrite, StopWrite,
        ScanStartWrite, ScanLoop, ScanStopWrite, WriteThenSet, SetActive,
        SetFrequencyStore, SetFrequencyRead, SetFrequencyEOF, StartSet,
        StopSet, ScanStartMark, ScanRead, ScanEOF, ScanRetuned, ScanStation,
        ScanDone
<1>3. QED
  BY <1>1, <1>2 DEF Next, Helper, ByHelper, Backend, ByBackend, vars

OneClientInv(c) == OneTunerInv(c) /\ CallInv(c)

\* What one client's calls have tested still holds when they act.
LEMMA OneClientInvariant ==
    ASSUME NEW c, Clients = {c}
    PROVE  Spec => []OneClientInv(c)
<1>1. Init => CallInv(c)
  BY DEF Init, BackendInit, CallInv
<1>2. TypeOK /\ CallInv(c) /\ [Next]_vars => CallInv(c)'
  BY CallNext
<1>3. Spec => []OneTunerInv(c)
  BY OneTunerInvariant DEF OnlyTuner
<1>4. QED
  BY <1>1, <1>2, <1>3, TypeCorrect, PTL DEF Spec, OneClientInv

\* The abstract radio has the same band.
LEMMA SameChannels == Radio!Channels = Channels
  BY DEF Channels, Valid, Radio!Channels, Radio!Valid

\* The last frequency event, as the abstract radio sees it.
Announced ==
    IF ~ helper_alive THEN current_frequency
    ELSE IF published = 0 THEN MinFreq ELSE published

\* What the client has been told is what has been announced.
LEMMA ToldIsAnnounced ==
    ASSUME NEW c, OneTunerInv(c), pc[c] \notin Setting \/ ~ helper_alive
    PROVE  Announced = current_frequency
BY ChannelsArePositive DEF OneTunerInv, SoloInv, OnGrid, AnswerInv, Told, Announced

\* Each step of the one client's calls is a step of the abstract radio or none.
LEMMA BackendImplements ==
    ASSUME NEW c, Clients = {c}, OneClientInv(c), Backend
    PROVE  [Radio!Next]_Radio!vars
<1>1. /\ pc \in [Clients -> Places] /\ c \in Clients /\ ThreadStep(c)
      /\ active \in BOOLEAN /\ scanning \in BOOLEAN
      /\ current_frequency \in Channels /\ frequency[c] \in Channels
      /\ line[c].freq \in Channels
      /\ CallInv(c) /\ AnswerInv(c) /\ UNCHANGED helper_alive
  BY HelperKept
  DEF OneClientInv, OneTunerInv, SoloInv, TypeOK, BackendTypeOK, OnGrid, Backend, ByBackend
<1> USE DEF Radio!vars, At
<1>2. ASSUME UNCHANGED <<active, scanning, current_frequency, published>>
      PROVE  UNCHANGED Radio!vars
  BY <1>1, <1>2
<1>3. ASSUME UNCHANGED <<active, current_frequency, published>>, scanning' = FALSE,
             Announced = current_frequency
      PROVE  [Radio!Next]_Radio!vars
  BY <1>1, <1>3 DEF Announced, Radio!Next, Radio!EndSeek
<1>4. CASE StartSet(c) \/ StopSet(c)
  <2>1. active' = ~ active /\ UNCHANGED <<scanning, current_frequency, published>>
    BY <1>1, <1>4 DEF StartSet, StopSet, SetActive, CallInv
  <2>2. QED
    BY <1>1, <2>1 DEF Radio!Next, Radio!StartOrStop
<1>5. CASE ScanStartMark(c)
  BY <1>1, <1>5 DEF ScanStartMark, CallInv, Radio!Next, Radio!BeginSeek
<1>6. CASE SetFrequencyStore(c)
  <2>1. Announced = current_frequency
    BY <1>6, ToldIsAnnounced DEF OneClientInv, SetFrequencyStore, Setting
  <2>2. QED
    BY <1>1, <1>6, <2>1, SameChannels
    DEF SetFrequencyStore, Announced, Radio!Next, Radio!Retune
<1>7. CASE ScanRetuned(c)
  <2>1. Announced = current_frequency
    BY <1>7, ToldIsAnnounced DEF OneClientInv, ScanRetuned, Setting
  <2>2. QED
    BY <1>1, <1>7, <2>1, SameChannels, ChannelsArePositive
    DEF ScanRetuned, Announced, Radio!Next, Radio!Retune
<1>8. CASE SetFrequencyRead(c)
  <2>1. CASE helper_alive
    <3>1. published' = current_frequency
      BY <1>1, <1>8, <2>1
      DEF SetFrequencyRead, ReadLines, AnswerInv, AnswerComing, ReplyLine,
          Setting
    <3>2. QED
      BY <1>1, <1>8, <2>1, <3>1, ChannelsArePositive
      DEF SetFrequencyRead, Radio!Next, Radio!Announce
  <2>2. CASE ~ helper_alive
    BY <1>1, <1>8, <2>2 DEF SetFrequencyRead
  <2>3. QED
    BY <2>1, <2>2
<1>9. CASE ScanDone(c) \/ ScanStopWrite(c) \/ SetFrequencyScanStop(c)
  <2>1. Announced = current_frequency
    BY <1>9, ToldIsAnnounced DEF OneClientInv, ScanDone, ScanStopWrite, SetFrequencyScanStop, Setting
  <2>2. QED
    BY <1>3, <1>9, <2>1 DEF ScanDone, ScanStopWrite, SetFrequencyScanStop, pipeVars
<1>10. CASE CallStep(c)
  BY <1>2, <1>10
  DEF CallStep, SetFrequencyCall, StartCall, StopCall, ScanStartCall, ScanStopCall
<1>11. CASE SetFrequencyWrite(c) \/ StartWrite(c) \/ StopWrite(c) \/ ScanStartWrite(c)
            \/ ScanLoop(c)
  BY <1>2, <1>11
  DEF SetFrequencyWrite, StartWrite, StopWrite, WriteThenSet, ScanStartWrite, ScanLoop
<1>12. CASE SetFrequencyEOF(c) \/ ScanRead(c) \/ ScanEOF(c) \/ ScanStation(c)
  BY <1>2, <1>12 DEF SetFrequencyEOF, ScanRead, ScanEOF, ScanStation
<1>13. QED
  BY <1>1, <1>4, <1>5, <1>6, <1>7, <1>8, <1>9, <1>10, <1>11, <1>12
  DEF ThreadStep, LockStep, FreeStep

\* Of the helper's steps the abstract radio sees its end only, after which nothing is
\* left to announce.
LEMMA HelperImplements == Helper => [Radio!Next]_Radio!vars
<1> SUFFICES ASSUME HelperNext, UNCHANGED backendVars
             PROVE  [Radio!Next]_Radio!vars
  BY DEF Helper, ByHelper
<1> USE DEF backendVars, Radio!vars
<1>1. CASE HelperExit
  BY <1>1 DEF HelperExit, Radio!Next, Radio!Announce
<1>2. CASE HelperCommand \/ DemodStep
  BY <1>2
  DEF HelperCommand, HelperStart, HelperStop, HelperJoined, HelperSetFreq,
      HelperScanStart, HelperScanStop, HelperOffset, HelperReport, DemodStep,
      DemodWeak, DemodTune, DemodOffset, DemodReport, DemodStrong, DemodScanStop,
      DemodStation, pipeVars
<1>3. QED
  BY <1>1, <1>2 DEF HelperNext

\* Of a client that makes one call after the other the RTL-SDR radio is the radio every
\* backend promises to be, however far the helper's replies run ahead of the backend.
THEOREM OneClientHasARadio ==
    ASSUME NEW c, Clients = {c}
    PROVE  Spec => ImplementsRadio
<1>1. Init => Radio!Init
  BY DEF Init, PipesInit, BackendInit, Radio!Init
<1>2. OneClientInv(c) /\ [Next]_vars => [Radio!Next]_Radio!vars
  <2>1. UNCHANGED vars => UNCHANGED Radio!vars
    BY DEF vars, pipeVars, backendVars, Radio!vars
  <2>2. QED
    BY <2>1, BackendImplements, HelperImplements DEF Next
<1>3. QED
  BY <1>1, <1>2, OneClientInvariant, PTL DEF Spec, ImplementsRadio, Radio!Spec

-----------------------------------------------------------------------------
(***************************************************************************)
(* What the one tuner finds.  The helper does not wait for its replies to  *)
(* be read, and only the first line of what read() returns is looked at:   *)
(* what is behind it is lost, and with it where the tuner is, until an F=  *)
(* is read alone.                                                          *)
(***************************************************************************)

\* The frequency that the backend has read last, stored or about to be.
Held(c) == IF pc[c] = "sc_line" THEN line[c].freq ELSE current_frequency

\* It is where the tuner is, unless a later one was lost.
HeldIsTuned(c) == "F" \notin dropped => Held(c) = Tuned

\* What the helper has reported last is where the tuner is: the last line of the
\* pipe, or what the backend has taken from it.
Reported(c) ==
    IF fromHelper = << >> THEN HeldIsTuned(c) ELSE fromHelper[Len(fromHelper)].freq = Tuned

\* A retune of the tuner that is not reported yet, by either thread of the helper,
\* or still on its way.
Unreported(c) ==
    \/ Retuning \/ demod_pc \in {"offset", "report"}
    \/ pc[c] = "sf_lock" \/ (pc[c] = "sf_read" /\ Retunes # {})

\* A station is where the tuner is, and the reply before it says the same frequency.
StationIsTuned(c) ==
    \A i \in Stations :
        /\ fromHelper[i].freq = Tuned
        /\ IF i = 1 THEN HeldIsTuned(c) ELSE fromHelper[i - 1].freq = Tuned

\* Only the first line can be one that a read() has torn.
OneRest == \A i \in 2 .. Len(fromHelper) : fromHelper[i].kind # "rest"

\* The line it is the rest of is lost: an F=, or the S= that ends the pipe.
RestIsLost(c) ==
    fromHelper # << >> /\ fromHelper[1].kind = "rest" =>
        \/ "F" \in dropped
        \/ "S" \in dropped /\ Len(fromHelper) = 1 /\ HeldIsTuned(c)

\* A scan whose S= is lost is over, and nothing is on its way to the call that waits.
StationIsLost(c) ==
    helper_alive /\ "S" \in dropped =>
        InScan(c) /\ ~ Busy /\ Scans = {} /\ Stations = {}

\* What was reported last is where the tuner is, wherever that report has got to.
SyncInv(c) ==
    /\ helper_alive =>
          /\ Retuning \/ Scans # {} => fromHelper = << >>
          /\ main_pc = "report" => main_freq = Tuned
          /\ demod_pc = "report" => demod_freq = Tuned
          /\ ~ Unreported(c) => Reported(c)
    /\ StationIsTuned(c) /\ OneRest /\ RestIsLost(c) /\ StationIsLost(c)
    /\ pc[c] = "sc_line" /\ line[c].kind = "S" => line[c].freq = Tuned /\ KnowsTuned

\* What a read() loses.  It leaves the frequencies in their order; what it has taken
\* behind the first line is dropped, and so is a line it has torn; if no F= is, there
\* was no other line, or the S= that ends the pipe.
LEMMA ReadLoses ==
    ASSUME fromHelper \in Seq(Lines), ReadLines, Record, StationIsLast, OneRest
    PROVE  /\ Len(fromHelper) \in Nat \ {0} /\ Taken \in 1 .. Len(fromHelper)
           /\ fromHelper' \in Seq(Lines) /\ Len(fromHelper') = Len(fromHelper) - Taken
           /\ Head(fromHelper) = fromHelper[1] /\ fromHelper[1] \in Lines
           /\ \A i \in 1 .. Len(fromHelper') :
                 fromHelper'[i].freq = fromHelper[i + Taken].freq
           /\ OneRest'
           /\ fromHelper[1].kind # "F" => dropped \subseteq dropped'
           /\ fromHelper' # << >> /\ fromHelper'[1].kind = "rest"
                 => fromHelper[1 + Taken].kind \in dropped' \cap {"F", "S"}
           /\ fromHelper[1].kind = "F" /\ "F" \notin dropped'
                 => Taken = 1 \/ (Taken = 2 /\ 2 \in Stations)
           /\ "S" \in dropped' => \/ "S" \in dropped /\ fromHelper[1].kind # "F"
                                  \/ Stations # {} /\ 1 \notin Stations /\ Stations' = {}
<1>1. /\ Len(fromHelper) \in Nat \ {0} /\ Taken \in 1 .. Len(fromHelper)
      /\ fromHelper' \in Seq(Lines) /\ Len(fromHelper') = Len(fromHelper) - Taken
      /\ Head(fromHelper) = fromHelper[1]
      /\ \A i \in 1 .. Len(fromHelper') :
            \/ fromHelper'[i] = fromHelper[i + Taken]
            \/ i = 1 /\ fromHelper'[i] = Torn(fromHelper[i + Taken])
  BY TornType, ReadLeaves
<1> DEFINE torn == fromHelper' # << >> /\ fromHelper'[1].kind = "rest"
           last == IF torn THEN Taken + 1 ELSE Taken
<1>a. /\ dropped' = IF fromHelper[1].kind = "F" THEN Behind ELSE dropped \cup Behind
      /\ Behind = {fromHelper[i].kind : i \in 2 .. last}
  BY <1>1 DEF Record, Behind
<1> HIDE DEF Taken
<1>2. /\ \A i \in 1 .. Len(fromHelper) : fromHelper[i] \in Lines
      /\ \A i \in 2 .. Len(fromHelper) : fromHelper[i].kind \in {"F", "S"}
  <2>1. \A i \in 1 .. Len(fromHelper) : fromHelper[i] \in Lines
    OBVIOUS
  <2>2. QED
    BY <1>1, <2>1 DEF OneRest, Lines, Kinds
<1>3. ASSUME NEW i \in 1 .. Len(fromHelper')
      PROVE  fromHelper'[i].freq = fromHelper[i + Taken].freq
  <2>1. i + Taken \in 1 .. Len(fromHelper)
    BY <1>1, <1>3
  <2>2. fromHelper[i + Taken] \in Lines
    BY <1>2, <2>1
  <2>3. Torn(fromHelper[i + Taken]).freq = fromHelper[i + Taken].freq
    BY <2>2, TornType
  <2>4. QED
    BY <1>1, <1>3, <2>3
<1>4. OneRest'
  BY <1>1, <1>2 DEF OneRest
<1>5. last \in 1 .. Len(fromHelper) /\ (torn => last = Taken + 1)
  BY <1>1
<1>6. ASSUME torn
      PROVE  fromHelper[1 + Taken].kind \in dropped' \cap {"F", "S"}
  <2>1. 1 + Taken \in 2 .. last
    BY <1>1, <1>5, <1>6
  <2>2. fromHelper[1 + Taken].kind \in Behind
    BY <1>a, <2>1
  <2>3. QED
    BY <1>a, <1>2, <1>5, <2>1, <2>2
<1>7. ASSUME fromHelper[1].kind = "F", "F" \notin dropped', Taken # 1
      PROVE  Taken = 2 /\ 2 \in Stations
  <2>1. ASSUME NEW i \in 2 .. Taken
        PROVE  i \in Stations /\ i = Len(fromHelper)
    <3>1. i \in 2 .. last /\ i \in 2 .. Len(fromHelper)
      BY <1>1, <1>5, <2>1
    <3>2. fromHelper[i].kind \in Behind
      BY <1>a, <3>1
    <3>3. fromHelper[i].kind = "S"
      BY <1>a, <1>2, <1>7, <3>1, <3>2
    <3>4. i \in Stations
      BY <1>1, <3>1, <3>3 DEF Stations
    <3>5. QED
      BY <3>4 DEF StationIsLast
  <2>2. 2 \in 2 .. Taken /\ Taken \in 2 .. Taken
    BY <1>1, <1>7
  <2>3. QED
    BY <2>1, <2>2
<1>8. ASSUME "S" \in dropped', ~ ("S" \in dropped /\ fromHelper[1].kind # "F")
      PROVE  Stations # {} /\ 1 \notin Stations /\ Stations' = {}
  <2>1. PICK i \in 2 .. last : fromHelper[i].kind = "S"
    BY <1>a, <1>8
  <2>2. i \in Stations
    BY <1>1, <1>5, <2>1 DEF Stations
  <2>3. i = Len(fromHelper) /\ 1 \notin Stations
    BY <1>1, <1>5, <2>1, <2>2 DEF StationIsLast
  <2>4. ASSUME NEW j \in Stations'
        PROVE  FALSE
    <3>1. j \in 1 .. Len(fromHelper') /\ fromHelper'[j].kind = "S"
      BY <1>1, <2>4 DEF Stations
    <3>2. torn /\ Len(fromHelper') = 1
      BY <1>1, <1>5, <2>1, <2>3, <3>1
    <3>3. QED
      BY <3>1, <3>2
  <2>5. QED
    BY <2>2, <2>3, <2>4
<1> HIDE DEF torn, last
<1>9. QED
  BY <1>1, <1>2, <1>3, <1>4, <1>6, <1>7, <1>8, <1>a DEF torn

\* A scan's read() keeps it: what it takes is where the tuner is or followed by what
\* is, and what it loses is known to be lost.
LEMMA SyncScanRead ==
    ASSUME NEW c \in Clients, OneTunerInv(c), SyncInv(c), ScanRead(c), Record,
           UNCHANGED helperVars
    PROVE  SyncInv(c)'
<1>1. /\ fromHelper \in Seq(Lines) /\ fromHelper # << >>
      /\ pc \in [Clients -> Places] /\ line \in [Clients -> Lines]
      /\ Solo(c) /\ SyncInv(c) /\ ReadLines /\ StationIsLast /\ OneRest
      /\ UNCHANGED <<toHelper, helper_alive, current_frequency>>
  BY DEF OneTunerInv, SoloInv, Solo, TypeOK, PipesTypeOK, BackendTypeOK, ScanRead,
         ReadLines, SyncInv, StationIsLast
<1>2. /\ Len(fromHelper) \in Nat \ {0} /\ Taken \in 1 .. Len(fromHelper)
      /\ fromHelper' \in Seq(Lines) /\ Len(fromHelper') = Len(fromHelper) - Taken
      /\ Head(fromHelper) = fromHelper[1] /\ fromHelper[1] \in Lines
      /\ \A i \in 1 .. Len(fromHelper') :
            fromHelper'[i].freq = fromHelper[i + Taken].freq
      /\ OneRest'
      /\ fromHelper[1].kind # "F" => dropped \subseteq dropped'
      /\ fromHelper' # << >> /\ fromHelper'[1].kind = "rest"
            => fromHelper[1 + Taken].kind \in dropped' \cap {"F", "S"}
      /\ fromHelper[1].kind = "F" /\ "F" \notin dropped'
            => Taken = 1 \/ (Taken = 2 /\ 2 \in Stations)
      /\ "S" \in dropped' => \/ "S" \in dropped /\ fromHelper[1].kind # "F"
                             \/ Stations # {} /\ 1 \notin Stations /\ Stations' = {}
  BY <1>1, ReadLoses
<1>3. /\ Tuned' = Tuned /\ Retuning' = Retuning /\ Busy' = Busy /\ Scans' = Scans
      /\ UNCHANGED <<main_pc, main_freq, demod_pc, demod_freq>>
      /\ pc[c] = "sc_read" /\ Unreported(c)' = Unreported(c)
  BY <1>1
  DEF Tuned, Retuning, Busy, Scans, Retunes, Unreported, helperVars, mainVars, demodVars,
      ScanRead, At, Goto
<1>4. IF fromHelper[1].kind = "rest"
      THEN pc'[c] = "sc_loop" /\ Held(c)' = Held(c)
      ELSE /\ pc'[c] = "sc_line" /\ line'[c] = fromHelper[1]
           /\ Held(c)' = fromHelper[1].freq
  BY <1>1, <1>2, <1>3 DEF ScanRead, Goto, Held
<1>5. ASSUME NEW i \in Stations
      PROVE  /\ i \in 1 .. Len(fromHelper) /\ i = Len(fromHelper)
             /\ helper_alive => ~ Busy /\ Scans = {}
  BY <1>1, <1>2 DEF Stations, StationIsLast, Solo
<1>6. /\ \A i \in Stations' : i + Taken \in Stations
      /\ 1 \in Stations <=> fromHelper[1].kind = "S"
  BY <1>1, <1>2, StationsRead DEF Stations
<1> HIDE DEF Taken
<1>7. ASSUME fromHelper[Taken].freq = Tuned
      PROVE  HeldIsTuned(c)'
  <2> SUFFICES ASSUME "F" \notin dropped' PROVE Held(c)' = Tuned
    BY <1>3 DEF HeldIsTuned
  <2>1. CASE fromHelper[1].kind = "F"
    <3>1. CASE Taken = 1
      BY <1>4, <1>7, <2>1, <3>1
    <3>2. CASE Taken = 2 /\ 2 \in Stations
      <4>1. fromHelper[2 - 1].freq = Tuned
        BY <1>1, <3>2 DEF SyncInv, StationIsTuned
      <4>2. QED
        BY <1>4, <2>1, <4>1
    <3>3. QED
      BY <1>2, <2>1, <3>1, <3>2
  <2>2. CASE fromHelper[1].kind = "S"
    BY <1>2, <1>4, <1>5, <1>6, <1>7, <2>2
  <2>3. CASE fromHelper[1].kind = "rest"
    BY <1>1, <1>2, <1>4, <2>3 DEF SyncInv, RestIsLost, HeldIsTuned
  <2>4. QED
    BY <1>2, <2>1, <2>2, <2>3 DEF Lines, Kinds
<1>8. ASSUME 1 + Taken \in Stations
      PROVE  HeldIsTuned(c)'
  <2>1. fromHelper[(1 + Taken) - 1].freq = Tuned
    BY <1>1, <1>2, <1>8 DEF SyncInv, StationIsTuned
  <2>2. QED
    BY <1>2, <1>7, <2>1
<1>9. ASSUME helper_alive, ~ Unreported(c)
      PROVE  Reported(c)'
  <2>1. fromHelper[Len(fromHelper)].freq = Tuned
    BY <1>1, <1>9 DEF SyncInv, Reported
  <2>2. CASE fromHelper' = << >>
    BY <1>2, <1>7, <2>1, <2>2 DEF Reported
  <2>3. CASE fromHelper' # << >>
    <3>1. Len(fromHelper') \in 1 .. Len(fromHelper')
      BY <1>2, <2>3
    <3>2. QED
      BY <1>2, <1>3, <2>1, <2>3, <3>1 DEF Reported
  <2>4. QED
    BY <2>2, <2>3
<1>10. StationIsTuned(c)'
  <2> SUFFICES ASSUME NEW i \in Stations'
               PROVE  /\ fromHelper'[i].freq = Tuned
                      /\ IF i = 1 THEN HeldIsTuned(c)' ELSE fromHelper'[i - 1].freq = Tuned
    BY <1>3 DEF StationIsTuned
  <2>1. i \in 1 .. Len(fromHelper') /\ i + Taken \in Stations
    BY <1>2, <1>6 DEF Stations
  <2>2. fromHelper[i + Taken].freq = Tuned /\ fromHelper[(i + Taken) - 1].freq = Tuned
    <3>1. i + Taken # 1
      BY <1>2, <2>1
    <3>2. QED
      BY <1>1, <2>1, <3>1 DEF SyncInv, StationIsTuned
  <2>3. CASE i = 1
    BY <1>2, <1>8, <2>1, <2>2, <2>3
  <2>4. CASE i # 1
    <3>1. i - 1 \in 1 .. Len(fromHelper') /\ (i - 1) + Taken = (i + Taken) - 1
      BY <1>2, <2>1, <2>4
    <3>2. QED
      BY <1>2, <2>1, <2>2, <2>4, <3>1
  <2>5. QED
    BY <2>3, <2>4
<1>11. RestIsLost(c)'
  <2> SUFFICES ASSUME fromHelper' # << >>, fromHelper'[1].kind = "rest",
                      "F" \notin dropped'
               PROVE  "S" \in dropped' /\ Len(fromHelper') = 1 /\ HeldIsTuned(c)'
    BY DEF RestIsLost
  <2>1. fromHelper[1 + Taken].kind = "S" /\ "S" \in dropped'
    BY <1>2
  <2>2. 1 + Taken \in Stations
    BY <1>2, <2>1 DEF Stations
  <2>3. QED
    BY <1>2, <1>5, <1>8, <2>1, <2>2
<1>12. StationIsLost(c)'
  <2> SUFFICES ASSUME helper_alive, "S" \in dropped'
               PROVE  InScan(c)' /\ ~ Busy /\ Scans = {} /\ Stations' = {}
    BY <1>1, <1>3 DEF StationIsLost
  <2>1. ~ Busy /\ Scans = {} /\ Stations' = {} /\ 1 \notin Stations
    BY <1>1, <1>2, <1>5, <1>6 DEF SyncInv, StationIsLost
  <2>2. QED
    BY <1>2, <1>4, <1>6, <2>1 DEF InScan, Lines, Kinds
<1>13. ASSUME pc'[c] = "sc_line", line'[c].kind = "S"
       PROVE  line'[c].freq = Tuned /\ KnowsTuned'
  <2>1. 1 \in Stations /\ line'[c] = fromHelper[1]
    BY <1>4, <1>6, <1>13
  <2>2. fromHelper[1].freq = Tuned /\ HeldIsTuned(c)
    BY <1>1, <2>1 DEF SyncInv, StationIsTuned
  <2>3. Held(c) = current_frequency /\ dropped \subseteq dropped'
    BY <1>2, <1>3, <1>6, <2>1 DEF Held
  <2>4. QED
    BY <1>1, <1>3, <2>1, <2>2, <2>3 DEF HeldIsTuned, KnowsTuned
<1>14. QED
  BY <1>1, <1>2, <1>3, <1>9, <1>10, <1>11, <1>12, <1>13 DEF SyncInv

\* The backend stores what it reads, and a station only after its frequency.
LEMMA SyncBackend ==
    ASSUME NEW c \in Clients, OnlyTuner(c), OneTunerInv(c), SyncInv(c), Backend
    PROVE  SyncInv(c)'
<1> PICK t \in Clients : ThreadStep(t)
  BY DEF Backend, ByBackend
<1>0. Record
  BY DEF Backend, ByBackend
<1>1. /\ toHelper \in Seq(Commands) /\ fromHelper \in Seq(Lines)
      /\ pc \in [Clients -> Places] /\ line \in [Clients -> Lines]
      /\ frequency \in [Clients -> Frequencies] /\ frequency[c] \in Frequencies
      /\ TypeOK /\ OthersPlay(c)
      /\ Solo(c) /\ ScanPhases /\ AnswerInv(c) /\ SyncInv(c)
      /\ UNCHANGED helper_alive
      /\ UNCHANGED helperVars
      /\ UNCHANGED <<main_pc, main_freq, demod_pc, demod_freq, freqs0, ctl_scanning>>
  BY HelperKept
  DEF OneTunerInv, SoloInv, Solo, TypeOK, PipesTypeOK, BackendTypeOK,
      helperVars, mainVars, demodVars
<1>2. Tuned' = Tuned /\ Retuning' = Retuning /\ Busy' = Busy
  BY <1>1 DEF Tuned, Retuning, Busy
<1>3. ASSUME NEW op \in PlainOps, WriteCommand(Command(op, 0)), Scans = {}
      PROVE  Scans' = {}
  BY <1>1, <1>3, CommandType, NoScanWritten DEF Command, PlainOps, ScanOps
<1> USE DEF Goto, At, Call
<1>4. ASSUME UNCHANGED <<fromHelper, line>>, Held(c)' = Held(c), pc'[c] # "sc_line",
             pc[c] \notin Setting, pc'[c] \notin Setting,
             UNCHANGED toHelper \/ ~ InScan(c),
             InScan(c) /\ helper_alive => InScan(c)'
      PROVE  SyncInv(c)'
  <2>1. UNCHANGED dropped /\ Stations' = Stations
    BY <1>0, <1>1, <1>4, NothingRead DEF Stations
  <2>2. /\ HeldIsTuned(c)' = HeldIsTuned(c) /\ Unreported(c)' = Unreported(c)
        /\ StationIsTuned(c)' = StationIsTuned(c)
        /\ OneRest' = OneRest /\ RestIsLost(c)' = RestIsLost(c)
    BY <1>1, <1>2, <1>4, <2>1
    DEF HeldIsTuned, Unreported, Setting, StationIsTuned, OneRest, RestIsLost
  <2>3. Reported(c)' = Reported(c)
    BY <1>2, <1>4, <2>2 DEF Reported
  <2>4. helper_alive => (Retuning \/ Scans' # {} => fromHelper = << >>)
    BY <1>1, <1>4 DEF SyncInv, AnswerInv, Awaited, Setting, Scans
  <2>5. StationIsLost(c)'
    BY <1>1, <1>2, <1>4, <2>1 DEF SyncInv, StationIsLost, Scans
  <2>6. QED
    BY <1>1, <1>2, <1>4, <2>2, <2>3, <2>4, <2>5 DEF SyncInv
<1>5. ASSUME pc[c] \notin {"sf_read", "sc_line"}, ~ InScan(c)
      PROVE  fromHelper = << >>
  BY <1>1, <1>5 DEF AnswerInv, Awaited
<1>6. ASSUME fromHelper' = << >>
      PROVE  StationIsTuned(c)' /\ OneRest' /\ RestIsLost(c)'
  BY <1>6 DEF StationIsTuned, Stations, OneRest, RestIsLost
\* No S= is lost while the thread is not in its scan's loop.
<1>b. ASSUME ~ InScan(c), UNCHANGED fromHelper
      PROVE  StationIsLost(c)'
  BY <1>0, <1>1, <1>b, NothingRead DEF SyncInv, StationIsLost
<1>a. CASE t # c
  <2>1. /\ UNCHANGED <<fromHelper, current_frequency, line>> /\ pc'[c] = pc[c]
        /\ \/ UNCHANGED toHelper
           \/ \E op \in PlayOps : WriteCommand(Command(op, 0))
    BY <1>1, <1>a, OthersStep
  <2>a. UNCHANGED dropped
    BY <1>0, <1>1, <2>1, NothingRead
  <2>2. Scans' = Scans /\ Retunes' = Retunes
    <3>1. ASSUME NEW op \in PlayOps, WriteCommand(Command(op, 0))
          PROVE  Scans' = Scans /\ Retunes' = Retunes
      BY <1>1, <3>1, CommandType, PlayKeeps, NoRetuneWritten
      DEF Command, PlayOps, PlainOps
    <3>2. QED
      BY <2>1, <3>1 DEF Retunes, Scans
  <2>3. /\ HeldIsTuned(c)' = HeldIsTuned(c) /\ KnowsTuned' = KnowsTuned
        /\ Unreported(c)' = Unreported(c) /\ Stations' = Stations
        /\ InScan(c)' = InScan(c)
    BY <1>1, <1>2, <2>1, <2>2, <2>a
    DEF Held, HeldIsTuned, KnowsTuned, Unreported, Stations, InScan
  <2>4. /\ Reported(c)' = Reported(c) /\ StationIsTuned(c)' = StationIsTuned(c)
        /\ OneRest' = OneRest /\ RestIsLost(c)' = RestIsLost(c)
        /\ StationIsLost(c)' = StationIsLost(c)
    BY <1>1, <1>2, <2>1, <2>2, <2>3, <2>a
    DEF Reported, StationIsTuned, OneRest, RestIsLost, StationIsLost
  <2>5. QED
    BY <1>1, <1>2, <2>1, <2>2, <2>3, <2>4 DEF SyncInv
<1>7. CASE CallStep(c)
  BY <1>1, <1>4, <1>5, <1>7
  DEF CallStep, SetFrequencyCall, StartCall, StopCall, ScanStartCall,
      ScanStopCall, pipeVars, Setting, InScan, Held
<1>8. CASE SetFrequencyScanStop(c)
  BY <1>1, <1>4, <1>5, <1>8 DEF SetFrequencyScanStop, Setting, InScan, Held
<1>9. CASE SetFrequencyStore(c)
  BY <1>1, <1>2, <1>5, <1>6, <1>9, <1>b
  DEF SetFrequencyStore, pipeVars, InScan, SyncInv, Unreported, Scans
<1>10. CASE SetFrequencyWrite(c)
  <2>1. fromHelper' = << >> /\ pc'[c] \in {"sf_read", "idle"}
    BY <1>1, <1>5, <1>10 DEF SetFrequencyWrite, InScan
  <2>2. helper_alive => Unreported(c)'
    <3> SUFFICES ASSUME helper_alive PROVE Unreported(c)'
      OBVIOUS
    <3>1. AnswerInv(c)' /\ pc'[c] = "sf_read" /\ helper_alive'
      BY <1>1, <1>10, AnswerBackend DEF SetFrequencyWrite
    <3>2. AnswerComing(frequency[c])'
      BY <3>1 DEF AnswerInv
    <3>3. Retuning' \/ Retunes' # {}
      BY <2>1, <3>2 DEF AnswerComing, RetunePending
    <3>4. QED
      BY <3>1, <3>3 DEF Unreported
  <2>3. StationIsLost(c)'
    BY <1>1, <1>10, <1>b DEF SetFrequencyWrite, InScan
  <2>4. QED
    BY <1>1, <1>2, <1>6, <2>1, <2>2, <2>3 DEF SyncInv
<1>11. CASE StartWrite(c) \/ StopWrite(c)
  BY <1>1, <1>4, <1>5, <1>11
  DEF StartWrite, StopWrite, WriteThenSet, Setting, InScan, Held
<1>12. CASE StartSet(c) \/ StopSet(c)
  BY <1>1, <1>4, <1>5, <1>12
  DEF StartSet, StopSet, SetActive, pipeVars, Setting, InScan, Held
<1>13. CASE ScanStopWrite(c)
  BY <1>1, <1>4, <1>5, <1>13 DEF ScanStopWrite, Setting, InScan, Held
<1>14. CASE ScanStartMark(c)
  BY <1>1, <1>4, <1>5, <1>14 DEF ScanStartMark, pipeVars, Setting, InScan, Held
<1>15. CASE ScanStartWrite(c)
  BY <1>1, <1>4, <1>5, <1>15 DEF ScanStartWrite, Setting, InScan, Held
<1>16. CASE ScanLoop(c)
  BY <1>1, <1>4, <1>16 DEF ScanLoop, pipeVars, Setting, InScan, Held, Solo
<1>17. CASE ScanRead(c)
  BY <1>0, <1>1, <1>17, SyncScanRead
<1>18. CASE ScanEOF(c)
  BY <1>1, <1>4, <1>18 DEF ScanEOF, EndOfFile, pipeVars, Setting, Held
<1>19. CASE ScanRetuned(c)
  <2>1. /\ Held(c)' = Held(c) /\ UNCHANGED <<toHelper, fromHelper>>
        /\ pc[c] = "sc_line" /\ pc'[c] = "sc_loop"
    BY <1>1, <1>19 DEF ScanRetuned, pipeVars, Held
  <2>2. UNCHANGED dropped
    BY <1>0, <1>1, <2>1, NothingRead
  <2>3. /\ HeldIsTuned(c)' = HeldIsTuned(c) /\ Unreported(c)' = Unreported(c)
        /\ Stations' = Stations /\ Scans' = Scans /\ InScan(c)'
    BY <1>1, <1>2, <2>1, <2>2
    DEF HeldIsTuned, Unreported, Retunes, Stations, Scans, InScan
  <2>4. /\ Reported(c)' = Reported(c) /\ StationIsTuned(c)' = StationIsTuned(c)
        /\ OneRest' = OneRest /\ RestIsLost(c)' = RestIsLost(c)
    BY <1>1, <1>2, <2>1, <2>2, <2>3 DEF Reported, StationIsTuned, OneRest, RestIsLost
  <2>5. StationIsLost(c)'
    BY <1>1, <1>2, <2>2, <2>3 DEF SyncInv, StationIsLost
  <2>6. QED
    BY <1>1, <1>2, <2>1, <2>3, <2>4, <2>5 DEF SyncInv
<1>20. CASE ScanStation(c)
  <2>1. /\ fromHelper = << >> /\ UNCHANGED <<toHelper, fromHelper>>
        /\ pc[c] = "sc_line" /\ pc'[c] = "sc_done"
    BY <1>1, <1>20 DEF ScanStation, pipeVars, AnswerInv, Awaited, InScan
  <2>2. UNCHANGED dropped
    BY <1>0, <1>1, <2>1, NothingRead
  <2>3. Reported(c)'
    BY <1>1, <1>2, <1>20, <2>1, <2>2
    DEF ScanStation, Reported, HeldIsTuned, Held, SyncInv, KnowsTuned
  <2>4. StationIsLost(c)'
    BY <1>20, <1>b, <2>1 DEF ScanStation, InScan
  <2>5. QED
    BY <1>1, <1>2, <1>6, <2>1, <2>3, <2>4 DEF SyncInv, Scans
<1>21. CASE ScanDone(c)
  BY <1>1, <1>4, <1>5, <1>21 DEF ScanDone, pipeVars, Setting, InScan, Held
<1>22. CASE SetFrequencyRead(c)
  <2>1. /\ fromHelper = <<ReplyLine("F", frequency[c])>> /\ ReadLines
        /\ pc'[c] = "idle" /\ pc[c] = "sf_read" /\ UNCHANGED <<toHelper, current_frequency>>
    <3>1. fromHelper # << >> /\ pc[c] = "sf_read"
      BY <1>22 DEF SetFrequencyRead, ReadLines
    <3>2. fromHelper = <<ReplyLine("F", frequency[c])>>
      BY <1>1, <3>1 DEF AnswerInv, Awaited, InScan
    <3>3. Head(fromHelper).kind = "F"
      BY <3>2 DEF ReplyLine
    <3>4. QED
      BY <1>1, <1>22, <3>1, <3>2, <3>3 DEF SetFrequencyRead
  <2>2. fromHelper' = << >>
    BY <1>1, <2>1, LoneLineRead
  <2>3. fromHelper[1].freq = current_frequency
    BY <1>1, <2>1 DEF AnswerInv, Setting, ReplyLine
  <2>4. StationIsLost(c)'
    <3>1. dropped' = Behind /\ Behind = {}
      BY <1>0, <2>1, <2>2 DEF Record, Behind, Taken, ReplyLine
    <3>2. QED
      BY <3>1 DEF StationIsLost
  <2>5. ASSUME helper_alive
        PROVE  Reported(c)'
    <3>1. AnswerComing(frequency[c]) /\ ~ Busy
      BY <1>1, <2>1, <2>5 DEF AnswerInv, Solo, InScan
    <3>2. Retunes = {} /\ ~ Retuning /\ demod_pc = "idle"
      BY <2>1, <3>1 DEF AnswerComing, Busy
    <3>3. current_frequency = Tuned
      BY <1>1, <2>1, <2>3, <2>5, <3>2 DEF SyncInv, Reported, Unreported
    <3>4. QED
      BY <1>2, <2>1, <2>2, <3>3 DEF Reported, HeldIsTuned, Held
  <2>6. QED
    BY <1>1, <1>2, <1>6, <2>1, <2>2, <2>4, <2>5 DEF SyncInv
<1>23. CASE SetFrequencyEOF(c)
  <2>1. /\ fromHelper' = << >> /\ UNCHANGED fromHelper /\ ~ helper_alive
        /\ pc'[c] # "sc_line"
    BY <1>1, <1>23 DEF SetFrequencyEOF, EndOfFile, pipeVars
  <2>2. QED
    BY <1>1, <1>6, <2>1 DEF SyncInv, StationIsLost
<1>24. QED
  BY <1>1, <1>a, <1>7, <1>8, <1>9, <1>10, <1>11, <1>12, <1>13, <1>14, <1>15, <1>16,
     <1>17, <1>18, <1>19, <1>20, <1>21, <1>22, <1>23
  DEF ThreadStep, LockStep, FreeStep

\* The demodulator reports each step of a scan before it takes the next.
LEMMA SyncHelper ==
    ASSUME NEW c \in Clients, OneTunerInv(c), SyncInv(c), Helper
    PROVE  SyncInv(c)'
<1>1. /\ toHelper \in Seq(Commands) /\ fromHelper \in Seq(Lines) /\ HelperNext
      /\ Solo(c) /\ ScanPhases /\ AnswerInv(c) /\ SyncInv(c) /\ OnGrid
      /\ {main_freq, demod_freq} \subseteq Channels /\ Channels \subseteq Nat
      /\ freqs0 \in Frequencies
      /\ UNCHANGED <<pc, line, current_frequency, frequency, dropped>>
      /\ InScan(c)' = InScan(c) /\ Held(c)' = Held(c)
  BY ChannelsAreNat
  DEF OneTunerInv, SoloInv, OnGrid, TypeOK, PipesTypeOK, HelperTypeOK, Helper, ByHelper,
      backendVars, InScan, Held
\* The S= of a scan is lost only when the helper is done with it.
<1>c. helper_alive /\ (Busy \/ Scans # {} \/ ~ InScan(c)) => "S" \notin dropped
  BY <1>1 DEF SyncInv, StationIsLost
\* A step that neither retunes nor prints.
<1>2. ASSUME UNCHANGED <<fromHelper, freqs0>>,
             helper_alive' => helper_alive,
             helper_alive' =>
                /\ Busy' \/ Scans' # {} => Busy \/ Scans # {}
                /\ Retuning' \/ Scans' # {} => fromHelper = << >>
                /\ main_pc' = "report" => main_pc = "report" /\ UNCHANGED main_freq
                /\ demod_pc' = "report" => demod_pc = "report" /\ UNCHANGED demod_freq
                /\ Unreported(c) => Unreported(c)'
      PROVE  SyncInv(c)'
  <2>1. /\ Tuned' = Tuned /\ Stations' = Stations /\ KnowsTuned' = KnowsTuned
        /\ HeldIsTuned(c)' = HeldIsTuned(c)
    BY <1>1, <1>2 DEF Tuned, Stations, KnowsTuned, HeldIsTuned
  <2>2. /\ Reported(c)' = Reported(c) /\ StationIsTuned(c)' = StationIsTuned(c)
        /\ OneRest' = OneRest /\ RestIsLost(c)' = RestIsLost(c)
    BY <1>1, <1>2, <2>1 DEF Reported, StationIsTuned, OneRest, RestIsLost
  <2>3. StationIsLost(c)'
    BY <1>1, <1>2, <2>1 DEF SyncInv, StationIsLost
  <2>4. QED
    BY <1>1, <1>2, <2>1, <2>2, <2>3 DEF SyncInv
\* A step that retunes: the client waits for the answer, or for the scan.
<1>3. ASSUME helper_alive', UNCHANGED fromHelper, Stations = {}, "S" \notin dropped,
             Retuning' \/ Scans' # {} => fromHelper = << >>,
             pc[c] # "sc_line" \/ line[c].kind # "S",
             Unreported(c)',
             main_pc' = "report" => main_freq' = Tuned',
             demod_pc' = "report" => demod_freq' = Tuned'
      PROVE  SyncInv(c)'
  BY <1>1, <1>3
  DEF SyncInv, StationIsTuned, OneRest, RestIsLost, StationIsLost, Stations
\* A step that reports where the tuner is.
<1>4. ASSUME NEW kind \in {"F", "S"}, Stations = {}, "S" \notin dropped,
             PrintLine(ReplyLine(kind, Tuned)), kind = "S" => Reported(c),
             UNCHANGED freqs0,
             ~ Retuning', demod_pc' = "idle", Scans' = {}
      PROVE  SyncInv(c)'
  <2>1. /\ fromHelper' = Append(fromHelper, ReplyLine(kind, Tuned))
        /\ Len(fromHelper) \in Nat /\ Len(fromHelper') = Len(fromHelper) + 1
        /\ DOMAIN fromHelper' = 1 .. (Len(fromHelper) + 1)
        /\ \A i \in 1 .. Len(fromHelper) : fromHelper'[i] = fromHelper[i]
        /\ fromHelper'[Len(fromHelper')] = ReplyLine(kind, Tuned)
    BY <1>1, <1>4 DEF PrintLine
  <2>2. /\ fromHelper' # << >> /\ Tuned' = Tuned /\ main_pc' # "report"
        /\ HeldIsTuned(c)' = HeldIsTuned(c) /\ KnowsTuned' = KnowsTuned
    BY <1>1, <1>4, <2>1 DEF Tuned, Retuning, HeldIsTuned, KnowsTuned
  <2>3. ASSUME NEW i \in Stations'
        PROVE  i = Len(fromHelper') /\ kind = "S"
    BY <1>1, <1>4, <2>1, <2>3 DEF Stations, ReplyLine
  <2>4. ASSUME kind = "S"
        PROVE  IF Len(fromHelper') = 1 THEN HeldIsTuned(c)
               ELSE fromHelper'[Len(fromHelper') - 1].freq = Tuned
    BY <1>1, <1>4, <2>1, <2>4 DEF Reported
  <2>5. StationIsTuned(c)'
    BY <2>1, <2>2, <2>3, <2>4 DEF StationIsTuned, ReplyLine
  <2>6. Reported(c)'
    BY <2>1, <2>2 DEF Reported, ReplyLine
  <2>7. OneRest' /\ RestIsLost(c)' /\ StationIsLost(c)'
    BY <1>1, <1>4, <2>1 DEF SyncInv, OneRest, RestIsLost, StationIsLost, ReplyLine
  <2>8. QED
    BY <1>1, <1>4, <2>2, <2>5, <2>6, <2>7 DEF SyncInv
\* A command that has nothing to do with the tuner.
<1>5. ASSUME NEW ops, NextCommand(ops), ops \cap (ScanOps \cup {"F="}) = {},
             main_pc' \in {"command", "joining"},
             UNCHANGED <<fromHelper, helper_alive, freqs0, demod_pc, demod_freq>>,
             ctl_scanning' \in {FALSE, ctl_scanning}
      PROVE  SyncInv(c)'
  <2>1. /\ helper_alive /\ ~ Retuning /\ ~ Retuning' /\ main_pc' # "report"
        /\ Head(toHelper).op \notin ScanOps /\ Head(toHelper).op # "F="
    BY <1>5 DEF NextCommand, Retuning
  <2>2. Scans' # {} => Scans # {}
    BY <1>1, <1>5, <2>1, ScanTaken DEF Solo
  <2>3. pc[c] = "sf_read" /\ Retunes # {} => Retunes' # {}
    BY <1>1, <1>5, <2>1, NoRetuneTaken DEF AnswerInv, AnswerComing, RetunePending
  <2>4. Busy' => Busy
    BY <1>5 DEF Busy
  <2>5. QED
    BY <1>1, <1>2, <1>5, <2>1, <2>2, <2>3, <2>4 DEF SyncInv, Unreported
<1>6. ASSUME helper_alive, Busy
      PROVE  InScan(c) /\ Scans = {} /\ Stations = {}
  BY <1>1, <1>6, PlaysNotScans DEF Solo
<1> USE DEF mainVars, demodVars
<1>7. CASE HelperStart
  BY <1>5, <1>7 DEF HelperStart, StopScan, NextCommand, ScanOps
<1>8. CASE HelperStop
  BY <1>5, <1>8 DEF HelperStop, StopScan, NextCommand, ScanOps
<1>9. CASE HelperJoined
  BY <1>1, <1>2, <1>9
  DEF HelperJoined, pipeVars, Busy, Retuning, Scans, Unreported, Retunes, SyncInv
<1>b. fromHelper = << >> => Stations = {}
  BY DEF Stations
<1>10. CASE HelperSetFreq
  <2>1. /\ helper_alive /\ 1 \in Retunes /\ main_pc = "command"
        /\ UNCHANGED helper_alive
    BY <1>1, <1>10 DEF HelperSetFreq, NextCommand, Retunes
  <2>2. /\ pc[c] = "sf_read" /\ fromHelper = << >> /\ demod_pc = "idle"
    BY <1>1, <1>6, <2>1 DEF AnswerInv, AnswerComing, Busy, InScan
  <2>3. AnswerComing(frequency[c])'
    BY <1>1, <1>10, <2>1, <2>2, AnswerHelper DEF AnswerInv
  <2>4. fromHelper' = << >> /\ demod_pc' = "idle" /\ main_pc' # "report"
    BY <1>10, <2>1, <2>2 DEF HelperSetFreq, MainRetune
  <2>5. Unreported(c)'
    BY <1>1, <2>2, <2>3, <2>4 DEF AnswerComing, RetunePending, Unreported
  <2>6. QED
    BY <1>3, <1>b, <1>c, <2>1, <2>2, <2>4, <2>5 DEF InScan
<1>11. CASE HelperScanStart
  <2>1. /\ Head(toHelper).op \in ScanOps /\ NextCommand(ScanOps) /\ helper_alive
        /\ main_pc = "command" /\ UNCHANGED <<helper_alive, fromHelper, demod_pc>>
    BY <1>11 DEF HelperScanStart, NextCommand
  <2>2. Scans # {} /\ InScan(c) /\ Scans' = {}
    BY <1>1, <2>1, ScanTaken DEF Solo, OnlyPlays, Scans, PlayOps, ScanOps
  <2>3. fromHelper = << >> /\ demod_pc = "idle" /\ pc[c] \notin Setting
    BY <1>1, <2>1, <2>2, PlaysNotScans DEF SyncInv, Solo, Busy, InScan, Setting
  <2>4. CASE UNCHANGED <<main_pc, freqs0>>
    BY <1>2, <2>1, <2>2, <2>3, <2>4 DEF Unreported, Setting, Retuning
  <2>5. CASE main_pc' = "offset"
    BY <1>3, <1>b, <1>c, <2>1, <2>2, <2>3, <2>5 DEF InScan, Unreported, Retuning
  <2>6. QED
    BY <1>11, <2>4, <2>5 DEF HelperScanStart, StartScan, MainRetune
<1>12. CASE HelperScanStop
  BY <1>5, <1>12 DEF HelperScanStop, StopScan, NextCommand, ScanOps
<1>13. ASSUME helper_alive, Retuning
      PROVE  /\ fromHelper = << >> /\ demod_pc = "idle" /\ Scans = {}
             /\ pc[c] # "sc_line" \/ line[c].kind # "S"
             /\ "S" \notin dropped
  <2>1. pc[c] = "sf_read" \/ (InScan(c) /\ Busy)
    BY <1>1, <1>13 DEF AnswerInv, Solo, Busy
  <2>2. Scans = {}
    BY <1>1, <1>6, <1>13, <2>1 DEF AnswerInv, Solo, Busy, InScan
  <2>3. QED
    BY <1>1, <1>13, <1>c, <2>1, <2>2 DEF SyncInv, ScanPhases, InScan
<1>14. CASE HelperOffset
  <2>1. helper_alive /\ Retuning
    BY <1>14 DEF HelperOffset, Retuning
  <2>2. freqs0 = main_freq
    BY <1>1, <1>13, <1>14, <2>1 DEF HelperOffset, OnGrid, TunerOnGrid
  <2>3. Tuned' = main_freq
    BY <1>1, <1>14, <2>2, OffsetTunes DEF HelperOffset
  <2>4. QED
    BY <1>3, <1>b, <1>13, <1>14, <2>1, <2>3
    DEF HelperOffset, pipeVars, Unreported, Retuning
<1>15. CASE HelperReport
  <2>1. helper_alive /\ Retuning /\ main_freq = Tuned
    BY <1>1, <1>15 DEF HelperReport, Retuning, SyncInv
  <2>2. QED
    BY <1>4, <1>b, <1>13, <1>15, <2>1 DEF HelperReport, Retuning, Scans
<1>16. CASE HelperExit
  BY <1>2, <1>16 DEF HelperExit, helperVars
<1>17. CASE DemodStep
  <2>1. helper_alive /\ Busy /\ UNCHANGED <<helper_alive, toHelper, main_pc, main_freq>>
    BY <1>1, <1>17
    DEF DemodStep, DemodWeak, DemodTune, DemodOffset, DemodReport, DemodStrong,
        DemodScanStop, DemodStation, Iteration, pipeVars, Busy
  <2>2. /\ InScan(c) /\ Scans = {} /\ Scans' = {} /\ Stations = {}
        /\ pc[c] # "sc_line" \/ line[c].kind # "S"
        /\ "S" \notin dropped
    BY <1>6, <1>c, <2>1 DEF InScan, Scans
  <2>3. /\ Retuning' = Retuning
        /\ demod_pc # "idle" => ~ Retuning
    BY <1>1, <2>1 DEF ScanPhases, Retuning
  <2>4. CASE DemodWeak \/ DemodStrong
    <3>1. /\ UNCHANGED <<fromHelper, freqs0>> /\ demod_pc = "idle"
          /\ demod_pc' \in {"tune", "found"}
      BY <1>1, <2>4 DEF DemodWeak, DemodStrong, Iteration, pipeVars
    <3>2. QED
      BY <1>1, <1>2, <2>1, <2>2, <2>3, <3>1 DEF Unreported, Retuning, Retunes, SyncInv
  <2>5. ASSUME demod_pc # "idle"
        PROVE  ~ Retuning /\ ~ Retuning'
    BY <2>3, <2>5
  <2>6. CASE DemodTune
    <3>1. CASE freqs0 = demod_freq
      BY <1>1, <1>2, <2>1, <2>2, <2>5, <2>6, <3>1
      DEF DemodTune, pipeVars, Unreported, Retuning, Retunes
    <3>2. CASE freqs0 # demod_freq
      BY <1>3, <2>1, <2>2, <2>5, <2>6, <3>2 DEF DemodTune, pipeVars, Unreported, Retuning
    <3>3. QED
      BY <3>1, <3>2
  <2>7. CASE DemodOffset
    <3>1. freqs0 = demod_freq
      BY <1>1, <2>5, <2>7 DEF DemodOffset, OnGrid, TunerOnGrid, Retuning
    <3>2. Tuned' = demod_freq
      BY <1>1, <2>7, <3>1, OffsetTunes DEF DemodOffset
    <3>3. QED
      BY <1>3, <2>1, <2>2, <2>5, <2>7, <3>2
      DEF DemodOffset, pipeVars, Unreported, Retuning
  <2>8. CASE DemodReport
    BY <1>1, <1>4, <2>1, <2>2, <2>5, <2>8 DEF DemodReport, SyncInv
  <2>9. CASE DemodScanStop
    BY <1>1, <1>2, <2>1, <2>2, <2>5, <2>9
    DEF DemodScanStop, pipeVars, Unreported, Retuning, Retunes
  <2>10. CASE DemodStation
    <3>1. Reported(c)
      BY <1>1, <2>1, <2>2, <2>5, <2>10
      DEF DemodStation, SyncInv, Unreported, InScan
    <3>2. QED
      BY <1>4, <2>2, <2>5, <2>10, <3>1 DEF DemodStation
  <2>11. QED
    BY <1>17, <2>4, <2>6, <2>7, <2>8, <2>9, <2>10 DEF DemodStep
<1>18. QED
  BY <1>1, <1>7, <1>8, <1>9, <1>10, <1>11, <1>12, <1>14, <1>15, <1>16, <1>17
  DEF HelperNext, HelperCommand

\* The inductive invariant of a radio with one tuner.
LEMMA SyncInvariant ==
    ASSUME NEW c \in Clients, OnlyTuner(c)
    PROVE  Spec => []SyncInv(c)
<1>1. Init => SyncInv(c)
  <2> SUFFICES ASSUME Init PROVE SyncInv(c)
    OBVIOUS
  <2>1. DOMAIN toHelper = {} /\ fromHelper = << >> /\ pc[c] = "idle"
    BY DEF Init, PipesInit, BackendInit
  <2>2. Tuned = MinFreq
    BY BandPlanAssumption, HelperAssumption DEF Init, HelperInit, Tuned
  <2>3. QED
    BY <2>1, <2>2
    DEF Init, HelperInit, BackendInit, SyncInv, StationIsTuned, OneRest, RestIsLost,
        StationIsLost, Retuning, Scans, Stations, Reported, HeldIsTuned, Held
<1>2. OneTunerInv(c) /\ SyncInv(c) /\ [Next]_vars => SyncInv(c)'
  <2>1. SyncInv(c) /\ UNCHANGED vars => SyncInv(c)'
    BY DEF vars, pipeVars, helperVars, mainVars, demodVars, backendVars, SyncInv,
           StationIsTuned, OneRest, RestIsLost, StationIsLost, Held, HeldIsTuned,
           KnowsTuned, Reported, Unreported, Retunes, Retuning, Busy, InScan, Scans,
           Stations, Tuned
  <2>2. QED
    BY <2>1, SyncBackend, SyncHelper DEF Next
<1>3. QED
  BY <1>1, <1>2, OneTunerInvariant, PTL DEF Spec

\* Once all calls have returned and the helper has nothing left to do, no scan, squelch
\* or reply is left over, the clients have been told the frequency that get_frequency
\* returns, and the tuner is there unless a read() lost its F= and no later one has been
\* seen: not even a start or a stop that others ask for in the middle of the scan leaves
\* anything.
THEOREM ScanEndsInAgreement ==
    ASSUME NEW c \in Clients, OnlyTuner(c)
    PROVE  Spec => []ScanAgreement
<1>1. OneTunerInv(c) /\ SyncInv(c) => ScanAgreement
  <2> SUFFICES ASSUME OneTunerInv(c), SyncInv(c), Settled
               PROVE  /\ ~ scanning /\ ~ ctl_scanning /\ ~ squelch
                      /\ demod_pc = "idle" /\ fromHelper = << >>
                      /\ Told /\ KnowsTuned
    BY DEF ScanAgreement
  <2>1. /\ pc[c] = "idle" /\ helper_alive /\ ~ Retuning
    BY DEF Settled, At, Retuning
  <2>2. fromHelper = << >> /\ ~ scanning /\ ~ Busy
    BY <2>1 DEF OneTunerInv, SoloInv, Solo, AnswerInv, Awaited, InScan
  <2>3. ~ ctl_scanning /\ ~ squelch /\ demod_pc = "idle"
    BY <2>1, <2>2 DEF OneTunerInv, SoloInv, ScanPhases, Busy
  <2>4. KnowsTuned
    BY <2>1, <2>2, <2>3 DEF SyncInv, Reported, HeldIsTuned, Held, Unreported, KnowsTuned
  <2>5. Told
    BY <2>1 DEF OneTunerInv, AnswerInv, Setting
  <2>6. QED
    BY <2>2, <2>3, <2>4, <2>5
<1>2. QED
  BY <1>1, OneTunerInvariant, SyncInvariant, PTL

\* A station is announced only at the frequency the tuner is at, whatever replies have
\* been lost before, and if none has get_frequency already returns it.
THEOREM StationIsWhereTunerIs ==
    ASSUME NEW c \in Clients, OnlyTuner(c)
    PROVE  Spec => StationFoundIsTuned
<1>1. OneTunerInv(c) /\ SyncInv(c) =>
        [\A t \in Clients :
            ScanStation(t) => line[t].freq = Tuned /\ KnowsTuned]_vars
  BY DEF OneTunerInv, SoloInv, Solo, OthersPlay, PlayPlaces, SyncInv, ScanStation, At
<1>2. QED
  BY <1>1, OneTunerInvariant, SyncInvariant, PTL DEF StationFoundIsTuned

=============================================================================
