-------------------------- MODULE BandPlan_proofs --------------------------
(***************************************************************************)
(* What every scan relies on, for any band plan that satisfies             *)
(* BandPlanAssumption: a step from a channel leads to a channel, and a     *)
(* step one way is undone by a step the other way, at the band's ends too. *)
(***************************************************************************)
EXTENDS BandPlan, TLAPS

-----------------------------------------------------------------------------
(* Division facts the SMT solver does not find by itself.                   *)

\* The defining property of \div and %, with which uint32_t division agrees
\* on the non-negative numbers the code divides.
LEMMA Division ==
    ASSUME NEW a \in Int, NEW d \in Nat \ {0}
    PROVE  /\ a = (d * (a \div d)) + (a % d)
           /\ a % d \in 0 .. (d - 1)
           /\ a \div d \in Int
OBVIOUS

\* Multiplication by the step distributes over a sum of step counts.
LEMMA Distributes ==
    ASSUME NEW k \in Int, NEW j \in Int, NEW d \in Nat \ {0}
    PROVE  d * (k + j) = d * k + d * j
BY SMTT(20)

\* A multiple of the step other than zero is at least a step away from zero.
LEMMA MultipleAbove ==
    ASSUME NEW k \in Int, NEW d \in Nat \ {0}, k >= 1
    PROVE  d * k >= d
BY SMTT(20)

\* The same on the other side of zero.
LEMMA MultipleBelow ==
    ASSUME NEW k \in Int, NEW d \in Nat \ {0}, k =< -1
    PROVE  d * k =< -d
BY SMTT(20)

\* Zero is the only multiple of the step closer to zero than a step.
LEMMA SmallMultiple ==
    ASSUME NEW k \in Int, NEW d \in Nat \ {0}, NEW r \in 0 .. (d - 1),
           d * k = r
    PROVE  r = 0
<1>1. CASE k >= 1
  BY <1>1, MultipleAbove
<1>2. CASE k =< -1
  BY <1>2, MultipleBelow
<1>3. CASE k = 0
  BY <1>3
<1>4. QED
  BY <1>1, <1>2, <1>3

\* A multiple of the step leaves no remainder: the grid test of
\* RadioImpl::SetFrequency accepts it.
LEMMA MultipleHasNoRemainder ==
    ASSUME NEW a \in Int, NEW k \in Int, NEW d \in Nat \ {0}, a = d * k
    PROVE  a % d = 0
<1>1. PICK q \in Int, r \in 0 .. (d - 1) : a = (d * q) + r /\ r = a % d
  BY Division
<1>2. d * (k + (-q)) = d * k + d * (-q) /\ d * (-q) = -(d * q)
  BY <1>1, Distributes, SMTT(20)
<1>3. d * (k + (-q)) = r
  BY <1>1, <1>2
<1>4. QED
  BY <1>1, <1>3, SmallMultiple

\* Conversely, what leaves no remainder is a multiple.
LEMMA NoRemainderIsMultiple ==
    ASSUME NEW a \in Int, NEW d \in Nat \ {0}, a % d = 0
    PROVE  \E k \in Int : a = d * k
<1>1. a = d * (a \div d) /\ a \div d \in Int
  BY Division
<1>2. QED
  BY <1>1

\* A step more or less does not change the remainder zero.
LEMMA StepKeepsRemainder ==
    ASSUME NEW a \in Int, NEW d \in Nat \ {0}, a % d = 0
    PROVE  (a + d) % d = 0 /\ (a - d) % d = 0
<1>1. PICK k \in Int : a = d * k
  BY NoRemainderIsMultiple
<1>2. a + d = d * (k + 1) /\ a - d = d * (k + (-1))
  BY <1>1, Distributes, SMTT(20)
<1>3. QED
  BY <1>2, MultipleHasNoRemainder

\* Two points of one grid that are less than a step apart are the same point.
LEMMA GridPointsApart ==
    ASSUME NEW a \in Int, NEW b \in Int, NEW d \in Nat \ {0},
           a % d = 0, b % d = 0, a =< b, b < a + d
    PROVE  a = b
<1>1. PICK k \in Int : a = d * k
  BY NoRemainderIsMultiple
<1>2. PICK j \in Int : b = d * j
  BY NoRemainderIsMultiple
<1>3. d * (j + (-k)) = d * j + d * (-k) /\ d * (-k) = -(d * k)
  BY <1>1, <1>2, Distributes, SMTT(20)
<1>4. d * (j + (-k)) = b - a /\ b - a \in 0 .. (d - 1)
  BY <1>1, <1>2, <1>3
<1>5. b - a = 0
  BY <1>4, SmallMultiple
<1>6. QED
  BY <1>5

-----------------------------------------------------------------------------
\* Channels is a set of numbers, and the band's ends are in it: tuning to the
\* minimum at start-up and wrapping to either end stay on the grid.
LEMMA ChannelsAreNat == Channels \subseteq Nat
BY BandPlanAssumption DEF Channels

\* No channel is 0, which stands for no event and for nothing found.
LEMMA ChannelsArePositive == \A f \in Channels : f \in Nat /\ f # 0
BY BandPlanAssumption DEF Channels, Valid

\* Both ends of a band plan are channels of it.
LEMMA EndsAreChannels == MinFreq \in Channels /\ MaxFreq \in Channels
BY BandPlanAssumption DEF Channels, Valid

\* A scan step from a channel leads to a channel, in either direction and
\* across the ends of the band (rtl_fm_scan_callback, rtl_fm_scan_start).
THEOREM StepStaysOnGrid ==
    ASSUME NEW f \in Channels, NEW dir \in Directions
    PROVE  StepFrom(f, dir) \in Channels
<1>1. /\ f \in Int /\ f - MinFreq \in Int
      /\ FreqStep \in Nat \ {0}
      /\ (f - MinFreq) % FreqStep = 0
  BY BandPlanAssumption DEF Channels, Valid
<1>2. /\ ((f - MinFreq) + FreqStep) % FreqStep = 0
      /\ ((f - MinFreq) - FreqStep) % FreqStep = 0
  BY <1>1, StepKeepsRemainder
<1>3. /\ (f + FreqStep) - MinFreq = (f - MinFreq) + FreqStep
      /\ (f - FreqStep) - MinFreq = (f - MinFreq) - FreqStep
  BY <1>1, BandPlanAssumption
<1>4. StepUp(f) \in Channels
  BY <1>1, <1>2, <1>3, EndsAreChannels, BandPlanAssumption
  DEF StepUp, Channels, Valid
<1>5. StepDown(f) \in Channels
  BY <1>1, <1>2, <1>3, EndsAreChannels, BandPlanAssumption
  DEF StepDown, Channels, Valid
<1>6. QED
  BY <1>4, <1>5 DEF StepFrom

\* A step up and a step down undo each other: the step is a cycle through
\* the channels, so a scan that finds no station comes back to where it was.
THEOREM StepsAreInverse ==
    ASSUME NEW f \in Channels
    PROVE  StepDown(StepUp(f)) = f /\ StepUp(StepDown(f)) = f
<1>1. /\ f \in Int /\ f - MinFreq \in Int /\ MaxFreq - MinFreq \in Int
      /\ FreqStep \in Nat \ {0}
      /\ (f - MinFreq) % FreqStep = 0 /\ (MaxFreq - MinFreq) % FreqStep = 0
      /\ MinFreq =< f /\ f =< MaxFreq
  BY BandPlanAssumption DEF Channels, Valid
<1>2. ASSUME f + FreqStep > MaxFreq
      PROVE  f = MaxFreq
  <2>1. /\ f - MinFreq =< MaxFreq - MinFreq
        /\ MaxFreq - MinFreq < (f - MinFreq) + FreqStep
    BY <1>1, <1>2, BandPlanAssumption
  <2>2. f - MinFreq = MaxFreq - MinFreq
    BY <1>1, <2>1, GridPointsApart
  <2>3. QED
    BY <1>1, <2>2, BandPlanAssumption
<1>3. ASSUME f - FreqStep < MinFreq
      PROVE  f = MinFreq
  <2>1. 0 % FreqStep = 0
    BY <1>1
  <2>2. 0 = f - MinFreq
    BY <1>1, <1>3, <2>1, GridPointsApart, BandPlanAssumption
  <2>3. QED
    BY <1>1, <2>2, BandPlanAssumption
<1>4. MinFreq + FreqStep =< MaxFreq
  <2>1. 0 % FreqStep = 0
    BY <1>1
  <2>2. ~ (MaxFreq - MinFreq < 0 + FreqStep)
    BY <1>1, <2>1, GridPointsApart, BandPlanAssumption
  <2>3. QED
    BY <1>1, <2>2, BandPlanAssumption
<1>5. StepDown(StepUp(f)) = f
  BY <1>1, <1>2, <1>4, BandPlanAssumption DEF StepUp, StepDown
<1>6. StepUp(StepDown(f)) = f
  BY <1>1, <1>3, <1>4, BandPlanAssumption DEF StepUp, StepDown
<1>7. QED
  BY <1>5, <1>6

=============================================================================
