-------------------------- MODULE AudioPath_proofs --------------------------
(***************************************************************************)
(* The audio path for every block length, all rates and any number of      *)
(* blocks: what is heard is in order and, unless something was lost on the *)
(* way, complete (AudioPath), and the pipeline is given whole frames       *)
(* (RadioOutput).  The filters are folds over sequences; that they drop    *)
(* and exchange nothing is proved by induction, in the form of a set of    *)
(* numbers that has 0 and every successor.                                 *)
(***************************************************************************)
EXTENDS AudioPath, TLAPS, WellFoundedInduction

-----------------------------------------------------------------------------
(* Induction, recursion and folds. *)

\* A set of numbers that begins with 0 and is closed under successors has them all.
LEMMA Induction ==
    ASSUME NEW T, 0 \in T, \A n \in Nat : n \in T => n + 1 \in T
    PROVE  \A n \in Nat : n \in T
<1> SUFFICES ASSUME Nat \ T # {} PROVE FALSE
  OBVIOUS
<1>1. \A R, S : IsWellFoundedOn(R, S) =>
          \A U : U \subseteq S /\ U # {} => \E x \in U : \A y \in U : <<y, x>> \notin R
  BY WFMin, Zenon
<1>2. PICK x \in Nat \ T : \A y \in Nat \ T : <<y, x>> \notin OpToRel(<, Nat)
  <2>1. Nat \ T \subseteq Nat
    OBVIOUS
  <2>2. QED
    BY <1>1, <2>1, NatLessThanWellFounded, Zenon
<1>3. \A y \in Nat \ T : ~ (y < x)
  BY <1>2 DEF OpToRel
<1>4. x # 0 /\ x - 1 \in Nat /\ x - 1 < x /\ (x - 1) + 1 = x
  OBVIOUS
<1>5. x - 1 \in T
  BY <1>3, <1>4
<1>6. QED
  BY <1>4, <1>5

\* f is what n steps make of a, one after the other.
StepByStep(f, S, n, a, step) ==
    /\ f \in [0 .. n -> S]
    /\ f[0] = a
    /\ \A i \in 1 .. n : f[i] = step[i][f[i - 1]]

\* There is such a function.
LEMMA Recursion ==
    ASSUME NEW S, NEW n \in Nat, NEW a \in S, NEW step \in [1 .. n -> [S -> S]]
    PROVE  \E f : StepByStep(f, S, n, a, step)
<1> USE DEF StepByStep
<1> DEFINE Steps(f, m) == StepByStep(f, S, m, a, step)
           T == {m \in Nat : m =< n => \E f : Steps(f, m)}
<1>1. 0 \in T
  <2> DEFINE f == [i \in 0 .. 0 |-> a]
  <2>1. Steps(f, 0)
    OBVIOUS
  <2>2. QED
    BY <2>1
<1>2. ASSUME NEW m \in Nat, m \in T, m + 1 =< n
      PROVE  \E f : Steps(f, m + 1)
  <2>1. PICK f : Steps(f, m)
    BY <1>2
  <2> DEFINE g == [i \in 0 .. m + 1 |-> IF i = m + 1 THEN step[m + 1][f[m]] ELSE f[i]]
  <2>2. g \in [0 .. m + 1 -> S]
    <3>1. f[m] \in S /\ m + 1 \in 1 .. n
      BY <1>2, <2>1
    <3>2. step[m + 1][f[m]] \in S
      BY <3>1
    <3>3. \A i \in 0 .. m + 1 : i = m + 1 \/ i \in 0 .. m
      BY <1>2
    <3>4. QED
      BY <2>1, <3>2, <3>3
  <2>3. g[0] = a
    BY <1>2, <2>1
  <2>4. ASSUME NEW i \in 1 .. m + 1
        PROVE  g[i] = step[i][g[i - 1]]
    <3>1. CASE i = m + 1
      <4>1. g[i] = step[m + 1][f[m]] /\ g[i - 1] = f[m]
        BY <1>2, <3>1
      <4>2. QED
        BY <3>1, <4>1
    <3>2. CASE i # m + 1
      <4>1. i \in 1 .. m /\ g[i] = f[i] /\ g[i - 1] = f[i - 1]
        BY <1>2, <3>2
      <4>2. QED
        BY <2>1, <4>1
    <3>3. QED
      BY <3>1, <3>2
  <2>5. Steps(g, m + 1)
    BY <2>2, <2>3, <2>4
  <2>6. QED
    BY <2>5
<1> HIDE DEF Steps
<1>3. ASSUME NEW m \in Nat, m \in T
      PROVE  m + 1 \in T
  <2>1. m + 1 =< n => \E f : Steps(f, m + 1)
    BY <1>2, <1>3
  <2>2. m + 1 \in Nat
    OBVIOUS
  <2>3. QED
    BY <2>1, <2>2
<1> HIDE DEF T
<1>4. \A m \in Nat : m \in T
  BY <1>1, <1>3, Induction
<1>5. n \in T
  BY <1>4
<1>6. QED
  <2>1. \E f : Steps(f, n)
    BY <1>5 DEF T
  <2>2. QED
    BY <2>1 DEF Steps

\* The greatest of numbers up to m, if m is among them.
LEMMA MaxIs ==
    ASSUME NEW m \in Nat, NEW s \in SUBSET (1 .. m), m \in s
    PROVE  Max(s) = m
<1>1. \A y \in s : m >= y
  OBVIOUS
<1>2. Max(s) \in s /\ \A y \in s : Max(s) >= y
  BY <1>1 DEF Max
<1>3. Max(s) \in 1 .. m
  BY <1>2
<1>4. Max(s) >= m
  BY <1>2
<1>5. QED
  BY <1>3, <1>4

\* A set of numbers up to n, if it is not empty, has a greatest.
LEMMA MaxAmong ==
    ASSUME NEW n \in Nat, NEW s \in SUBSET (1 .. n), s # {}
    PROVE  Max(s) \in 1 .. n
<1> DEFINE T == {m \in Nat : \A t \in SUBSET (1 .. m) :
                                 t # {} => \E x \in t : \A y \in t : x >= y}
<1>1. 0 \in T
  <2>1. 1 .. 0 = {}
    OBVIOUS
  <2>2. QED
    BY <2>1
<1>2. ASSUME NEW m \in Nat, m \in T
      PROVE  m + 1 \in T
  <2>1. ASSUME NEW t \in SUBSET (1 .. (m + 1)), t # {}
        PROVE  \E x \in t : \A y \in t : x >= y
    <3>1. CASE m + 1 \in t
      BY <3>1
    <3>2. CASE m + 1 \notin t
      <4>1. t \in SUBSET (1 .. m)
        BY <3>2
      <4>2. QED
        BY <1>2, <2>1, <4>1
    <3>3. QED
      BY <3>1, <3>2
  <2>2. QED
    BY <2>1
<1> HIDE DEF T
<1>3. n \in T
  BY <1>1, <1>2, Induction
<1>4. \E x \in s : \A y \in s : x >= y
  BY <1>3 DEF T
<1>5. Max(s) \in s
  BY <1>4 DEF Max
<1>6. QED
  BY <1>5

\* h folds the steps over each set of numbers up to m.
Folds(h, S, m, a, step) ==
    /\ h \in [SUBSET (1 .. m) -> S]
    /\ h[{}] = a
    /\ \A s \in SUBSET (1 .. m) : s # {} => h[s] = step[Max(s)][h[s \ {Max(s)}]]

\* There is such a function.
LEMMA FoldExists ==
    ASSUME NEW S, NEW n \in Nat, NEW a \in S, NEW step \in [1 .. n -> [S -> S]]
    PROVE  \E h : Folds(h, S, n, a, step)
<1> DEFINE T == {m \in Nat : m =< n => \E h : Folds(h, S, m, a, step)}
<1>1. 0 \in T
  <2> DEFINE h == [s \in SUBSET (1 .. 0) |-> a]
  <2>1. 1 .. 0 = {}
    OBVIOUS
  <2>2. Folds(h, S, 0, a, step)
    BY <2>1 DEF Folds
  <2>3. QED
    BY <2>2
<1>2. ASSUME NEW m \in Nat, m \in T, m + 1 =< n
      PROVE  \E h : Folds(h, S, m + 1, a, step)
  <2>1. PICK f : Folds(f, S, m, a, step)
    BY <1>2
  <2> DEFINE h == [s \in SUBSET (1 .. m + 1) |->
                      IF m + 1 \in s THEN step[m + 1][f[s \ {m + 1}]] ELSE f[s]]
  <2>2. /\ f \in [SUBSET (1 .. m) -> S] /\ f[{}] = a
        /\ \A s \in SUBSET (1 .. m) : s # {} => f[s] = step[Max(s)][f[s \ {Max(s)}]]
    BY <2>1 DEF Folds
  <2>3. \A s \in SUBSET (1 .. m + 1) : s \ {m + 1} \in SUBSET (1 .. m)
    OBVIOUS
  <2>4. \A s \in SUBSET (1 .. m + 1) : m + 1 \notin s => s \in SUBSET (1 .. m)
    OBVIOUS
  <2>5. step[m + 1] \in [S -> S]
    BY <1>2
  <2>6. ASSUME NEW s \in SUBSET (1 .. m + 1)
        PROVE  (IF m + 1 \in s THEN step[m + 1][f[s \ {m + 1}]] ELSE f[s]) \in S
    <3>1. CASE m + 1 \in s
      <4>1. f[s \ {m + 1}] \in S
        BY <2>2, <2>3
      <4>2. QED
        BY <2>5, <3>1, <4>1
    <3>2. CASE m + 1 \notin s
      BY <2>2, <2>4, <3>2
    <3>3. QED
      BY <3>1, <3>2
  <2>7. h \in [SUBSET (1 .. m + 1) -> S]
    BY <2>6
  <2>8. \A s \in SUBSET (1 .. m) : s \in SUBSET (1 .. m + 1) /\ m + 1 \notin s /\ h[s] = f[s]
    OBVIOUS
  <2>9. h[{}] = a
    BY <2>2, <2>8
  <2>10. ASSUME NEW s \in SUBSET (1 .. m + 1), s # {}
         PROVE  h[s] = step[Max(s)][h[s \ {Max(s)}]]
    <3>1. CASE m + 1 \in s
      <4>1. Max(s) = m + 1
        BY <3>1, MaxIs
      <4>2. h[s] = step[m + 1][f[s \ {m + 1}]]
        BY <3>1
      <4>3. h[s \ {m + 1}] = f[s \ {m + 1}]
        BY <2>3, <2>8
      <4>4. QED
        BY <4>1, <4>2, <4>3
    <3>2. CASE m + 1 \notin s
      <4>1. s \in SUBSET (1 .. m) /\ s \ {Max(s)} \in SUBSET (1 .. m)
        BY <2>4, <3>2
      <4>2. QED
        BY <2>2, <2>8, <2>10, <4>1
    <3>3. QED
      BY <3>1, <3>2
  <2> HIDE DEF h
  <2>11. Folds(h, S, m + 1, a, step)
    BY <2>7, <2>9, <2>10 DEF Folds
  <2>12. QED
    BY <2>11
<1>3. ASSUME NEW m \in Nat, m \in T
      PROVE  m + 1 \in T
  <2>1. m + 1 =< n => \E h : Folds(h, S, m + 1, a, step)
    BY <1>2, <1>3
  <2>2. QED
    BY <2>1
<1> HIDE DEF T
<1>4. n \in T
  BY <1>1, <1>3, Induction
<1>5. QED
  BY <1>4 DEF T

\* iter folds the steps over the first numbers up to n.
Iterates(iter, S, n, a, step) ==
    /\ iter[{}] = a
    /\ \A k \in 1 .. n : iter[1 .. (k - 1)] \in S =>
                              iter[1 .. k] = step[k][iter[1 .. (k - 1)]]

\* A fold over a sequence of n is n steps.
LEMMA FoldIsSteps ==
    ASSUME NEW S, NEW n \in Nat, NEW a, NEW step, NEW f, StepByStep(f, S, n, a, step),
           NEW iter, Iterates(iter, S, n, a, step)
    PROVE  iter[1 .. n] = f[n]
<1> DEFINE T == {m \in Nat : m =< n => iter[1 .. m] = f[m]}
<1>1. 0 \in T
  <2>1. 1 .. 0 = {} /\ f[0] = a /\ iter[{}] = a
    BY DEF StepByStep, Iterates
  <2>2. QED
    BY <2>1
<1>2. ASSUME NEW m \in Nat, m \in T
      PROVE  m + 1 \in T
  <2>1. SUFFICES ASSUME m + 1 =< n PROVE iter[1 .. (m + 1)] = f[m + 1]
    OBVIOUS
  <2>2. m + 1 \in 1 .. n /\ (m + 1) - 1 = m /\ m \in 0 .. n
    BY <2>1
  <2>3. iter[1 .. m] = f[m] /\ f[m] \in S
    BY <1>2, <2>2 DEF StepByStep
  <2>4. f[m + 1] = step[m + 1][f[(m + 1) - 1]]
    BY <2>2 DEF StepByStep
  <2>5. iter[1 .. ((m + 1) - 1)] \in S =>
            iter[1 .. (m + 1)] = step[m + 1][iter[1 .. ((m + 1) - 1)]]
    BY <2>2 DEF Iterates
  <2>6. QED
    BY <2>2, <2>3, <2>4, <2>5
<1> HIDE DEF T
<1>3. n \in T
  BY <1>1, <1>2, Induction
<1>4. QED
  BY <1>3 DEF T

-----------------------------------------------------------------------------
(* Concatenations. *)

\* A concatenation has its parts' elements in their places.
LEMMA ConcatType ==
    ASSUME NEW S, NEW s \in Seq(S), NEW t \in Seq(S)
    PROVE  /\ s \o t \in Seq(S) /\ Len(s \o t) = Len(s) + Len(t)
           /\ \A i \in 1 .. Len(s) : (s \o t)[i] = s[i]
           /\ \A i \in 1 .. Len(t) : (s \o t)[Len(s) + i] = t[i]
OBVIOUS

\* How concatenations are grouped makes no difference.
LEMMA ConcatAssoc ==
    ASSUME NEW S, NEW s \in Seq(S), NEW t \in Seq(S), NEW u \in Seq(S)
    PROVE  (s \o t) \o u = s \o (t \o u)
OBVIOUS

\* Nothing is added by the empty sequence.
LEMMA ConcatEmpty ==
    ASSUME NEW S, NEW s \in Seq(S)
    PROVE  s \o << >> = s /\ << >> \o s = s
OBVIOUS

\* Concatenation, of which the provers see only what the next lemmas say.
Join(x, y) == x \o y

\* It has the type of its parts.
LEMMA JoinType ==
    ASSUME NEW S
    PROVE  \A x, y \in Seq(S) : Join(x, y) \in Seq(S)
BY ConcatType DEF Join

\* How they are grouped makes no difference.
LEMMA JoinAssoc ==
    ASSUME NEW S
    PROVE  \A x, y, z \in Seq(S) : Join(Join(x, y), z) = Join(x, Join(y, z))
BY ConcatAssoc DEF Join

\* Nothing is added by the empty sequence.
LEMMA JoinEmpty ==
    ASSUME NEW S
    PROVE  \A x \in Seq(S) : Join(x, << >>) = x /\ Join(<< >>, x) = x
BY ConcatEmpty DEF Join

\* FlattenSeq concatenates one sequence after the other.
LEMMA FlattenSteps ==
    ASSUME NEW S, NEW ss \in Seq(Seq(S))
    PROVE  \E g \in [0 .. Len(ss) -> Seq(S)] :
              /\ g[0] = << >>
              /\ \A i \in 1 .. Len(ss) : g[i] = g[i - 1] \o ss[i]
              /\ FlattenSeq(ss) = g[Len(ss)]
<1> DEFINE n == Len(ss)
           step == [i \in 1 .. n |-> [x \in Seq(S) |-> x \o ss[i]]]
<1>1. n \in Nat /\ << >> \in Seq(S) /\ \A i \in 1 .. n : ss[i] \in Seq(S)
  OBVIOUS
<1>2. \A i \in 1 .. n, x \in Seq(S) : step[i][x] = x \o ss[i] /\ step[i][x] \in Seq(S)
  BY <1>1
<1> HIDE DEF n, step
<1>3. PICK g \in [0 .. n -> Seq(S)] :
          g[0] = << >> /\ \A i \in 1 .. n : g[i] = step[i][g[i - 1]]
  <2>1. \A i \in 1 .. n, x \in Seq(S) : step[i][x] \in Seq(S)
    BY <1>2
  <2>2. QED
    <3>1. step \in [1 .. n -> [Seq(S) -> Seq(S)]]
      BY <1>1, <2>1 DEF step
    <3>2. \E g : StepByStep(g, Seq(S), n, << >>, step)
      BY <1>1, <3>1, Recursion
    <3>3. QED
      BY <3>2 DEF StepByStep
<1>4. \A i \in 1 .. n : g[i] = g[i - 1] \o ss[i]
  <2>1. \A i \in 1 .. n : i - 1 \in 0 .. n
    BY <1>1
  <2>2. QED
    BY <1>2, <1>3, <2>1
<1>5. CASE n = 0
  <2>1. FlattenSeq(ss) = ss /\ ss = << >>
    BY <1>5 DEF FlattenSeq, n
  <2>2. QED
    BY <1>3, <1>4, <1>5, <2>1 DEF n
<1>6. CASE n # 0
  <2> DEFINE Rec(f) == f = [i \in 1 .. n |-> IF i = 1 THEN ss[i] ELSE f[i - 1] \o ss[i]]
             flatten == CHOOSE f : Rec(f)
             h == [i \in 1 .. n |-> g[i]]
  <2>1. FlattenSeq(ss) = flatten[n]
    BY <1>6 DEF FlattenSeq, n
  <2>2. Rec(h)
    <3>1. ASSUME NEW i \in 1 .. n
          PROVE  g[i] = IF i = 1 THEN ss[i] ELSE h[i - 1] \o ss[i]
      <4>1. CASE i = 1
        <5>1. g[1] = << >> \o ss[1] /\ ss[1] \in Seq(S)
          <6>1. 1 \in 1 .. n /\ 1 - 1 = 0
            BY <1>1, <4>1
          <6>2. g[1] = g[1 - 1] \o ss[1]
            BY <1>4, <6>1
          <6>3. QED
            BY <1>1, <1>3, <6>1, <6>2
        <5>2. QED
          BY <4>1, <5>1
      <4>2. CASE i # 1
        <5>1. i - 1 \in 1 .. n
          BY <1>1, <4>2
        <5>2. QED
          BY <1>4, <4>2, <5>1
      <4>3. QED
        BY <4>1, <4>2
    <3>2. QED
      BY <3>1
  <2>3. Rec(flatten)
    BY <2>2
  <2> HIDE DEF flatten
  <2> DEFINE T == {m \in Nat : m + 1 =< n => flatten[m + 1] = g[m + 1]}
  <2>4. \A i \in 1 .. n : flatten[i] = IF i = 1 THEN ss[i] ELSE flatten[i - 1] \o ss[i]
    BY <2>3
  <2>5. 0 \in T
    <3>1. 1 \in 1 .. n
      BY <1>1, <1>6
    <3>2. flatten[1] = ss[1] /\ g[1] = h[1] /\ h[1] = ss[1]
      BY <2>2, <2>4, <3>1
    <3>3. QED
      BY <3>2
  <2>6. ASSUME NEW m \in Nat, m \in T
        PROVE  m + 1 \in T
    <3>1. SUFFICES ASSUME (m + 1) + 1 =< n
                   PROVE  flatten[(m + 1) + 1] = g[(m + 1) + 1]
      OBVIOUS
    <3>2. (m + 1) + 1 \in 1 .. n /\ m + 1 \in 1 .. n /\ ((m + 1) + 1) - 1 = m + 1
          /\ (m + 1) + 1 # 1
      BY <1>1, <3>1
    <3>3. flatten[m + 1] = g[m + 1]
      BY <2>6, <3>2
    <3>4. QED
      <4>1. /\ flatten[(m + 1) + 1] = flatten[((m + 1) + 1) - 1] \o ss[(m + 1) + 1]
            /\ g[(m + 1) + 1] = g[((m + 1) + 1) - 1] \o ss[(m + 1) + 1]
        BY <1>4, <2>4, <3>2
      <4>2. QED
        BY <3>2, <3>3, <4>1
  <2> HIDE DEF T
  <2>7. \A m \in Nat : m \in T
    BY <2>5, <2>6, Induction
  <2>8. n - 1 \in Nat /\ (n - 1) + 1 = n
    BY <1>1, <1>6
  <2>9. flatten[n] = g[n]
    <3>1. n - 1 \in T
      BY <2>7, <2>8
    <3>2. QED
      BY <1>1, <2>8, <3>1 DEF T
  <2>10. QED
    BY <1>3, <1>4, <2>1, <2>9 DEF n
<1>7. QED
  BY <1>5, <1>6

\* Nothing flattened is nothing.
LEMMA FlattenEmpty == FlattenSeq(<< >>) = << >>
BY DEF FlattenSeq

\* FlattenSeq has the type of what it concatenates.
LEMMA FlattenType ==
    ASSUME NEW S, NEW ss \in Seq(Seq(S))
    PROVE  FlattenSeq(ss) \in Seq(S)
<1>1. PICK g \in [0 .. Len(ss) -> Seq(S)] : FlattenSeq(ss) = g[Len(ss)]
  BY FlattenSteps
<1>2. QED
  BY <1>1

\* It turns one concatenation into another.
LEMMA FlattenConcat ==
    ASSUME NEW S, NEW ss \in Seq(Seq(S)), NEW tt \in Seq(Seq(S))
    PROVE  FlattenSeq(ss \o tt) = FlattenSeq(ss) \o FlattenSeq(tt)
<1> DEFINE m == Len(ss)
           n == Len(tt)
           ST == ss \o tt
<1>1. /\ m \in Nat /\ n \in Nat /\ ST \in Seq(Seq(S)) /\ Len(ST) = m + n
      /\ \A i \in 1 .. m : ST[i] = ss[i] /\ ss[i] \in Seq(S)
      /\ \A i \in 1 .. n : ST[m + i] = tt[i] /\ tt[i] \in Seq(S)
  <2>1. ss \in Seq(Seq(S)) /\ tt \in Seq(Seq(S))
    OBVIOUS
  <2>2. /\ ST \in Seq(Seq(S)) /\ Len(ST) = m + n
        /\ \A i \in 1 .. m : ST[i] = ss[i]
        /\ \A i \in 1 .. n : ST[m + i] = tt[i]
    BY ConcatType
  <2>3. QED
    BY <2>2
<1>a. \A x, y, z \in Seq(S) : (x \o y) \o z = x \o (y \o z)
  BY ConcatAssoc
<1>2. PICK f \in [0 .. m -> Seq(S)] :
          /\ f[0] = << >> /\ \A i \in 1 .. m : f[i] = f[i - 1] \o ss[i]
          /\ FlattenSeq(ss) = f[m]
  BY FlattenSteps
<1>3. PICK g \in [0 .. n -> Seq(S)] :
          /\ g[0] = << >> /\ \A i \in 1 .. n : g[i] = g[i - 1] \o tt[i]
          /\ FlattenSeq(tt) = g[n]
  BY FlattenSteps
<1> HIDE DEF m, n, ST
<1>4. PICK h \in [0 .. m + n -> Seq(S)] :
          /\ h[0] = << >> /\ \A i \in 1 .. m + n : h[i] = h[i - 1] \o ST[i]
          /\ FlattenSeq(ST) = h[m + n]
  <2>1. PICK h \in [0 .. Len(ST) -> Seq(S)] :
            /\ h[0] = << >> /\ \A i \in 1 .. Len(ST) : h[i] = h[i - 1] \o ST[i]
            /\ FlattenSeq(ST) = h[Len(ST)]
    BY <1>1, FlattenSteps
  <2>2. QED
    BY <1>1, <2>1
<1> DEFINE T == {k \in Nat : k =< m => h[k] = f[k]}
           U == {k \in Nat : k =< n => h[m + k] = f[m] \o g[k]}
<1>5. 0 \in T
  BY <1>2, <1>4
<1>6. ASSUME NEW k \in Nat, k \in T
      PROVE  k + 1 \in T
  <2>1. SUFFICES ASSUME k + 1 =< m PROVE h[k + 1] = f[k + 1]
    OBVIOUS
  <2>2. k + 1 \in 1 .. m /\ k + 1 \in 1 .. m + n /\ (k + 1) - 1 = k /\ h[k] = f[k]
    BY <1>1, <1>6, <2>1
  <2>3. /\ h[k + 1] = h[(k + 1) - 1] \o ST[k + 1] /\ f[k + 1] = f[(k + 1) - 1] \o ss[k + 1]
        /\ ST[k + 1] = ss[k + 1]
    BY <1>1, <1>2, <1>4, <2>2
  <2>4. QED
    BY <2>2, <2>3
<1> HIDE DEF T
<1>7. m \in T
  BY <1>1, <1>5, <1>6, Induction
<1>8. h[m] = f[m] /\ f[m] \in Seq(S)
  BY <1>1, <1>7, <1>2 DEF T
<1>9. 0 \in U
  <2>1. m + 0 = m
    BY <1>1
  <2>2. f[m] \o << >> = f[m]
    BY <1>8, ConcatEmpty
  <2>3. QED
    BY <1>3, <1>8, <2>1, <2>2
<1> HIDE DEF U
<1>10. ASSUME NEW k \in Nat, k \in U
       PROVE  k + 1 \in U
  <2>1. ASSUME k + 1 =< n
        PROVE  h[m + (k + 1)] = f[m] \o g[k + 1]
    <3>1. /\ k + 1 \in 1 .. n /\ m + (k + 1) \in 1 .. m + n /\ (k + 1) - 1 = k
          /\ (m + (k + 1)) - 1 = m + k /\ k \in 0 .. n
      BY <1>1, <2>1
    <3>2. h[m + k] = f[m] \o g[k]
      <4>1. k =< n
        BY <3>1
      <4>2. QED
        BY <1>10, <4>1 DEF U
    <3>3. /\ h[m + (k + 1)] = h[m + k] \o ST[m + (k + 1)]
          /\ g[k + 1] = g[k] \o tt[k + 1]
          /\ ST[m + (k + 1)] = tt[k + 1]
      BY <1>1, <1>3, <1>4, <3>1
    <3>4. f[m] \in Seq(S) /\ g[k] \in Seq(S) /\ tt[k + 1] \in Seq(S)
      BY <1>1, <1>8, <1>3, <3>1
    <3>5. (f[m] \o g[k]) \o tt[k + 1] = f[m] \o (g[k] \o tt[k + 1])
      BY <3>4, <1>a
    <3>6. QED
      BY <3>2, <3>3, <3>5
  <2>2. k + 1 \in Nat
    OBVIOUS
  <2>3. QED
    BY <2>1, <2>2, Zenon DEF U
<1>11. n \in U
  BY <1>1, <1>9, <1>10, Induction
<1>12. h[m + n] = f[m] \o g[n]
  BY <1>1, <1>11 DEF U
<1>13. QED
  BY <1>2, <1>3, <1>4, <1>12 DEF ST

\* And an element added at the end into one sequence more.
LEMMA FlattenAppend ==
    ASSUME NEW S, NEW ss \in Seq(Seq(S)), NEW s \in Seq(S)
    PROVE  FlattenSeq(Append(ss, s)) = FlattenSeq(ss) \o s
<1>1. <<s>> \in Seq(Seq(S)) /\ Append(ss, s) = ss \o <<s>>
  OBVIOUS
<1>2. FlattenSeq(<<s>>) = s
  <2>1. PICK g \in [0 .. Len(<<s>>) -> Seq(S)] :
            /\ g[0] = << >>
            /\ \A i \in 1 .. Len(<<s>>) : g[i] = g[i - 1] \o <<s>>[i]
            /\ FlattenSeq(<<s>>) = g[Len(<<s>>)]
    BY <1>1, FlattenSteps
  <2>2. Len(<<s>>) = 1 /\ <<s>>[1] = s /\ 1 - 1 = 0 /\ 1 \in 1 .. 1
    OBVIOUS
  <2>3. g[1] = g[1 - 1] \o <<s>>[1]
    BY <2>1, <2>2
  <2>4. << >> \o s = s
    BY ConcatEmpty
  <2>5. QED
    BY <2>1, <2>2, <2>3, <2>4
<1>3. QED
  BY <1>1, <1>2, FlattenConcat

-----------------------------------------------------------------------------
(* The filters gather what they are given. *)

\* What low_pass and low_pass_real do for a sample: a sum is ready when the index, which
\* goes inc further, reaches limit.
GatherStep(s, x, inc, limit) ==
    IF s.index + inc < limit
    THEN [out |-> s.out, now |-> s.now \o x, index |-> s.index + inc]
    ELSE [out |-> Append(s.out, s.now \o x), now |-> << >>, index |-> s.index + inc - limit]

\* What has been gathered: the sums, the one begun, and its index.
GatherState(S, limit) == [out : Seq(Seq(S)), now : Seq(S), index : 0 .. limit - 1]

\* The state of the sums keeps its type.
LEMMA GatherStepType ==
    ASSUME NEW S, NEW limit \in Nat \ {0}, NEW inc \in 1 .. limit,
           NEW s \in GatherState(S, limit), NEW x \in Seq(S)
    PROVE  GatherStep(s, x, inc, limit) \in GatherState(S, limit)
<1>1. s.out \in Seq(Seq(S)) /\ s.now \in Seq(S) /\ s.index \in 0 .. limit - 1
  BY DEF GatherState
<1>2. s.now \o x \in Seq(S) /\ << >> \in Seq(S)
  BY <1>1
<1>3. Append(s.out, s.now \o x) \in Seq(Seq(S))
  BY <1>1, <1>2
<1>4. CASE s.index + inc < limit
  <2>1. s.index + inc \in 0 .. limit - 1
    BY <1>1, <1>4
  <2>2. QED
    BY <1>1, <1>2, <1>4, <2>1 DEF GatherStep, GatherState
<1>5. CASE ~ (s.index + inc < limit)
  <2>1. s.index + inc - limit \in 0 .. limit - 1
    BY <1>1, <1>5
  <2>2. QED
    BY <1>2, <1>3, <1>5, <2>1 DEF GatherStep, GatherState
<1>6. QED
  BY <1>4, <1>5

\* f takes the steps of all samples, beginning with what is carried.
GatherSteps(f, S, now0, index0, xs, inc, limit) ==
    /\ f[0] = [out |-> << >>, now |-> now0, index |-> index0]
    /\ \A i \in 1 .. Len(xs) :
          f[i] = GatherStep(f[i - 1], xs[i], inc, limit)

\* Nothing is added, dropped or exchanged; how much is ready, and that a sum of something
\* is something.
Gathered(r, S, now0, index0, xs, inc, limit) ==
    /\ r \in GatherState(S, limit)
    /\ FlattenSeq(r.out) \o r.now = now0 \o FlattenSeq(xs)
    /\ r.index + limit * Len(r.out) = index0 + inc * Len(xs)
    /\ (\A i \in 1 .. Len(xs) : xs[i] # << >>) => \A i \in 1 .. Len(r.out) : r.out[i] # << >>

\* r is s with x gathered.
Grown(r, s, x, S, inc, limit) ==
    /\ r \in GatherState(S, limit)
    /\ FlattenSeq(r.out) \o r.now = (FlattenSeq(s.out) \o s.now) \o x
    /\ r.index + limit * Len(r.out) = (s.index + limit * Len(s.out)) + inc
    /\ (x # << >> /\ \A i \in 1 .. Len(s.out) : s.out[i] # << >>) =>
           \A i \in 1 .. Len(r.out) : r.out[i] # << >>

\* A step adds its sample at the end and drops nothing.
LEMMA StepGathers ==
    ASSUME NEW S, NEW limit \in Nat \ {0}, NEW inc \in 1 .. limit,
           NEW s \in GatherState(S, limit), NEW x \in Seq(S), NEW r,
           r = GatherStep(s, x, inc, limit)
    PROVE  Grown(r, s, x, S, inc, limit)
<1> USE DEF Grown
<1>1. s.out \in Seq(Seq(S)) /\ s.now \in Seq(S) /\ s.index \in 0 .. limit - 1
  BY DEF GatherState
<1>2. s.now \o x \in Seq(S) /\ FlattenSeq(s.out) \in Seq(S)
  BY <1>1, FlattenType
<1>a. \A a, b, c \in Seq(S) : (a \o b) \o c = a \o (b \o c)
  BY ConcatAssoc
<1>b. r \in GatherState(S, limit)
  BY GatherStepType
<1>3. CASE s.index + inc < limit
  <2>1. r.out = s.out /\ r.now = s.now \o x /\ r.index = s.index + inc
    BY <1>3 DEF GatherStep
  <2>2. FlattenSeq(s.out) \o (s.now \o x) = (FlattenSeq(s.out) \o s.now) \o x
    BY <1>1, <1>2, <1>a
  <2>3. (s.index + inc) + limit * Len(s.out) = (s.index + limit * Len(s.out)) + inc
    <3>1. limit * Len(s.out) \in Int
      BY <1>1
    <3>2. QED
      BY <1>1, <3>1
  <2>4. QED
    BY <1>b, <2>1, <2>2, <2>3
<1>4. CASE ~ (s.index + inc < limit)
  <2>1. r.out = Append(s.out, s.now \o x) /\ r.now = << >> /\ r.index = s.index + inc - limit
    BY <1>4 DEF GatherStep
  <2>2. FlattenSeq(r.out) \o << >> = (FlattenSeq(s.out) \o s.now) \o x
    <3>1. FlattenSeq(r.out) = FlattenSeq(s.out) \o (s.now \o x)
      BY <1>1, <1>2, <2>1, FlattenAppend
    <3>2. FlattenSeq(s.out) \o (s.now \o x) \in Seq(S)
      BY <1>2
    <3>3. QED
      BY <1>1, <1>2, <1>a, <3>1, <3>2, ConcatEmpty
  <2>3. (s.index + inc - limit) + limit * Len(r.out) = (s.index + limit * Len(s.out)) + inc
    <3>1. Len(r.out) = Len(s.out) + 1 /\ Len(s.out) \in Nat
      BY <1>1, <1>2, <2>1
    <3>2. limit * (Len(s.out) + 1) = limit * Len(s.out) + limit /\ limit * Len(s.out) \in Int
      BY <3>1
    <3>3. QED
      BY <1>1, <3>1, <3>2
  <2>4. ASSUME x # << >>, \A i \in 1 .. Len(s.out) : s.out[i] # << >>, NEW i \in 1 .. Len(r.out)
        PROVE  r.out[i] # << >>
    <3>1. s.now \o x # << >>
      BY <1>1, <2>4
    <3>2. QED
      BY <1>1, <1>2, <2>1, <2>4, <3>1
  <2>5. QED
    BY <1>b, <2>1, <2>2, <2>3, <2>4
<1>5. QED
  BY <1>3, <1>4

\* And so do all the steps, by induction over them.
LEMMA StepsGather ==
    ASSUME NEW S, NEW limit \in Nat \ {0}, NEW inc \in 1 .. limit,
           NEW xs \in Seq(Seq(S)), NEW now0 \in Seq(S), NEW index0 \in 0 .. limit - 1,
           NEW f, GatherSteps(f, S, now0, index0, xs, inc, limit)
    PROVE  Gathered(f[Len(xs)], S, now0, index0, xs, inc, limit)
<1> DEFINE n == Len(xs)
<1>1. n \in Nat /\ \A i \in 1 .. n : xs[i] \in Seq(S)
  OBVIOUS
<1>2. PICK g \in [0 .. n -> Seq(S)] :
          /\ g[0] = << >> /\ \A i \in 1 .. n : g[i] = g[i - 1] \o xs[i]
          /\ FlattenSeq(xs) = g[n]
  BY FlattenSteps
<1>a. \A a, b, c \in Seq(S) : Join(Join(a, b), c) = Join(a, Join(b, c))
  BY JoinAssoc
<1> HIDE DEF n
<1> DEFINE Holds(k) ==
              /\ f[k] \in GatherState(S, limit)
              /\ FlattenSeq(f[k].out) \o f[k].now = now0 \o g[k]
              /\ f[k].index + limit * Len(f[k].out) = index0 + inc * k
              /\ (\A i \in 1 .. n : xs[i] # << >>) =>
                      \A i \in 1 .. Len(f[k].out) : f[k].out[i] # << >>
           T == {k \in Nat : k =< n => Holds(k)}
<1>3. Holds(0)
  <2>1. f[0] = [out |-> << >>, now |-> now0, index |-> index0]
    BY DEF GatherSteps
  <2>2. f[0] \in GatherState(S, limit)
    BY <2>1 DEF GatherState
  <2>3. FlattenSeq(f[0].out) \o f[0].now = now0 \o g[0]
    BY <1>2, <2>1, FlattenEmpty, ConcatEmpty
  <2>4. f[0].index + limit * Len(f[0].out) = index0 + inc * 0
    BY <2>1
  <2>5. \A i \in 1 .. Len(f[0].out) : f[0].out[i] # << >>
    BY <2>1
  <2>6. QED
    BY <2>2, <2>3, <2>4, <2>5
<1> HIDE DEF Holds
<1>4. ASSUME NEW k \in Nat, Holds(k), k + 1 =< n
      PROVE  Holds(k + 1)
  <2>1. k + 1 \in 1 .. n /\ (k + 1) - 1 = k /\ k \in 0 .. n
    BY <1>1, <1>4
  <2>2. xs[k + 1] \in Seq(S) /\ g[k] \in Seq(S) /\ g[k + 1] = g[k] \o xs[k + 1]
    BY <1>1, <1>2, <2>1
  <2>3. f[k + 1] = GatherStep(f[k], xs[k + 1], inc, limit)
    BY <2>1 DEF GatherSteps, n
  <2>4. f[k] \in GatherState(S, limit)
    BY <1>4 DEF Holds
  <2>5. Grown(f[k + 1], f[k], xs[k + 1], S, inc, limit)
    BY <2>2, <2>3, <2>4, StepGathers
  <2>6. (now0 \o g[k]) \o xs[k + 1] = now0 \o g[k + 1]
    <3>1. now0 \in Seq(S)
      OBVIOUS
    <3>2. g[k] \in Seq(S) /\ xs[k + 1] \in Seq(S)
      BY <2>2
    <3>3. Join(Join(now0, g[k]), xs[k + 1]) = Join(now0, Join(g[k], xs[k + 1]))
      BY <1>a, <3>1, <3>2
    <3>4. QED
      BY <2>2, <3>3 DEF Join
  <2>7. (index0 + inc * k) + inc = index0 + inc * (k + 1)
    <3>1. inc * (k + 1) = inc * k + inc /\ inc * k \in Int
      OBVIOUS
    <3>2. QED
      BY <3>1
  <2>8. FlattenSeq(f[k + 1].out) \o f[k + 1].now = now0 \o g[k + 1]
    BY <1>4, <2>5, <2>6 DEF Holds, Grown
  <2>9. f[k + 1].index + limit * Len(f[k + 1].out) = index0 + inc * (k + 1)
    BY <1>4, <2>5, <2>7 DEF Holds, Grown
  <2>10. (\A i \in 1 .. n : xs[i] # << >>) =>
              \A i \in 1 .. Len(f[k + 1].out) : f[k + 1].out[i] # << >>
    BY <1>4, <2>1, <2>5 DEF Holds, Grown
  <2>11. QED
    BY <2>5, <2>8, <2>9, <2>10 DEF Holds, Grown
<1>5. 0 \in T
  BY <1>3
<1>6. ASSUME NEW k \in Nat, k \in T
      PROVE  k + 1 \in T
  <2>1. k + 1 =< n => Holds(k + 1)
    <3>1. SUFFICES ASSUME k + 1 =< n PROVE Holds(k + 1)
      OBVIOUS
    <3>2. k =< n
      BY <1>1, <3>1
    <3>3. Holds(k)
      BY <1>6, <3>2
    <3>4. QED
      BY <1>4, <3>1, <3>3
  <2>2. k + 1 \in Nat
    OBVIOUS
  <2>3. QED
    BY <2>1, <2>2
<1> HIDE DEF T
<1>7. n \in T
  BY <1>1, <1>5, <1>6, Induction
<1>8. Holds(n)
  BY <1>1, <1>7 DEF T
<1>9. QED
  BY <1>2, <1>8 DEF Holds, Gathered, n

\* An element appended is a sequence of one concatenated.
LEMMA AppendIsConcat ==
    ASSUME NEW S, NEW s \in Seq(S), NEW x \in S
    PROVE  Append(s, x) = s \o <<x>> /\ <<x>> \in Seq(S)
OBVIOUS

\* The sequences of one sample each.
Singles(s) == [i \in 1 .. Len(s) |-> <<s[i]>>]

\* Put together again they are the sequence.
LEMMA FlattenSingles ==
    ASSUME NEW S, NEW s \in Seq(S)
    PROVE  Singles(s) \in Seq(Seq(S)) /\ Len(Singles(s)) = Len(s) /\ FlattenSeq(Singles(s)) = s
<1> DEFINE n == Len(s)
           ss == Singles(s)
<1>1. n \in Nat /\ \A i \in 1 .. n : s[i] \in S
  OBVIOUS
<1>2. \A i \in 1 .. n : <<s[i]>> \in Seq(S)
  BY <1>1
<1>3. ss \in Seq(Seq(S)) /\ Len(ss) = n /\ \A i \in 1 .. n : ss[i] = <<s[i]>>
  BY <1>2 DEF Singles
<1> HIDE DEF ss
<1>4. PICK g \in [0 .. n -> Seq(S)] :
          /\ g[0] = << >> /\ \A i \in 1 .. n : g[i] = g[i - 1] \o ss[i]
          /\ FlattenSeq(ss) = g[n]
  <2>1. PICK g \in [0 .. Len(ss) -> Seq(S)] :
            /\ g[0] = << >> /\ \A i \in 1 .. Len(ss) : g[i] = g[i - 1] \o ss[i]
            /\ FlattenSeq(ss) = g[Len(ss)]
    BY <1>3, FlattenSteps
  <2>2. QED
    BY <1>3, <2>1
<1> HIDE DEF n
<1> DEFINE T == {k \in Nat : k =< n => Len(g[k]) = k /\ \A i \in 1 .. k : g[k][i] = s[i]}
<1>5. 0 \in T
  BY <1>4
<1>6. ASSUME NEW k \in Nat, k \in T
      PROVE  k + 1 \in T
  <2>1. SUFFICES ASSUME k + 1 =< n
                 PROVE  Len(g[k + 1]) = k + 1 /\ \A i \in 1 .. k + 1 : g[k + 1][i] = s[i]
    OBVIOUS
  <2>2. k + 1 \in 1 .. n /\ (k + 1) - 1 = k /\ k \in 0 .. n /\ k =< n
    BY <1>1, <2>1
  <2>3. g[k] \in Seq(S) /\ Len(g[k]) = k /\ \A i \in 1 .. k : g[k][i] = s[i]
    BY <1>4, <1>6, <2>2
  <2>4. g[k + 1] = g[k] \o <<s[k + 1]>>
    BY <1>3, <1>4, <2>2
  <2> HIDE DEF T
  <2>5. Len(g[k + 1]) = k + 1
    BY <2>3, <2>4
  <2>6. ASSUME NEW i \in 1 .. k + 1 PROVE g[k + 1][i] = s[i]
    BY <2>3, <2>4
  <2>7. QED
    BY <2>5, <2>6
<1> HIDE DEF T
<1>7. n \in T
  BY <1>1, <1>5, <1>6, Induction
<1>8. Len(g[n]) = n /\ \A i \in 1 .. n : g[n][i] = s[i]
  BY <1>1, <1>7 DEF T
<1>9. g[n] = s
  <2>1. g[n] \in Seq(S) /\ s \in Seq(S) /\ Len(s) = n
    BY <1>1, <1>4 DEF n
  <2>2. QED
    BY <1>8, <2>1
<1>10. QED
  BY <1>3, <1>4, <1>9 DEF ss, n

\* iter is a fold: what MapThenFoldSet defines.
FoldOver(iter, S, n, a, step) ==
    /\ iter[{}] = a
    /\ \A s \in SUBSET (1 .. n) : s # {} /\ iter[s \ {Max(s)}] \in S =>
          iter[s] = step[Max(s)][iter[s \ {Max(s)}]]

\* It ends where the steps end.
LEMMA FoldOverSteps ==
    ASSUME NEW S, NEW n \in Nat, NEW a, NEW step, NEW f, StepByStep(f, S, n, a, step),
           NEW iter, FoldOver(iter, S, n, a, step)
    PROVE  iter[1 .. n] = f[n]
<1>1. iter[{}] = a
  BY DEF FoldOver
<1>2. ASSUME NEW k \in 1 .. n, iter[1 .. (k - 1)] \in S
      PROVE  iter[1 .. k] = step[k][iter[1 .. (k - 1)]]
  <2>1. 1 .. k \in SUBSET (1 .. n) /\ 1 .. k # {} /\ (1 .. k) \ {k} = 1 .. (k - 1)
    OBVIOUS
  <2>2. Max(1 .. k) = k
    BY MaxIs
  <2>3. QED
    BY <1>2, <2>1, <2>2 DEF FoldOver
<1>3. Iterates(iter, S, n, a, step)
  BY <1>1, <1>2 DEF Iterates
<1>4. QED
  BY <1>3, FoldIsSteps

\* low_pass gathers Downsample samples to each of its sums.
LEMMA LowPassGathers ==
    ASSUME NEW D, NEW samples \in Seq(Seq(D)), now \in Seq(D), prev_index \in 0 .. Downsample - 1
    PROVE  Gathered(LowPass(samples), D, now, prev_index, samples, 1, Downsample)
<1> DEFINE n == Len(samples)
           S == GatherState(D, Downsample)
           a == [out |-> << >>, now |-> now, index |-> prev_index]
           step == [i \in 1 .. n |-> [s \in S |-> LowPassStep(s, samples[i])]]
<1>1. /\ n \in Nat /\ a \in S /\ Downsample \in Nat \ {0} /\ 1 \in 1 .. Downsample
      /\ samples \in Seq(Seq(D)) /\ \A i \in 1 .. n : samples[i] \in Seq(D)
      /\ now \in Seq(D)
  BY DemodAssumption DEF GatherState
<1>2. ASSUME NEW s \in S, NEW x \in Seq(D)
      PROVE  LowPassStep(s, x) = GatherStep(s, x, 1, Downsample) /\ LowPassStep(s, x) \in S
  <2>1. s.index \in Nat /\ s.index =< Downsample - 1 /\ Downsample \in Nat
    BY <1>1 DEF GatherState
  <2>5. GatherStep(s, x, 1, Downsample) \in S
    BY <1>1, GatherStepType
  <2>2. CASE s.index + 1 < Downsample
    <3>1. LowPassStep(s, x) = [s EXCEPT !.now = s.now \o x, !.index = s.index + 1]
      BY <2>2 DEF LowPassStep
    <3>2. QED
      BY <2>2, <2>5, <3>1 DEF GatherStep, GatherState
  <2>3. CASE ~ (s.index + 1 < Downsample)
    <3>1. s.index + 1 - Downsample = 0
      <4>1. \A i, d \in Nat : i =< d - 1 /\ ~ (i + 1 < d) => i + 1 - d = 0
        OBVIOUS
      <4>2. QED
        BY <2>1, <2>3, <4>1
    <3>2. LowPassStep(s, x) = [out |-> Append(s.out, s.now \o x), now |-> << >>, index |-> 0]
      BY <2>3 DEF LowPassStep
    <3>3. GatherStep(s, x, 1, Downsample)
              = [out |-> Append(s.out, s.now \o x), now |-> << >>,
                 index |-> s.index + 1 - Downsample]
      BY <2>3 DEF GatherStep
    <3>4. QED
      BY <2>5, <3>1, <3>2, <3>3
  <2>6. QED
    BY <2>2, <2>3
<1>3. step \in [1 .. n -> [S -> S]]
  BY <1>1, <1>2
<1>4. \A i \in 1 .. n, s \in S : step[i][s] = LowPassStep(s, samples[i])
  OBVIOUS
<1>5. DOMAIN samples = 1 .. n
  OBVIOUS
<1> HIDE DEF n, S, a, step
<1>6. PICK f : StepByStep(f, S, n, a, step)
  BY <1>1, <1>3, Recursion
<1>7. PICK h : Folds(h, S, n, a, step)
  BY <1>1, <1>3, FoldExists
<1> DEFINE Rec(g) == g = [s \in SUBSET (1 .. n) |->
                             IF s = {} THEN a
                             ELSE LowPassStep(g[s \ {Max(s)}], samples[Max(s)])]
           iter == CHOOSE g : Rec(g)
<1>8. LowPass(samples) = iter[1 .. n]
  BY <1>5 DEF LowPass, FoldLeft, MapThenFoldSet, a
<1>m. ASSUME NEW s \in SUBSET (1 .. n), s # {}
      PROVE  Max(s) \in 1 .. n
  BY <1>1, <1>m, MaxAmong
<1>9. Rec(h)
  <2>1. h \in [SUBSET (1 .. n) -> S] /\ h[{}] = a
    BY <1>7 DEF Folds
  <2>2. ASSUME NEW s \in SUBSET (1 .. n), s # {}
        PROVE  h[s] = LowPassStep(h[s \ {Max(s)}], samples[Max(s)])
    <3>1. h[s] = step[Max(s)][h[s \ {Max(s)}]] /\ h[s \ {Max(s)}] \in S
      BY <1>7, <2>2 DEF Folds
    <3>2. QED
      BY <1>4, <1>m, <2>2, <3>1
  <2>3. QED
    BY <2>1, <2>2
<1>10. Rec(iter)
  BY <1>9
<1> HIDE DEF iter
<1>11. FoldOver(iter, S, n, a, step)
  <2>1. ASSUME NEW s \in SUBSET (1 .. n), s # {}, iter[s \ {Max(s)}] \in S
        PROVE  iter[s] = step[Max(s)][iter[s \ {Max(s)}]]
    BY <1>4, <1>10, <1>m, <2>1
  <2>2. iter[{}] = a
    BY <1>10
  <2>3. QED
    BY <2>1, <2>2 DEF FoldOver
<1>12. LowPass(samples) = f[n]
  BY <1>1, <1>6, <1>8, <1>11, FoldOverSteps
<1>13. GatherSteps(f, D, now, prev_index, samples, 1, Downsample)
  <2>1. ASSUME NEW i \in 1 .. n
        PROVE  f[i] = GatherStep(f[i - 1], samples[i], 1, Downsample)
    <3>1. i - 1 \in 0 .. n
      BY <1>1
    <3>2. f[i - 1] \in S /\ f[i] = step[i][f[i - 1]]
      BY <1>6, <3>1 DEF StepByStep
    <3>3. QED
      BY <1>1, <1>2, <1>4, <3>2
  <2>2. f[0] = a
    BY <1>6 DEF StepByStep
  <2>3. QED
    BY <2>1, <2>2 DEF GatherSteps, a, n
<1>14. QED
  BY <1>1, <1>12, <1>13, StepsGather DEF n

\* low_pass_real gathers about RateOut / RateOut2 angles to each of its.
LEMMA LowPassRealGathers ==
    ASSUME NEW D, NEW angles \in Seq(D), now_lpr \in Seq(D), prev_lpr_index \in 0 .. RateOut - 1
    PROVE  Gathered(LowPassReal(angles), D, now_lpr, prev_lpr_index, Singles(angles),
                    RateOut2, RateOut)
<1> DEFINE n == Len(angles)
           S == GatherState(D, RateOut)
           a == [out |-> << >>, now |-> now_lpr, index |-> prev_lpr_index]
           step == [i \in 1 .. n |-> [s \in S |-> LowPassRealStep(s, angles[i])]]
<1>1. /\ n \in Nat /\ a \in S /\ RateOut \in Nat \ {0} /\ RateOut2 \in 1 .. RateOut
      /\ \A i \in 1 .. n : angles[i] \in D
  BY DemodAssumption DEF GatherState
<1>2. ASSUME NEW s \in S, NEW x \in D
      PROVE  /\ LowPassRealStep(s, x) = GatherStep(s, <<x>>, RateOut2, RateOut)
             /\ LowPassRealStep(s, x) \in S
  <2>1. s.now \in Seq(D)
    BY DEF GatherState
  <2>2. Append(s.now, x) = s.now \o <<x>> /\ <<x>> \in Seq(D)
    BY <2>1, AppendIsConcat
  <2>5. GatherStep(s, <<x>>, RateOut2, RateOut) \in S
    BY <1>1, <2>2, GatherStepType
  <2>3. CASE s.index + RateOut2 < RateOut
    <3>1. LowPassRealStep(s, x)
              = [s EXCEPT !.now = s.now \o <<x>>, !.index = s.index + RateOut2]
      BY <2>2, <2>3 DEF LowPassRealStep
    <3>2. QED
      BY <2>3, <2>5, <3>1 DEF GatherStep, GatherState
  <2>4. CASE ~ (s.index + RateOut2 < RateOut)
    BY <2>2, <2>4, <2>5 DEF LowPassRealStep, GatherStep
  <2>6. QED
    BY <2>3, <2>4
<1>3. step \in [1 .. n -> [S -> S]]
  BY <1>1, <1>2
<1>4. \A i \in 1 .. n, s \in S : step[i][s] = LowPassRealStep(s, angles[i])
  OBVIOUS
<1>5. DOMAIN angles = 1 .. n
  OBVIOUS
<1> HIDE DEF n, S, a, step
<1>6. PICK f : StepByStep(f, S, n, a, step)
  BY <1>1, <1>3, Recursion
<1>7. PICK h : Folds(h, S, n, a, step)
  BY <1>1, <1>3, FoldExists
<1> DEFINE Rec(g) == g = [s \in SUBSET (1 .. n) |->
                             IF s = {} THEN a
                             ELSE LowPassRealStep(g[s \ {Max(s)}], angles[Max(s)])]
           iter == CHOOSE g : Rec(g)
<1>8. LowPassReal(angles) = iter[1 .. n]
  BY <1>5 DEF LowPassReal, FoldLeft, MapThenFoldSet, a
<1>m. ASSUME NEW s \in SUBSET (1 .. n), s # {}
      PROVE  Max(s) \in 1 .. n
  BY <1>1, <1>m, MaxAmong
<1>9. Rec(h)
  <2>1. h \in [SUBSET (1 .. n) -> S] /\ h[{}] = a
    BY <1>7 DEF Folds
  <2>2. ASSUME NEW s \in SUBSET (1 .. n), s # {}
        PROVE  h[s] = LowPassRealStep(h[s \ {Max(s)}], angles[Max(s)])
    <3>1. h[s] = step[Max(s)][h[s \ {Max(s)}]] /\ h[s \ {Max(s)}] \in S
      BY <1>7, <2>2 DEF Folds
    <3>2. QED
      BY <1>4, <1>m, <2>2, <3>1
  <2>3. QED
    BY <2>1, <2>2
<1>10. Rec(iter)
  BY <1>9
<1> HIDE DEF iter
<1>11. FoldOver(iter, S, n, a, step)
  <2>1. ASSUME NEW s \in SUBSET (1 .. n), s # {}, iter[s \ {Max(s)}] \in S
        PROVE  iter[s] = step[Max(s)][iter[s \ {Max(s)}]]
    BY <1>4, <1>10, <1>m, <2>1
  <2>2. iter[{}] = a
    BY <1>10
  <2>3. QED
    BY <2>1, <2>2 DEF FoldOver
<1>12. LowPassReal(angles) = f[n]
  BY <1>1, <1>6, <1>8, <1>11, FoldOverSteps
<1>s. Singles(angles) \in Seq(Seq(D)) /\ Len(Singles(angles)) = n
      /\ \A i \in 1 .. n : Singles(angles)[i] = <<angles[i]>>
  BY FlattenSingles DEF n, Singles
<1>13. GatherSteps(f, D, now_lpr, prev_lpr_index, Singles(angles), RateOut2, RateOut)
  <2>1. ASSUME NEW i \in 1 .. n
        PROVE  f[i] = GatherStep(f[i - 1], Singles(angles)[i], RateOut2, RateOut)
    <3>1. i - 1 \in 0 .. n
      BY <1>1
    <3>2. f[i - 1] \in S /\ f[i] = step[i][f[i - 1]]
      BY <1>6, <3>1 DEF StepByStep
    <3>3. f[i] = LowPassRealStep(f[i - 1], angles[i]) /\ angles[i] \in D
      BY <1>1, <1>4, <3>2
    <3>4. f[i] = GatherStep(f[i - 1], <<angles[i]>>, RateOut2, RateOut)
      BY <1>2, <3>2, <3>3
    <3>5. QED
      BY <1>s, <3>4
  <2>2. f[0] = a
    BY <1>6 DEF StepByStep
  <2>3. QED
    BY <1>s, <2>1, <2>2 DEF GatherSteps, a
<1>14. QED
  BY <1>1, <1>12, <1>13, <1>s, StepsGather

-----------------------------------------------------------------------------
(* Streams of numbers. *)

\* The parts of a sequence have its type.
LEMMA PartsType ==
    ASSUME NEW S, NEW D, NEW s \in Seq(S), NEW t \in Seq(S), s \o t \in Seq(D)
    PROVE  s \in Seq(D) /\ t \in Seq(D)
<1>1. /\ Len(s) \in Nat /\ Len(t) \in Nat /\ Len(s \o t) = Len(s) + Len(t)
      /\ \A i \in 1 .. Len(s) : (s \o t)[i] = s[i]
      /\ \A i \in 1 .. Len(t) : (s \o t)[Len(s) + i] = t[i]
  BY ConcatType
<1>2. \A i \in 1 .. Len(s \o t) : (s \o t)[i] \in D
  OBVIOUS
<1>3. \A i \in 1 .. Len(s) : s[i] \in D
  BY <1>1, <1>2
<1>4. ASSUME NEW i \in 1 .. Len(t) PROVE t[i] \in D
  <2>1. Len(s) + i \in 1 .. Len(s \o t)
    BY <1>1
  <2>2. QED
    BY <1>1, <1>2, <2>1
<1>5. QED
  BY <1>3, <1>4

\* A sequence has the type of its elements.
LEMMA ElementsType ==
    ASSUME NEW S, NEW D, NEW s \in Seq(S), \A i \in 1 .. Len(s) : s[i] \in D
    PROVE  s \in Seq(D)
OBVIOUS

\* A sequence of a set's elements is one of a greater set's.
LEMMA SeqGrows ==
    ASSUME NEW S, NEW D, S \subseteq D
    PROVE  Seq(S) \subseteq Seq(D)
OBVIOUS

-----------------------------------------------------------------------------
(* The numbers of a stream: those above m are in order and in their places. *)
InOrder(s, m) == \A i, j \in 1 .. Len(s) : i < j /\ s[i] > m => s[i] < s[j]
Full(s, m) == \A i \in 1 .. Len(s) : \A n \in m + 1 .. s[i] : \E j \in 1 .. i : s[j] = n
Reaches(s, m, r) == \A n \in m + 1 .. r : \E j \in 1 .. Len(s) : s[j] = n

\* What is lost from the middle leaves the rest in order.
LEMMA OrderWithout ==
    ASSUME NEW a \in Seq(Nat), NEW b \in Seq(Nat), NEW c \in Seq(Nat), NEW m \in Nat,
           InOrder(a \o (b \o c), m)
    PROVE  InOrder(a \o c, m)
<1> DEFINE s == a \o (b \o c)
           t == a \o c
           Place(i) == IF i =< Len(a) THEN i ELSE Len(b) + i
<1>1. Len(a) \in Nat /\ Len(b) \in Nat /\ Len(c) \in Nat
  OBVIOUS
<1>2. b \o c \in Seq(Nat) /\ s \in Seq(Nat) /\ t \in Seq(Nat)
  BY ConcatType
<1>3. Len(s) = Len(a) + Len(b) + Len(c) /\ Len(t) = Len(a) + Len(c)
  BY ConcatType
<1>4. \A i \in 1 .. Len(t) : Place(i) \in 1 .. Len(s)
  BY <1>1, <1>3
<1>5. ASSUME NEW i \in 1 .. Len(t) PROVE t[i] = s[Place(i)]
  <2>1. CASE i =< Len(a)
    BY <1>1, <1>2, <2>1
  <2>2. CASE ~ (i =< Len(a))
    <3>1. i - Len(a) \in 1 .. Len(c) /\ i = Len(a) + (i - Len(a))
      BY <1>1, <1>3, <2>2
    <3>2. PICK k \in 1 .. Len(c) : i = Len(a) + k
      BY <3>1
    <3>3. t[i] = c[k]
      BY <1>1, <3>2
    <3>4. s[Len(a) + (Len(b) + k)] = (b \o c)[Len(b) + k] /\ (b \o c)[Len(b) + k] = c[k]
      BY <1>1, <1>2, <3>2
    <3>5. Place(i) = Len(a) + (Len(b) + k)
      BY <1>1, <2>2, <3>2
    <3>6. QED
      BY <3>3, <3>4, <3>5
  <2>3. QED
    BY <2>1, <2>2
<1>6. \A i, j \in 1 .. Len(t) : i < j => Place(i) < Place(j)
  BY <1>1, <1>3
<1> HIDE DEF s, t, Place
<1>7. InOrder(s, m)
  BY DEF s
<1>8. InOrder(t, m)
  BY <1>4, <1>5, <1>6, <1>7 DEF InOrder
<1>9. QED
  BY <1>8 DEF t

\* The beginning of a stream is as orderly and full as all of it.
LEMMA Beginning ==
    ASSUME NEW a \in Seq(Nat), NEW b \in Seq(Nat), NEW m \in Nat
    PROVE  /\ InOrder(a \o b, m) => InOrder(a, m)
           /\ Full(a \o b, m) => Full(a, m)
<1>1. /\ Len(a) \in Nat /\ Len(b) \in Nat /\ Len(a \o b) = Len(a) + Len(b)
      /\ \A i \in 1 .. Len(a) : (a \o b)[i] = a[i]
  OBVIOUS
<1>2. \A i \in 1 .. Len(a) : i \in 1 .. Len(a \o b)
  BY <1>1
<1>3. InOrder(a \o b, m) => InOrder(a, m)
  BY <1>1, <1>2 DEF InOrder
<1>4. Full(a \o b, m) => Full(a, m)
  <2>1. SUFFICES ASSUME Full(a \o b, m), NEW i \in 1 .. Len(a), NEW n \in m + 1 .. a[i]
                 PROVE  \E j \in 1 .. i : a[j] = n
    BY DEF Full
  <2>2. PICK j \in 1 .. i : (a \o b)[j] = n
    BY <1>1, <1>2, <2>1 DEF Full
  <2>3. j \in 1 .. Len(a)
    BY <1>1
  <2>4. QED
    BY <1>1, <2>2, <2>3
<1>5. QED
  BY <1>3, <1>4

\* The next numbers after r.
After(r, n) == [i \in 1 .. n |-> r + i]

\* They keep a stream of numbers up to r orderly and full.
LEMMA Extended ==
    ASSUME NEW r \in Nat, NEW s \in Seq(0 .. r), NEW n \in Nat, NEW m \in Nat
    PROVE  /\ InOrder(s, m) => InOrder(s \o After(r, n), m)
           /\ Full(s, m) /\ Reaches(s, m, r) => Full(s \o After(r, n), m)
           /\ Reaches(s, m, r) => Reaches(s \o After(r, n), m, r + n)
<1> DEFINE t == s \o After(r, n)
<1>1. /\ After(r, n) \in Seq(Nat) /\ Len(After(r, n)) = n
      /\ \A i \in 1 .. n : After(r, n)[i] = r + i
  BY DEF After
<1>2. /\ s \in Seq(Nat) /\ Len(s) \in Nat /\ \A i \in 1 .. Len(s) : s[i] \in Nat /\ s[i] =< r
  OBVIOUS
<1>3. /\ Len(t) = Len(s) + n
      /\ \A i \in 1 .. Len(s) : t[i] = s[i]
      /\ \A i \in 1 .. n : t[Len(s) + i] = After(r, n)[i]
  <2>1. /\ Len(t) = Len(s) + Len(After(r, n))
        /\ \A i \in 1 .. Len(s) : t[i] = s[i]
        /\ \A i \in 1 .. Len(After(r, n)) : t[Len(s) + i] = After(r, n)[i]
    <3>1. \A y \in Seq(Nat) :
             /\ Len(s \o y) = Len(s) + Len(y)
             /\ \A i \in 1 .. Len(s) : (s \o y)[i] = s[i]
             /\ \A i \in 1 .. Len(y) : (s \o y)[Len(s) + i] = y[i]
      BY <1>2, ConcatType
    <3>2. QED
      BY <1>1, <3>1
  <2>2. QED
    BY <1>1, <2>1
<1> HIDE DEF t
<1>4. ASSUME NEW i \in 1 .. Len(t)
      PROVE  \/ i \in 1 .. Len(s) /\ t[i] = s[i]
             \/ i - Len(s) \in 1 .. n /\ t[i] = r + (i - Len(s))
  <2>1. CASE i =< Len(s)
    BY <1>2, <1>3, <2>1
  <2>2. CASE ~ (i =< Len(s))
    <3>1. i - Len(s) \in 1 .. n /\ Len(s) + (i - Len(s)) = i
      BY <1>2, <1>3, <2>2
    <3>2. t[Len(s) + (i - Len(s))] = r + (i - Len(s))
      BY <1>1, <1>3, <3>1
    <3>3. QED
      BY <3>1, <3>2
  <2>3. QED
    BY <2>1, <2>2
<1>5. ASSUME InOrder(s, m)
      PROVE  InOrder(t, m)
  <2>1. SUFFICES ASSUME NEW i \in 1 .. Len(t), NEW j \in 1 .. Len(t), i < j, t[i] > m
                 PROVE  t[i] < t[j]
    BY DEF InOrder
  <2>2. CASE j \in 1 .. Len(s)
    <3>1. i \in 1 .. Len(s) /\ t[i] = s[i] /\ t[j] = s[j]
      BY <1>2, <1>3, <2>1, <2>2
    <3>2. QED
      BY <1>5, <2>1, <3>1, <2>2 DEF InOrder
  <2>3. CASE j - Len(s) \in 1 .. n /\ t[j] = r + (j - Len(s))
    <3>1. CASE i \in 1 .. Len(s) /\ t[i] = s[i]
      <4>1. s[i] \in Nat /\ s[i] =< r /\ j - Len(s) \in Nat /\ j - Len(s) >= 1
        BY <1>2, <2>3, <3>1
      <4>2. s[i] < r + (j - Len(s))
        BY <4>1
      <4>3. QED
        BY <2>3, <3>1, <4>2
    <3>2. CASE i - Len(s) \in 1 .. n /\ t[i] = r + (i - Len(s))
      <4>1. r + (i - Len(s)) < r + (j - Len(s))
        BY <1>2, <1>3, <2>1
      <4>2. QED
        BY <2>3, <3>2, <4>1
    <3>3. QED
      BY <1>4, <3>1, <3>2
  <2>4. QED
    BY <1>4, <2>2, <2>3
<1>6. ASSUME Reaches(s, m, r), NEW k \in m + 1 .. r + n
      PROVE  \E j \in 1 .. Len(t) :
                 t[j] = k /\ (k =< r => j =< Len(s)) /\ (k > r => j = Len(s) + (k - r))
  <2>1. CASE k =< r
    <3>1. PICK j \in 1 .. Len(s) : s[j] = k
      BY <1>6, <2>1 DEF Reaches
    <3>2. j \in 1 .. Len(t) /\ t[j] = k
      BY <1>2, <1>3, <3>1
    <3>3. QED
      BY <2>1, <3>1, <3>2
  <2>2. CASE k > r
    <3>1. k - r \in 1 .. n /\ r + (k - r) = k
      BY <2>2
    <3>2. Len(s) + (k - r) \in 1 .. Len(t)
      BY <1>2, <1>3, <3>1
    <3>3. t[Len(s) + (k - r)] = k
      BY <1>1, <1>3, <3>1
    <3>4. QED
      BY <2>2, <3>2, <3>3
  <2>3. QED
    BY <2>1, <2>2
<1>7. ASSUME Full(s, m), Reaches(s, m, r)
      PROVE  Full(t, m)
  <2>1. SUFFICES ASSUME NEW i \in 1 .. Len(t), NEW k \in m + 1 .. t[i]
                 PROVE  \E j \in 1 .. i : t[j] = k
    BY DEF Full
  <2>2. CASE i \in 1 .. Len(s) /\ t[i] = s[i]
    <3>1. PICK j \in 1 .. i : s[j] = k
      BY <1>7, <2>2 DEF Full
    <3>2. j \in 1 .. Len(s)
      BY <1>2, <2>2
    <3>3. QED
      BY <1>3, <3>1, <3>2
  <2>3. CASE i - Len(s) \in 1 .. n /\ t[i] = r + (i - Len(s))
    <3>1. k \in m + 1 .. r + n /\ k =< r + (i - Len(s)) /\ k \in Int
      BY <2>3
    <3>2. PICK j \in 1 .. Len(t) : t[j] = k /\ (k =< r => j =< Len(s))
                                   /\ (k > r => j = Len(s) + (k - r))
      BY <1>6, <1>7, <3>1
    <3>3. j =< i
      BY <1>2, <2>3, <3>1, <3>2
    <3>4. QED
      BY <3>2, <3>3
  <2>4. QED
    BY <1>4, <2>2, <2>3
<1>8. ASSUME Reaches(s, m, r)
      PROVE  Reaches(t, m, r + n)
  BY <1>6, <1>8 DEF Reaches
<1>9. QED
  BY <1>5, <1>7, <1>8 DEF t

-----------------------------------------------------------------------------
(* The discriminator, and full_demod. *)

\* Sums of samples up to r, of one at least, and what compares them.
Held(r) == Seq(0 .. r) \ {<< >>}
Pairs(r) == [from : Sums, to : Held(r)]

\* What is compared, and the samples in it.
Tos(ps) == [i \in 1 .. Len(ps) |-> ps[i].to]
Numbers(ps) == FlattenSeq(Tos(ps))

\* What is compared with something is as many sums as there are comparisons.
LEMMA TosType ==
    ASSUME NEW r \in Nat, NEW ps \in Seq(Pairs(r))
    PROVE  /\ Tos(ps) \in Seq(Seq(0 .. r)) /\ Len(Tos(ps)) = Len(ps) /\ Len(ps) \in Nat
           /\ \A i \in 1 .. Len(ps) : Tos(ps)[i] = ps[i].to
<1>1. Len(ps) \in Nat /\ \A i \in 1 .. Len(ps) : ps[i] \in Pairs(r)
  OBVIOUS
<1>2. \A i \in 1 .. Len(ps) : ps[i].to \in Seq(0 .. r)
  BY <1>1 DEF Pairs, Held
<1>3. QED
  BY <1>1, <1>2 DEF Tos

\* The samples in comparisons of samples up to r are samples up to r.
LEMMA NumbersType ==
    ASSUME NEW r \in Nat, NEW ps \in Seq(Pairs(r))
    PROVE  Numbers(ps) \in Seq(0 .. r)
BY TosType, FlattenType DEF Numbers

\* There are none in no comparisons.
LEMMA NumbersEmpty == Numbers(<< >>) = << >>
<1>1. Tos(<< >>) = << >>
  BY DEF Tos
<1>2. QED
  BY <1>1, FlattenEmpty DEF Numbers

\* And in a concatenation those of its parts.
LEMMA NumbersConcat ==
    ASSUME NEW r \in Nat, NEW ps \in Seq(Pairs(r)), NEW qs \in Seq(Pairs(r))
    PROVE  Numbers(ps \o qs) = Numbers(ps) \o Numbers(qs)
<1> DEFINE m == Len(ps)
           n == Len(qs)
           cs == ps \o qs
           ts == Tos(ps) \o Tos(qs)
<1>1. /\ Tos(ps) \in Seq(Seq(0 .. r)) /\ Len(Tos(ps)) = m /\ m \in Nat
      /\ \A i \in 1 .. m : Tos(ps)[i] = ps[i].to
      /\ Tos(qs) \in Seq(Seq(0 .. r)) /\ Len(Tos(qs)) = n /\ n \in Nat
      /\ \A i \in 1 .. n : Tos(qs)[i] = qs[i].to
  BY TosType
<1>2. /\ cs \in Seq(Pairs(r)) /\ Len(cs) = m + n
      /\ \A i \in 1 .. m : cs[i] = ps[i]
      /\ \A i \in 1 .. n : cs[m + i] = qs[i]
  BY ConcatType
<1>3. /\ ts \in Seq(Seq(0 .. r)) /\ Len(ts) = Len(Tos(ps)) + Len(Tos(qs))
      /\ \A i \in 1 .. Len(Tos(ps)) : ts[i] = Tos(ps)[i]
      /\ \A i \in 1 .. Len(Tos(qs)) : ts[Len(Tos(ps)) + i] = Tos(qs)[i]
  <2>1. \A x, y \in Seq(Seq(0 .. r)) :
           /\ x \o y \in Seq(Seq(0 .. r)) /\ Len(x \o y) = Len(x) + Len(y)
           /\ \A i \in 1 .. Len(x) : (x \o y)[i] = x[i]
           /\ \A i \in 1 .. Len(y) : (x \o y)[Len(x) + i] = y[i]
    BY ConcatType
  <2>2. QED
    BY <1>1, <2>1
<1> HIDE DEF m, n, cs, ts
<1>4. /\ Tos(cs) \in Seq(Seq(0 .. r)) /\ Len(Tos(cs)) = m + n
      /\ \A i \in 1 .. m + n : Tos(cs)[i] = cs[i].to
  BY <1>2, TosType
<1>5. ASSUME NEW i \in 1 .. m + n PROVE Tos(cs)[i] = ts[i]
  <2>1. CASE i \in 1 .. m
    BY <1>1, <1>2, <1>3, <1>4, <2>1
  <2>2. CASE ~ (i \in 1 .. m)
    <3>1. i - m \in 1 .. n /\ i = m + (i - m)
      BY <1>1, <2>2
    <3>2. PICK k \in 1 .. n : i = m + k
      BY <3>1
    <3>3. ts[i] = qs[k].to
      BY <1>1, <1>3, <3>2
    <3>4. cs[i] = qs[k]
      BY <1>2, <3>2
    <3>5. QED
      BY <1>4, <3>3, <3>4
  <2>3. QED
    BY <2>1, <2>2
<1>6. Tos(cs) = ts
  BY <1>1, <1>3, <1>4, <1>5
<1>7. FlattenSeq(ts) = FlattenSeq(Tos(ps)) \o FlattenSeq(Tos(qs))
  BY <1>1, FlattenConcat DEF ts
<1>8. QED
  BY <1>6, <1>7 DEF Numbers, cs

\* What the discriminator makes of sums: as many, each compared with the one before.
LEMMA Discriminated ==
    ASSUME NEW r \in Nat, NEW lp \in Seq(Held(r)), pre \in Sums
    PROVE  /\ Discriminator(lp) \in Seq(Pairs(r)) /\ Len(Discriminator(lp)) = Len(lp)
           /\ Tos(Discriminator(lp)) = lp
           /\ \A i \in 1 .. Len(lp) :
                 Discriminator(lp)[i] = [from |-> IF i = 1 THEN pre ELSE lp[i - 1], to |-> lp[i]]
<1> DEFINE d == Discriminator(lp)
<1>1. Len(lp) \in Nat /\ \A i \in 1 .. Len(lp) : lp[i] \in Held(r)
  OBVIOUS
<1>2. Held(r) \subseteq Sums
  BY SeqGrows DEF Held, Sums
<1>3. ASSUME NEW i \in 1 .. Len(lp)
      PROVE  (IF i = 1 THEN pre ELSE lp[i - 1]) \in Sums
  <2>1. i = 1 \/ i - 1 \in 1 .. Len(lp)
    BY <1>1
  <2>2. QED
    BY <1>1, <1>2, <2>1
<1>4. ASSUME NEW i \in 1 .. Len(lp)
      PROVE  [from |-> IF i = 1 THEN pre ELSE lp[i - 1], to |-> lp[i]] \in Pairs(r)
  BY <1>1, <1>3 DEF Pairs
<1>5. /\ d \in Seq(Pairs(r)) /\ Len(d) = Len(lp)
      /\ \A i \in 1 .. Len(lp) :
            d[i] = [from |-> IF i = 1 THEN pre ELSE lp[i - 1], to |-> lp[i]]
  BY <1>1, <1>4 DEF Discriminator
<1> HIDE DEF d
<1>6. Tos(d) = lp
  <2>1. ASSUME NEW i \in 1 .. Len(lp) PROVE d[i].to = lp[i]
    <3>1. d[i] = [from |-> IF i = 1 THEN pre ELSE lp[i - 1], to |-> lp[i]]
      BY <1>5
    <3>2. \A x, y : [from |-> x, to |-> y].to = y
      OBVIOUS
    <3>3. QED
      BY <3>1, <3>2
  <2>2. Tos(d) = [i \in 1 .. Len(lp) |-> lp[i]]
    BY <1>5, <2>1 DEF Tos
  <2>3. QED
    BY <2>2
<1>7. QED
  BY <1>5, <1>6 DEF d

\* A full block is enough for a result.
LEMMA BlockIsEnough ==
    ASSUME NEW n \in Nat, NEW i \in 0 .. Downsample - 1, NEW i0 \in Nat,
           i + Downsample * n = i0 + 1 * BlockLen,
           NEW m \in Nat, NEW k \in 0 .. RateOut - 1, NEW k0 \in Nat,
           k + RateOut * m = k0 + RateOut2 * n
    PROVE  n # 0 /\ m # 0
<1> DEFINE q == BlockLen \div Downsample
<1>1. /\ Downsample \in Nat \ {0} /\ BlockLen \in Nat \ {0}
      /\ RateOut \in Nat \ {0} /\ RateOut2 \in Nat \ {0}
  BY DemodAssumption
<1>2. q \in Nat /\ q * Downsample =< BlockLen
  BY <1>1
<1>3. q * RateOut2 >= RateOut
  BY PathAssumption
<1> HIDE DEF q
<1>4. n >= q
  <2>1. SUFFICES ASSUME n + 1 =< q PROVE FALSE
    BY <1>2
  <2>2. (n + 1) * Downsample =< q * Downsample
    BY <1>1, <1>2, <2>1
  <2>3. (n + 1) * Downsample = Downsample * n + Downsample /\ Downsample * n \in Nat
    BY <1>1
  <2>4. QED
    BY <1>1, <1>2, <2>2, <2>3
<1>5. RateOut2 * n >= RateOut
  <2>1. RateOut2 * n >= q * RateOut2
    BY <1>1, <1>2, <1>4
  <2>2. RateOut2 * n \in Nat /\ q * RateOut2 \in Nat
    BY <1>1, <1>2
  <2>3. QED
    BY <1>1, <1>3, <2>1, <2>2
<1>6. n # 0
  BY <1>1, <1>5
<1>7. m # 0
  <2>1. SUFFICES ASSUME m = 0 PROVE FALSE
    OBVIOUS
  <2>2. RateOut * m = 0 /\ RateOut2 * n \in Nat
    BY <1>1, <2>1
  <2>3. QED
    BY <1>1, <1>5, <2>2
<1>8. QED
  BY <1>6, <1>7

\* What full_demod leaves behind, of samples up to r.
Demodulated(r) ==
    /\ lowpassed' \in Seq(Held(r)) /\ now' \in Seq(0 .. r)
    /\ prev_index' \in 0 .. Downsample - 1
    /\ pre' = LastOf(lowpassed')
    /\ result' \in Seq(Seq(Pairs(r))) /\ now_lpr' \in Seq(Pairs(r))
    /\ prev_lpr_index' \in 0 .. RateOut - 1
    /\ FlattenSeq(lowpassed') \o now' = now \o FlattenSeq(lowpassed)
    /\ FlattenSeq(result') \o now_lpr' = now_lpr \o Discriminator(lowpassed')
    /\ Len(lowpassed) = BlockLen => lowpassed' # << >> /\ result' # << >>

\* It does: full_demod keeps every sample and every comparison, in order.
LEMMA DemodulatesAll ==
    ASSUME NEW r \in Nat, lowpassed \in Seq(Held(r)), now \in Seq(0 .. r), pre \in Sums,
           prev_index \in 0 .. Downsample - 1, prev_lpr_index \in 0 .. RateOut - 1,
           now_lpr \in Seq(Pairs(r)), FullDemod
    PROVE  Demodulated(r)
<1> DEFINE lp == LowPass(lowpassed)
           d == Discriminator(lp.out)
           real == LowPassReal(d)
<1>1. /\ lowpassed' = lp.out /\ now' = lp.now /\ prev_index' = lp.index
      /\ pre' = LastOf(lp.out) /\ result' = real.out
      /\ now_lpr' = real.now /\ prev_lpr_index' = real.index
  BY DEF FullDemod
<1>2. /\ lowpassed \in Seq(Seq(0 .. r)) /\ Len(lowpassed) \in Nat
      /\ \A i \in 1 .. Len(lowpassed) : lowpassed[i] # << >>
  BY SeqGrows DEF Held
<1>3. Gathered(lp, 0 .. r, now, prev_index, lowpassed, 1, Downsample)
  BY <1>2, LowPassGathers
<1> HIDE DEF lp
<1>4. /\ lp.out \in Seq(Seq(0 .. r)) /\ lp.now \in Seq(0 .. r)
      /\ lp.index \in 0 .. Downsample - 1
      /\ FlattenSeq(lp.out) \o lp.now = now \o FlattenSeq(lowpassed)
      /\ lp.index + Downsample * Len(lp.out) = prev_index + 1 * Len(lowpassed)
      /\ \A i \in 1 .. Len(lp.out) : lp.out[i] # << >>
  BY <1>2, <1>3 DEF Gathered, GatherState
<1>5. lp.out \in Seq(Held(r)) /\ Len(lp.out) \in Nat
  <2>1. Len(lp.out) \in Nat /\ \A i \in 1 .. Len(lp.out) : lp.out[i] \in Seq(0 .. r)
    BY <1>4
  <2>2. \A i \in 1 .. Len(lp.out) : lp.out[i] \in Held(r)
    BY <1>4, <2>1 DEF Held
  <2>3. QED
    BY <1>4, <2>1, <2>2, ElementsType
<1>6. d \in Seq(Pairs(r)) /\ Len(d) = Len(lp.out)
  BY <1>5, Discriminated
<1>7. Gathered(real, Pairs(r), now_lpr, prev_lpr_index, Singles(d), RateOut2, RateOut)
  BY <1>6, LowPassRealGathers
<1> HIDE DEF d, real
<1>8. FlattenSeq(Singles(d)) = d /\ Len(Singles(d)) = Len(d)
  BY <1>6, FlattenSingles
<1>9. /\ real.out \in Seq(Seq(Pairs(r))) /\ real.now \in Seq(Pairs(r))
      /\ real.index \in 0 .. RateOut - 1
      /\ FlattenSeq(real.out) \o real.now = now_lpr \o d
      /\ real.index + RateOut * Len(real.out) = prev_lpr_index + RateOut2 * Len(d)
  BY <1>7, <1>8 DEF Gathered, GatherState
<1>10. ASSUME Len(lowpassed) = BlockLen
       PROVE  lp.out # << >> /\ real.out # << >>
  <2>1. Len(real.out) \in Nat /\ prev_index \in Nat /\ prev_lpr_index \in Nat
    BY <1>9
  <2>2. Len(lp.out) # 0 /\ Len(real.out) # 0
    BY <1>4, <1>5, <1>6, <1>9, <1>10, <2>1, BlockIsEnough
  <2>3. QED
    BY <2>2
<1>11. QED
  BY <1>1, <1>4, <1>5, <1>9, <1>10 DEF Demodulated, d

-----------------------------------------------------------------------------
(* The output. *)

(* Frames stay whole and samples are counted for writes of any lengths. *)

OutputInv == SampleTypes /\ WholeFrames /\ CountKept

\* The samples of a write are as many as it has.
LEMMA SamplesType ==
    ASSUME SampleTypes, NEW n \in Nat
    PROVE  Samples(n) \in Seq(Nat) /\ Len(Samples(n)) = n
           /\ \A i \in 1 .. n : Samples(n)[i] \in Nat
BY DEF Samples, SampleTypes

\* A prefix of a sequence has the length asked for.
LEMMA PrefixType ==
    ASSUME NEW S, NEW s \in Seq(S), NEW k \in 0 .. Len(s)
    PROVE  SubSeq(s, 1, k) \in Seq(S) /\ Len(SubSeq(s, 1, k)) = k
OBVIOUS

\* A sample put before others makes the sequence one longer.
LEMMA ConsType ==
    ASSUME NEW S, NEW x \in S, NEW s \in Seq(S)
    PROVE  <<x>> \o s \in Seq(S) /\ Len(<<x>> \o s) = Len(s) + 1
OBVIOUS

\* A push adds to what has been pushed.
LEMMA PushType ==
    ASSUME SampleTypes, NEW s \in Seq(Nat), Push(s)
    PROVE  pushed' \in Seq(Nat) /\ Len(pushed') = Len(pushed) + Len(s)
BY DEF SampleTypes, Push

\* Nothing pushed is a sequence of no samples.
LEMMA Nothing == << >> \in Seq(Nat) /\ Len(<< >>) = 0
OBVIOUS

\* It all holds before the first write.
LEMMA InitOutputInv == Init => OutputInv
<1> SUFFICES ASSUME Init PROVE OutputInv
  OBVIOUS
<1>1. SampleTypes
  BY Nothing DEF Init, SampleTypes
<1>2. WholeFrames 
  BY Nothing DEF Init, WholeFrames
<1>3. CountKept
  BY Nothing DEF Init, CountKept
<1>4. QED
  BY <1>1, <1>2, <1>3 DEF OutputInv

\* What each case of a write comes to: how many samples it pushes, and whether one
\* is carried afterwards.
LEMMA WriteCounts ==
    ASSUME OutputInv, NEW n \in Nat \ {0}, NEW k \in Nat, NEW block \in Seq(Nat),
           Len(block) = k, Push(block), taken' = taken + n,
           extra' \in 0 .. 1, extra_buf' \in Nat, output_buf' \in Nat,
           k + extra' = n + extra, k % 2 = 0
    PROVE  OutputInv'
<1>1. n \in Nat /\ taken \in Nat /\ extra \in 0 .. 1 /\ Len(pushed) \in Nat
  BY DEF OutputInv, SampleTypes
<1>2. pushed' \in Seq(Nat) /\ Len(pushed') = Len(pushed) + k
  BY PushType DEF OutputInv
<1>3. taken' \in Nat
  BY <1>1
<1>4. SampleTypes'
  BY <1>2, <1>3 DEF SampleTypes
<1>5. WholeFrames'
  <2>1. Len(pushed) % 2 = 0
    BY DEF OutputInv, WholeFrames
  <2>2. QED
    BY <1>1, <1>2, <2>1 DEF WholeFrames
<1>6. CountKept'
  <2>1. Len(pushed) + extra = taken
    BY DEF OutputInv, CountKept
  <2>2. PICK l \in Int, t \in Int, e \in Int, e1 \in Int :
            l = Len(pushed) /\ t = taken /\ e = extra /\ e1 = extra'
    BY <1>1
  <2>3. (l + k) + e1 = t + n
    <3>1. l + e = t /\ k + e1 = n + e
      BY <2>1, <2>2
    <3>2. QED
      BY <3>1, <1>1
  <2>4. QED
    BY <1>2, <2>2, <2>3 DEF CountKept
<1>7. QED
  BY <1>4, <1>5, <1>6 DEF OutputInv

\* Each of the four cases of a write keeps frames whole and samples counted.
LEMMA WriteKeeps ==
    ASSUME OutputInv, NEW n \in Nat \ {0}, RadioOutputWrite(n)
    PROVE  OutputInv'
<1>n. n \in Nat \ {0}
  OBVIOUS
<1>t. SampleTypes
  BY DEF OutputInv
<1>s. /\ Samples(n) \in Seq(Nat) /\ Len(Samples(n)) = n
      /\ Samples(n)[n] \in Nat
  BY <1>n, <1>t, SamplesType
<1>w. taken' = taken + n
  BY DEF RadioOutputWrite, StillExtra, NoExtra, FirstExtra, NeverExtra, Write
<1>1. CASE StillExtra(n)
  <2> DEFINE block == <<output_buf'>> \o SubSeq(Samples(n), 1, n - 1)
  <2>1. output_buf' \in Nat /\ Push(block) /\ extra = 1 /\ extra' = 1
        /\ extra_buf' \in Nat
    BY <1>1, <1>t, <1>s DEF StillExtra, SampleTypes
  <2>2. (1 + n) % 2 = 1
    BY <1>1 DEF StillExtra
  <2>3. SubSeq(Samples(n), 1, n - 1) \in Seq(Nat)
        /\ Len(SubSeq(Samples(n), 1, n - 1)) = n - 1
    BY <1>s, <1>n, PrefixType
  <2>4. block \in Seq(Nat) /\ Len(block) = n
    BY <2>1, <2>3, ConsType, <1>n
  <2>5. n % 2 = 0
    BY <2>2, <1>n
  <2> HIDE DEF block
  <2>6. QED
    BY <2>1, <2>4, <2>5, <1>w, <1>n, WriteCounts
<1>2. CASE NoExtra(n)
  <2> DEFINE block == <<output_buf'>> \o Samples(n)
  <2>1. output_buf' \in Nat /\ Push(block) /\ extra = 1 /\ extra' = 0
        /\ extra_buf' \in Nat
    BY <1>2, <1>t DEF NoExtra, SampleTypes
  <2>2. (1 + n) % 2 = 0
    BY <1>2 DEF NoExtra
  <2>3. block \in Seq(Nat) /\ Len(block) = n + 1
    BY <1>s, <2>1, ConsType
  <2> HIDE DEF block
  <2>4. (n + 1) % 2 = 0
    BY <2>2, <1>n
  <2>5. QED
    BY <2>1, <2>3, <2>4, <1>w, <1>n, WriteCounts
<1>3. CASE FirstExtra(n)
  <2> DEFINE block == SubSeq(<<output_buf>> \o Samples(n), 1, n - 1)
  <2>1. output_buf' \in Nat /\ output_buf \in Nat /\ Push(block)
        /\ extra = 0 /\ extra' = 1 /\ extra_buf' \in Nat
    BY <1>3, <1>t, <1>s DEF FirstExtra, SampleTypes
  <2>2. n % 2 = 1
    BY <1>3 DEF FirstExtra
  <2>3. <<output_buf>> \o Samples(n) \in Seq(Nat)
        /\ Len(<<output_buf>> \o Samples(n)) = n + 1
    BY <1>s, <2>1, ConsType
  <2>4. block \in Seq(Nat) /\ Len(block) = n - 1
    BY <2>3, <1>n, PrefixType
  <2> HIDE DEF block
  <2>5. (n - 1) % 2 = 0 /\ n - 1 \in Nat
    BY <2>2, <1>n
  <2>6. QED
    BY <2>1, <2>4, <2>5, <1>w, <1>n, WriteCounts
<1>4. CASE NeverExtra(n)
  <2>1. /\ Push(Samples(n)) /\ extra = 0 /\ extra' = 0
        /\ extra_buf' \in Nat /\ output_buf' \in Nat
    BY <1>4, <1>t DEF NeverExtra, SampleTypes
  <2>2. n % 2 = 0
    BY <1>4 DEF NeverExtra
  <2>3. QED
    BY <2>1, <2>2, <1>s, <1>w, <1>n, WriteCounts
<1>5. QED
  BY <1>1, <1>2, <1>3, <1>4 DEF RadioOutputWrite

\* Opening, starting, stopping and closing leave the samples alone, or forget all.
LEMMA StateKeeps ==
    OutputInv /\ (OpenAndStart \/ Start \/ Stop \/ Close \/ UNCHANGED vars) => OutputInv'
<1> SUFFICES ASSUME OutputInv, OpenAndStart \/ Start \/ Stop \/ Close \/ UNCHANGED vars
             PROVE  OutputInv'
  OBVIOUS
<1>1. CASE OpenAndStart
  <2>1. /\ extra' = 0 /\ output_buf' = 0 /\ taken' = 0 /\ pushed' = << >>
        /\ UNCHANGED extra_buf
    BY <1>1 DEF OpenAndStart
  <2>2. SampleTypes'
    BY <2>1, Nothing DEF OutputInv, SampleTypes
  <2>3. WholeFrames'
    BY <2>1, Nothing DEF WholeFrames
  <2>4. CountKept'
    BY <2>1, Nothing DEF CountKept
  <2>5. QED
    BY <2>2, <2>3, <2>4 DEF OutputInv
<1>2. CASE Start \/ Stop \/ Close \/ UNCHANGED vars
  <2>1. UNCHANGED <<extra, extra_buf, output_buf, taken, pushed>>
    BY <1>2 DEF Start, Stop, Close, vars
  <2>2. QED
    BY <2>1 DEF OutputInv, SampleTypes, WholeFrames, CountKept
<1>3. QED
  BY <1>1, <1>2

\* And it stays so.
LEMMA StepKeeps == Spec => []OutputInv
<1>1. ASSUME OutputInv, [Next]_vars
      PROVE  OutputInv'
  <2>1. ASSUME NEW n \in 1 .. MaxLen, RadioOutputWrite(n)
        PROVE  OutputInv'
    <3>1. n \in Nat \ {0}
      OBVIOUS
    <3>2. QED
      BY <1>1, <2>1, <3>1, WriteKeeps
  <2>2. QED
    BY <1>1, <2>1, StateKeeps DEF Next
<1>2. QED
  BY InitOutputInv, <1>1, PTL DEF Spec

\* Whatever the lengths of the writes, and however the output is started and stopped
\* between them, the pipeline is given whole frames.
THEOREM FramesStayWhole == Spec => []WholeFrames
<1>1. OutputInv => WholeFrames
  BY DEF OutputInv
<1>2. QED
  BY <1>1, StepKeeps, PTL

\* No sample is pushed twice and none left out, counting: what is wrong in the first
\* odd write is which they are.
THEOREM SamplesAreCounted == Spec => []CountKept
<1>1. OutputInv => CountKept
  BY DEF OutputInv
<1>2. QED
  BY <1>1, StepKeeps, PTL

-----------------------------------------------------------------------------
(* The whole path. *)

\* What is on its way: to the pipeline and in the demodulator.
Waiting == IF "output_result" \in fresh THEN FlattenSeq(output_result) ELSE << >>
Ready == IF demod_at = "result" THEN FlattenSeq(result) ELSE << >>
Delivered == IF "lowpassed" \in fresh THEN FlattenSeq(lowpassed) ELSE << >>

\* What will be heard after what has been, and the samples in it, then those gathered.
ToHear == Join(heard, Join(Waiting, Join(Ready, now_lpr)))
Underway ==
    Join(Numbers(heard), Join(Numbers(Waiting), Join(Numbers(Ready),
        Join(Numbers(now_lpr), Join(now, Delivered)))))

\* Only samples received are anywhere, and no sum is of none.
Known ==
    /\ lowpassed \in Seq(Held(received)) /\ now \in Seq(0 .. received)
    /\ now_lpr \in Seq(Pairs(received))
    /\ result \in Seq(Seq(Pairs(received))) /\ output_result \in Seq(Seq(Pairs(received)))
    /\ heard \in Seq(Pairs(received))

\* While the output runs a thread is awake for something fresh and full.
Session ==
    running =>
        /\ pipeline /\ ~do_exit /\ demod_at # "ended" /\ output_at # "ended"
        /\ demod_at = "awake" => "lowpassed" \in fresh
        /\ demod_at = "result" => result # << >>
        /\ output_at = "awake" => "output_result" \in fresh
        /\ "lowpassed" \in fresh => Len(lowpassed) = BlockLen
        /\ "output_result" \in fresh => output_result # << >>

\* Neighbours are compared, but for samples up to m; and p is the last one compared.
New(p, m) == \A k \in 1 .. Len(p) : p[k] > m
Linked(ps, m) == \A i \in 2 .. Len(ps) : New(ps[i - 1].to, m) => ps[i].from = ps[i - 1].to
Continues(ps, m, p) == ps # << >> /\ New(ps[Len(ps)].to, m) => p = ps[Len(ps)].to

\* What is under way is in order, and all there as long as nothing is lost.
Stream ==
    running =>
        /\ InOrder(Underway, since)
        /\ ~lost => /\ Full(Underway, since) /\ Reaches(Underway, since, received)
                    /\ Linked(ToHear, since) /\ Continues(ToHear, since, pre)

\* The inductive invariant.
PathTypes == PathTypeOK /\ Known
PathInv == OutputInv /\ PathTypes /\ Session /\ Stream /\ HeardInOrder /\ NothingMissing

-----------------------------------------------------------------------------
\* More samples received: sums of fewer are still sums of them.
LEMMA NumbersGrow ==
    ASSUME NEW r \in Nat, NEW q \in Nat, r =< q
    PROVE  Held(r) \subseteq Held(q) /\ Pairs(r) \subseteq Pairs(q)
<1>1. 0 .. r \subseteq 0 .. q
  OBVIOUS
<1>2. Held(r) \subseteq Held(q)
  BY <1>1, SeqGrows DEF Held
<1>3. QED
  BY <1>2 DEF Pairs

\* The parts of what is on its way have their types.
UnderwayTypes ==
    /\ received \in Nat /\ since \in 0 .. received
    /\ heard \in Seq(Pairs(received)) /\ now_lpr \in Seq(Pairs(received))
    /\ Waiting \in Seq(Pairs(received)) /\ Ready \in Seq(Pairs(received))
    /\ Numbers(heard) \in Seq(0 .. received) /\ Numbers(Waiting) \in Seq(0 .. received)
    /\ Numbers(Ready) \in Seq(0 .. received) /\ Numbers(now_lpr) \in Seq(0 .. received)
    /\ now \in Seq(0 .. received) /\ Delivered \in Seq(0 .. received)
    /\ ToHear \in Seq(Pairs(received)) /\ Underway \in Seq(0 .. received)

\* They have, given those of the variables.
LEMMA UnderwayType == PathTypes => UnderwayTypes
<1> SUFFICES ASSUME PathTypes PROVE UnderwayTypes
  OBVIOUS
<1>1. /\ received \in Nat /\ since \in 0 .. received
      /\ heard \in Seq(Pairs(received)) /\ now_lpr \in Seq(Pairs(received))
      /\ now \in Seq(0 .. received)
      /\ result \in Seq(Seq(Pairs(received))) /\ output_result \in Seq(Seq(Pairs(received)))
      /\ lowpassed \in Seq(Held(received))
  BY DEF PathTypes, Known, PathTypeOK, DemodTypes
<1>2. \A S : << >> \in Seq(S)
  OBVIOUS
<1>3. Waiting \in Seq(Pairs(received)) /\ Ready \in Seq(Pairs(received))
  BY <1>1, <1>2, FlattenType DEF Waiting, Ready
<1>4. Delivered \in Seq(0 .. received)
  <2>1. lowpassed \in Seq(Seq(0 .. received))
    BY <1>1, SeqGrows DEF Held
  <2>2. FlattenSeq(lowpassed) \in Seq(0 .. received)
    BY <2>1, FlattenType
  <2>3. QED
    BY <1>2, <2>2 DEF Delivered
<1>5. /\ Numbers(heard) \in Seq(0 .. received) /\ Numbers(Waiting) \in Seq(0 .. received)
      /\ Numbers(Ready) \in Seq(0 .. received) /\ Numbers(now_lpr) \in Seq(0 .. received)
  BY <1>1, <1>3, NumbersType
<1>6. \A S : \A x, y \in Seq(S) : Join(x, y) \in Seq(S)
  BY JoinType
<1>7. ToHear \in Seq(Pairs(received))
  BY <1>1, <1>3, <1>6 DEF ToHear
<1>8. Underway \in Seq(0 .. received)
  <2>1. \A x, y \in Seq(0 .. received) : Join(x, y) \in Seq(0 .. received)
    BY JoinType
  <2>2. QED
    BY <1>1, <1>4, <1>5, <2>1 DEF Underway
<1>9. QED
  BY <1>1, <1>3, <1>4, <1>5, <1>7, <1>8 DEF UnderwayTypes

\* Also after a step.
LEMMA UnderwayTypeNext == PathTypes' => UnderwayTypes'
<1>1. PathTypes => UnderwayTypes
  BY UnderwayType
<1>2. QED
  BY <1>1, PTL

\* A block is of the next numbers.
LEMMA BlockIsNext ==
    ASSUME received \in Nat
    PROVE  /\ FlattenSeq(Block) = After(received, BlockLen) /\ Len(Block) = BlockLen
           /\ Block \in Seq(Held(received + BlockLen))
<1>1. BlockLen \in Nat \ {0}
  BY DemodAssumption
<1>2. /\ After(received, BlockLen) \in Seq(Nat) /\ Len(After(received, BlockLen)) = BlockLen
      /\ \A i \in 1 .. BlockLen : After(received, BlockLen)[i] = received + i
  BY <1>1 DEF After
<1>3. Block = Singles(After(received, BlockLen))
  BY <1>2 DEF Block, Singles
<1>4. FlattenSeq(Block) = After(received, BlockLen) /\ Len(Block) = BlockLen
  BY <1>2, <1>3, FlattenSingles
<1>5. \A i \in 1 .. BlockLen : <<received + i>> \in Held(received + BlockLen)
  <2>1. SUFFICES ASSUME NEW i \in 1 .. BlockLen
                 PROVE  <<received + i>> \in Held(received + BlockLen)
    OBVIOUS
  <2>2. received + i \in 0 .. received + BlockLen
    BY <1>1
  <2>3. <<received + i>> \in Seq(0 .. received + BlockLen) /\ <<received + i>> # << >>
    BY <2>2
  <2>4. QED
    BY <2>3 DEF Held
<1>6. Block \in Seq(Held(received + BlockLen))
  BY <1>1, <1>5 DEF Block
<1>7. QED
  BY <1>4, <1>6

-----------------------------------------------------------------------------
\* What has been heard is the beginning of what is under way.
LEMMA HeardFollows == PathTypes /\ running /\ Stream => HeardInOrder /\ NothingMissing
<1> SUFFICES ASSUME PathTypes, running, Stream PROVE HeardInOrder /\ NothingMissing
  OBVIOUS
<1>1. /\ received \in Nat /\ since \in Nat
      /\ heard \in Seq(Pairs(received)) /\ now_lpr \in Seq(Pairs(received))
      /\ Waiting \in Seq(Pairs(received)) /\ Ready \in Seq(Pairs(received))
      /\ Numbers(heard) \in Seq(0 .. received) /\ Underway \in Seq(0 .. received)
  BY UnderwayType DEF UnderwayTypes
<1> DEFINE rest == Join(Numbers(Waiting), Join(Numbers(Ready),
                       Join(Numbers(now_lpr), Join(now, Delivered))))
           more == Join(Waiting, Join(Ready, now_lpr))
<1>2. Played = Numbers(heard)
  BY DEF Played, Numbers, Tos
<1>3. rest \in Seq(0 .. received)
  <2>1. \A x, y \in Seq(0 .. received) : Join(x, y) \in Seq(0 .. received)
    BY JoinType
  <2>2. QED
    BY UnderwayType, <2>1 DEF UnderwayTypes
<1>4. more \in Seq(Pairs(received))
  <2>1. \A x, y \in Seq(Pairs(received)) : Join(x, y) \in Seq(Pairs(received))
    BY JoinType
  <2>2. QED
    BY <1>1, <2>1
<1>5. Underway = Played \o rest /\ ToHear = heard \o more
  BY <1>2 DEF Underway, ToHear, Join
<1> HIDE DEF rest, more
<1>6. Played \in Seq(Nat) /\ rest \in Seq(Nat)
  BY <1>1, <1>2, <1>3, SeqGrows
<1>7. InOrder(Played, since) /\ (~lost => Full(Played, since))
  BY <1>1, <1>5, <1>6, Beginning DEF Stream
<1>8. HeardInOrder
  BY <1>7 DEF InOrder, HeardInOrder
<1>9. ~lost => \A i \in 2 .. Len(heard) :
                  New(heard[i - 1].to, since) => heard[i].from = heard[i - 1].to
  <2>1. SUFFICES ASSUME ~lost, NEW i \in 2 .. Len(heard), New(heard[i - 1].to, since)
                 PROVE  heard[i].from = heard[i - 1].to
    OBVIOUS
  <2>2. /\ Len(heard) \in Nat /\ Len(more) \in Nat /\ Len(ToHear) = Len(heard) + Len(more)
        /\ \A j \in 1 .. Len(heard) : ToHear[j] = heard[j]
    BY <1>1, <1>4, <1>5, ConcatType
  <2>3. i \in 2 .. Len(ToHear) /\ ToHear[i] = heard[i] /\ ToHear[i - 1] = heard[i - 1]
    BY <2>2
  <2>4. Linked(ToHear, since)
    BY <2>1 DEF Stream
  <2>5. QED
    BY <2>1, <2>3, <2>4 DEF Linked
<1>10. NothingMissing
  BY <1>7, <1>9 DEF Full, New, NothingMissing
<1>11. QED
  BY <1>8, <1>10

\* Also after a step.
LEMMA HeardFollowsNext ==
    PathTypes' /\ running' /\ Stream' => HeardInOrder' /\ NothingMissing'
<1>1. PathTypes /\ running /\ Stream => HeardInOrder /\ NothingMissing
  BY HeardFollows
<1>2. QED
  BY <1>1, PTL

\* It all holds before the first start.
LEMMA InitPath == PathInit => PathInv
<1> SUFFICES ASSUME PathInit PROVE PathInv
  OBVIOUS
<1> USE DEF PathInit
<1>1. /\ received = 0 /\ lowpassed = << >> /\ now = << >> /\ prev_index = 0 /\ pre = << >>
      /\ now_lpr = << >> /\ prev_lpr_index = 0 /\ result = << >> /\ output_result = << >>
      /\ demod_at = "ended" /\ output_at = "ended"
      /\ do_exit = TRUE /\ since = 0 /\ heard = << >> /\ fresh = {} /\ lost = FALSE
      /\ running = FALSE /\ pipeline = FALSE
  BY DEF DemodInit, Init
<1>2. OutputInv
  BY InitOutputInv
<1>3. \A S : << >> \in Seq(S)
  OBVIOUS
<1>4. PathTypes
  <2>1. 0 \in 0 .. Downsample - 1 /\ 0 \in 0 .. RateOut - 1 /\ 0 \in 0 .. 0
    BY DemodAssumption
  <2>2. TypeOK
    BY <1>1, <1>2 DEF OutputInv, TypeOK
  <2>3. DemodTypes
    BY <1>1, <1>3, <2>1 DEF DemodTypes, Sums
  <2>4. Known
    BY <1>1, <1>3 DEF Known
  <2>5. QED
    BY <1>1, <1>3, <2>1, <2>2, <2>3, <2>4 DEF PathTypes, PathTypeOK
<1>5. Session /\ Stream
  BY <1>1 DEF Session, Stream
<1>6. HeardInOrder /\ NothingMissing
  <2>1. Played = << >>
    <3>1. [i \in 1 .. Len(heard) |-> heard[i].to] = << >>
      BY <1>1
    <3>2. QED
      BY <3>1, FlattenEmpty DEF Played
  <2>2. Len(heard) = 0 /\ Len(Played) = 0
    BY <1>1, <2>1
  <2>3. QED
    BY <2>2 DEF HeardInOrder, NothingMissing
<1>7. QED
  BY <1>2, <1>4, <1>5, <1>6 DEF PathInv

-----------------------------------------------------------------------------
\* Frames stay whole and samples counted: a write is of one sample at least.
LEMMA OutputKept ==
    ASSUME PathInv, [PathNext]_pathVars
    PROVE  OutputInv'
<1>1. OutputInv
  BY DEF PathInv
<1>2. CASE StartCommand
  BY <1>1, <1>2, StateKeeps DEF StartCommand
<1>3. CASE StopCommand
  BY <1>1, <1>3, StateKeeps DEF StopCommand
<1>4. CASE UNCHANGED outputVars
  <2>1. UNCHANGED vars
    BY <1>4 DEF outputVars, vars
  <2>2. QED
    BY <1>1, <2>1, StateKeeps
<1>5. CASE OutputWrite
  <2>1. CASE RadioOutputWrite(Len(output_result))
    <3>1. running
      BY <2>1 DEF RadioOutputWrite, StillExtra, NoExtra, FirstExtra, NeverExtra, Write
    <3>2. output_result # << >> /\ output_result \in Seq(Seq(Pairs(received)))
      BY <1>5, <3>1 DEF PathInv, Session, OutputWrite, PathTypes, Known
    <3>3. Len(output_result) \in Nat \ {0}
      BY <3>2
    <3>4. QED
      BY <1>1, <2>1, <3>3, WriteKeeps
  <2>2. CASE ~ RadioOutputWrite(Len(output_result))
    BY <1>4, <1>5, <2>2 DEF OutputWrite
  <2>3. QED
    BY <2>1, <2>2
<1>6. QED
  BY <1>2, <1>3, <1>4, <1>5 DEF PathNext, RtlFmStop, SignalOutput, Receive, Demodulate, PassOn,
     Skip, OutputWait, pathVars

\* full_demod keeps what is known of its variables.
LEMMA DemodulateKnows ==
    ASSUME PathTypes, FullDemod
    PROVE  /\ Demodulated(received) /\ received' = received /\ received \in Nat /\ pre' \in Sums
<1>1. /\ received \in Nat /\ pre \in Sums /\ lowpassed \in Seq(Held(received))
      /\ now \in Seq(0 .. received) /\ now_lpr \in Seq(Pairs(received))
      /\ prev_index \in 0 .. Downsample - 1 /\ prev_lpr_index \in 0 .. RateOut - 1
  BY DEF PathTypes, PathTypeOK, DemodTypes, Known
<1>2. Demodulated(received)
  BY <1>1, DemodulatesAll
<1>3. pre' \in Sums
  <2>1. pre' = LastOf(lowpassed') /\ lowpassed' \in Seq(Held(received))
    BY <1>2 DEF Demodulated
  <2>2. CASE lowpassed' = << >>
    BY <2>1, <2>2 DEF LastOf, Sums
  <2>3. CASE lowpassed' # << >>
    <3>1. lowpassed'[Len(lowpassed')] \in Held(received)
      BY <2>1, <2>3
    <3>2. Held(received) \subseteq Sums
      BY <1>1, SeqGrows DEF Held, Sums
    <3>3. QED
      BY <2>1, <2>3, <3>1, <3>2 DEF LastOf
  <2>4. QED
    BY <2>2, <2>3
<1>4. QED
  BY <1>1, <1>2, <1>3 DEF FullDemod

\* Types: of the device's block.
LEMMA ReceiveKnows ==
    ASSUME PathTypes, Callback, heard' = heard
    PROVE  received' \in Nat /\ received =< received' /\ Known'
<1>1. /\ received \in Nat /\ received' = received + BlockLen /\ lowpassed' = Block
      /\ UNCHANGED <<now, now_lpr, result, output_result, heard>>
  BY DEF PathTypes, PathTypeOK, DemodTypes, Callback, carryVars
<1>2. received' \in Nat /\ received =< received'
  BY <1>1, DemodAssumption
<1>3. lowpassed' \in Seq(Held(received'))
  BY <1>1, BlockIsNext
<1> DEFINE P == Pairs(received)
           Q == Pairs(received')
<1>4. P \subseteq Q /\ 0 .. received \subseteq 0 .. received'
  BY <1>1, <1>2, NumbersGrow
<1>5. /\ now \in Seq(0 .. received) /\ now_lpr \in Seq(P) /\ heard \in Seq(P)
      /\ result \in Seq(Seq(P)) /\ output_result \in Seq(Seq(P))
  BY DEF PathTypes, Known
<1> HIDE DEF P, Q
<1>6. Seq(P) \subseteq Seq(Q) /\ Seq(0 .. received) \subseteq Seq(0 .. received')
  BY <1>4, SeqGrows
<1>7. Seq(Seq(P)) \subseteq Seq(Seq(Q))
  BY <1>6, SeqGrows
<1>8. QED
  BY <1>1, <1>2, <1>3, <1>5, <1>6, <1>7 DEF Known, Q

\* Each step keeps the types, and what is known of the samples.
LEMMA TypesKept ==
    ASSUME PathInv, [PathNext]_pathVars
    PROVE  PathTypes'
<1>1. OutputInv'
  BY OutputKept
<1>2. PathTypes /\ TypeOK /\ DemodTypes /\ Known /\ PathTypeOK
  BY DEF PathInv, PathTypes, PathTypeOK
<1>3. TypeOK'
  <2>1. pipeline' \in BOOLEAN /\ running' \in BOOLEAN
    BY <1>2 DEF TypeOK, PathNext, pathVars, outputVars, StartCommand, OpenAndStart, Start,
       StopCommand, Stop, RtlFmStop, SignalOutput, Receive, Demodulate, PassOn, Skip,
       OutputWrite, OutputWait, RadioOutputWrite, StillExtra, NoExtra, FirstExtra, NeverExtra,
       Write, stateVars
  <2>2. QED
    BY <1>1, <2>1 DEF OutputInv, TypeOK
<1>4. CASE StartCommand
  <2>1. /\ UNCHANGED <<received, lowpassed, carryVars, result, output_result>>
        /\ demod_at' = "waiting" /\ output_at' = "waiting" /\ do_exit' = FALSE
        /\ since' = received /\ heard' = << >> /\ fresh' = {} /\ lost' = FALSE
    BY <1>4 DEF StartCommand
  <2>2. received \in Nat /\ received \in 0 .. received
    BY <1>2 DEF DemodTypes
  <2>3. DemodTypes'
    BY <1>2, <2>1 DEF DemodTypes, carryVars
  <2>4. \A S : << >> \in Seq(S)
    OBVIOUS
  <2>5. Known'
    BY <1>2, <2>1, <2>4 DEF Known, carryVars
  <2>6. QED
    BY <1>3, <2>1, <2>2, <2>3, <2>4, <2>5 DEF PathTypes, PathTypeOK
<1>5. CASE /\ UNCHANGED <<received, lowpassed, carryVars, result, output_result, since, heard,
                          fresh, lost>>
           /\ do_exit' \in BOOLEAN
           /\ demod_at' \in {"ended", "waiting", "awake", "result"}
           /\ output_at' \in {"ended", "waiting", "awake", "written"}
  <2>1. DemodTypes'
    BY <1>2, <1>5 DEF DemodTypes, carryVars
  <2>2. Known'
    BY <1>2, <1>5 DEF Known, carryVars
  <2>3. QED
    BY <1>2, <1>3, <1>5, <2>1, <2>2 DEF PathTypes, PathTypeOK
<1>6. CASE StopCommand \/ RtlFmStop \/ SignalOutput \/ OutputWait \/ UNCHANGED pathVars
  <2>1. /\ do_exit \in BOOLEAN
        /\ demod_at \in {"ended", "waiting", "awake", "result"}
        /\ output_at \in {"ended", "waiting", "awake", "written"}
    BY <1>2 DEF PathTypeOK, DemodTypes
  <2>2. QED
    BY <1>5, <1>6, <2>1 DEF StopCommand, RtlFmStop, SignalOutput, OutputWait, pathVars, demodVars,
       sessionVars, historyVars, Awakened, Ends
<1>7. CASE Receive
  <2>1. Callback /\ heard' = heard /\ since' = since /\ do_exit' = do_exit
        /\ fresh' = fresh \cup {"lowpassed"} /\ lost' = (lost \/ "lowpassed" \in fresh)
    BY <1>7 DEF Receive, sessionVars
  <2>2. received' \in Nat /\ received =< received' /\ Known'
    BY <1>2, <2>1, ReceiveKnows
  <2>3. DemodTypes'
    <3>1. lowpassed' \in Seq(Sums)
      <4>1. Held(received') \subseteq Sums
        BY <2>2, SeqGrows DEF Held, Sums
      <4>2. QED
        BY <2>2, <4>1, SeqGrows DEF Known
    <3>2. QED
      BY <1>2, <2>1, <2>2, <3>1 DEF DemodTypes, Callback, carryVars, Awakened
  <2>4. since' \in 0 .. received'
    BY <1>2, <2>1, <2>2 DEF PathTypeOK, DemodTypes
  <2>5. QED
    BY <1>2, <1>3, <2>1, <2>2, <2>3, <2>4 DEF PathTypes, PathTypeOK
<1>8. CASE Demodulate
  <2>1. FullDemod /\ fresh' = fresh \ {"lowpassed"}
        /\ UNCHANGED <<do_exit, since, heard, lost>>
    BY <1>8 DEF Demodulate, sessionVars
  <2>2. Demodulated(received) /\ received' = received /\ received \in Nat /\ pre' \in Sums
    BY <1>2, <2>1, DemodulateKnows
  <2>3. Known'
    BY <1>2, <2>1, <2>2 DEF Known, Demodulated, FullDemod
  <2>4. DemodTypes'
    <3>1. Held(received) \subseteq Sums /\ Seq(0 .. received) \subseteq Sums
      BY <2>2, SeqGrows DEF Held, Sums
    <3>2. Pairs(received) \subseteq Angles
      BY <3>1 DEF Pairs, Angles
    <3>3. Seq(Held(received)) \subseteq Seq(Sums) /\ Seq(Pairs(received)) \subseteq Seq(Angles)
      BY <3>1, <3>2, SeqGrows
    <3>4. Seq(Seq(Pairs(received))) \subseteq Seq(Seq(Angles))
      BY <3>3, SeqGrows
    <3>5. lowpassed' \in Seq(Sums) /\ now' \in Sums /\ now_lpr' \in Seq(Angles)
          /\ result' \in Seq(Seq(Angles))
      BY <2>2, <3>1, <3>3, <3>4 DEF Demodulated
    <3>6. QED
      BY <1>2, <2>1, <2>2, <3>5 DEF DemodTypes, Demodulated, FullDemod
  <2>5. QED
    BY <1>2, <1>3, <2>1, <2>2, <2>3, <2>4 DEF PathTypes, PathTypeOK
<1>9. CASE PassOn \/ Skip
  <2>1. /\ UNCHANGED <<received, lowpassed, carryVars, result, do_exit, since, heard>>
        /\ output_result' \in {output_result, result}
        /\ demod_at' \in {"ended", "waiting"}
        /\ output_at' \in {"awake", output_at}
        /\ fresh' \subseteq fresh \cup {"output_result"}
        /\ lost' \in BOOLEAN
    BY <1>2, <1>9 DEF PathTypeOK, PassOn, Skip, DemodPasses, DemodSkips, Ends, Awakened, sessionVars
  <2>2. DemodTypes'
    BY <1>2, <2>1 DEF DemodTypes, carryVars
  <2>3. Known'
    BY <1>2, <2>1 DEF Known, carryVars
  <2>4. QED
    BY <1>2, <1>3, <2>1, <2>2, <2>3 DEF PathTypes, PathTypeOK
<1>10. CASE OutputWrite
  <2>1. /\ UNCHANGED <<received, lowpassed, carryVars, result, demod_at, output_result, do_exit,
                       since, lost>>
        /\ output_at' = "written" /\ fresh' \subseteq fresh
        /\ heard' = heard \/ heard' = heard \o FlattenSeq(output_result)
    BY <1>10 DEF OutputWrite, sessionVars
  <2>2. heard' \in Seq(Pairs(received)) /\ received \in Nat
    <3>1. FlattenSeq(output_result) \in Seq(Pairs(received))
      BY <1>2, FlattenType DEF Known
    <3>2. \A S : \A x, y \in Seq(S) : x \o y \in Seq(S)
      BY ConcatType
    <3>3. QED
      BY <1>2, <2>1, <3>1, <3>2 DEF Known, DemodTypes
  <2>3. heard' \in Seq(Angles)
    <3>1. Held(received) \subseteq Sums
      BY <2>2, SeqGrows DEF Held, Sums
    <3>2. Pairs(received) \subseteq Angles
      BY <3>1 DEF Pairs, Angles
    <3>3. QED
      BY <2>2, <3>2, SeqGrows
  <2>4. DemodTypes'
    BY <1>2, <2>1 DEF DemodTypes, carryVars
  <2>5. Known'
    BY <1>2, <2>1, <2>2 DEF Known, carryVars
  <2>6. QED
    BY <1>2, <1>3, <2>1, <2>3, <2>4, <2>5 DEF PathTypes, PathTypeOK
<1>11. QED
  BY <1>4, <1>6, <1>7, <1>8, <1>9, <1>10 DEF PathNext

\* A sequence that is not empty has a first and a last element.
LEMMA FirstType ==
    ASSUME NEW S, NEW s \in Seq(S), s # << >>
    PROVE  1 \in 1 .. Len(s) /\ s[1] \in S /\ Len(s) \in 1 .. Len(s)
OBVIOUS

\* The handshakes: a thread is awake for something fresh as long as the output runs.
LEMMA SessionKept ==
    ASSUME PathInv, [PathNext]_pathVars
    PROVE  Session'
<1> SUFFICES ASSUME running'
             PROVE  /\ pipeline' /\ ~do_exit' /\ demod_at' # "ended" /\ output_at' # "ended"
                    /\ demod_at' = "awake" => "lowpassed" \in fresh'
                    /\ demod_at' = "result" => result' # << >>
                    /\ output_at' = "awake" => "output_result" \in fresh'
                    /\ "lowpassed" \in fresh' => Len(lowpassed') = BlockLen
                    /\ "output_result" \in fresh' => output_result' # << >>
  BY DEF Session
<1>1. Session /\ PathTypes /\ received \in Nat
  BY DEF PathInv, PathTypes, PathTypeOK, DemodTypes
<1>2. CASE StartCommand
  BY <1>2 DEF StartCommand, OpenAndStart, Start
<1>3. CASE StopCommand
  BY <1>3 DEF StopCommand, Stop
<1>4. CASE RtlFmStop
  BY <1>4 DEF RtlFmStop, outputVars
<1>5. CASE SignalOutput
  BY <1>1, <1>5 DEF SignalOutput, outputVars, Session
<1>6. CASE Receive
  <2>1. Len(lowpassed') = BlockLen
    BY <1>1, <1>6, BlockIsNext DEF Receive, Callback
  <2>2. QED
    BY <1>1, <1>6, <2>1 DEF Receive, Callback, Awakened, outputVars, sessionVars, Session
<1>7. CASE Demodulate
  <2>1. /\ FullDemod /\ demod_at = "awake" /\ demod_at' = "result"
        /\ UNCHANGED <<running, pipeline, do_exit, output_result, output_at>>
        /\ fresh' = fresh \ {"lowpassed"}
    BY <1>7 DEF Demodulate, FullDemod, outputVars, sessionVars
  <2>2. Demodulated(received) /\ Len(lowpassed) = BlockLen
    BY <1>1, <2>1, DemodulateKnows DEF Session
  <2>3. result' # << >>
    BY <2>2 DEF Demodulated
  <2>4. QED
    BY <1>1, <2>1, <2>3 DEF Session
<1>8. CASE PassOn
  BY <1>1, <1>8 DEF PassOn, DemodPasses, Ends, Awakened, outputVars, sessionVars, Session
<1>9. CASE Skip
  BY <1>1, <1>9 DEF Skip, DemodSkips, Ends, outputVars, sessionVars, Session
<1>10. CASE OutputWrite
  <2>1. /\ running' = running /\ pipeline' = pipeline
        /\ UNCHANGED <<lowpassed, result, demod_at, output_result, do_exit>>
        /\ output_at' = "written" /\ fresh' = fresh \ {"output_result"}
    BY <1>10 DEF OutputWrite, outputVars, sessionVars, RadioOutputWrite, StillExtra, NoExtra,
       FirstExtra, NeverExtra, Write, stateVars
  <2>2. QED
    BY <1>1, <2>1 DEF Session
<1>11. CASE OutputWait
  BY <1>1, <1>11 DEF OutputWait, Ends, outputVars, sessionVars, historyVars, Session
<1>12. CASE UNCHANGED pathVars
  BY <1>1, <1>12 DEF pathVars, outputVars, demodVars, sessionVars, historyVars, Session
<1>13. QED
  BY <1>2, <1>3, <1>4, <1>5, <1>6, <1>7, <1>8, <1>9, <1>10, <1>11, <1>12 DEF PathNext

-----------------------------------------------------------------------------
(* The stream.  An action either leaves what is under way as it is, or adds a block at its
   end, or loses a part of it. *)

\* Nothing else of the stream changed.
SameStream ==
    /\ Underway' = Underway /\ ToHear' = ToHear
    /\ UNCHANGED <<running, since, received, lost, pre>>

\* Then all stays true of it.
LEMMA SameStreamKept ==
    ASSUME Stream, SameStream
    PROVE  Stream'
BY DEF Stream, SameStream

\* The steps that only wake a thread or let it wait leave the stream alone.
LEMMA OthersKeepStream ==
    ASSUME PathInv, SignalOutput \/ OutputWait \/ UNCHANGED pathVars, running'
    PROVE  Stream'
<1>1. Session /\ Stream
  BY DEF PathInv
<1>2. UNCHANGED <<received, lowpassed, now, pre, now_lpr, result, output_result, heard, fresh,
                  lost, since, running>>
      /\ (demod_at' = demod_at)
  BY DEF SignalOutput, OutputWait, pathVars, outputVars, demodVars, carryVars, sessionVars,
     historyVars
<1>3. SameStream
  BY <1>2 DEF SameStream, Underway, ToHear, Waiting, Ready, Delivered, Numbers, Tos
<1>4. QED
  BY <1>1, <1>3, SameStreamKept

\* At the start nothing is under way but what the filters carry, all of it of the session before.
LEMMA StartKeepsStream ==
    ASSUME PathInv, PathTypes', StartCommand
    PROVE  Stream'
<1>1. PathTypes /\ received \in Nat
  BY DEF PathInv, PathTypes, PathTypeOK, DemodTypes
<1>2. /\ UNCHANGED <<received, lowpassed, now, pre, now_lpr, result, output_result>>
      /\ demod_at' = "waiting" /\ since' = received /\ heard' = << >> /\ fresh' = {}
      /\ lost' = FALSE
  BY DEF StartCommand, carryVars
<1>3. Underway' \in Seq(0 .. received) /\ now_lpr \in Seq(Pairs(received))
  BY <1>1, <1>2, UnderwayType, UnderwayTypeNext DEF UnderwayTypes
<1>4. ToHear' = now_lpr
  <2>1. Waiting' = << >> /\ Ready' = << >>
    BY <1>2 DEF Waiting, Ready
  <2>2. Join(<< >>, Join(<< >>, Join(<< >>, now_lpr))) = now_lpr
    BY <1>3, JoinEmpty
  <2>3. ToHear' = Join(<< >>, Join(<< >>, Join(<< >>, now_lpr)))
    BY <1>2, <2>1 DEF ToHear
  <2>4. QED
    BY <2>2, <2>3
<1>5. \A i \in 1 .. Len(Underway') : Underway'[i] \in Nat /\ Underway'[i] =< received
  BY <1>1, <1>3
<1>6. InOrder(Underway, since)'
  BY <1>1, <1>2, <1>5 DEF InOrder
<1>7. Full(Underway, since)'
  BY <1>1, <1>2, <1>5 DEF Full
<1>8. Reaches(Underway, since, received)'
  BY <1>1, <1>2 DEF Reaches
<1>9. \A i \in 1 .. Len(now_lpr) : ~ New(now_lpr[i].to, received)
  <2>1. SUFFICES ASSUME NEW i \in 1 .. Len(now_lpr) PROVE ~ New(now_lpr[i].to, received)
    OBVIOUS
  <2>2. now_lpr[i] \in Pairs(received)
    BY <1>3
  <2>3. now_lpr[i].to \in Seq(0 .. received) /\ now_lpr[i].to # << >>
    BY <2>2 DEF Pairs, Held
  <2>4. 1 \in 1 .. Len(now_lpr[i].to) /\ now_lpr[i].to[1] \in 0 .. received
    BY <2>3, FirstType
  <2>5. QED
    BY <1>1, <2>4 DEF New
<1>10. Linked(ToHear, since)'
  <2>1. \A i \in 2 .. Len(now_lpr) : i - 1 \in 1 .. Len(now_lpr)
    BY <1>3
  <2>2. Linked(now_lpr, received)
    BY <1>9, <2>1 DEF Linked
  <2>3. QED
    BY <1>2, <1>4, <2>2
<1>11. Continues(ToHear, since, pre)'
  <2>1. now_lpr # << >> => Len(now_lpr) \in 1 .. Len(now_lpr)
    BY <1>3
  <2>2. Continues(now_lpr, received, pre)
    BY <1>9, <2>1 DEF Continues
  <2>3. QED
    BY <1>2, <1>4, <2>2
<1>12. QED
  BY <1>6, <1>7, <1>8, <1>10, <1>11 DEF Stream

\* What is under way, as sequences of numbers.
LEMMA UnderwayNumbers ==
    ASSUME UnderwayTypes
    PROVE  /\ Numbers(heard) \in Seq(Nat) /\ Numbers(Waiting) \in Seq(Nat)
           /\ Numbers(Ready) \in Seq(Nat) /\ Numbers(now_lpr) \in Seq(Nat)
           /\ now \in Seq(Nat) /\ Delivered \in Seq(Nat)
           /\ since \in Nat
<1>1. Seq(0 .. received) \subseteq Seq(Nat)
  <2>1. 0 .. received \subseteq Nat
    OBVIOUS
  <2>2. QED
    BY <2>1, SeqGrows
<1>2. since \in Nat
  BY DEF UnderwayTypes
<1>3. QED
  BY <1>1, <1>2 DEF UnderwayTypes

\* The last of several parts may be taken apart from those before.
LEMMA Regrouped ==
    ASSUME NEW S, NEW a \in Seq(S), NEW b \in Seq(S), NEW c \in Seq(S), NEW d \in Seq(S),
           NEW e \in Seq(S), NEW f \in Seq(S)
    PROVE  Join(a, Join(b, Join(c, Join(d, Join(e, f)))))
               = Join(Join(a, Join(b, Join(c, Join(d, e)))), f)
<1>1. Join(Join(d, e), f) = Join(d, Join(e, f)) /\ Join(d, e) \in Seq(S)
  BY JoinType, JoinAssoc
<1>2. /\ Join(Join(c, Join(d, e)), f) = Join(c, Join(Join(d, e), f))
      /\ Join(c, Join(d, e)) \in Seq(S)
  BY <1>1, JoinType, JoinAssoc
<1>3. /\ Join(Join(b, Join(c, Join(d, e))), f) = Join(b, Join(Join(c, Join(d, e)), f))
      /\ Join(b, Join(c, Join(d, e))) \in Seq(S)
  BY <1>2, JoinType, JoinAssoc
<1>4. Join(Join(a, Join(b, Join(c, Join(d, e)))), f)
          = Join(a, Join(Join(b, Join(c, Join(d, e))), f))
  BY <1>3, JoinAssoc
<1>5. QED
  BY <1>1, <1>2, <1>3, <1>4

\* rtlsdr_callback adds a block, and may lose the one before.
LEMMA ReceiveKeepsStream ==
    ASSUME PathInv, Receive, running'
    PROVE  Stream'
<1>1. Session /\ Stream /\ PathTypes /\ UnderwayTypes
  BY UnderwayType DEF PathInv
<1>2. /\ received' = received + BlockLen /\ lowpassed' = Block
      /\ UNCHANGED <<now, pre, now_lpr, result, output_result, heard, since, running>>
      /\ lost' = (lost \/ "lowpassed" \in fresh) /\ fresh' = fresh \cup {"lowpassed"}
      /\ (demod_at' = "result" <=> demod_at = "result")
  BY DEF Receive, Callback, carryVars, outputVars, sessionVars, Awakened
<1>3. received \in Nat /\ since \in Nat /\ BlockLen \in Nat
  BY <1>1, DemodAssumption DEF UnderwayTypes
<1> DEFINE S == Seq(0 .. received)
           P == Join(Numbers(heard), Join(Numbers(Waiting), Join(Numbers(Ready),
                    Join(Numbers(now_lpr), now))))
           B == After(received, BlockLen)
<1>4. /\ Numbers(heard) \in S /\ Numbers(Waiting) \in S /\ Numbers(Ready) \in S
      /\ Numbers(now_lpr) \in S /\ now \in S /\ Delivered \in S
  BY <1>1 DEF UnderwayTypes
<1>5. P \in S
  <2>1. \A x, y \in S : Join(x, y) \in S
    BY JoinType
  <2>2. QED
    BY <1>4, <2>1
<1>6. Underway = Join(P, Delivered)
  BY <1>4, Regrouped DEF Underway
<1>7. Waiting' = Waiting /\ Ready' = Ready /\ ToHear' = ToHear
  BY <1>2 DEF Waiting, Ready, ToHear
<1>8. Underway' = Join(P, B)
  <2>1. Delivered' = B
    BY <1>2, <1>3, BlockIsNext DEF Delivered
  <2>2. Underway' = Join(Numbers(heard), Join(Numbers(Waiting), Join(Numbers(Ready),
                        Join(Numbers(now_lpr), Join(now, B)))))
    BY <1>2, <1>7, <2>1 DEF Underway, Numbers, Tos
  <2>3. /\ Numbers(heard) \in Seq(Nat) /\ Numbers(Waiting) \in Seq(Nat)
        /\ Numbers(Ready) \in Seq(Nat) /\ Numbers(now_lpr) \in Seq(Nat)
        /\ now \in Seq(Nat)
    BY <1>1, UnderwayNumbers
  <2>4. B \in Seq(Nat)
    BY <1>3 DEF After
  <2>5. QED
    BY <2>2, <2>3, <2>4, Regrouped
<1> HIDE DEF P, B
<1>9. InOrder(Underway', since)
  <2>1. InOrder(P \o Delivered, since)
    BY <1>1, <1>2, <1>6 DEF Stream, Join
  <2>2. P \in Seq(Nat) /\ Delivered \in Seq(Nat)
    BY <1>3, <1>4, <1>5
  <2>3. InOrder(P, since)
    BY <1>3, <2>1, <2>2, Beginning
  <2>4. QED
    BY <1>3, <1>5, <1>8, <2>3, Extended DEF B, Join
<1>10. ASSUME ~lost'
       PROVE  Full(Underway', since) /\ Reaches(Underway', since, received')
  <2>1. ~lost /\ Delivered = << >>
    BY <1>2, <1>10 DEF Delivered
  <2>2. Underway = P
    BY <1>5, <1>6, <2>1, JoinEmpty
  <2>3. Full(P, since) /\ Reaches(P, since, received)
    BY <1>1, <1>2, <2>1, <2>2 DEF Stream
  <2>4. QED
    BY <1>2, <1>3, <1>5, <1>8, <2>3, Extended DEF B, Join
<1>11. ASSUME ~lost'
       PROVE  Linked(ToHear', since) /\ Continues(ToHear', since, pre)
  BY <1>1, <1>2, <1>7, <1>11 DEF Stream
<1>12. QED
  BY <1>2, <1>9, <1>10, <1>11 DEF Stream

\* In a scan noise is lost.
LEMMA SkipKeepsStream ==
    ASSUME PathInv, Skip, running'
    PROVE  Stream'
<1>1. Session /\ Stream /\ PathTypes /\ UnderwayTypes
  BY UnderwayType DEF PathInv
<1>2. /\ UNCHANGED <<received, lowpassed, now, pre, now_lpr, result, output_result, heard, since,
                     running, fresh>>
      /\ lost' = TRUE /\ demod_at' # "result"
  BY DEF Skip, DemodSkips, Ends, carryVars, outputVars, sessionVars
<1> DEFINE S == Seq(Nat)
           rest == Join(Numbers(now_lpr), Join(now, Delivered))
           a == Join(Numbers(heard), Numbers(Waiting))
<1>3. /\ Numbers(heard) \in S /\ Numbers(Waiting) \in S /\ Numbers(Ready) \in S /\ since \in Nat
      /\ Numbers(now_lpr) \in S /\ now \in S /\ Delivered \in S
  BY <1>1, UnderwayNumbers DEF UnderwayTypes
<1>4. \A x, y \in S : Join(x, y) \in S
  BY JoinType
<1>5. \A x, y, z \in S : Join(Join(x, y), z) = Join(x, Join(y, z))
  BY JoinAssoc
<1>6. rest \in S /\ a \in S
  BY <1>3, <1>4
<1>7. Underway = Join(a, Join(Numbers(Ready), rest))
  <2>1. Underway = Join(Numbers(heard), Join(Numbers(Waiting), Join(Numbers(Ready), rest)))
    BY DEF Underway
  <2>2. Join(Numbers(Ready), rest) \in S
    BY <1>3, <1>4, <1>6
  <2>3. QED
    BY <1>3, <1>5, <2>1, <2>2
<1>8. Underway' = Join(a, rest)
  <2>1. Ready' = << >> /\ Waiting' = Waiting /\ Delivered' = Delivered
    BY <1>2 DEF Ready, Waiting, Delivered
  <2>2. Numbers(Ready)' = << >>
    BY <2>1, NumbersEmpty DEF Numbers, Tos
  <2>3. Underway' = Join(Numbers(heard), Join(Numbers(Waiting), Join(<< >>, rest)))
    BY <1>2, <2>1, <2>2 DEF Underway, Numbers, Tos
  <2>4. Join(<< >>, rest) = rest
    BY <1>6, JoinEmpty
  <2>5. QED
    BY <1>3, <1>5, <1>6, <2>3, <2>4
<1> HIDE DEF a, rest
<1>9. InOrder(a \o (Numbers(Ready) \o rest), since)
  BY <1>1, <1>2, <1>7 DEF Stream, Join
<1>10. InOrder(Join(a, rest), since)
  BY <1>3, <1>6, <1>9, OrderWithout DEF Join
<1>11. QED
  BY <1>2, <1>8, <1>10 DEF Stream

\* The result waits to be written, and may take the place of one that does.
LEMMA PassOnKeepsStream ==
    ASSUME PathInv, PassOn, running'
    PROVE  Stream'
<1>1. Session /\ Stream /\ PathTypes /\ UnderwayTypes
  BY UnderwayType DEF PathInv
<1>2. /\ UNCHANGED <<received, lowpassed, now, pre, now_lpr, result, heard, since, running>>
      /\ output_result' = result /\ demod_at = "result" /\ demod_at' # "result"
      /\ lost' = (lost \/ "output_result" \in fresh) /\ fresh' = fresh \cup {"output_result"}
  BY DEF PassOn, DemodPasses, Ends, carryVars, outputVars, sessionVars
<1> DEFINE S == Seq(Nat)
           rest == Join(Numbers(now_lpr), Join(now, Delivered))
<1>3. /\ Numbers(heard) \in S /\ Numbers(Waiting) \in S /\ Numbers(Ready) \in S /\ since \in Nat
      /\ Numbers(now_lpr) \in S /\ now \in S /\ Delivered \in S
      /\ Ready \in Seq(Pairs(received)) /\ now_lpr \in Seq(Pairs(received))
  BY <1>1, UnderwayNumbers DEF UnderwayTypes
<1>4. \A x, y \in S : Join(x, y) \in S
  BY JoinType
<1>5. rest \in S /\ Join(Numbers(Ready), rest) \in S
  BY <1>3, <1>4
<1>6. Waiting' = Ready /\ Ready' = << >> /\ Delivered' = Delivered
  BY <1>2 DEF Ready, Waiting, Delivered
<1>7. Underway' = Join(Numbers(heard), Join(Numbers(Ready), rest))
  <2>1. Numbers(Ready)' = << >> /\ Numbers(Waiting)' = Numbers(Ready)
    BY <1>6, NumbersEmpty DEF Numbers, Tos
  <2>2. Underway' = Join(Numbers(heard), Join(Numbers(Ready), Join(<< >>, rest)))
    BY <1>2, <1>6, <2>1 DEF Underway, Numbers, Tos
  <2>3. Join(<< >>, rest) = rest
    BY <1>5, JoinEmpty
  <2>4. QED
    BY <2>2, <2>3
<1>8. Underway = Join(Numbers(heard), Join(Numbers(Waiting), Join(Numbers(Ready), rest)))
  BY DEF Underway
<1> HIDE DEF rest
<1>9. CASE "output_result" \in fresh
  <2>1. InOrder(Numbers(heard) \o (Numbers(Waiting) \o (Numbers(Ready) \o rest)), since)
    BY <1>1, <1>2, <1>8 DEF Stream, Join
  <2>2. InOrder(Underway', since)
    BY <1>3, <1>5, <1>7, <2>1, OrderWithout DEF Join
  <2>3. QED
    BY <1>2, <1>9, <2>2 DEF Stream
<1>10. CASE "output_result" \notin fresh
  <2>1. Waiting = << >> /\ Numbers(Waiting) = << >>
    BY <1>10, NumbersEmpty DEF Waiting
  <2>2. Underway' = Underway
    <3>1. Join(<< >>, Join(Numbers(Ready), rest)) = Join(Numbers(Ready), rest)
      BY <1>5, JoinEmpty
    <3>2. QED
      BY <1>7, <1>8, <2>1, <3>1
  <2>3. ToHear' = ToHear
    <3>1. ToHear = Join(heard, Join(<< >>, Join(Ready, now_lpr)))
      BY <2>1 DEF ToHear
    <3>2. ToHear' = Join(heard, Join(Ready, Join(<< >>, now_lpr)))
      BY <1>2, <1>6 DEF ToHear
    <3>3. Join(Ready, now_lpr) \in Seq(Pairs(received))
      BY <1>3, JoinType
    <3>4. /\ Join(<< >>, now_lpr) = now_lpr
          /\ Join(<< >>, Join(Ready, now_lpr)) = Join(Ready, now_lpr)
      BY <1>3, <3>3, JoinEmpty
    <3>5. QED
      BY <3>1, <3>2, <3>4
  <2>4. SameStream
    <3>1. lost \in BOOLEAN
      BY <1>1 DEF PathTypes, PathTypeOK
    <3>2. lost' = lost
      BY <1>2, <1>10, <3>1
    <3>3. QED
      BY <1>2, <2>2, <2>3, <3>2 DEF SameStream
  <2>5. QED
    BY <1>1, <2>4, SameStreamKept
<1>11. QED
  BY <1>9, <1>10

\* What is written leaves the threads and has been heard.
LEMMA OutputWriteKeepsStream ==
    ASSUME PathInv, OutputWrite, running'
    PROVE  Stream'
<1>1. Session /\ Stream /\ PathTypes /\ UnderwayTypes
  BY UnderwayType DEF PathInv
<1>2. /\ UNCHANGED <<received, lowpassed, now, pre, now_lpr, result, output_result, since, lost,
                     demod_at, running>>
      /\ output_at = "awake" /\ fresh' = fresh \ {"output_result"}
      /\ heard' = heard \o FlattenSeq(output_result)
  BY DEF OutputWrite, carryVars, outputVars, sessionVars, RadioOutputWrite, StillExtra, NoExtra,
     FirstExtra, NeverExtra, Write, stateVars
<1>3. /\ heard' = Join(heard, Waiting) /\ Waiting' = << >>
      /\ Ready' = Ready /\ Delivered' = Delivered
  BY <1>1, <1>2 DEF Session, Waiting, Ready, Delivered, Join
<1> DEFINE Q == Seq(Pairs(received))
           S == Seq(Nat)
           rest == Join(Numbers(Ready), Join(Numbers(now_lpr), Join(now, Delivered)))
<1>4. /\ heard \in Q /\ Waiting \in Q /\ Ready \in Q /\ now_lpr \in Q /\ received \in Nat
      /\ Numbers(heard) \in S /\ Numbers(Waiting) \in S /\ Numbers(Ready) \in S
      /\ Numbers(now_lpr) \in S /\ now \in S /\ Delivered \in S
  BY <1>1, UnderwayNumbers DEF UnderwayTypes
<1>5. ToHear' = ToHear
  <2>1. Join(Ready, now_lpr) \in Q
    BY <1>4, JoinType
  <2>2. ToHear' = Join(Join(heard, Waiting), Join(<< >>, Join(Ready, now_lpr)))
    BY <1>2, <1>3 DEF ToHear
  <2>3. Join(<< >>, Join(Ready, now_lpr)) = Join(Ready, now_lpr)
    BY <2>1, JoinEmpty
  <2>4. Join(Join(heard, Waiting), Join(Ready, now_lpr))
            = Join(heard, Join(Waiting, Join(Ready, now_lpr)))
    BY <1>4, <2>1, JoinAssoc
  <2>5. QED
    BY <2>2, <2>3, <2>4 DEF ToHear
<1>6. Underway' = Underway
  <2>1. \A x, y \in S : Join(x, y) \in S
    BY JoinType
  <2>2. rest \in S
    BY <1>4, <2>1
  <2>3. Numbers(heard)' = Join(Numbers(heard), Numbers(Waiting))
    <3>1. Numbers(Join(heard, Waiting)) = Join(Numbers(heard), Numbers(Waiting))
      BY <1>4, NumbersConcat DEF Join
    <3>2. QED
      BY <1>3, <3>1 DEF Numbers, Tos
  <2>4. Numbers(Waiting)' = << >>
    BY <1>3, NumbersEmpty DEF Numbers, Tos
  <2>5. Underway' = Join(Join(Numbers(heard), Numbers(Waiting)), Join(<< >>, rest))
    BY <1>2, <1>3, <2>3, <2>4 DEF Underway, Numbers, Tos
  <2>6. Underway = Join(Numbers(heard), Join(Numbers(Waiting), rest))
    BY DEF Underway
  <2> HIDE DEF rest
  <2>7. Join(<< >>, rest) = rest
    BY <2>2, JoinEmpty
  <2>8. Join(Join(Numbers(heard), Numbers(Waiting)), rest)
            = Join(Numbers(heard), Join(Numbers(Waiting), rest))
    BY <1>4, <2>2, JoinAssoc
  <2>9. QED
    BY <2>5, <2>6, <2>7, <2>8
<1>7. SameStream
  BY <1>2, <1>5, <1>6 DEF SameStream
<1>8. QED
  BY <1>1, <1>7, SameStreamKept

\* What is added to be heard goes on where it ended.
LEMMA LinksGoOn ==
    ASSUME NEW r \in Nat, NEW m \in Nat, NEW ps \in Seq(Pairs(r)), pre \in Sums,
           NEW lp \in Seq(Held(r)), lp # << >>,
           Linked(ps, m), Continues(ps, m, pre)
    PROVE  /\ Linked(Join(ps, Discriminator(lp)), m)
           /\ Continues(Join(ps, Discriminator(lp)), m, LastOf(lp))
<1> DEFINE d == Discriminator(lp)
           qs == Join(ps, d)
           l == Len(ps)
           n == Len(lp)
<1>1. /\ d \in Seq(Pairs(r)) /\ Len(d) = n
      /\ \A i \in 1 .. n :
            d[i] = [from |-> IF i = 1 THEN pre ELSE lp[i - 1], to |-> lp[i]]
  BY Discriminated
<1>2. l \in Nat /\ n \in Nat /\ n # 0
  OBVIOUS
<1>3. ASSUME NEW i \in 1 .. n
      PROVE  d[i].to = lp[i] /\ (i = 1 => d[i].from = pre) /\ (i # 1 => d[i].from = lp[i - 1])
  <2>1. d[i] = [from |-> IF i = 1 THEN pre ELSE lp[i - 1], to |-> lp[i]]
    BY <1>1
  <2>2. \A x, y : [from |-> x, to |-> y].to = y /\ [from |-> x, to |-> y].from = x
    OBVIOUS
  <2>3. d[i].to = lp[i] /\ d[i].from = IF i = 1 THEN pre ELSE lp[i - 1]
    BY <2>1, <2>2
  <2>4. QED
    BY <2>3
<1> HIDE DEF d
<1>4. /\ Len(qs) = l + n
      /\ \A i \in 1 .. l : qs[i] = ps[i]
      /\ \A i \in 1 .. n : qs[l + i] = d[i]
  <2>1. \A x, y \in Seq(Pairs(r)) :
           /\ Len(x \o y) = Len(x) + Len(y)
           /\ \A i \in 1 .. Len(x) : (x \o y)[i] = x[i]
           /\ \A i \in 1 .. Len(y) : (x \o y)[Len(x) + i] = y[i]
    BY ConcatType
  <2>2. /\ Len(ps \o d) = Len(ps) + Len(d)
        /\ \A i \in 1 .. Len(ps) : (ps \o d)[i] = ps[i]
        /\ \A i \in 1 .. Len(d) : (ps \o d)[Len(ps) + i] = d[i]
    BY <1>1, <2>1
  <2>3. qs = ps \o d
    BY DEF Join
  <2> HIDE DEF qs
  <2>4. QED
    BY <1>1, <2>2, <2>3
<1> HIDE DEF qs, l, n
<1>5. ASSUME NEW i \in 2 .. l + n, New(qs[i - 1].to, m)
      PROVE  qs[i].from = qs[i - 1].to
  <2>1. CASE i =< l
    <3>1. i \in 2 .. l /\ i \in 1 .. l /\ i - 1 \in 1 .. l
      BY <1>2, <2>1
    <3>2. qs[i] = ps[i] /\ qs[i - 1] = ps[i - 1]
      BY <1>4, <3>1
    <3>3. QED
      BY <1>5, <3>1, <3>2 DEF Linked, l
  <2>2. CASE i = l + 1
    <3>1. qs[i] = d[1] /\ d[1].from = pre
      BY <1>2, <1>3, <1>4, <2>2
    <3>2. l \in 1 .. l /\ i - 1 = l /\ qs[i - 1] = ps[l]
      BY <1>2, <1>4, <2>2
    <3>3. ps # << >> /\ New(ps[l].to, m)
      BY <1>5, <3>2 DEF l
    <3>4. pre = ps[l].to
      BY <3>3 DEF Continues, l
    <3>5. QED
      BY <3>1, <3>2, <3>4
  <2>3. CASE i > l + 1
    <3>1. i - l \in 1 .. n /\ i - l # 1 /\ (i - l) - 1 \in 1 .. n
          /\ l + (i - l) = i /\ l + ((i - l) - 1) = i - 1
      BY <1>2, <2>3
    <3>2. qs[i] = d[i - l] /\ qs[i - 1] = d[(i - l) - 1]
      BY <1>4, <3>1
    <3>3. d[i - l].from = lp[(i - l) - 1] /\ d[(i - l) - 1].to = lp[(i - l) - 1]
      BY <1>3, <3>1
    <3>4. QED
      BY <3>2, <3>3
  <2>4. QED
    BY <1>2, <2>1, <2>2, <2>3
<1>6. Linked(qs, m)
  BY <1>4, <1>5 DEF Linked
<1>7. qs[Len(qs)].to = lp[n]
  <2>1. n \in 1 .. n
    BY <1>2
  <2>2. qs[l + n] = d[n] /\ d[n].to = lp[n]
    BY <1>3, <1>4, <2>1
  <2>3. QED
    BY <1>4, <2>2
<1>8. LastOf(lp) = lp[n]
  BY DEF LastOf, n
<1>9. Continues(qs, m, LastOf(lp))
  BY <1>7, <1>8 DEF Continues
<1>10. QED
  BY <1>6, <1>9 DEF qs, d

\* full_demod moves the samples on; what it adds to be heard continues what was there.
LEMMA DemodulateKeepsStream ==
    ASSUME PathInv, Demodulate, running'
    PROVE  Stream'
<1>1. Session /\ Stream /\ PathTypes /\ UnderwayTypes
  BY UnderwayType DEF PathInv
<1>2. /\ FullDemod /\ demod_at = "awake" /\ demod_at' = "result"
      /\ UNCHANGED <<received, output_result, heard, since, lost, running>>
      /\ fresh' = fresh \ {"lowpassed"}
  BY DEF Demodulate, FullDemod, outputVars, sessionVars
<1>3. received \in Nat /\ pre \in Sums /\ since \in Nat
      /\ lowpassed \in Seq(Held(received))
  BY <1>1 DEF PathTypes, PathTypeOK, DemodTypes, Known
<1>4. "lowpassed" \in fresh /\ Len(lowpassed) = BlockLen
  BY <1>1, <1>2 DEF Session
<1> DEFINE lp == lowpassed'
           d == Discriminator(lp)
           Q == Seq(Pairs(received))
           S == Seq(0 .. received)
<1>5. /\ lp \in Seq(Held(received)) /\ lp # << >> /\ pre' = LastOf(lp)
      /\ result' \in Seq(Q) /\ now_lpr' \in Q /\ now' \in S
      /\ FlattenSeq(lp) \o now' = now \o FlattenSeq(lowpassed)
      /\ FlattenSeq(result') \o now_lpr' = now_lpr \o d
  BY <1>1, <1>2, <1>4, DemodulateKnows DEF Demodulated
<1>6. d \in Q /\ Tos(d) = lp
  BY <1>3, <1>5, Discriminated
<1>7. /\ Waiting' = Waiting /\ Ready = << >> /\ Ready' = FlattenSeq(result')
      /\ Delivered = FlattenSeq(lowpassed) /\ Delivered' = << >>
  BY <1>2, <1>4 DEF Waiting, Ready, Delivered
<1>8. /\ heard \in Q /\ Waiting \in Q /\ now_lpr \in Q
      /\ Numbers(heard) \in S /\ Numbers(Waiting) \in S /\ Numbers(now_lpr) \in S
      /\ now \in S /\ Delivered \in S
  BY <1>1 DEF UnderwayTypes
<1>9. Join(FlattenSeq(lp), now') = Join(now, Delivered)
  BY <1>5, <1>7 DEF Join
<1>10. Ready' \in Q /\ Join(Ready', now_lpr') = Join(now_lpr, d)
  BY <1>5, <1>7, FlattenType DEF Join
<1>11. Numbers(d) = FlattenSeq(lp) /\ Numbers(d) \in S
  BY <1>3, <1>6, NumbersType DEF Numbers
<1> HIDE DEF lp, d, Q, S
<1>12. ToHear' = Join(ToHear, d)
  <2>1. ToHear' = Join(heard, Join(Waiting, Join(now_lpr, d)))
    BY <1>2, <1>7, <1>10 DEF ToHear
  <2>2. ToHear = Join(heard, Join(Waiting, now_lpr))
    <3>1. Join(<< >>, now_lpr) = now_lpr
      BY <1>8, JoinEmpty DEF Q
    <3>2. QED
      BY <1>7, <3>1 DEF ToHear
  <2>3. Join(Waiting, Join(now_lpr, d)) = Join(Join(Waiting, now_lpr), d)
    BY <1>6, <1>8, JoinAssoc DEF Q
  <2>4. Join(Waiting, now_lpr) \in Q
    BY <1>8, JoinType DEF Q
  <2>5. Join(heard, Join(Join(Waiting, now_lpr), d)) = Join(Join(heard, Join(Waiting, now_lpr)), d)
    BY <1>6, <1>8, <2>4, JoinAssoc DEF Q
  <2>6. QED
    BY <2>1, <2>2, <2>3, <2>5
<1>13. Underway' = Underway
  <2> DEFINE R == Numbers(Ready')
             L == Numbers(now_lpr')
             N == Numbers(now_lpr)
  <2>1. R \in S /\ L \in S /\ N \in S /\ now' \in S
    BY <1>3, <1>5, <1>8, <1>10, NumbersType DEF Q, S
  <2>2. Join(R, L) = Join(N, Numbers(d))
    <3>1. Numbers(Join(Ready', now_lpr')) = Join(R, L)
      BY <1>3, <1>5, <1>10, NumbersConcat DEF Join, Q
    <3>2. Numbers(Join(now_lpr, d)) = Join(N, Numbers(d))
      BY <1>3, <1>6, <1>8, NumbersConcat DEF Join, Q
    <3>3. QED
      BY <1>10, <3>1, <3>2
  <2>3. Underway' = Join(Numbers(heard), Join(Numbers(Waiting),
                        Join(R, Join(L, Join(now', << >>)))))
    BY <1>2, <1>7 DEF Underway, Numbers, Tos
  <2>4. Underway = Join(Numbers(heard), Join(Numbers(Waiting), Join(N, Join(now, Delivered))))
    <3>1. Numbers(Ready) = << >>
      BY <1>7, NumbersEmpty
    <3>2. Join(N, Join(now, Delivered)) \in S
      BY <1>8, <2>1, JoinType DEF S
    <3>3. Join(<< >>, Join(N, Join(now, Delivered))) = Join(N, Join(now, Delivered))
      BY <3>2, JoinEmpty DEF S
    <3>4. QED
      BY <3>1, <3>3 DEF Underway
  <2> HIDE DEF R, L, N
  <2>5. Join(now', << >>) = now'
    BY <2>1, JoinEmpty DEF S
  <2>6. Join(R, Join(L, now')) = Join(Join(R, L), now')
    BY <2>1, JoinAssoc DEF S
  <2>7. Join(Join(N, Numbers(d)), now') = Join(N, Join(Numbers(d), now'))
    BY <1>11, <2>1, JoinAssoc DEF S
  <2>8. Join(Numbers(d), now') = Join(now, Delivered)
    BY <1>9, <1>11
  <2>9. QED
    BY <2>2, <2>3, <2>4, <2>5, <2>6, <2>7, <2>8
<1>14. ASSUME ~lost
       PROVE  Linked(ToHear', since) /\ Continues(ToHear', since, pre')
  <2>1. Linked(ToHear, since) /\ Continues(ToHear, since, pre)
    BY <1>1, <1>2, <1>14 DEF Stream
  <2>2. ToHear \in Seq(Pairs(received))
    BY <1>1 DEF UnderwayTypes
  <2>3. Linked(Join(ToHear, d), since) /\ Continues(Join(ToHear, d), since, LastOf(lp))
    BY <1>3, <1>5, <2>1, <2>2, LinksGoOn DEF d
  <2>4. QED
    BY <1>5, <1>12, <2>3
<1>15. QED
  BY <1>1, <1>2, <1>13, <1>14 DEF Stream

\* So every step keeps the stream as it should be.
LEMMA StreamKept ==
    ASSUME PathInv, [PathNext]_pathVars, PathTypes'
    PROVE  Stream'
<1>1. CASE ~ running'
  BY <1>1 DEF Stream
<1>2. CASE running'
  <2>1. CASE StopCommand \/ RtlFmStop
    BY <1>2, <2>1 DEF StopCommand, RtlFmStop, Stop, outputVars
  <2>2. QED
    BY <1>2, <2>1, OthersKeepStream, StartKeepsStream, ReceiveKeepsStream, SkipKeepsStream,
       PassOnKeepsStream, OutputWriteKeepsStream, DemodulateKeepsStream DEF PathNext
<1>3. QED
  BY <1>1, <1>2

\* While the output runs what is heard follows from the stream; otherwise it stays.
LEMMA HeardKept ==
    ASSUME PathInv, [PathNext]_pathVars, PathTypes', Stream'
    PROVE  HeardInOrder' /\ NothingMissing'
<1>1. CASE running'
  BY <1>1, HeardFollowsNext
<1>2. CASE ~ running'
  <2>1. UNCHANGED <<heard, since>> /\ (lost => lost')
    BY <1>2 DEF PathInv, PathTypes, PathTypeOK, PathNext, pathVars, historyVars, sessionVars,
       StartCommand, OpenAndStart, Start, StopCommand, RtlFmStop, SignalOutput, Receive,
       Demodulate, PassOn, Skip, OutputWrite, OutputWait, outputVars, RadioOutputWrite,
       StillExtra, NoExtra, FirstExtra, NeverExtra, Write, stateVars
  <2>2. Played' = Played
    BY <2>1 DEF Played
  <2>3. HeardInOrder /\ NothingMissing
    BY DEF PathInv
  <2>4. QED
    BY <2>1, <2>2, <2>3 DEF HeardInOrder, NothingMissing
<1>3. QED
  BY <1>1, <1>2

\* PathInv is inductive.
LEMMA PathInvariant == PathSpec => []PathInv
<1>1. ASSUME PathInv, [PathNext]_pathVars
      PROVE  PathInv'
  <2>1. OutputInv'
    BY <1>1, OutputKept
  <2>2. PathTypes'
    BY <1>1, TypesKept
  <2>3. Session'
    BY <1>1, SessionKept
  <2>4. Stream'
    BY <1>1, <2>2, StreamKept
  <2>5. HeardInOrder' /\ NothingMissing'
    BY <1>1, <2>2, <2>4, HeardKept
  <2>6. QED
    BY <2>1, <2>2, <2>3, <2>4, <2>5 DEF PathInv
<1>2. QED
  BY InitPath, <1>1, PTL DEF PathSpec

\* Every variable of the audio path keeps its type, for every block length and all rates.
THEOREM PathIsTyped == PathSpec => []PathTypeOK
<1>1. PathInv => PathTypeOK
  BY DEF PathInv, PathTypes
<1>2. QED
  BY <1>1, PathInvariant, PTL

\* Whatever the threads overwrite, and however often the radio is started and stopped: no
\* sample of the device is played twice or before an earlier one.
THEOREM PlayedInOrder == PathSpec => []HeardInOrder
<1>1. PathInv => HeardInOrder
  BY DEF PathInv
<1>2. QED
  BY <1>1, PathInvariant, PTL

\* As long as the threads keep up, every sample received is played in its place, and each
\* comparison is of neighbours, across the blocks' ends as inside them.
THEOREM PlayedWithoutGaps == PathSpec => []NothingMissing
<1>1. PathInv => NothingMissing
  BY DEF PathInv
<1>2. QED
  BY <1>1, PathInvariant, PTL

\* And of what is played the pipeline is given whole frames, and as many samples.
THEOREM PathKeepsFrames == PathSpec => [](WholeFrames /\ CountKept)
<1>1. PathInv => WholeFrames /\ CountKept
  BY DEF PathInv, OutputInv
<1>2. QED
  BY <1>1, PathInvariant, PTL

=============================================================================
