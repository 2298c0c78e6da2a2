------------------------- MODULE StatusEvents_proofs -------------------------
(***************************************************************************)
(* The status streams are complete for any number of clients and of        *)
(* threads that send events, whoever cancels and whenever the service      *)
(* shuts down.                                                             *)
(***************************************************************************)
EXTENDS StatusEvents, TLAPS

\* One sequence behind another.
LEMMA Concatenated ==
    ASSUME NEW S, NEW a \in Seq(S), NEW b \in Seq(S)
    PROVE  /\ a \o b \in Seq(S) /\ Len(a \o b) = Len(a) + Len(b)
           /\ \A i \in 1 .. (Len(a) + Len(b)) :
                 (a \o b)[i] = IF i <= Len(a) THEN a[i] ELSE b[i - Len(a)]
OBVIOUS

\* list<>::erase: the entries after the erased one move up.
LEMMA RemovedEntries ==
    ASSUME NEW S, NEW q \in Seq(S), NEW k \in 1 .. Len(q)
    PROVE  /\ RemoveAt(q, k) \in Seq(S)
           /\ Len(RemoveAt(q, k)) = Len(q) - 1
           /\ \A i \in 1 .. (Len(q) - 1) :
                 RemoveAt(q, k)[i] = IF i < k THEN q[i] ELSE q[i + 1]
<1> DEFINE a == SubSeq(q, 1, k - 1)
           b == SubSeq(q, k + 1, Len(q))
<1>1. a \in Seq(S) /\ Len(a) = k - 1 /\ \A i \in 1 .. (k - 1) : a[i] = q[i]
  OBVIOUS
<1>2. b \in Seq(S) /\ Len(b) = Len(q) - k /\ \A i \in 1 .. (Len(q) - k) : b[i] = q[k + i]
  OBVIOUS
<1>3. /\ a \o b \in Seq(S) /\ Len(a \o b) = Len(a) + Len(b)
      /\ \A i \in 1 .. (Len(a) + Len(b)) :
            (a \o b)[i] = IF i <= Len(a) THEN a[i] ELSE b[i - Len(a)]
  <2> HIDE DEF a, b
  <2> QED
    BY <1>1, <1>2, Concatenated
<1> HIDE DEF a, b
<1>4. RemoveAt(q, k) = a \o b
  BY DEF RemoveAt, a, b
<1>5. ASSUME NEW i \in 1 .. (Len(q) - 1)
      PROVE  (a \o b)[i] = IF i < k THEN q[i] ELSE q[i + 1]
  <2>1. CASE i < k
    BY <1>1, <1>2, <1>3, <2>1
  <2>2. CASE ~(i < k)
    <3>1. i - (k - 1) \in 1 .. (Len(q) - k)
      BY <2>2
    <3>2. b[i - (k - 1)] = q[k + (i - (k - 1))] /\ k + (i - (k - 1)) = i + 1
      BY <1>2, <3>1
    <3> QED
      BY <1>1, <1>2, <1>3, <2>2, <3>1, <3>2
  <2> QED
    BY <2>1, <2>2
<1>6. Len(a \o b) = Len(q) - 1
  BY <1>1, <1>2, <1>3
<1> QED
  BY <1>3, <1>4, <1>5, <1>6

\* list<>::emplace_back: one more entry, at the end.
LEMMA AddedEntry ==
    ASSUME NEW S, NEW q \in Seq(S), NEW e \in S,
           \A i, k \in 1 .. Len(q) : q[i] = q[k] => i = k,
           \A i \in 1 .. Len(q) : q[i] # e
    PROVE  /\ Append(q, e) \in Seq(S) /\ Len(Append(q, e)) = Len(q) + 1
           /\ \A i \in 1 .. Len(Append(q, e)) : Append(q, e)[i] = IF i = Len(q) + 1 THEN e ELSE q[i]
           /\ \A i, k \in 1 .. Len(Append(q, e)) : Append(q, e)[i] = Append(q, e)[k] => i = k
           /\ \A g : Contains(Append(q, e), g) <=> Contains(q, g) \/ g = e
<1> DEFINE p == Append(q, e)
<1>1. /\ p \in Seq(S) /\ Len(p) = Len(q) + 1 /\ Len(q) \in Nat
      /\ \A i \in 1 .. (Len(q) + 1) : p[i] = IF i = Len(q) + 1 THEN e ELSE q[i]
  OBVIOUS
<1> HIDE DEF p
<1>2. \A i, k \in 1 .. Len(p) : p[i] = p[k] => i = k
  <2> SUFFICES ASSUME NEW i \in 1 .. (Len(q) + 1), NEW k \in 1 .. (Len(q) + 1), p[i] = p[k]
               PROVE  i = k
    BY <1>1
  <2>1. i \in 1 .. Len(q) \/ i = Len(q) + 1
    BY <1>1
  <2>2. k \in 1 .. Len(q) \/ k = Len(q) + 1
    BY <1>1
  <2> QED
    BY <1>1, <2>1, <2>2
<1>3. ASSUME NEW g PROVE Contains(p, g) <=> Contains(q, g) \/ g = e
  <2>1. Len(q) + 1 \in 1 .. Len(p) /\ p[Len(q) + 1] = e
    BY <1>1
  <2>2. ASSUME NEW i \in 1 .. Len(q) PROVE i \in 1 .. Len(p) /\ p[i] = q[i]
    BY <1>1
  <2>3. ASSUME NEW i \in 1 .. Len(p) PROVE i \in 1 .. Len(q) \/ i = Len(q) + 1
    BY <1>1
  <2> QED
    BY <2>1, <2>2, <2>3 DEF Contains
<1>4. \A i \in 1 .. Len(p) : p[i] = IF i = Len(q) + 1 THEN e ELSE q[i]
  BY <1>1
<1> QED
  BY <1>1, <1>2, <1>3, <1>4 DEF p

\* The events after the first j, n of them.
After(j, n) == [i \in 1 .. n |-> j + i]

\* The next one goes to the end.
LEMMA OneMore ==
    ASSUME NEW j \in Nat, NEW n \in Nat
    PROVE  Append(After(j, n), j + n + 1) = After(j, n + 1)
BY DEF After

-----------------------------------------------------------------------------
Sending == \E s \in Senders : position[s] # 0

\* One sender at a time goes through the list, in which each client is once; whoever
\* registers finds nobody sending.
StreamInv ==
    /\ TypeOK
    /\ \A s \in Senders : position[s] # 0 => m_clients_mutex = s
    /\ \A i, k \in 1 .. Len(m_clients) : m_clients[i] = m_clients[k] => i = k
    /\ \A i \in 1 .. Len(m_clients) : pc[m_clients[i]] # "none"
    /\ \A h \in Handlers :
          /\ pc[h] = "none" => written[h] = << >>
          /\ pc[h] # "none" => joined[h] <= events /\ (Sending => joined[h] < events)
    /\ StreamComplete

\* What StreamComplete says of one client.
Complete(h) ==
    /\ Contains(m_clients, h)
    /\ Reached(h) => written[h] = After(joined[h], events - joined[h])
    /\ ~Reached(h) => written[h] = After(joined[h], events - joined[h] - 1)

LEMMA StreamsOneByOne ==
    StreamComplete <=>
        \A h \in Handlers : pc[h] \notin {"none", "returned"} /\ ~cancelled[h] => Complete(h)
BY DEF StreamComplete, Complete, After

\* Nobody is registered at the start.
LEMMA InitStream == Init => StreamInv
<1> SUFFICES ASSUME Init PROVE StreamInv
  OBVIOUS
<1>0. << >> \in Seq(Handlers) /\ << >> \in Seq(1 .. MaxEvents) /\ Len(<< >>) = 0
  OBVIOUS
<1>1. TypeOK
  <2>1. position \in [Senders -> 0 .. (Len(m_clients) + 1)]
    BY <1>0 DEF Init
  <2>2. written \in [Handlers -> Seq(1 .. MaxEvents)]
    BY <1>0 DEF Init
  <2>3. cancelled \in [Handlers -> BOOLEAN] /\ m_done \in BOOLEAN
    BY DEF Init
  <2>4. events \in 0 .. MaxEvents
    BY StatusAssumption DEF Init
  <2>5. pc \in [Handlers -> {"none", "registered", "blocking", "waiting", "woken", "returned"}]
    BY DEF Init
  <2> QED
    BY <1>0, <2>1, <2>2, <2>3, <2>4, <2>5 DEF Init, TypeOK
<1>2. StreamComplete
  BY DEF Init, StreamComplete
<1> QED
  BY <1>1, <1>2 DEF Init, StreamInv, Sending

\* Steps of the handlers' waits and of the shutdown touch neither list nor streams; a
\* client leaves those the invariant speaks of, and never comes back.
LEMMA StreamKept ==
    ASSUME StreamInv, TypeOK',
           UNCHANGED <<m_clients, m_clients_mutex, position, events, joined, written>>,
           \A h \in Handlers : /\ pc'[h] = "none" <=> pc[h] = "none"
                               /\ pc[h] = "returned" => pc'[h] = "returned"
                               /\ cancelled[h] => cancelled'[h]
    PROVE  StreamInv'
<1>1. StreamComplete'
  <2>1. \A h \in Handlers : Complete(h)' = Complete(h)
    BY DEF Complete, Reached
  <2>2. StreamComplete' <=>
        \A h \in Handlers : pc'[h] \notin {"none", "returned"} /\ ~cancelled'[h] => Complete(h)'
    BY DEF StreamComplete, Complete, After
  <2> QED
    BY <2>1, <2>2, StreamsOneByOne DEF StreamInv
<1>2. \A i \in 1 .. Len(m_clients') : pc'[m_clients'[i]] # "none"
  BY DEF StreamInv, TypeOK
<1> QED
  BY <1>1, <1>2 DEF StreamInv, Sending

\* A handler enters the list at its end while nobody is sending.
LEMMA RegisterStream ==
    ASSUME StreamInv, NEW h \in Handlers, Register(h)
    PROVE  StreamInv'
<1> USE DEF StreamInv, TypeOK
<1>1. \A s \in Senders : position[s] = 0
  BY StatusAssumption DEF Register
<1>2. \A g \in Handlers : Reached(g) /\ Reached(g)'
  BY <1>1 DEF Reached, Register
<1>3. \A i \in 1 .. Len(m_clients) : m_clients[i] # h
  BY DEF Register
<1>4. /\ m_clients' \in Seq(Handlers) /\ Len(m_clients') = Len(m_clients) + 1
      /\ \A i \in 1 .. Len(m_clients') :
            m_clients'[i] = IF i = Len(m_clients) + 1 THEN h ELSE m_clients[i]
      /\ \A i, k \in 1 .. Len(m_clients') : m_clients'[i] = m_clients'[k] => i = k
      /\ \A g : Contains(m_clients', g) <=> Contains(m_clients, g) \/ g = h
  <2>1. m_clients \in Seq(Handlers) /\ m_clients' = Append(m_clients, h)
    BY DEF Register
  <2>2. \A i, k \in 1 .. Len(m_clients) : m_clients[i] = m_clients[k] => i = k
    OBVIOUS
  <2> HIDE DEF StreamInv, TypeOK
  <2> QED
    BY <1>3, <2>1, <2>2, AddedEntry
<1>5. TypeOK'
  BY <1>1, <1>4 DEF Register, mainVars
<1>7. StreamComplete'
  <2>1. ASSUME NEW g \in Handlers, g # h, Complete(g) PROVE Complete(g)'
    BY <1>2, <1>4, <2>1 DEF Complete, Register
  <2>2. After(events, 0) = << >>
    BY DEF After
  <2>3. Complete(h)'
    BY <1>2, <1>4, <2>2 DEF Complete, Register
  <2>4. \A g \in Handlers \ {h} : pc'[g] = pc[g] /\ cancelled'[g] = cancelled[g]
    BY DEF Register
  <2>5. StreamComplete' <=>
        \A g \in Handlers : pc'[g] \notin {"none", "returned"} /\ ~cancelled'[g] => Complete(g)'
    BY DEF StreamComplete, Complete, After
  <2> QED
    BY <2>1, <2>3, <2>4, <2>5, StreamsOneByOne
<1>9. \A i \in 1 .. Len(m_clients') : pc'[m_clients'[i]] # "none"
  <2>1. \A g \in Handlers : pc[g] # "none" => pc'[g] # "none"
    BY DEF Register
  <2>2. pc'[h] # "none"
    BY DEF Register
  <2>3. ASSUME NEW i \in 1 .. Len(m_clients'), i # Len(m_clients) + 1
        PROVE  i \in 1 .. Len(m_clients) /\ m_clients[i] \in Handlers
    BY <1>4, <2>3, SMTT(30)
  <2> QED
    BY <1>4, <2>1, <2>2, <2>3
<1>10. \A g \in Handlers :
          /\ pc'[g] = "none" => written'[g] = << >>
          /\ pc'[g] # "none" => joined'[g] <= events' /\ (Sending' => joined'[g] < events')
  BY <1>1 DEF Register, Sending
<1>11. \A s \in Senders : position'[s] # 0 => m_clients_mutex' = s
  BY <1>1 DEF Register
<1> QED
  BY <1>4, <1>5, <1>7, <1>9, <1>10, <1>11 DEF StreamInv

\* The steps of the waits and of the shutdown.
LEMMA WaitsStream ==
    ASSUME StreamInv,
           \/ \E h \in Handlers : Handle(h) \/ SpuriousWakeup(h) \/ Cancel(h)
           \/ SetDone \/ NotifyDone \/ Deadline
    PROVE  StreamInv'
<1>0. TypeOK
  BY DEF StreamInv
<1> USE <1>0 DEF TypeOK, mainVars, streamVars
<1>1. ASSUME NEW h \in Handlers, CheckDone(h) PROVE StreamInv'
  <2>1. TypeOK'
    BY <1>1 DEF CheckDone
  <2> QED
    BY <1>1, <2>1, StreamKept DEF CheckDone
<1>2. ASSUME NEW h \in Handlers, Block(h) PROVE StreamInv'
  <2>1. TypeOK'
    BY <1>2 DEF Block
  <2> QED
    BY <1>2, <2>1, StreamKept DEF Block
<1>3. ASSUME NEW h \in Handlers, SpuriousWakeup(h) PROVE StreamInv'
  <2>1. TypeOK'
    BY <1>3 DEF SpuriousWakeup
  <2> QED
    BY <1>3, <2>1, StreamKept DEF SpuriousWakeup
<1>4. ASSUME NEW h \in Handlers, Cancel(h) PROVE StreamInv'
  <2>1. TypeOK'
    BY <1>4 DEF Cancel
  <2> QED
    BY <1>4, <2>1, StreamKept DEF Cancel
<1>5. CASE SetDone
  <2>1. TypeOK'
    BY <1>5 DEF SetDone
  <2> QED
    BY <1>5, <2>1, StreamKept DEF SetDone
<1>6. CASE NotifyDone
  <2>1. TypeOK'
    BY <1>6 DEF NotifyDone, NotifyAll
  <2> QED
    BY <1>6, <2>1, StreamKept DEF NotifyDone, NotifyAll
<1>7. CASE Deadline
  <2>1. cancelled' \in [Handlers -> BOOLEAN]
    BY <1>7 DEF Deadline
  <2>2. TypeOK'
    BY <1>7, <2>1 DEF Deadline
  <2> QED
    BY <1>7, <2>2, StreamKept DEF Deadline
<1> QED
  BY <1>1, <1>2, <1>3, <1>4, <1>5, <1>6, <1>7 DEF Handle

-----------------------------------------------------------------------------
(* The steps of a sender *)

\* Where the one sender has not been yet.
LEMMA ReachedBySender ==
    ASSUME StreamInv, NEW s \in Senders, m_clients_mutex = s, NEW h \in Handlers
    PROVE  Reached(h) <=>
               (position[s] # 0 => \A i \in position[s] .. Len(m_clients) : m_clients[i] # h)
BY DEF StreamInv, Reached

\* Of a client that is written completely once the step is taken.
LEMMA CompleteNext ==
    StreamComplete' <=>
        \A h \in Handlers : pc'[h] \notin {"none", "returned"} /\ ~cancelled'[h] => Complete(h)'
BY DEF StreamComplete, Complete, After

\* The first entry is yet to be visited: every client misses the new event.
LEMMA BeginSendStream ==
    ASSUME StreamInv, NEW s \in Senders, BeginSend(s)
    PROVE  StreamInv'
<1> USE DEF TypeOK, mainVars
<1>1. \A u \in Senders : position[u] = 0
  BY StatusAssumption DEF BeginSend, StreamInv
<1>2. /\ position' = [position EXCEPT ![s] = 1] /\ position'[s] = 1
      /\ m_clients_mutex' = s /\ events' = events + 1 /\ events' <= MaxEvents
      /\ UNCHANGED <<m_clients, pc, cancelled, joined, written>>
  BY StatusAssumption DEF BeginSend, StreamInv
<1>3. TypeOK'
  BY StatusAssumption DEF BeginSend, StreamInv
<1>4. \A u \in Senders : position'[u] # 0 => u = s
  BY <1>1, <1>2 DEF StreamInv
<1>5. ASSUME NEW h \in Handlers, Complete(h), pc[h] # "none" PROVE Complete(h)'
  <2>1. Reached(h)
    BY <1>1 DEF Reached
  <2>2. PICK i \in 1 .. Len(m_clients) : m_clients[i] = h
    BY <1>5 DEF Complete, Contains
  <2>3. ~Reached(h)'
    BY <1>2, <2>2 DEF Reached
  <2>4. (events + 1) - joined[h] - 1 = events - joined[h]
    BY DEF StreamInv
  <2> QED
    BY <1>2, <1>5, <2>1, <2>3, <2>4 DEF Complete
<1>6. StreamComplete'
  BY <1>2, <1>5, StreamsOneByOne, CompleteNext DEF StreamInv
<1>7. \A h \in Handlers : pc[h] # "none" => joined[h] < events'
  BY <1>2 DEF StreamInv
<1> QED
  BY <1>2, <1>3, <1>4, <1>6, <1>7 DEF StreamInv, Sending

\* At the end of the list everybody has been visited.
LEMMA EndSendStream ==
    ASSUME StreamInv, NEW s \in Senders, EndSend(s)
    PROVE  StreamInv'
<1> USE DEF TypeOK, mainVars, streamVars
<1>1. position[s] > Len(m_clients) /\ position[s] # 0
  BY DEF EndSend, StreamInv
<1>2. m_clients_mutex = s
  BY <1>1 DEF StreamInv
<1>3. \A u \in Senders : position'[u] = 0
  BY <1>2 DEF EndSend, StreamInv
<1>4. TypeOK'
  BY DEF EndSend, StreamInv
<1>5. UNCHANGED <<m_clients, pc, cancelled, joined, written, events>>
  BY DEF EndSend
<1>6. ASSUME NEW h \in Handlers, Complete(h) PROVE Complete(h)'
  <2>1. Reached(h)
    BY <1>1, <1>2, ReachedBySender DEF StreamInv
  <2>2. Reached(h)'
    BY <1>3 DEF Reached
  <2> QED
    BY <1>5, <1>6, <2>1, <2>2 DEF Complete
<1>7. StreamComplete'
  BY <1>5, <1>6, StreamsOneByOne, CompleteNext DEF StreamInv
<1> QED
  BY <1>3, <1>4, <1>5, <1>7 DEF StreamInv, Sending

\* The client visited has been reached then, and has the event; nobody else is touched.
LEMMA WriteEventStream ==
    ASSUME StreamInv, NEW s \in Senders, WriteEvent(s)
    PROVE  StreamInv'
<1> DEFINE k == position[s]
<1>1. PICK h \in Handlers :
          /\ Visits(s, h)
          /\ ~cancelled[h] \/ pc[h] = "returned"
          /\ written' = IF pc[h] = "returned" THEN written
                        ELSE [written EXCEPT ![h] = Append(@, events)]
  BY DEF WriteEvent
<1>2. k \in 1 .. Len(m_clients) /\ m_clients[k] = h /\ Len(m_clients) \in Nat
  BY <1>1 DEF Visits, StreamInv, TypeOK
<1>3. m_clients_mutex = s /\ m_clients_mutex' = s
  BY <1>2 DEF StreamInv, WriteEvent
<1>4. /\ position' = [position EXCEPT ![s] = k + 1] /\ position'[s] = k + 1
      /\ UNCHANGED <<m_clients, pc, cancelled, joined, events>>
  BY DEF WriteEvent, StreamInv, TypeOK
<1>5. pc[h] # "none" /\ joined[h] \in Nat /\ events \in Nat /\ joined[h] < events
  BY <1>2 DEF StreamInv, TypeOK, Sending
<1>6. TypeOK'
  <2>1. events \in 1 .. MaxEvents
    BY <1>5 DEF StreamInv, TypeOK
  <2>2. written' \in [Handlers -> Seq(1 .. MaxEvents)]
    BY <1>1, <2>1 DEF StreamInv, TypeOK
  <2>3. position' \in [Senders -> 0 .. (Len(m_clients) + 1)]
    BY <1>2, <1>4 DEF StreamInv, TypeOK
  <2> QED
    BY <2>2, <2>3 DEF WriteEvent, StreamInv, TypeOK, mainVars
<1>7. \A u \in Senders : position'[u] # 0 => u = s
  BY <1>3, <1>4 DEF StreamInv, TypeOK
<1>8. \A g \in Handlers :
          Reached(g)' <=> \A i \in (k + 1) .. Len(m_clients) : m_clients[i] # g
  BY <1>2, <1>4, <1>7 DEF Reached
<1>9. \A g \in Handlers : Reached(g) <=> \A i \in k .. Len(m_clients) : m_clients[i] # g
  BY <1>2, <1>3, ReachedBySender
<1>10. ASSUME NEW g \in Handlers, g # h, Complete(g) PROVE Complete(g)'
  <2>1. Reached(g)' <=> Reached(g)
    BY <1>2, <1>8, <1>9, <1>10
  <2>2. written'[g] = written[g]
    BY <1>1, <1>10 DEF StreamInv, TypeOK
  <2> QED
    BY <1>4, <1>10, <2>1, <2>2 DEF Complete
<1>11. ASSUME Complete(h), pc[h] # "returned" PROVE Complete(h)'
  <2>1. ~Reached(h)
    BY <1>2, <1>9
  <2>2. Reached(h)'
    <3>1. \A i \in (k + 1) .. Len(m_clients) : m_clients[i] # h
      BY <1>2 DEF StreamInv
    <3> QED
      BY <1>8, <3>1
  <2>3. written[h] = After(joined[h], events - joined[h] - 1)
    BY <1>11, <2>1 DEF Complete
  <2>4. written'[h] = Append(written[h], events)
    BY <1>1, <1>11 DEF StreamInv, TypeOK
  <2>5. Append(After(joined[h], events - joined[h] - 1), events)
            = After(joined[h], events - joined[h])
    <3>1. events - joined[h] - 1 \in Nat
      BY <1>5
    <3>2. /\ joined[h] + (events - joined[h] - 1) + 1 = events
          /\ (events - joined[h] - 1) + 1 = events - joined[h]
      BY <1>5
    <3> QED
      BY <1>5, <3>1, <3>2, OneMore
  <2> QED
    BY <1>4, <1>11, <2>2, <2>3, <2>4, <2>5 DEF Complete
<1>12. StreamComplete'
  BY <1>4, <1>10, <1>11, StreamsOneByOne, CompleteNext DEF StreamInv
<1>13. \A g \in Handlers : pc[g] = "none" => written'[g] = << >>
  BY <1>1, <1>5 DEF StreamInv, TypeOK
<1>14. Sending
  BY <1>2 DEF Sending
<1> QED
  BY <1>3, <1>4, <1>6, <1>7, <1>12, <1>13, <1>14 DEF StreamInv

\* The entry of a client that is gone makes room for the next one, which the iterator is
\* at now; whoever was yet to be visited still is.
LEMMA RemoveStream ==
    ASSUME StreamInv, NEW s \in Senders, RemoveCancelled(s)
    PROVE  StreamInv'
<1> DEFINE k == position[s]
           n == Len(m_clients)
<1>1. PICK h \in Handlers : Visits(s, h) /\ (cancelled[h] \/ pc[h] = "returned")
  BY DEF RemoveCancelled
<1>2. /\ m_clients \in Seq(Handlers) /\ k \in 1 .. n /\ m_clients[k] = h /\ n \in Nat
      /\ m_clients_mutex = s
  BY <1>1 DEF Visits, StreamInv, TypeOK
<1>3. /\ m_clients' \in Seq(Handlers) /\ Len(m_clients') = n - 1
      /\ \A i \in 1 .. (n - 1) :
            m_clients'[i] = IF i < k THEN m_clients[i] ELSE m_clients[i + 1]
  BY <1>2, RemovedEntries DEF RemoveCancelled
<1>4. /\ UNCHANGED <<m_clients_mutex, position, cancelled, joined, written, events>>
      /\ \A g \in Handlers : /\ pc'[g] = "none" <=> pc[g] = "none"
                             /\ pc'[g] = "returned" <=> pc[g] = "returned"
      /\ pc' \in [Handlers -> {"none", "registered", "blocking", "waiting", "woken", "returned"}]
  BY DEF RemoveCancelled, NotifyAll, streamVars, StreamInv, TypeOK
<1>5. \A u \in Senders : position[u] # 0 => u = s
  BY <1>2 DEF StreamInv
<1>6. TypeOK'
  <2>1. position' \in [Senders -> 0 .. (Len(m_clients') + 1)]
    <3>1. \A u \in Senders : position[u] \in 0 .. ((n - 1) + 1)
      BY <1>2, <1>5
    <3>2. position \in [Senders -> 0 .. ((n - 1) + 1)]
      BY <3>1 DEF StreamInv, TypeOK
    <3> QED
      BY <1>3, <1>4, <3>2
  <2> QED
    BY <1>3, <1>4, <2>1 DEF RemoveCancelled, StreamInv, TypeOK, mainVars
<1>7. \A i, j \in 1 .. (n - 1) : m_clients'[i] = m_clients'[j] => i = j
  BY <1>2, <1>3, SMTT(30) DEF StreamInv
<1>8. \A i \in 1 .. (n - 1) : pc'[m_clients'[i]] # "none"
  <2>1. \A l \in 1 .. n : m_clients[l] \in Handlers /\ pc[m_clients[l]] # "none"
    BY <1>2 DEF StreamInv
  <2>2. ASSUME NEW i \in 1 .. (n - 1)
        PROVE  \E l \in 1 .. n : m_clients'[i] = m_clients[l]
    <3>1. i \in 1 .. n /\ i + 1 \in 1 .. n
      BY <1>2
    <3> QED
      BY <1>3, <3>1
  <2> QED
    BY <1>4, <2>1, <2>2
<1>9. ASSUME NEW g \in Handlers, g # h, Complete(g) PROVE Complete(g)'
  <2>1. PICK i \in 1 .. n : m_clients[i] = g
    BY <1>9 DEF Complete, Contains
  <2>2. i # k
    BY <1>2, <1>9, <2>1
  <2> DEFINE j == IF i < k THEN i ELSE i - 1
  <2>3. j \in 1 .. (n - 1) /\ m_clients'[j] = g
    BY <1>2, <1>3, <2>1, <2>2
  <2>4. Contains(m_clients, g)'
    BY <1>3, <2>3 DEF Contains
  <2>5. Reached(g)' <=> Reached(g)
    <3>1. Reached(g) <=> i < k
      <4>1. Reached(g) <=> \A l \in k .. n : m_clients[l] # g
        BY <1>2, ReachedBySender
      <4> QED
        BY <1>2, <2>1, <2>2, <4>1 DEF StreamInv
    <3>2. Reached(g)' <=> \A l \in k .. (n - 1) : m_clients'[l] # g
      BY <1>2, <1>3, <1>4, <1>5 DEF Reached
    <3>3. j < k <=> i < k
      BY <1>2, <2>1, <2>2
    <3>4. Reached(g)' <=> j < k
      BY <1>2, <1>3, <1>7, <2>3, <3>2
    <3> QED
      BY <3>1, <3>3, <3>4
  <2> QED
    BY <1>4, <1>9, <2>4, <2>5 DEF Complete
<1>10. StreamComplete'
  <2>1. \A g \in Handlers : pc'[g] \notin {"none", "returned"} /\ ~cancelled'[g]
                               => g # h /\ pc[g] \notin {"none", "returned"} /\ ~cancelled[g]
    BY <1>1, <1>4
  <2> QED
    BY <1>9, <2>1, StreamsOneByOne, CompleteNext DEF StreamInv
<1>11. Sending
  BY <1>2 DEF Sending
<1>12. \A u \in Senders : position'[u] # 0 => m_clients_mutex' = u
  BY <1>4 DEF StreamInv
<1> QED
  BY <1>3, <1>4, <1>6, <1>7, <1>8, <1>10, <1>11, <1>12 DEF StreamInv

-----------------------------------------------------------------------------
\* Every step keeps the streams.
LEMMA NextStream == StreamInv /\ [Next]_vars => StreamInv'
<1>1. ASSUME StreamInv, UNCHANGED vars PROVE StreamInv'
  <2>1. TypeOK'
    BY <1>1 DEF StreamInv, TypeOK, vars
  <2> QED
    BY <1>1, <2>1, StreamKept DEF vars
<1> QED
  BY <1>1, RegisterStream, WaitsStream, BeginSendStream, RemoveStream, WriteEventStream,
     EndSendStream DEF Next, Send

\* However many clients register, cancel and return, and however many threads send,
\* every client that is connected has been written exactly the events since it
\* registered, in the order of all: SendStatusResponse erases entries of the list it
\* goes through and loses and repeats none.
THEOREM StreamsAreComplete == Spec => []StreamComplete
<1>1. StreamInv => StreamComplete
  BY DEF StreamInv
<1> QED
  BY <1>1, InitStream, NextStream, PTL DEF Spec

\* The variables keep their types: a sender's iterator stays in the list or at its end
\* while entries are erased.
THEOREM StreamTypeCorrect == Spec => []TypeOK
<1>1. StreamInv => TypeOK
  BY DEF StreamInv
<1> QED
  BY <1>1, InitStream, NextStream, PTL DEF Spec

=============================================================================
