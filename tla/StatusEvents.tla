---------------------------- MODULE StatusEvents ----------------------------
(***************************************************************************)
(* The status event streams of RadioImpl: the GetStatusEvents handlers     *)
(* that register a client and then block on m_done_cv, the threads that    *)
(* send an event to every client, and the shutdown of the server.          *)
(***************************************************************************)
EXTENDS Naturals, SequencesExt

CONSTANTS
    Handlers,    \* the GetStatusEvents calls, each a thread with its context
    Senders,     \* the threads that may be in SendStatusResponse
    Nobody,      \* a mutex that is free
    MaxEvents,   \* at most this many events are sent
    MayShutdown  \* TRUE: the service may be told to quit

ASSUME StatusAssumption ==
    /\ Nobody \notin Handlers \cup Senders
    /\ MaxEvents \in Nat
    /\ MayShutdown \in BOOLEAN

VARIABLES
    m_clients,         \* the handlers whose (context, writer) is in the list
    m_clients_mutex,   \* the sender that holds it, or Nobody
    m_done_mutex,      \* the handler that holds it, or Nobody
    m_done,
    cancelled,         \* cancelled[h]: context->IsCancelled()
    pc,                \* pc[h]: where the handler is
    position,          \* position[s]: the sender's iterator, 0 outside the loop
    events,            \* events sent so far, in the order of m_clients_mutex
    joined,            \* joined[h]: events when h was put in the list
    written,           \* written[h]: what was written to h's stream
    main_pc            \* where main() is in the shutdown

vars == <<m_clients, m_clients_mutex, m_done_mutex, m_done, cancelled, pc,
          position, events, joined, written, main_pc>>
mainVars == <<m_done, main_pc>>
streamVars == <<events, joined, written>>

TypeOK ==
    /\ m_clients \in Seq(Handlers)
    /\ m_clients_mutex \in Senders \cup {Nobody}
    /\ m_done_mutex \in Handlers \cup {Nobody}
    /\ m_done \in BOOLEAN
    /\ cancelled \in [Handlers -> BOOLEAN]
    /\ pc \in [Handlers -> {"none", "registered", "blocking", "waiting",
                            "woken", "returned"}]
    /\ position \in [Senders -> 0 .. (Len(m_clients) + 1)]
    /\ events \in 0 .. MaxEvents
    /\ joined \in [Handlers -> Nat]
    /\ written \in [Handlers -> Seq(1 .. MaxEvents)]
    /\ main_pc \in {"running", "notifying", "draining", "cancelled"}

Init ==
    /\ m_clients = << >>
    /\ m_clients_mutex = Nobody /\ m_done_mutex = Nobody
    /\ m_done = FALSE
    /\ cancelled = [h \in Handlers |-> FALSE]
    /\ pc = [h \in Handlers |-> "none"]
    /\ position = [s \in Senders |-> 0]
    /\ events = 0
    /\ joined = [h \in Handlers |-> 0]
    /\ written = [h \in Handlers |-> << >>]
    /\ main_pc = "running"

\* Mutant of NotifyAll: notify_one, which wakes any one waiting handler.
NotifyOne ==
    IF \E h \in Handlers : pc[h] = "waiting"
    THEN \E h \in Handlers : pc[h] = "waiting" /\ pc' = [pc EXCEPT ![h] = "woken"]
    ELSE UNCHANGED pc

\* m_done_cv.notify_all(): every handler in the wait set leaves it.
NotifyAll ==
    pc' = [h \in Handlers |-> IF pc[h] = "waiting" THEN "woken" ELSE pc[h]]

-----------------------------------------------------------------------------
(* GetStatusEvents *)

\* The call arrives, while the server accepts calls, and registers.
Register(h) ==
    /\ pc[h] = "none"
    /\ main_pc \in {"running", "notifying"}
    /\ m_clients_mutex = Nobody
    /\ m_clients' = Append(m_clients, h)
    /\ joined' = [joined EXCEPT ![h] = events]
    /\ pc' = [pc EXCEPT ![h] = "registered"]
    /\ UNCHANGED <<m_clients_mutex, m_done_mutex, cancelled, position, events,
                   written, mainVars>>

\* wait() with a predicate: lock m_done_mutex and evaluate it; return if it
\* holds, else go on to block with the mutex still held.
CheckDone(h) ==
    /\ pc[h] \in {"registered", "woken"}
    /\ m_done_mutex = Nobody
    /\ IF cancelled[h] \/ m_done
       THEN /\ pc' = [pc EXCEPT ![h] = "returned"]
            /\ UNCHANGED m_done_mutex
       ELSE /\ pc' = [pc EXCEPT ![h] = "blocking"]
            /\ m_done_mutex' = h
    /\ UNCHANGED <<m_clients, m_clients_mutex, cancelled, position,
                   streamVars, mainVars>>

\* Enter the wait set and release m_done_mutex, in one step.
Block(h) ==
    /\ pc[h] = "blocking"
    /\ pc' = [pc EXCEPT ![h] = "waiting"]
    /\ m_done_mutex' = Nobody
    /\ UNCHANGED <<m_clients, m_clients_mutex, cancelled, position,
                   streamVars, mainVars>>

\* A condition variable may wake a thread without a notification.
SpuriousWakeup(h) ==
    /\ pc[h] = "waiting"
    /\ pc' = [pc EXCEPT ![h] = "woken"]
    /\ UNCHANGED <<m_clients, m_clients_mutex, m_done_mutex, cancelled,
                   position, streamVars, mainVars>>

\* The client goes away.
Cancel(h) ==
    /\ pc[h] \notin {"none", "returned"}
    /\ ~ cancelled[h]
    /\ cancelled' = [cancelled EXCEPT ![h] = TRUE]
    /\ UNCHANGED <<m_clients, m_clients_mutex, m_done_mutex, pc, position,
                   streamVars, mainVars>>

-----------------------------------------------------------------------------
(* SendStatusResponse, which holds m_clients_mutex from beginning to end.   *)

BeginSend(s) ==
    /\ position[s] = 0
    /\ m_clients_mutex = Nobody
    /\ events < MaxEvents
    /\ m_clients # << >>
    /\ m_clients_mutex' = s
    /\ position' = [position EXCEPT ![s] = 1]
    /\ events' = events + 1
    /\ UNCHANGED <<m_clients, m_done_mutex, cancelled, pc, joined, written,
                   mainVars>>

\* The entry the iterator is at.
Visits(s, h) ==
    /\ position[s] \in 1 .. Len(m_clients)
    /\ m_clients[position[s]] = h

\* Mutant of RemoveCancelled: the iterator is advanced after the erase too.
RemoveAndAdvance(s) ==
    /\ \E h \in Handlers : Visits(s, h) /\ (cancelled[h] \/ pc[h] = "returned")
    /\ m_clients' = RemoveAt(m_clients, position[s])
    /\ position' = [position EXCEPT ![s] = @ + 1]
    /\ NotifyAll
    /\ UNCHANGED <<m_clients_mutex, m_done_mutex, cancelled, streamVars,
                   mainVars>>

\* The context says cancelled; that of a handler that has returned is gone and
\* may say anything.  The entry is erased and every waiting handler notified.
RemoveCancelled(s) ==
    /\ \E h \in Handlers : Visits(s, h) /\ (cancelled[h] \/ pc[h] = "returned")
    /\ m_clients' = RemoveAt(m_clients, position[s])
    /\ NotifyAll
    /\ UNCHANGED <<m_clients_mutex, m_done_mutex, cancelled, position,
                   streamVars, mainVars>>

\* Not cancelled: the event is written.  What a write to the stream of a handler
\* that has returned does is undefined; here it does nothing.
WriteEvent(s) ==
    /\ \E h \in Handlers :
          /\ Visits(s, h)
          /\ ~ cancelled[h] \/ pc[h] = "returned"
          /\ written' = IF pc[h] = "returned" THEN written
                        ELSE [written EXCEPT ![h] = Append(@, events)]
    /\ position' = [position EXCEPT ![s] = @ + 1]
    /\ UNCHANGED <<m_clients, m_clients_mutex, m_done_mutex, cancelled, pc,
                   events, joined, mainVars>>

EndSend(s) ==
    /\ position[s] > Len(m_clients)
    /\ position' = [position EXCEPT ![s] = 0]
    /\ m_clients_mutex' = Nobody
    /\ UNCHANGED <<m_clients, m_done_mutex, cancelled, pc, streamVars,
                   mainVars>>

-----------------------------------------------------------------------------
(* main(), after the main loop has quit *)

\* RadioImpl::Shutdown sets m_done, without m_done_mutex,
SetDone ==
    /\ MayShutdown /\ main_pc = "running"
    /\ m_done' = TRUE
    /\ main_pc' = "notifying"
    /\ UNCHANGED <<m_clients, m_clients_mutex, m_done_mutex, cancelled, pc,
                   position, streamVars>>

\* and notifies; then Server::Shutdown stops accepting calls and waits for
\* those under way.
NotifyDone ==
    /\ main_pc = "notifying"
    /\ NotifyAll
    /\ main_pc' = "draining"
    /\ UNCHANGED <<m_clients, m_clients_mutex, m_done_mutex, m_done, cancelled,
                   position, streamVars>>

\* At its deadline it cancels them, and goes on waiting.
Deadline ==
    /\ main_pc = "draining"
    /\ \E h \in Handlers : pc[h] \notin {"none", "returned"}
    /\ cancelled' = [h \in Handlers |->
                        cancelled[h] \/ pc[h] \notin {"none", "returned"}]
    /\ main_pc' = "cancelled"
    /\ UNCHANGED <<m_clients, m_clients_mutex, m_done_mutex, m_done, pc,
                   position, streamVars>>

-----------------------------------------------------------------------------
Handle(h) == CheckDone(h) \/ Block(h)
Send(s) == RemoveCancelled(s) \/ WriteEvent(s) \/ EndSend(s)

Next ==
    \/ \E h \in Handlers : \/ Register(h) \/ Handle(h) \/ SpuriousWakeup(h)
                           \/ Cancel(h)
    \/ \E s \in Senders : BeginSend(s) \/ Send(s)
    \/ SetDone \/ NotifyDone \/ Deadline

Spec == Init /\ [][Next]_vars

\* Threads that can run do, m_done_mutex is handed to every handler that keeps
\* asking for it, and the shutdown once begun goes on.
Fairness ==
    /\ \A h \in Handlers : SF_vars(CheckDone(h)) /\ WF_vars(Block(h))
    /\ \A s \in Senders : WF_vars(Send(s))
    /\ WF_vars(NotifyDone) /\ WF_vars(Deadline)

FairSpec == Spec /\ Fairness

-----------------------------------------------------------------------------
\* A client that is connected and registered has been written exactly the
\* events sent since it registered, in the order all clients see them: none
\* lost to another client's cancellation, none twice, none out of order.
Reached(h) == \A s \in Senders :
    position[s] # 0 => \A i \in position[s] .. Len(m_clients) : m_clients[i] # h

StreamComplete ==
    \A h \in Handlers :
        pc[h] \notin {"none", "returned"} /\ ~ cancelled[h] =>
            /\ Contains(m_clients, h)
            /\ written[h] = [i \in 1 .. (IF Reached(h) THEN events - joined[h]
                                         ELSE events - joined[h] - 1)
                                |-> joined[h] + i]

\* A cancelled client whose handler is waiting when an event that has yet to
\* come to its entry is being sent is removed and its handler returns, however
\* many others are cancelled at the same time.
CancelledWaiterReturns ==
    \A h \in Handlers :
        (/\ pc[h] = "waiting" /\ cancelled[h]
         /\ Contains(m_clients, h) /\ ~ Reached(h)) ~> (pc[h] = "returned")

\* Once the service shuts down every handler that was running returns.
HandlersExit ==
    \A h \in Handlers :
        (m_done /\ pc[h] # "none") ~> (pc[h] = "returned")

=============================================================================
