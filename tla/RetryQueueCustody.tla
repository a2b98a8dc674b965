------------------------- MODULE RetryQueueCustody --------------------------
(***************************************************************************)
(* RetryQueue implements Custody: under the refinement mapping FateOf each *)
(* step of the sessions, of run, of Drain and of the clock is a step of    *)
(* Custody or changes no fate.                                             *)
(***************************************************************************)
EXTENDS RetryQueueFates

USE DEF Worker, Main, Threads, Free, None, ScanPCs, AttemptPCs, TickPCs,
        WorkerPCs, MainPCs, Results, CallResults

fate == [m \in Messages |-> FateOf(m)]

Retrying(m)  == \E t \in Threads : m \in Attempting(t)
Delivered(m) == \E e \in DeliveredEvents : e \in EventsOf(m)
Trying       == {"inline", "enqueue"}

-----------------------------------------------------------------------------
(* The mapping *)

\* The cases of FateOf, by what the log says.
FateTable(m) ==
    /\ call[m] = "idle" => FateOf(m) = "sender"
    /\ call[m] \in Trying => FateOf(m) = "trying"
    /\ call[m] \notin Trying \cup {"idle"} =>
          /\ Held(m) /\ Retrying(m) => FateOf(m) = "retrying"
          /\ Held(m) /\ ~Retrying(m) /\ Alive => FateOf(m) = "held"
          /\ Held(m) /\ ~Retrying(m) /\ ~Alive => FateOf(m) = "lost"
          /\ ~Held(m) /\ (call[m] = "OK" \/ Delivered(m)) =>
                FateOf(m) = "delivered"
          /\ ~Held(m) /\ call[m] # "OK" /\ ~Delivered(m) => FateOf(m) = "lost"

LEMMA FateCases ==
    ASSUME NEW m
    PROVE  FateTable(m) /\ FateTable(m)'
  <1>1. DeliveredEvents \subseteq Events
    BY DEF DeliveredEvents, Events, QueueEvents, SessionEvents
  <1>2. /\ Delivered(m) <=> \E e \in DeliveredEvents : Logged(e, m)
        /\ Delivered(m)' <=> \E e \in DeliveredEvents : Logged(e, m)'
    BY <1>1 DEF Delivered, EventsOf
  <1>3. FateTable(m)
    BY <1>2, Zenon DEF FateTable, FateOf, Retrying, Trying
  <1>4. FateTable(m)'
    BY <1>2, Zenon DEF FateTable, FateOf, Retrying, Trying
  <1> QED BY <1>3, <1>4

\* A message that the step does not concern keeps its fate.
LEMMA SameFate ==
    ASSUME NEW m, Kept(m), Alive' <=> Alive, Retrying(m)' <=> Retrying(m),
           call[m] \in {"idle", "inline", "enqueue", "replied"} \cup CallResults
    PROVE  FateOf(m)' = FateOf(m)
  <1>1. FateTable(m) /\ FateTable(m)'
    BY FateCases
  <1>2. Delivered(m)' <=> Delivered(m)
    BY DEF Kept, Delivered
  <1>3. (Held(m)' <=> Held(m)) /\ call'[m] = call[m]
    BY DEF Kept
  <1>4. CASE call[m] \in {"idle"} \cup Trying
    BY <1>1, <1>3, <1>4 DEF FateTable
  <1>5. CASE call[m] \notin {"idle"} \cup Trying
    <2>1. CASE Held(m)
      BY <1>1, <1>3, <1>5, <2>1 DEF FateTable
    <2>2. CASE ~Held(m)
      BY <1>1, <1>2, <1>3, <1>5, <2>2 DEF FateTable
    <2> QED BY <2>1, <2>2
  <1> QED BY <1>4, <1>5

\* One message changes its fate.
LEMMA FateStep ==
    ASSUME NEW m \in Messages, NEW f, FateOf(m)' = f,
           \A k \in Messages : k # m => FateOf(k)' = FateOf(k)
    PROVE  fate' = [fate EXCEPT ![m] = f]
  BY DEF fate

\* No message changes its fate.
LEMMA FateStays ==
    ASSUME \A k \in Messages : FateOf(k)' = FateOf(k)
    PROVE  fate' = fate
  BY DEF fate

\* A step that changes fates is a step of Custody as soon as it is one of
\* Custody's actions.
LEMMA CustodyStep ==
    ASSUME \/ fate' = fate
           \/ \E m \in Messages : C!Begin(m) \/ C!TryEnds(m) \/ C!Retry(m)
                                    \/ C!RetryEnds(m) \/ C!Discard(m)
           \/ C!Abandon
    PROVE  [C!Next]_fate
  BY DEF C!Next, fate

\* The fate of a message, as Custody sees it.
LEMMA FateAt ==
    ASSUME NEW m \in Messages
    PROVE  fate[m] = FateOf(m) /\ fate'[m] = FateOf(m)'
  BY DEF fate

\* Only one goroutine executes tick, so the others attempt nothing.
LEMMA OneAttempt ==
    ASSUME IInv, NEW t \in Threads, pc[t] \in TickPCs
    PROVE  \A u \in Threads : u # t => Attempting(u) = {}
  <1>1. \A u \in Threads : u # t => pc[u] \notin {"attempt", "record"}
    BY DEF IInv, OneTicker, TypeOK
  <1> QED BY <1>1 DEF Attempting

\* A goroutine that is elsewhere attempts nothing.
LEMMA NoAttempt ==
    ASSUME NEW t, pc[t] \notin {"attempt", "record"}
    PROVE  Attempting(t) = {}
  BY DEF Attempting

LEMMA NoAttemptAfter ==
    ASSUME NEW t, pc'[t] \notin {"attempt", "record"}
    PROVE  Attempting(t)' = {}
  BY DEF Attempting

\* Every message and every attempt stays where it is.
LEMMA SilentFates ==
    ASSUME IInv, KeptAll, Alive' <=> Alive,
           \A t \in Threads : Attempting(t)' = Attempting(t)
    PROVE  fate' = fate
  <1>1. \A m : Retrying(m)' <=> Retrying(m)
    BY DEF Retrying
  <1>2. \A m \in Messages : FateOf(m)' = FateOf(m)
    BY <1>1, SameFate DEF KeptAll, IInv, TypeOK
  <1> QED BY <1>2, FateStays

\* The messages that a change of m does not concern.
LEMMA OtherFates ==
    ASSUME IInv, NEW m \in Messages, NEW E, NEW h, NEW c, Changes(m, E, h, c),
           Alive' <=> Alive,
           \A k \in Messages : k # m => (Retrying(k)' <=> Retrying(k))
    PROVE  \A k \in Messages : k # m => FateOf(k)' = FateOf(k)
  BY SameFate DEF Changes, IInv, TypeOK

\* A session step leaves the attempts of run and Drain alone.
LEMMA SessionFates ==
    ASSUME IInv, NEW m \in Messages, NEW E, NEW h, NEW c, Changes(m, E, h, c),
           UNCHANGED <<pc, due>>
    PROVE  /\ \A k \in Messages : k # m => FateOf(k)' = FateOf(k)
           /\ Alive' <=> Alive
           /\ Retrying(m)' <=> Retrying(m)
  <1>1. \A t \in Threads : Attempting(t)' = Attempting(t)
    BY DEF Attempting
  <1>2. \A k : Retrying(k)' <=> Retrying(k)
    BY <1>1 DEF Retrying
  <1>3. Alive' <=> Alive
    BY DEF Alive
  <1> QED BY <1>2, <1>3, OtherFates

-----------------------------------------------------------------------------
(* Sessions *)

LEMMA DispatchRefines ==
    ASSUME IInv, NEW m \in Messages, Dispatch(m)
    PROVE  C!Begin(m)
  <1>1. Changes(m, {}, Held(m), "inline") /\ call[m] = "idle"
        /\ UNCHANGED <<pc, due>>
    BY DispatchEffect DEF Dispatch, tickVars
  <1>2. call'[m] = "inline"
    BY <1>1 DEF Changes
  <1>3. FateOf(m) = "sender" /\ FateOf(m)' = "trying"
    BY <1>1, <1>2, FateCases DEF FateTable, Trying
  <1>4. fate' = [fate EXCEPT ![m] = "trying"]
    BY <1>1, <1>3, SessionFates, FateStep
  <1> QED BY <1>3, <1>4, FateAt DEF C!Begin, C!Becomes, fate

\* The result of the inline attempt is final, or the session goes on to
\* enqueue.
LEMMA InlineReturnRefines ==
    ASSUME IInv, FInv, NEW m \in Messages, NEW r \in Results,
           InlineReturn(m, r)
    PROVE  fate' = fate \/ C!TryEnds(m)
  <1> DEFINE c == IF r = "TempFail" THEN "enqueue" ELSE r
  <1>1. Changes(m, {}, Held(m), c) /\ call[m] = "inline"
        /\ UNCHANGED <<pc, due>>
    BY InlineReturnEffect DEF InlineReturn, tickVars
  <1>2. /\ EventsOf(m)' = EventsOf(m) /\ EventsOf(m) = {}
        /\ ~Held(m)' /\ call'[m] = c
    BY <1>1 DEF Changes, FInv, FateFacts, CallLogged, HeldOrSettled
  <1>3. ~Delivered(m)'
    BY <1>2 DEF Delivered
  <1>4. FateOf(m) = "trying"
    BY <1>1, FateCases DEF FateTable, Trying
  <1>5. \A k \in Messages : k # m => FateOf(k)' = FateOf(k)
    BY <1>1, SessionFates
  <1>6. CASE r = "TempFail"
    <2>1. FateOf(m)' = "trying"
      BY <1>2, <1>6, FateCases DEF FateTable, Trying
    <2> QED BY <1>4, <1>5, <2>1, FateStays
  <1>7. CASE r = "OK"
    <2>1. FateOf(m)' = "delivered"
      BY <1>2, <1>7, FateCases DEF FateTable, Trying
    <2>2. fate' = [fate EXCEPT ![m] = "delivered"]
      BY <1>5, <2>1, FateStep
    <2> QED BY <1>4, <2>2, FateAt DEF C!TryEnds, C!Becomes, fate
  <1>8. CASE r = "PermFail"
    <2>1. FateOf(m)' = "lost"
      BY <1>2, <1>3, <1>8, FateCases DEF FateTable, Trying
    <2>2. fate' = [fate EXCEPT ![m] = "lost"]
      BY <1>5, <2>1, FateStep
    <2> QED BY <1>4, <2>2, FateAt DEF C!TryEnds, C!Becomes, fate
  <1> QED BY <1>6, <1>7, <1>8

\* enqueue takes the message into the queue, or discards it.
LEMMA EnqueueRefines ==
    ASSUME IInv, FInv, NEW m \in Messages, Enqueue(m)
    PROVE  C!TryEnds(m)
  <1>1. call[m] = "enqueue" /\ Alive /\ UNCHANGED <<pc, due>>
    BY DEF Enqueue, tickVars
  <1>2. FateOf(m) = "trying"
    BY <1>1, FateCases DEF FateTable, Trying
  <1>3. EventsOf(m) = {} /\ ~Held(m)
    BY <1>1 DEF FInv, FateFacts, CallLogged, HeldOrSettled
  <1>4. ~Retrying(m)
    <2> SUFFICES ASSUME NEW t \in Threads, m \in Attempting(t) PROVE FALSE
      BY DEF Retrying
    <2>1. pc[t] \in {"attempt", "record"} /\ m = Head(due[t])
      BY DEF Attempting
    <2>2. due[t] # <<>>
      BY <2>1 DEF IInv, DueHead
    <2> QED BY <1>3, <2>1, <2>2, HeadHeld
  <1>5. ASSUME NEW e \in Limits, Changes(m, {e}, Held(m), "TempFail")
        PROVE  C!TryEnds(m)
    <2>1. EventsOf(m)' = {e} /\ ~Held(m)' /\ call'[m] = "TempFail"
      BY <1>3, <1>5 DEF Changes
    <2>2. ~Delivered(m)'
      BY <2>1 DEF Delivered, DeliveredEvents, Limits
    <2>3. FateOf(m)' = "lost"
      BY <2>1, <2>2, FateCases DEF FateTable, Trying
    <2>4. fate' = [fate EXCEPT ![m] = "lost"]
      BY <1>1, <1>5, <2>3, SessionFates, FateStep
    <2> QED BY <1>2, <2>4, FateAt DEF C!TryEnds, C!Becomes, fate
  <1>6. ASSUME Changes(m, {"queued"}, TRUE, "Queued")
        PROVE  C!TryEnds(m)
    <2>1. Held(m)' /\ call'[m] = "Queued"
      BY <1>6 DEF Changes
    <2>2. Alive' /\ ~Retrying(m)'
      BY <1>1, <1>4, <1>6, SessionFates
    <2>3. FateOf(m)' = "held"
      BY <2>1, <2>2, FateCases DEF FateTable, Trying
    <2>4. fate' = [fate EXCEPT ![m] = "held"]
      BY <1>1, <1>6, <2>3, SessionFates, FateStep
    <2> QED BY <1>2, <2>4, FateAt DEF C!TryEnds, C!Becomes, fate
  <1> QED BY <1>5, <1>6, EnqueueEffect

\* The session's log entry repeats the outcome and changes no fate.
LEMMA FinishRefines ==
    ASSUME IInv, FInv, NEW m \in Messages, Finish(m)
    PROVE  fate' = fate
  <1> DEFINE e == SessionEvent(call[m])
  <1>1. call[m] \in CallResults /\ Alive /\ UNCHANGED <<pc, due>>
    BY DEF Finish, tickVars
  <1>2. Changes(m, {e}, Held(m), "replied")
    BY FinishEffect
  <1>3. e = "delivered" <=> call[m] = "OK"
    BY <1>1 DEF SessionEvent
  <1>4. e # "retry delivered"
    BY <1>1 DEF SessionEvent
  <1> HIDE DEF e
  <1>5. EventsOf(m)' = EventsOf(m) \cup {e} /\ (Held(m)' <=> Held(m))
        /\ call'[m] = "replied"
    BY <1>2 DEF Changes
  <1>6. \A k \in Messages : k # m => FateOf(k)' = FateOf(k)
    BY <1>1, <1>2, SessionFates
  <1>7. (Alive' <=> Alive) /\ (Retrying(m)' <=> Retrying(m))
    BY <1>1, <1>2, SessionFates
  <1>8. Delivered(m)' <=> Delivered(m) \/ call[m] = "OK"
    BY <1>3, <1>4, <1>5 DEF Delivered, DeliveredEvents
  <1>9. FateOf(m)' = FateOf(m)
    <2>1. FateTable(m) /\ FateTable(m)'
      BY FateCases
    <2>2. call[m] \notin Trying \cup {"idle"}
      BY <1>1 DEF Trying
    <2>3. call'[m] \notin Trying \cup {"idle"} /\ call'[m] # "OK"
      BY <1>5 DEF Trying
    <2>4. CASE Held(m)
      BY <1>5, <1>7, <2>1, <2>2, <2>3, <2>4 DEF FateTable
    <2>5. CASE ~Held(m)
      BY <1>5, <1>8, <2>1, <2>2, <2>3, <2>5 DEF FateTable
    <2> QED BY <2>4, <2>5
  <1> QED BY <1>6, <1>9, FateStays

-----------------------------------------------------------------------------
(* tick *)

\* The steps of the goroutines and of the clock that start, end and settle
\* nothing.
LEMMA SilentRefines ==
    ASSUME IInv,
           \/ RunTick \/ RunStop \/ Advance
           \/ \E t \in Threads :
                 \/ TickNow(t) \/ TickLock(t) \/ TickExpireDone(t)
                 \/ TickCopy(t) \/ TickUnlock(t) \/ TickEnd(t)
                 \/ \E r \in Results : TickReturn(t, r)
           \/ DrainStop \/ DrainWait \/ DrainCheck \/ DrainZero
    PROVE  fate' = fate
  <1>1. KeptAll
    BY SilentStep
  <1>2. CASE Advance
    BY <1>1, <1>2, SilentFates DEF Advance, tickVars, Attempting, Alive
  <1>3. CASE RunTick \/ RunStop
    <2>1. /\ UNCHANGED due /\ pc'[Main] = pc[Main]
          /\ pc[Worker] = "select" /\ pc'[Worker] \in {"tick", "returned"}
      BY <1>3 DEF RunTick, RunStop, Goto, tickVars, IInv, TypeOK
    <2>2. \A t \in Threads : Attempting(t)' = Attempting(t)
      BY <2>1 DEF Attempting
    <2> QED BY <1>1, <2>1, <2>2, SilentFates DEF Alive
  <1>4. CASE DrainStop \/ DrainWait \/ DrainCheck \/ DrainZero
    <2>1. /\ UNCHANGED due /\ pc'[Worker] = pc[Worker]
          /\ pc[Main] \in {"serve", "wait", "check", "zero"}
          /\ pc'[Main] \in {"wait", "check", "zero", "report", "tick"}
      BY <1>4 DEF DrainStop, DrainWait, DrainCheck, DrainZero, Goto, tickVars,
                  IInv, TypeOK
    <2>2. \A t \in Threads : Attempting(t)' = Attempting(t)
      BY <2>1 DEF Attempting
    <2> QED BY <1>1, <2>1, <2>2, SilentFates DEF Alive
  <1>5. ASSUME NEW t \in Threads, NEW r \in Results, TickReturn(t, r)
        PROVE  fate' = fate
    <2>1. /\ UNCHANGED due /\ pc[t] = "attempt" /\ pc'[t] = "record"
          /\ \A u \in Threads : u # t => pc'[u] = pc[u]
      BY <1>5 DEF TickReturn, Goto, IInv, TypeOK
    <2>2. \A u \in Threads : Attempting(u)' = Attempting(u)
      BY <2>1 DEF Attempting
    <2>3. Alive' <=> Alive
      BY <2>1 DEF Alive
    <2> QED BY <1>1, <2>2, <2>3, SilentFates
  <1>6. ASSUME NEW t \in Threads,
               \/ TickNow(t) \/ TickLock(t) \/ TickExpireDone(t)
               \/ TickCopy(t) \/ TickUnlock(t) \/ TickEnd(t)
        PROVE  fate' = fate
    <2>1. pc[t] \in {"tick", "lock", "expire", "copy", "next"}
      BY <1>6 DEF TickNow, TickLock, TickExpireDone, TickCopy, TickUnlock,
                  TickEnd
    <2>2. \/ UNCHANGED pc
          \/ \E l \in {"lock", "expire", "copy", "next", "select", "check"} :
                pc' = [pc EXCEPT ![t] = l]
      BY <1>6 DEF TickNow, TickLock, TickExpireDone, TickCopy, TickUnlock,
                  TickEnd, Goto
    <2>3. /\ pc'[t] \notin {"attempt", "record", "exited"}
          /\ \A u \in Threads : u # t => pc'[u] = pc[u]
      BY <2>1, <2>2 DEF IInv, TypeOK
    <2>4. Attempting(t) = {} /\ Attempting(t)' = {}
      BY <2>1, <2>3, NoAttempt, NoAttemptAfter
    <2>5. \A u \in Threads : u # t => due'[u] = due[u]
      <3>1. CASE TickCopy(t)
        BY <3>1 DEF TickCopy, IInv, TypeOK
      <3>2. CASE ~TickCopy(t)
        BY <1>6, <3>2 DEF TickNow, TickLock, TickExpireDone, TickUnlock,
                          TickEnd, tickVars
      <3> QED BY <3>1, <3>2
    <2>6. \A u \in Threads : Attempting(u)' = Attempting(u)
      BY <2>3, <2>4, <2>5 DEF Attempting
    <2>7. Alive' <=> Alive
      BY <2>1, <2>3 DEF Alive
    <2> QED BY <1>1, <2>6, <2>7, SilentFates
  <1> QED BY <1>2, <1>3, <1>4, <1>5, <1>6

\* tick starts a retry: no other retry is running.
LEMMA TickAttemptRefines ==
    ASSUME IInv, NEW t \in Threads, TickAttempt(t)
    PROVE  \E m \in Messages : C!Retry(m)
  <1>1. pc[t] = "next" /\ due[t] # <<>> /\ Alive /\ UNCHANGED <<due, call>>
        /\ pc' = [pc EXCEPT ![t] = "attempt"]
    BY DEF TickAttempt, Goto, tickVars
  <1>2. PICK m : m = Head(due[t])
    OBVIOUS
  <1>3. m \in Messages /\ Held(m)
    BY <1>1, <1>2, HeadHeld
  <1>4. KeptAll
    BY SilentStep
  <1>5. \A u \in Threads : Attempting(u) = {}
    BY <1>1, OneAttempt, NoAttempt
  <1>6. \A k : ~Retrying(k)
    BY <1>5 DEF Retrying
  <1>7. pc'[t] = "attempt" /\ \A u \in Threads : u # t => pc'[u] = pc[u]
    BY <1>1 DEF IInv, TypeOK
  <1>8. Attempting(t)' = {m} /\ \A u \in Threads : u # t => Attempting(u)' = {}
    BY <1>1, <1>2, <1>5, <1>7 DEF Attempting
  <1>9. Retrying(m)' /\ \A k : k # m => ~Retrying(k)'
    BY <1>8 DEF Retrying
  <1>10. Alive'
    BY <1>1, <1>7 DEF Alive
  <1>11. call[m] \in {"Queued", "replied"} /\ call'[m] = call[m] /\ Held(m)'
    BY <1>1, <1>3, <1>4 DEF KeptAll, Kept, Held, IInv, HeldWasQueued
  <1>12. FateOf(m) = "held" /\ FateOf(m)' = "retrying"
    BY <1>1, <1>3, <1>6, <1>9, <1>10, <1>11, FateCases DEF FateTable, Trying
  <1>13. \A k \in Messages : k # m => FateOf(k)' = FateOf(k)
    BY <1>1, <1>4, <1>6, <1>9, <1>10, SameFate DEF KeptAll, IInv, TypeOK
  <1>14. fate' = [fate EXCEPT ![m] = "retrying"]
    BY <1>3, <1>12, <1>13, FateStep
  <1>15. \A n \in Messages : fate[n] # "retrying"
    <2> SUFFICES ASSUME NEW n \in Messages PROVE FateOf(n) # "retrying"
      BY FateAt
    <2>1. FateTable(n) /\ ~Retrying(n)
      BY <1>6, FateCases
    <2> QED BY <2>1 DEF FateTable
  <1> QED BY <1>3, <1>12, <1>14, <1>15, FateAt DEF C!Retry, C!Becomes, fate

\* A retry or a held message comes to an end that the log records as e.
LEMMA SettledFate ==
    ASSUME IInv, FInv, NEW m \in Messages, Held(m), NEW e \in SettleEvents,
           Changes(m, {e}, FALSE, call[m])
    PROVE  FateOf(m)' = IF e = "retry delivered" THEN "delivered" ELSE "lost"
  <1>1. EventsOf(m)' = EventsOf(m) \cup {e} /\ ~Held(m)' /\ call'[m] = call[m]
    BY DEF Changes
  <1>2. call[m] \in {"Queued", "replied"}
    BY HeldLife
  <1>3. /\ EventsOf(m) \cap SettleEvents = {}
        /\ EventsOf(m) \subseteq QueuedLife
    BY HeldLife
  <1>4. "delivered" \notin QueuedLife /\ "retry delivered" \in SettleEvents
        /\ "delivered" \notin SettleEvents
    BY DEF QueuedLife, SettleEvents
  <1>5. "delivered" \notin EventsOf(m)' /\
        ("retry delivered" \in EventsOf(m)' <=> e = "retry delivered")
    BY <1>1, <1>3, <1>4
  <1>6. Delivered(m)' <=> e = "retry delivered"
    BY <1>5 DEF Delivered, DeliveredEvents
  <1> QED BY <1>1, <1>2, <1>6, FateCases DEF FateTable, Trying

\* An entry expires, which tick never does to a message being retried.
LEMMA TickExpireRefines ==
    ASSUME IInv, FInv, NEW t \in Threads, TickExpire(t)
    PROVE  fate' = fate \/ \E m \in Messages : C!Discard(m)
  <1>1. pc[t] = "expire" /\ Alive /\ UNCHANGED <<pc, due>>
    BY DEF TickExpire
  <1>2. CASE KeptAll
    BY <1>1, <1>2, SilentFates DEF Attempting, Alive
  <1>3. ASSUME NEW m \in Messages, Held(m),
               Changes(m, {"expired"}, FALSE, call[m])
        PROVE  C!Discard(m)
    <2>1. \A u \in Threads : Attempting(u) = {}
      BY <1>1, OneAttempt, NoAttempt
    <2>2. ~Retrying(m)
      BY <2>1 DEF Retrying
    <2>3. call[m] \in {"Queued", "replied"}
      BY <1>3, HeldLife
    <2>4. FateOf(m) = "held"
      BY <1>1, <1>3, <2>2, <2>3, FateCases DEF FateTable, Trying
    <2>5. FateOf(m)' = "lost"
      BY <1>3, SettledFate DEF SettleEvents
    <2>6. fate' = [fate EXCEPT ![m] = "lost"]
      BY <1>1, <1>3, <2>5, SessionFates, FateStep
    <2> QED BY <2>4, <2>6, FateAt DEF C!Discard, C!Becomes, fate
  <1> QED BY <1>2, <1>3, TickExpireEffect

\* The result of a retry takes effect once.
LEMMA TickRecordRefines ==
    ASSUME IInv, FInv, NEW t \in Threads, TickRecord(t)
    PROVE  \E m \in Messages : C!RetryEnds(m)
  <1>1. pc[t] = "record" /\ Alive /\ due[t] # <<>>
        /\ pc' = [pc EXCEPT ![t] = "next"]
    BY DEF TickRecord, Goto, IInv, DueHead
  <1>2. PICK m : m = Head(due[t])
    OBVIOUS
  <1>3. /\ m \in Messages /\ Held(m)
        /\ \/ KeptAll
           \/ Changes(m, {"retry delivered"}, FALSE, call[m])
           \/ Changes(m, {"retry permanent"}, FALSE, call[m])
    BY <1>2, TickRecordEffect
  <1>4. Attempting(t) = {m} /\ \A u \in Threads : u # t => Attempting(u) = {}
    BY <1>1, <1>2, OneAttempt DEF Attempting
  <1>5. Retrying(m) /\ \A k : k # m => ~Retrying(k)
    BY <1>4 DEF Retrying
  <1>6. pc'[t] = "next" /\ \A u \in Threads : u # t => pc'[u] = pc[u]
    BY <1>1 DEF IInv, TypeOK
  <1>7. \A u \in Threads : pc'[u] \notin {"attempt", "record"}
    BY <1>1, <1>6 DEF IInv, OneTicker, TypeOK
  <1>8. \A k : ~Retrying(k)'
    BY <1>7, NoAttemptAfter DEF Retrying
  <1>9. Alive'
    BY <1>1, <1>6 DEF Alive
  <1>10. call[m] \in {"Queued", "replied"}
    BY <1>3, HeldLife
  <1>11. FateOf(m) = "retrying"
    BY <1>3, <1>5, <1>10, FateCases DEF FateTable, Trying
  <1>12. \A k \in Messages : k # m => Kept(k)
    BY <1>3 DEF KeptAll, Changes
  <1>13. \A k \in Messages : k # m => FateOf(k)' = FateOf(k)
    BY <1>1, <1>5, <1>8, <1>9, <1>12, SameFate DEF IInv, TypeOK
  <1>14. \E f \in {"delivered", "lost", "held"} : FateOf(m)' = f
    <2>1. CASE KeptAll
      <3>1. Held(m)' /\ call'[m] = call[m]
        BY <1>3, <2>1 DEF KeptAll, Kept
      <3> QED BY <1>8, <1>9, <1>10, <3>1, FateCases DEF FateTable, Trying
    <2>2. CASE Changes(m, {"retry delivered"}, FALSE, call[m])
      BY <1>3, <2>2, SettledFate DEF SettleEvents
    <2>3. CASE Changes(m, {"retry permanent"}, FALSE, call[m])
      BY <1>3, <2>3, SettledFate DEF SettleEvents
    <2> QED BY <1>3, <2>1, <2>2, <2>3
  <1>15. PICK f \in {"delivered", "lost", "held"} : FateOf(m)' = f
    BY <1>14
  <1>16. fate' = [fate EXCEPT ![m] = f]
    BY <1>3, <1>13, <1>15, FateStep
  <1> QED BY <1>3, <1>11, <1>15, <1>16, FateAt
          DEF C!RetryEnds, C!Becomes, fate

-----------------------------------------------------------------------------
(* Drain *)

\* After the last attempt nothing is being retried.
LEMMA NothingRetried ==
    ASSUME IInv, pc[Main] \in {"report", "drained"},
           pc'[Worker] = pc[Worker], pc'[Main] \in {"drained", "exited"}
    PROVE  \A k : ~Retrying(k) /\ ~Retrying(k)'
  <1>1. \A u \in Threads : /\ pc[u] \notin {"attempt", "record"}
                           /\ pc'[u] \notin {"attempt", "record"}
    BY DEF IInv, OneTicker
  <1> QED BY <1>1, NoAttempt, NoAttemptAfter DEF Retrying

\* The report of Drain is a log entry; the messages stay held.
LEMMA DrainReportRefines ==
    ASSUME IInv, FInv, DrainReport
    PROVE  fate' = fate
  <1>1. pc[Main] = "report" /\ pc' = [pc EXCEPT ![Main] = "drained"]
    BY DEF DrainReport, Goto
  <1>2. pc'[Main] = "drained" /\ pc'[Worker] = pc[Worker]
    BY <1>1 DEF IInv, TypeOK
  <1>3. Alive /\ Alive' /\ \A k : ~Retrying(k) /\ ~Retrying(k)'
    BY <1>1, <1>2, NothingRetried DEF Alive
  <1>4. ASSUME NEW m \in Messages
        PROVE  FateOf(m)' = FateOf(m)
    <2>1. /\ Held(m) => EventsOf(m)' = EventsOf(m) \cup {"not drained"}
          /\ ~Held(m) => EventsOf(m)' = EventsOf(m)
          /\ Held(m)' <=> Held(m)
          /\ call'[m] = call[m]
      BY DrainReportEffect
    <2>2. CASE ~Held(m)
      BY <1>3, <2>1, <2>2, SameFate DEF Kept, IInv, TypeOK
    <2>3. CASE Held(m)
      <3>1. call[m] \notin Trying \cup {"idle"}
        BY <2>3, HeldLife DEF Trying
      <3>2. FateOf(m) = "held" /\ FateOf(m)' = "held"
        BY <1>3, <2>1, <2>3, <3>1, FateCases DEF FateTable
      <3> QED BY <3>2
    <2> QED BY <2>2, <2>3
  <1> QED BY <1>4, FateStays

\* The process ends, and what it holds is lost.
LEMMA ExitRefines ==
    ASSUME IInv, FInv, Exit
    PROVE  C!Abandon
  <1>1. pc[Main] = "drained" /\ pc' = [pc EXCEPT ![Main] = "exited"]
    BY DEF Exit, Goto
  <1>2. pc'[Main] = "exited" /\ pc'[Worker] = pc[Worker]
    BY <1>1 DEF IInv, TypeOK
  <1>3. Alive /\ ~Alive' /\ \A k : ~Retrying(k) /\ ~Retrying(k)'
    BY <1>1, <1>2, NothingRetried DEF Alive
  <1>4. KeptAll
    BY SilentStep
  <1>5. ASSUME NEW m \in Messages
        PROVE  /\ FateOf(m) # "retrying"
               /\ FateOf(m)' = IF FateOf(m) = "held" THEN "lost" ELSE FateOf(m)
    <2>1. FateTable(m) /\ FateTable(m)'
      BY FateCases
    <2>2. (Held(m)' <=> Held(m)) /\ call'[m] = call[m]
          /\ (Delivered(m)' <=> Delivered(m))
      BY <1>4 DEF KeptAll, Kept, Delivered
    <2>3. CASE call[m] \in Trying \cup {"idle"}
      BY <2>1, <2>2, <2>3 DEF FateTable
    <2>4. CASE call[m] \notin Trying \cup {"idle"} /\ Held(m)
      BY <1>3, <2>1, <2>2, <2>4 DEF FateTable
    <2>5. CASE call[m] \notin Trying \cup {"idle"} /\ ~Held(m)
      BY <2>1, <2>2, <2>5 DEF FateTable
    <2> QED BY <2>3, <2>4, <2>5
  <1>6. fate' = [m \in Messages |->
                    IF fate[m] = "held" THEN "lost" ELSE fate[m]]
    BY <1>5 DEF fate
  <1>7. \A m \in Messages : fate[m] # "retrying"
    BY <1>5 DEF fate
  <1> QED BY <1>6, <1>7 DEF C!Abandon, fate

-----------------------------------------------------------------------------
(* The theorem *)

LEMMA StepRefines ==
    ASSUME IInv, FInv, [Next]_vars
    PROVE  [C!Next]_fate
  <1>1. CASE UNCHANGED vars
    <2>1. KeptAll
      BY <1>1, SilentEffect DEF vars
    <2>2. fate' = fate
      BY <1>1, <2>1, SilentFates DEF vars, Attempting, Alive
    <2> QED BY <2>2, CustodyStep
  <1>2. CASE \E m \in Messages : Dispatch(m) \/ Enqueue(m) \/ Finish(m)
    BY <1>2, DispatchRefines, EnqueueRefines, FinishRefines, CustodyStep
  <1>3. CASE \E m \in Messages, r \in Results : InlineReturn(m, r)
    BY <1>3, InlineReturnRefines, CustodyStep
  <1>4. CASE RunTick \/ RunStop \/ Advance
    BY <1>4, SilentRefines, CustodyStep
  <1>5. CASE Exit
    BY <1>5, ExitRefines, CustodyStep
  <1>6. CASE \E t \in Threads : Tick(t)
    BY <1>6, SilentRefines, TickAttemptRefines, TickExpireRefines,
       TickRecordRefines, CustodyStep
    DEF Tick
  <1>7. CASE \E t \in Threads, r \in Results : TickReturn(t, r)
    BY <1>7, SilentRefines, CustodyStep
  <1>8. CASE Drain
    BY <1>8, SilentRefines, DrainReportRefines, CustodyStep DEF Drain
  <1> QED BY <1>1, <1>2, <1>3, <1>4, <1>5, <1>6, <1>7, <1>8 DEF Next, Step

\* The queue keeps the promises of Custody: a message has one fate at a time,
\* delivered and lost are final, at most one retry runs although run and
\* Drain both execute tick, and nothing is discarded while it is retried.
THEOREM RefinesCustody == Spec => ImplementsCustody
  <1>1. Init => C!Init
    <2> SUFFICES ASSUME Init PROVE C!Init
      OBVIOUS
    <2>1. \A m \in Messages : FateOf(m) = "sender"
      <3>1. \A m \in Messages : call[m] = "idle"
        BY DEF Init
      <3> QED BY <3>1, FateCases DEF FateTable
    <2> QED BY <2>1 DEF C!Init
  <1>2. IInv /\ FInv /\ [Next]_vars => [C!Next]_([m \in Messages |-> FateOf(m)])
    BY StepRefines DEF fate
  <1> QED BY FateInvariance, <1>1, <1>2, PTL DEF Spec, ImplementsCustody, C!Spec
=============================================================================
