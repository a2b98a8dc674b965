-------------------------- MODULE RetryQueueFates ---------------------------
(***************************************************************************)
(* What becomes of a message: proofs that every queued message has exactly *)
(* one fate, that the log is the record of it, and that the worker does    *)
(* not retry early. They rest on IInv of RetryQueueProofs and on two       *)
(* further inductive invariants.                                           *)
(***************************************************************************)
EXTENDS RetryQueueProofs

-----------------------------------------------------------------------------
(* The log, message by message *)

Events      == QueueEvents \cup SessionEvents
EventsOf(m) == {e \in Events : Logged(e, m)}

\* What may be logged about a message that was queued, and about one for
\* which there was no room.
QueuedLife == {"queued", "queued for retry", "not drained"} \cup SettleEvents
Limits     == {"entry limit", "byte limit"}

Reported == {"drained", "exited"}

\* How far the session is says which entries there are.
CallLogged(m) ==
    /\ call[m] \in {"idle", "inline", "enqueue", "OK", "PermFail"} =>
          EventsOf(m) = {}
    /\ call[m] = "TempFail" => EventsOf(m) # {} /\ EventsOf(m) \subseteq Limits
    /\ call[m] = "Queued" =>
          "queued" \in EventsOf(m) /\ EventsOf(m) \subseteq QueuedLife
    /\ call[m] = "replied" =>
          \/ EventsOf(m) = {"delivered"}
          \/ EventsOf(m) = {"permanent"}
          \/ /\ "no capacity" \in EventsOf(m)
             /\ EventsOf(m) \subseteq Limits \cup {"no capacity"}
          \/ "queued" \in EventsOf(m) /\ EventsOf(m) \subseteq QueuedLife

\* A queued message is held, or one settlement is logged.
HeldOrSettled(m) ==
    IF "queued" \in EventsOf(m)
    THEN \/ Held(m) /\ EventsOf(m) \cap SettleEvents = {}
         \/ ~Held(m) /\ \E e \in SettleEvents :
                           EventsOf(m) \cap SettleEvents = {e}
    ELSE ~Held(m)

\* The report of Drain comes after the last attempt.
ReportIsLast(m) ==
    "not drained" \in EventsOf(m) => Held(m) /\ pc[Main] \in Reported

FateFacts(m) == CallLogged(m) /\ HeldOrSettled(m) /\ ReportIsLast(m)

FInv == \A m \in Messages : FateFacts(m)

-----------------------------------------------------------------------------
(* Time *)

\* No entry comes from the future, and no tick runs ahead of the clock.
NoFuture ==
    /\ \A i \in 1..Len(entries) : entries[i].accepted <= now
    /\ \A t \in Threads : tnow[t] <= now

\* Before Drain makes every entry due, an entry waits for Interval.
Waits ==
    pc[Worker] # "returned" =>
        \A i \in 1..Len(entries) :
            entries[i].nextTry >= entries[i].accepted + Interval

\* The entries on the due list of the worker have waited.
DueRipe ==
    \A i \in 1..Len(entries), k \in 1..Len(due[Worker]) :
        entries[i].msg = due[Worker][k] => entries[i].accepted + Interval <= now

TInv == NoFuture /\ Waits /\ DueRipe

-----------------------------------------------------------------------------
(* What a step does to the log and to the slice, message by message *)

USE DEF Worker, Main, Threads, Free, None, ScanPCs, AttemptPCs, TickPCs,
        WorkerPCs, MainPCs, Results, CallResults

\* The step concerns another message, or none.
Kept(m) ==
    /\ EventsOf(m)' = EventsOf(m)
    /\ Held(m)' <=> Held(m)
    /\ call'[m] = call[m]

\* A log entry is an event of one message.
LEMMA LineAdded ==
    ASSUME NEW e \in Events, NEW m \in Messages, NEW n \in 0..AttemptCap,
           log' = log \cup {Line(e, m, n)}
    PROVE  /\ EventsOf(m)' = EventsOf(m) \cup {e}
           /\ \A k \in Messages : k # m => EventsOf(k)' = EventsOf(k)
  <1>1. \A d, k : Logged(d, k)' <=> Logged(d, k) \/ (d = e /\ k = m)
    BY DEF Logged, Line
  <1>2. EventsOf(m)' = {d \in Events : Logged(d, m)'}
    BY DEF EventsOf
  <1>3. EventsOf(m) = {d \in Events : Logged(d, m)}
    BY DEF EventsOf
  <1>4. EventsOf(m)' = EventsOf(m) \cup {e}
    BY <1>1, <1>2, <1>3
  <1>5. ASSUME NEW k \in Messages, k # m
        PROVE  EventsOf(k)' = EventsOf(k)
    BY <1>1, <1>5 DEF EventsOf
  <1> QED BY <1>4, <1>5

\* Without a new log entry no message has a new event.
LEMMA LogKept ==
    ASSUME UNCHANGED log
    PROVE  \A m : EventsOf(m)' = EventsOf(m)
  BY DEF EventsOf, Logged

\* remove of queue.go takes one message out of the slice, and no other.
LEMMA RemoveHeld ==
    ASSUME IInv, NEW i \in 1..Len(entries), NEW m, m = entries[i].msg, Remove(i)
    PROVE  ~Held(m)' /\ \A k : k # m => (Held(k)' <=> Held(k))
  <1>1. Len(entries) \in Nat /\ Len(entries') = Len(entries) - 1
        /\ (\A j \in 1..Len(entries') :
              entries'[j] = IF j = i THEN entries[Len(entries)]
                                     ELSE entries[j])
        /\ (\A k \in 1..Len(entries) : k # i =>
              \E j \in 1..Len(entries') : entries'[j] = entries[k])
    BY RemoveFacts DEF IInv, TypeOK
  <1>2. ASSUME NEW j \in 1..Len(entries')
        PROVE  \E k \in 1..Len(entries) : k # i /\ entries'[j] = entries[k]
    <2>1. CASE j = i
      BY <1>1, <2>1
    <2>2. CASE j # i
      BY <1>1, <2>2
    <2> QED BY <2>1, <2>2
  <1>3. \A k \in 1..Len(entries) : k # i => entries[k].msg # m
    BY DEF IInv, SlotsDistinct
  <1>4. ~Held(m)'
    BY <1>2, <1>3 DEF Held
  <1>5. ASSUME NEW k, k # m
        PROVE  Held(k)' <=> Held(k)
    <2>1. ASSUME Held(k) PROVE Held(k)'
      <3>1. PICK l \in 1..Len(entries) : entries[l].msg = k
        BY <2>1 DEF Held
      <3>2. l # i
        BY <1>5, <3>1
      <3> QED BY <1>1, <3>1, <3>2 DEF Held
    <2>2. ASSUME Held(k)' PROVE Held(k)
      BY <1>2, <2>2 DEF Held
    <2> QED BY <2>1, <2>2
  <1> QED BY <1>4, <1>5

-----------------------------------------------------------------------------
(* The effect of each action on a message *)

\* The step logs the events E about m, leaves it held or not as h says, and
\* its session at c. It concerns no other message.
Changes(m, E, h, c) ==
    /\ EventsOf(m)' = EventsOf(m) \cup E
    /\ Held(m)' <=> h
    /\ call'[m] = c
    /\ \A k \in Messages : k # m => Kept(k)

KeptAll == \A m \in Messages : Kept(m)

\* A step that leaves the slice, the calls and the log alone.
LEMMA SilentEffect ==
    ASSUME UNCHANGED <<entries, call, log>>
    PROVE  KeptAll
  <1>1. \A m : EventsOf(m)' = EventsOf(m)
    BY LogKept
  <1>2. \A m : Held(m)' <=> Held(m)
    BY DEF Held
  <1> QED BY <1>1, <1>2 DEF KeptAll, Kept

LEMMA DispatchEffect ==
    ASSUME IInv, NEW m \in Messages, Dispatch(m)
    PROVE  Changes(m, {}, Held(m), "inline")
  <1>1. UNCHANGED <<entries, log>> /\ call' = [call EXCEPT ![m] = "inline"]
    BY DEF Dispatch, queueVars
  <1>2. \A k : Held(k)' <=> Held(k)
    BY <1>1 DEF Held
  <1>3. \A k : EventsOf(k)' = EventsOf(k)
    BY <1>1, LogKept
  <1> QED BY <1>1, <1>2, <1>3 DEF Changes, Kept, IInv, TypeOK

LEMMA InlineReturnEffect ==
    ASSUME IInv, NEW m \in Messages, NEW r \in Results, InlineReturn(m, r)
    PROVE  Changes(m, {}, Held(m), IF r = "TempFail" THEN "enqueue" ELSE r)
  <1>1. /\ UNCHANGED <<entries, log>>
        /\ call' = [call EXCEPT ![m] = IF r = "TempFail" THEN "enqueue" ELSE r]
    BY DEF InlineReturn, queueVars
  <1>2. \A k : Held(k)' <=> Held(k)
    BY <1>1 DEF Held
  <1>3. \A k : EventsOf(k)' = EventsOf(k)
    BY <1>1, LogKept
  <1> QED BY <1>1, <1>2, <1>3 DEF Changes, Kept, IInv, TypeOK

\* The session's progress c and one log entry, with the slice unchanged.
LEMMA SessionLogs ==
    ASSUME IInv, NEW m \in Messages, NEW e \in Events, NEW c,
           call' = [call EXCEPT ![m] = c], UNCHANGED entries,
           log' = log \cup {Line(e, m, 0)}
    PROVE  Changes(m, {e}, Held(m), c)
  <1>1. 0 \in 0..AttemptCap
    BY BoundAssumption DEF BoundAssumption
  <1>2. EventsOf(m)' = EventsOf(m) \cup {e}
        /\ \A k \in Messages : k # m => EventsOf(k)' = EventsOf(k)
    BY <1>1, LineAdded
  <1>3. \A k : Held(k)' <=> Held(k)
    BY DEF Held
  <1> QED BY <1>2, <1>3 DEF Changes, Kept, IInv, TypeOK

LEMMA EnqueueEffect ==
    ASSUME IInv, NEW m \in Messages, Enqueue(m)
    PROVE  \/ \E e \in Limits : Changes(m, {e}, Held(m), "TempFail")
           \/ Changes(m, {"queued"}, TRUE, "Queued")
  <1>1. Limits \subseteq Events /\ "queued" \in Events
    BY DEF Limits, Events, QueueEvents
  <1>2. CASE \E e \in Limits :
                /\ log' = log \cup {Line(e, m, 0)}
                /\ call' = [call EXCEPT ![m] = "TempFail"]
                /\ UNCHANGED queueVars
    BY <1>1, <1>2, SessionLogs DEF queueVars
  <1>3. CASE ~EntryLimit /\ ~ByteLimit(m)
    <2> DEFINE new == [msg |-> m, accepted |-> now,
                       nextTry |-> now + Interval, attempts |-> 0]
    <2>1. /\ entries' = Append(entries, new)
          /\ log' = log \cup {Line("queued", m, 0)}
          /\ call' = [call EXCEPT ![m] = "Queued"]
      BY <1>3 DEF Enqueue
    <2>2. new.msg = m
      OBVIOUS
    <2> HIDE DEF new
    <2>3. /\ Len(entries') = Len(entries) + 1 /\ Len(entries) \in Nat
          /\ entries'[Len(entries) + 1] = new
          /\ \A j \in 1..Len(entries) : entries'[j] = entries[j]
      BY <2>1 DEF IInv, TypeOK
    <2>4. Held(m)'
      BY <2>2, <2>3 DEF Held
    <2>5. \A k : k # m => (Held(k)' <=> Held(k))
      BY <2>2, <2>3 DEF Held
    <2>6. EventsOf(m)' = EventsOf(m) \cup {"queued"}
          /\ \A k \in Messages : k # m => EventsOf(k)' = EventsOf(k)
      <3>1. 0 \in 0..AttemptCap
        BY BoundAssumption DEF BoundAssumption
      <3> QED BY <1>1, <2>1, <3>1, LineAdded
    <2> QED BY <2>1, <2>4, <2>5, <2>6 DEF Changes, Kept, IInv, TypeOK
  <1> QED BY <1>2, <1>3 DEF Enqueue, Limits

LEMMA FinishEffect ==
    ASSUME IInv, NEW m \in Messages, Finish(m)
    PROVE  Changes(m, {SessionEvent(call[m])}, Held(m), "replied")
  <1>1. call[m] \in CallResults /\ UNCHANGED entries
        /\ log' = log \cup {Line(SessionEvent(call[m]), m, 0)}
        /\ call' = [call EXCEPT ![m] = "replied"]
    BY DEF Finish, queueVars
  <1>2. SessionEvent(call[m]) \in Events
    BY <1>1 DEF SessionEvent, Events, SessionEvents
  <1> QED BY <1>1, <1>2, SessionLogs

\* An entry whose removal is logged as e.
LEMMA RemoveEffect ==
    ASSUME IInv, NEW i \in 1..Len(entries), NEW m, m = entries[i].msg,
           NEW e \in Events, NEW n \in 0..AttemptCap, Remove(i),
           log' = log \cup {Line(e, m, n)}, UNCHANGED call
    PROVE  Changes(m, {e}, FALSE, call[m])
  <1>1. m \in Messages
    BY EntryTyped
  <1>2. EventsOf(m)' = EventsOf(m) \cup {e}
        /\ \A k \in Messages : k # m => EventsOf(k)' = EventsOf(k)
    BY <1>1, LineAdded
  <1>3. ~Held(m)' /\ \A k : k # m => (Held(k)' <=> Held(k))
    BY RemoveHeld
  <1> QED BY <1>2, <1>3 DEF Changes, Kept

LEMMA TickExpireEffect ==
    ASSUME IInv, NEW t \in Threads, TickExpire(t)
    PROVE  \/ KeptAll
           \/ \E m \in Messages :
                 Held(m) /\ Changes(m, {"expired"}, FALSE, call[m])
  <1> DEFINE i == idx[t]
  <1>1. i \in 1..Len(entries) /\ Len(entries) \in Nat /\ UNCHANGED call
    BY DEF IInv, TypeOK, ScanInBounds, TickExpire
  <1>2. CASE ~Expired(t, entries[i])
    <2>1. UNCHANGED <<entries, call, log>>
      BY <1>2 DEF TickExpire, queueVars
    <2> QED BY <2>1, SilentEffect
  <1>3. CASE Expired(t, entries[i])
    <2>1. PICK m : m = entries[i].msg
      OBVIOUS
    <2>2. PICK n : n = entries[i].attempts
      OBVIOUS
    <2>3. Remove(i) /\ log' = log \cup {Line("expired", m, n)}
      BY <1>3, <2>1, <2>2 DEF TickExpire
    <2>4. m \in Messages /\ n \in 0..AttemptCap
      BY <1>1, <2>1, <2>2, EntryTyped
    <2>5. Held(m)
      BY <1>1, <2>1 DEF Held
    <2>6. "expired" \in Events
      BY DEF Events, QueueEvents
    <2>7. Changes(m, {"expired"}, FALSE, call[m])
      <3> HIDE DEF i
      <3> QED BY <1>1, <2>1, <2>3, <2>4, <2>6, RemoveEffect
    <2> QED BY <2>4, <2>5, <2>7
  <1> QED BY <1>2, <1>3

LEMMA TickRecordEffect ==
    ASSUME IInv, NEW t \in Threads, TickRecord(t),
           NEW m, m = Head(due[t])
    PROVE  /\ m \in Messages /\ Held(m)
           /\ \/ KeptAll
              \/ Changes(m, {"retry delivered"}, FALSE, call[m])
              \/ Changes(m, {"retry permanent"}, FALSE, call[m])
  <1>1. pc[t] = "record" /\ due[t] # <<>> /\ UNCHANGED call
    BY DEF IInv, DueHead, TickRecord
  <1>2. m \in Messages /\ Held(m)
    BY <1>1, HeadHeld
  <1>3. PICK i \in 1..Len(entries) : entries[i].msg = m /\ RecordResult(t, i)
    <2>1. IndexOf(m) \in 1..Len(entries) /\ entries[IndexOf(m)].msg = m
      BY <1>2, IndexOfHeld DEF IInv
    <2>2. RecordResult(t, IndexOf(m))
      BY <1>2 DEF TickRecord
    <2> QED BY <2>1, <2>2
  <1>4. PICK n : n = Bump(entries[i].attempts)
    OBVIOUS
  <1>5. n \in 0..AttemptCap
    BY <1>3, <1>4, EntryTyped, BoundAssumption DEF Bump, BoundAssumption
  <1>6. CASE res[t] = "OK"
    <2>1. Remove(i) /\ log' = log \cup {Line("retry delivered", m, n)}
      BY <1>3, <1>4, <1>6 DEF RecordResult
    <2>2. "retry delivered" \in Events
      BY DEF Events, QueueEvents
    <2> QED BY <1>1, <1>2, <1>3, <1>5, <2>1, <2>2, RemoveEffect
  <1>7. CASE res[t] = "PermFail"
    <2>1. Remove(i) /\ log' = log \cup {Line("retry permanent", m, n)}
      BY <1>3, <1>4, <1>7 DEF RecordResult
    <2>2. "retry permanent" \in Events
      BY DEF Events, QueueEvents
    <2> QED BY <1>1, <1>2, <1>3, <1>5, <2>1, <2>2, RemoveEffect
  <1>8. CASE res[t] = "TempFail"
    <2>1. UNCHANGED log
          /\ entries' = [entries EXCEPT ![i].attempts = n,
                                        ![i].nextTry = now + Interval]
      BY <1>3, <1>4, <1>8 DEF RecordResult
    <2>2. Len(entries') = Len(entries)
          /\ \A j \in 1..Len(entries) : entries'[j].msg = entries[j].msg
      <3>1. entries \in Seq(Entry)
        BY DEF IInv, TypeOK
      <3> QED BY <2>1, <3>1 DEF Entry
    <2>3. \A k : Held(k)' <=> Held(k)
      BY <2>2 DEF Held
    <2>4. \A k : EventsOf(k)' = EventsOf(k)
      BY <2>1, LogKept
    <2> QED BY <1>1, <1>2, <2>3, <2>4 DEF KeptAll, Kept
  <1> QED BY <1>6, <1>7, <1>8 DEF IInv, TypeOK

LEMMA DrainZeroEffect ==
    ASSUME IInv, DrainZero
    PROVE  KeptAll
  <1>1. /\ entries' = [i \in 1..Len(entries) |->
                          [entries[i] EXCEPT !.nextTry = None]]
        /\ UNCHANGED <<call, log>>
    BY DEF DrainZero
  <1>2. Len(entries) \in Nat
        /\ \A j \in 1..Len(entries) : entries[j] \in Entry
    BY DEF IInv, TypeOK
  <1>3. Len(entries') = Len(entries)
    BY <1>1, <1>2
  <1>4. \A j \in 1..Len(entries) : entries'[j].msg = entries[j].msg
    BY <1>1, <1>2 DEF Entry
  <1>5. \A k : Held(k)' <=> Held(k)
    BY <1>3, <1>4 DEF Held
  <1>6. \A k : EventsOf(k)' = EventsOf(k)
    BY <1>1, LogKept
  <1> QED BY <1>1, <1>5, <1>6 DEF KeptAll, Kept

LEMMA DrainReportEffect ==
    ASSUME IInv, DrainReport, NEW m \in Messages
    PROVE  /\ Held(m) => EventsOf(m)' = EventsOf(m) \cup {"not drained"}
           /\ ~Held(m) => EventsOf(m)' = EventsOf(m)
           /\ Held(m)' <=> Held(m)
           /\ call'[m] = call[m]
  <1>1. /\ log' = log \cup {Line("not drained", entries[i].msg,
                                 entries[i].attempts) : i \in 1..Len(entries)}
        /\ UNCHANGED <<entries, call>>
    BY DEF DrainReport, queueVars
  <1>2. \A d : Logged(d, m)' <=> Logged(d, m) \/ (d = "not drained" /\ Held(m))
    <2>1. ASSUME NEW d, Logged(d, m)', ~Logged(d, m)
          PROVE  d = "not drained" /\ Held(m)
      <3>1. PICK n \in 0..AttemptCap : Line(d, m, n) \in log'
        BY <2>1 DEF Logged
      <3>2. PICK i \in 1..Len(entries) :
               Line(d, m, n) = Line("not drained", entries[i].msg,
                                    entries[i].attempts)
        BY <1>1, <2>1, <3>1 DEF Logged
      <3> QED BY <3>2 DEF Line, Held
    <2>2. ASSUME NEW d, Logged(d, m) PROVE Logged(d, m)'
      BY <1>1, <2>2 DEF Logged
    <2>3. ASSUME Held(m) PROVE Logged("not drained", m)'
      <3>1. PICK i \in 1..Len(entries) : entries[i].msg = m
        BY <2>3 DEF Held
      <3>2. entries[i].attempts \in 0..AttemptCap
        BY EntryTyped
      <3>3. Line("not drained", m, entries[i].attempts) \in log'
        BY <1>1, <3>1
      <3>4. PICK n \in 0..AttemptCap : Line("not drained", m, n) \in log'
        BY <3>2, <3>3
      <3> QED BY <3>4 DEF Logged
    <2> QED BY <2>1, <2>2, <2>3
  <1>3. "not drained" \in Events
    BY DEF Events, QueueEvents
  <1>4. EventsOf(m)' = {d \in Events : Logged(d, m)'}
    BY DEF EventsOf
  <1>5. EventsOf(m) = {d \in Events : Logged(d, m)}
    BY DEF EventsOf
  <1>6. Held(m)' <=> Held(m)
    BY <1>1 DEF Held
  <1> QED BY <1>1, <1>2, <1>3, <1>4, <1>5, <1>6

-----------------------------------------------------------------------------
(* FInv is inductive *)

\* New and Start: nothing is held and nothing is logged.
LEMMA InitFInv == Init => FInv
  <1> SUFFICES ASSUME Init, NEW m \in Messages
               PROVE  FateFacts(m)
    BY DEF FInv
  <1>1. EventsOf(m) = {} /\ ~Held(m) /\ call[m] = "idle"
    BY DEF Init, EventsOf, Logged, Held
  <1> QED BY <1>1
          DEF FateFacts, CallLogged, HeldOrSettled, ReportIsLast

\* The main goroutine does not go back behind its report.
StaysReported == pc[Main] \in Reported => pc'[Main] \in Reported

LEMMA KeptFacts ==
    ASSUME NEW m \in Messages, FateFacts(m), Kept(m), StaysReported
    PROVE  FateFacts(m)'
  <1>1. CallLogged(m)'
    BY DEF FateFacts, Kept, CallLogged
  <1>2. HeldOrSettled(m)'
    BY DEF FateFacts, Kept, HeldOrSettled
  <1>3. ReportIsLast(m)'
    BY DEF FateFacts, Kept, ReportIsLast, StaysReported
  <1> QED BY <1>1, <1>2, <1>3 DEF FateFacts

LEMMA ChangeFacts ==
    ASSUME FInv, StaysReported, NEW m \in Messages,
           NEW E, NEW h, NEW c, Changes(m, E, h, c), FateFacts(m)'
    PROVE  FInv'
  <1>1. ASSUME NEW k \in Messages, k # m
        PROVE  FateFacts(k)'
    BY <1>1, KeptFacts DEF FInv, Changes
  <1> QED BY <1>1 DEF FInv

\* Dispatch, before anything is logged about the message.
LEMMA DispatchFInv ==
    ASSUME IInv, FInv, NEW m \in Messages, Dispatch(m)
    PROVE  FInv'
  <1>1. Changes(m, {}, Held(m), "inline") /\ call[m] = "idle"
    BY DispatchEffect DEF Dispatch
  <1>2. StaysReported
    BY DEF Dispatch, StaysReported
  <1>3. FateFacts(m)'
    BY <1>1, <1>2
    DEF FInv, FateFacts, CallLogged, HeldOrSettled, ReportIsLast, Changes,
        StaysReported
  <1> QED BY <1>1, <1>2, <1>3, ChangeFacts

LEMMA InlineReturnFInv ==
    ASSUME IInv, FInv, NEW m \in Messages, NEW r \in Results,
           InlineReturn(m, r)
    PROVE  FInv'
  <1> DEFINE c == IF r = "TempFail" THEN "enqueue" ELSE r
  <1>1. Changes(m, {}, Held(m), c) /\ call[m] = "inline"
    BY InlineReturnEffect DEF InlineReturn
  <1>2. StaysReported
    BY DEF InlineReturn, StaysReported
  <1>3. c \in {"enqueue", "OK", "PermFail"}
    OBVIOUS
  <1> HIDE DEF c
  <1>4. FateFacts(m)'
    BY <1>1, <1>2, <1>3
    DEF FInv, FateFacts, CallLogged, HeldOrSettled, ReportIsLast, Changes,
        StaysReported
  <1> QED BY <1>1, <1>2, <1>4, ChangeFacts

\* enqueue writes the first entry about the message.
LEMMA EnqueueFInv ==
    ASSUME IInv, FInv, NEW m \in Messages, Enqueue(m)
    PROVE  FInv'
  <1>1. call[m] = "enqueue" /\ StaysReported
    BY DEF Enqueue, StaysReported
  <1>2. EventsOf(m) = {} /\ ~Held(m)
    BY <1>1 DEF FInv, FateFacts, CallLogged, HeldOrSettled
  <1>3. ASSUME NEW e \in Limits, Changes(m, {e}, Held(m), "TempFail")
        PROVE  FInv'
    <2>1. EventsOf(m)' = {e} /\ ~Held(m)' /\ call'[m] = "TempFail"
      BY <1>2, <1>3 DEF Changes
    <2>2. e # "queued" /\ e # "not drained"
      BY DEF Limits
    <2>3. FateFacts(m)'
      BY <2>1, <2>2
      DEF FateFacts, CallLogged, HeldOrSettled, ReportIsLast
    <2> QED BY <1>1, <1>3, <2>3, ChangeFacts
  <1>4. ASSUME Changes(m, {"queued"}, TRUE, "Queued")
        PROVE  FInv'
    <2>1. EventsOf(m)' = {"queued"} /\ Held(m)' /\ call'[m] = "Queued"
      BY <1>2, <1>4 DEF Changes
    <2>2. FateFacts(m)'
      BY <2>1
      DEF FateFacts, CallLogged, HeldOrSettled, ReportIsLast, QueuedLife,
          SettleEvents
    <2> QED BY <1>1, <1>4, <2>2, ChangeFacts
  <1> QED BY <1>3, <1>4, EnqueueEffect

\* The session's own entry agrees with those of the queue.
LEMMA FinishFInv ==
    ASSUME IInv, FInv, NEW m \in Messages, Finish(m)
    PROVE  FInv'
  <1> DEFINE e == SessionEvent(call[m])
  <1>1. call[m] \in CallResults /\ StaysReported
    BY DEF Finish, StaysReported
  <1>2. Changes(m, {e}, Held(m), "replied")
    BY FinishEffect
  <1>3. /\ call[m] = "OK" => e = "delivered"
        /\ call[m] = "Queued" => e = "queued for retry"
        /\ call[m] = "TempFail" => e = "no capacity"
        /\ call[m] = "PermFail" => e = "permanent"
    BY DEF SessionEvent
  <1> HIDE DEF e
  <1>4. EventsOf(m)' = EventsOf(m) \cup {e} /\ (Held(m)' <=> Held(m))
        /\ call'[m] = "replied"
    BY <1>2 DEF Changes
  <1>5. CallLogged(m)'
    BY <1>1, <1>3, <1>4 DEF FInv, FateFacts, CallLogged, QueuedLife
  <1>6. e \in SessionEvents
    BY <1>1, <1>3 DEF SessionEvents
  <1>7. HeldOrSettled(m)' /\ ReportIsLast(m)'
    BY <1>1, <1>4, <1>6
    DEF FInv, FateFacts, HeldOrSettled, ReportIsLast, SettleEvents,
        SessionEvents, StaysReported
  <1> QED BY <1>1, <1>2, <1>5, <1>7, ChangeFacts DEF FateFacts

\* What is logged about a message while it is held.
LEMMA HeldLife ==
    ASSUME IInv, FInv, NEW m \in Messages, Held(m)
    PROVE  /\ call[m] \in {"Queued", "replied"}
           /\ "queued" \in EventsOf(m) /\ EventsOf(m) \cap SettleEvents = {}
           /\ EventsOf(m) \subseteq QueuedLife
  <1>1. call[m] \in {"Queued", "replied"}
    BY DEF Held, IInv, HeldWasQueued
  <1>2. "queued" \in EventsOf(m) /\ EventsOf(m) \cap SettleEvents = {}
    BY DEF FInv, FateFacts, HeldOrSettled
  <1>3. /\ EventsOf(m) # {"delivered"} /\ EventsOf(m) # {"permanent"}
        /\ ~(EventsOf(m) \subseteq Limits \cup {"no capacity"})
    <2>1. "queued" \notin Limits \cup {"no capacity"}
      BY DEF Limits
    <2>2. "queued" # "delivered" /\ "queued" # "permanent"
      OBVIOUS
    <2> QED BY <1>2, <2>1, <2>2, Zenon
  <1>4. CallLogged(m)
    BY DEF FInv, FateFacts
  <1>5. CASE call[m] = "Queued"
    BY <1>1, <1>2, <1>4, <1>5 DEF CallLogged
  <1>6. CASE call[m] = "replied"
    <2>1. EventsOf(m) \subseteq QueuedLife
      BY <1>3, <1>4, <1>6, Zenon DEF CallLogged
    <2> QED BY <1>1, <1>2, <2>1
  <1> QED BY <1>1, <1>5, <1>6

\* The queue settles a message that it holds.
LEMMA SettleFInv ==
    ASSUME IInv, FInv, NEW m \in Messages, Held(m), pc[Main] \notin Reported,
           NEW e \in SettleEvents, Changes(m, {e}, FALSE, call[m])
    PROVE  FInv'
  <1>1. EventsOf(m)' = EventsOf(m) \cup {e} /\ ~Held(m)' /\ call'[m] = call[m]
    BY DEF Changes
  <1>2. call[m] \in {"Queued", "replied"}
    BY HeldLife
  <1>3. "queued" \in EventsOf(m) /\ EventsOf(m) \cap SettleEvents = {}
        /\ "not drained" \notin EventsOf(m)
    BY HeldLife DEF FInv, FateFacts, ReportIsLast
  <1>4. EventsOf(m) \subseteq QueuedLife
    BY HeldLife
  <1>5. EventsOf(m)' \subseteq QueuedLife /\ "queued" \in EventsOf(m)'
    BY <1>1, <1>3, <1>4 DEF QueuedLife
  <1>6. CallLogged(m)'
    BY <1>1, <1>2, <1>5 DEF CallLogged
  <1>7. EventsOf(m)' \cap SettleEvents = {e}
    BY <1>1, <1>3
  <1>8. HeldOrSettled(m)'
    BY <1>1, <1>5, <1>7 DEF HeldOrSettled
  <1>9. ReportIsLast(m)'
    BY <1>1, <1>3 DEF ReportIsLast, SettleEvents
  <1> QED BY <1>6, <1>8, <1>9, ChangeFacts DEF FateFacts, StaysReported

\* A step that concerns no message.
LEMMA KeptFInv ==
    ASSUME FInv, KeptAll, StaysReported
    PROVE  FInv'
  BY KeptFacts DEF FInv, KeptAll

\* A thread that executes tick has not been reported upon.
LEMMA TickBeforeReport ==
    ASSUME IInv, NEW t \in Threads, pc[t] \in ScanPCs \cup AttemptPCs
    PROVE  pc[Main] \notin Reported
  BY DEF IInv, OneTicker, Reported

LEMMA TickExpireFInv ==
    ASSUME IInv, FInv, NEW t \in Threads, TickExpire(t)
    PROVE  FInv'
  <1>1. pc[Main] \notin Reported /\ StaysReported
    BY TickBeforeReport DEF TickExpire, StaysReported
  <1>2. "expired" \in SettleEvents
    BY DEF SettleEvents
  <1> QED BY <1>1, <1>2, TickExpireEffect, SettleFInv, KeptFInv

LEMMA TickRecordFInv ==
    ASSUME IInv, FInv, NEW t \in Threads, TickRecord(t)
    PROVE  FInv'
  <1>1. pc[Main] \notin Reported
    BY TickBeforeReport DEF TickRecord
  <1>2. {"retry delivered", "retry permanent"} \subseteq SettleEvents
    BY DEF SettleEvents
  <1>3. PICK m : m = Head(due[t])
    OBVIOUS
  <1> QED BY <1>1, <1>2, <1>3, TickRecordEffect, SettleFInv, KeptFInv
          DEF StaysReported

\* Drain reports the messages it still holds, after the last attempt.
LEMMA DrainReportFInv ==
    ASSUME IInv, FInv, DrainReport
    PROVE  FInv'
  <1> SUFFICES ASSUME NEW m \in Messages
               PROVE  FateFacts(m)'
    BY DEF FInv
  <1>1. pc'[Main] = "drained"
    BY DEF DrainReport, Goto, IInv, TypeOK
  <1>2. /\ Held(m) => EventsOf(m)' = EventsOf(m) \cup {"not drained"}
        /\ ~Held(m) => EventsOf(m)' = EventsOf(m)
        /\ Held(m)' <=> Held(m)
        /\ call'[m] = call[m]
    BY DrainReportEffect
  <1>3. CASE ~Held(m)
    BY <1>1, <1>2, <1>3, KeptFacts DEF Kept, StaysReported, Reported, FInv
  <1>4. CASE Held(m)
    <2>1. call[m] \in {"Queued", "replied"}
      BY <1>4, HeldLife
    <2>2. "queued" \in EventsOf(m) /\ EventsOf(m) \cap SettleEvents = {}
      BY <1>4, HeldLife
    <2>3. EventsOf(m) \subseteq QueuedLife
      BY <1>4, HeldLife
    <2>4. EventsOf(m)' \subseteq QueuedLife /\ "queued" \in EventsOf(m)'
      BY <1>2, <1>4, <2>2, <2>3 DEF QueuedLife
    <2>5. CallLogged(m)'
      BY <1>2, <2>1, <2>4 DEF CallLogged
    <2>6. EventsOf(m)' \cap SettleEvents = {}
      BY <1>2, <1>4, <2>2 DEF SettleEvents
    <2> QED BY <1>1, <1>2, <1>4, <2>4, <2>5, <2>6
            DEF FateFacts, HeldOrSettled, ReportIsLast, Reported
  <1> QED BY <1>3, <1>4

\* The steps of the goroutines and of the clock that move no message.
LEMMA SilentStep ==
    ASSUME IInv,
           \/ RunTick \/ RunStop \/ Advance
           \/ \E t \in Threads :
                 \/ TickNow(t) \/ TickLock(t) \/ TickExpireDone(t)
                 \/ TickCopy(t) \/ TickUnlock(t) \/ TickAttempt(t)
                 \/ TickEnd(t) \/ \E r \in Results : TickReturn(t, r)
           \/ DrainStop \/ DrainWait \/ DrainCheck \/ DrainZero \/ Exit
    PROVE  KeptAll /\ StaysReported
  <1>1. CASE RunTick \/ RunStop \/ Advance
    BY <1>1, SilentEffect
    DEF RunTick, RunStop, Advance, Goto, StaysReported, queueVars, IInv,
        TypeOK
  <1>2. ASSUME NEW t \in Threads,
               \/ TickNow(t) \/ TickLock(t) \/ TickExpireDone(t)
               \/ TickCopy(t) \/ TickUnlock(t) \/ TickAttempt(t)
               \/ TickEnd(t) \/ \E r \in Results : TickReturn(t, r)
        PROVE  KeptAll /\ StaysReported
    <2>1. UNCHANGED <<entries, call, log>>
      BY <1>2
      DEF TickNow, TickLock, TickExpireDone, TickCopy, TickUnlock, TickAttempt,
          TickEnd, TickReturn, queueVars
    <2>2. pc[t] \in TickPCs /\ (UNCHANGED pc \/ \E l : Goto(t, l))
      BY <1>2
      DEF TickNow, TickLock, TickExpireDone, TickCopy, TickUnlock, TickAttempt,
          TickEnd, TickReturn
    <2>3. StaysReported
      BY <2>2 DEF StaysReported, Reported, Goto, IInv, TypeOK
    <2> QED BY <2>1, <2>3, SilentEffect
  <1>3. CASE DrainStop \/ DrainWait \/ DrainCheck \/ Exit
    BY <1>3, SilentEffect
    DEF DrainStop, DrainWait, DrainCheck, Exit, Goto, StaysReported, Reported,
        queueVars, IInv, TypeOK
  <1>4. CASE DrainZero
    BY <1>4, DrainZeroEffect DEF DrainZero, StaysReported, Reported
  <1> QED BY <1>1, <1>2, <1>3, <1>4

LEMMA StepFInv ==
    ASSUME IInv, FInv, [Next]_vars
    PROVE  FInv'
  <1>1. CASE UNCHANGED vars
    BY <1>1, SilentEffect, KeptFInv DEF vars, StaysReported
  <1>2. CASE \E m \in Messages : Dispatch(m) \/ Enqueue(m) \/ Finish(m)
    BY <1>2, DispatchFInv, EnqueueFInv, FinishFInv
  <1>3. CASE \E m \in Messages, r \in Results : InlineReturn(m, r)
    BY <1>3, InlineReturnFInv
  <1>4. CASE RunTick \/ RunStop \/ Exit \/ Advance
    BY <1>4, SilentStep, KeptFInv
  <1>5. CASE \E t \in Threads : Tick(t)
    BY <1>5, SilentStep, KeptFInv, TickExpireFInv, TickRecordFInv DEF Tick
  <1>6. CASE \E t \in Threads, r \in Results : TickReturn(t, r)
    BY <1>6, SilentStep, KeptFInv
  <1>7. CASE Drain
    BY <1>7, SilentStep, KeptFInv, DrainReportFInv DEF Drain
  <1> QED BY <1>1, <1>2, <1>3, <1>4, <1>5, <1>6, <1>7 DEF Next, Step

\* The log and the slice agree about every message, at every step.
THEOREM FateInvariance == Spec => [](IInv /\ FInv)
  <1>1. IInv /\ FInv /\ [Next]_vars => FInv'
    BY StepFInv
  <1> QED BY Invariance, InitFInv, <1>1, PTL DEF Spec

\* A queued message sits in one slot of q.entries or was settled in one way:
\* delivered by a retry, refused by a retry, or expired.
THEOREM FateIsUnique == Spec => []ExactlyOneFate
  <1>1. IInv /\ FInv => ExactlyOneFate
    <2> SUFFICES ASSUME IInv, FInv, NEW m \in Messages
                 PROVE  LET slots == {i \in 1..Len(entries) :
                                         entries[i].msg = m}
                            settled == {e \in SettleEvents : Logged(e, m)}
                        IN  IF Logged("queued", m)
                            THEN \/ /\ settled = {}
                                    /\ \E i \in slots : slots = {i}
                                 \/ /\ slots = {}
                                    /\ \E e \in settled : settled = {e}
                            ELSE slots = {} /\ settled = {}
      BY DEF ExactlyOneFate
    <2> DEFINE slots   == {i \in 1..Len(entries) : entries[i].msg = m}
               settled == {e \in SettleEvents : Logged(e, m)}
    <2>1. SettleEvents \subseteq Events /\ "queued" \in Events
      BY DEF SettleEvents, Events, QueueEvents
    <2>2. settled = EventsOf(m) \cap SettleEvents
          /\ ("queued" \in EventsOf(m) <=> Logged("queued", m))
      BY <2>1 DEF EventsOf
    <2>3. Held(m) => \E i \in slots : slots = {i}
      BY DEF Held, IInv, SlotsDistinct
    <2>4. ~Held(m) => slots = {}
      BY DEF Held
    <2>5. HeldOrSettled(m) /\ CallLogged(m)
      BY DEF FInv, FateFacts
    <2>6. "queued" \notin EventsOf(m) => settled = {}
      <3>1. QueuedLife \cap Limits = {} /\ SettleEvents \subseteq QueuedLife
        BY DEF QueuedLife, Limits, SettleEvents
      <3>2. /\ "delivered" \notin SettleEvents /\ "permanent" \notin SettleEvents
            /\ "no capacity" \notin SettleEvents
        BY DEF SettleEvents
      <3>3. "queued" \notin EventsOf(m) =>
               \/ EventsOf(m) = {} \/ EventsOf(m) = {"delivered"}
               \/ EventsOf(m) = {"permanent"}
               \/ EventsOf(m) \subseteq Limits \cup {"no capacity"}
        BY <2>5 DEF CallLogged, IInv, TypeOK
      <3> QED BY <2>2, <3>1, <3>2, <3>3
    <2> HIDE DEF slots, settled
    <2>7. CASE Logged("queued", m)
      <3>1. CASE Held(m)
        <4>1. settled = {}
          BY <2>2, <2>5, <2>7, <3>1 DEF HeldOrSettled
        <4> QED BY <2>3, <2>7, <3>1, <4>1 DEF slots, settled
      <3>2. CASE ~Held(m)
        <4>1. \E e \in settled : settled = {e}
          BY <2>2, <2>5, <2>7, <3>2 DEF HeldOrSettled
        <4> QED BY <2>4, <2>7, <3>2, <4>1 DEF slots, settled
      <3> QED BY <3>1, <3>2
    <2>8. CASE ~Logged("queued", m)
      <3>1. slots = {} /\ settled = {}
        BY <2>2, <2>4, <2>5, <2>6, <2>8 DEF HeldOrSettled
      <3> QED BY <2>8, <3>1 DEF slots, settled
    <2> QED BY <2>7, <2>8
  <1> QED BY FateInvariance, <1>1, PTL

\* A message that was answered with 250 is held, or its delivery or its loss
\* is logged, and never both.
THEOREM LogIsComplete == Spec => []LogIsRecord
  <1>1. IInv /\ FInv => LogIsRecord
    <2> SUFFICES ASSUME IInv, FInv, NEW m \in Messages
                 PROVE  LET delivered == \E e \in DeliveredEvents : Logged(e, m)
                            lost      == \E e \in LossEvents : Logged(e, m)
                        IN  /\ ~(delivered /\ lost)
                            /\ call[m] = "replied" =>
                                  Held(m) \/ delivered \/ lost
      BY DEF LogIsRecord
    <2> DEFINE delivered == \E e \in DeliveredEvents : e \in EventsOf(m)
               lost      == \E e \in LossEvents : e \in EventsOf(m)
    <2>1. DeliveredEvents \cup LossEvents \subseteq Events
      BY DEF DeliveredEvents, LossEvents, Events, QueueEvents, SessionEvents
    <2>2. /\ delivered <=> \E e \in DeliveredEvents : Logged(e, m)
          /\ lost <=> \E e \in LossEvents : Logged(e, m)
      BY <2>1 DEF EventsOf
    <2>3. CallLogged(m) /\ HeldOrSettled(m) /\ ReportIsLast(m)
      BY DEF FInv, FateFacts
    <2>4. \/ EventsOf(m) = {} /\ call[m] # "replied"
          \/ EventsOf(m) \subseteq Limits /\ call[m] # "replied"
          \/ EventsOf(m) = {"delivered"}
          \/ EventsOf(m) = {"permanent"}
          \/ /\ "no capacity" \in EventsOf(m)
             /\ EventsOf(m) \subseteq Limits \cup {"no capacity"}
          \/ "queued" \in EventsOf(m) /\ EventsOf(m) \subseteq QueuedLife
      BY <2>3 DEF CallLogged, IInv, TypeOK
    <2>5. CASE \/ EventsOf(m) = {} /\ call[m] # "replied"
               \/ EventsOf(m) \subseteq Limits /\ call[m] # "replied"
               \/ EventsOf(m) = {"delivered"}
               \/ EventsOf(m) = {"permanent"}
               \/ /\ "no capacity" \in EventsOf(m)
                  /\ EventsOf(m) \subseteq Limits \cup {"no capacity"}
      <3>1. ~(delivered /\ lost)
        BY <2>5 DEF Limits, DeliveredEvents, LossEvents
      <3>2. call[m] = "replied" => delivered \/ lost
        BY <2>5 DEF DeliveredEvents, LossEvents
      <3> QED BY <2>2, <3>1, <3>2
    <2>6. CASE "queued" \in EventsOf(m) /\ EventsOf(m) \subseteq QueuedLife
      <3>1. delivered => "retry delivered" \in EventsOf(m)
        BY <2>6 DEF QueuedLife, DeliveredEvents, SettleEvents
      <3>2. lost => \E e \in {"not drained", "expired", "retry permanent"} :
                       e \in EventsOf(m)
        BY <2>6 DEF QueuedLife, LossEvents, SettleEvents
      <3>3. ~(delivered /\ lost)
        <4> SUFFICES ASSUME delivered, lost PROVE FALSE
          OBVIOUS
        <4>1. "retry delivered" \in EventsOf(m) \cap SettleEvents
          BY <3>1 DEF SettleEvents
        <4>2. ~Held(m) /\ EventsOf(m) \cap SettleEvents = {"retry delivered"}
          BY <2>3, <2>6, <4>1 DEF HeldOrSettled
        <4>3. "not drained" \notin EventsOf(m)
          BY <2>3, <4>2 DEF ReportIsLast
        <4> QED BY <3>2, <4>2, <4>3 DEF SettleEvents
      <3>4. Held(m) \/ delivered \/ lost
        <4>1. CASE ~Held(m)
          <5>1. PICK e \in SettleEvents : e \in EventsOf(m)
            BY <2>3, <2>6, <4>1 DEF HeldOrSettled
          <5> QED BY <5>1 DEF SettleEvents, DeliveredEvents, LossEvents
        <4> QED BY <4>1
      <3> QED BY <2>2, <3>3, <3>4
    <2> QED BY <2>4, <2>5, <2>6
  <1> QED BY FateInvariance, <1>1, PTL

-----------------------------------------------------------------------------
(* TInv is inductive *)

LEMMA InitTInv == Init => TInv
  <1>1. Len(<<>>) = 0
    OBVIOUS
  <1> QED BY <1>1 DEF Init, TInv, NoFuture, Waits, DueRipe

\* Every entry after the step was one before it, of the same age, and has
\* still to wait for Interval while the worker runs.
SliceAged ==
    \A j \in 1..Len(entries') : \E i \in 1..Len(entries) :
        /\ entries'[j].msg = entries[i].msg
        /\ entries'[j].accepted = entries[i].accepted
        /\ pc'[Worker] # "returned" =>
              entries'[j].nextTry >= entries'[j].accepted + Interval

\* The step puts nothing on the due list of the worker.
DueShrinks ==
    \A k \in 1..Len(due'[Worker]) : \E l \in 1..Len(due[Worker]) :
        due'[Worker][k] = due[Worker][l]

\* Time does not run backwards, and no tick runs ahead of it.
ClockMoves ==
    /\ now' \in Nat /\ now' >= now
    /\ \A t \in Threads : tnow'[t] <= now'

LEMMA AgedTInv ==
    ASSUME IInv, TInv, SliceAged, DueShrinks, ClockMoves
    PROVE  TInv'
  <1>1. now \in Nat /\ now' \in Nat /\ now' >= now /\ Interval \in Nat
    BY ConfigAssumption DEF IInv, TypeOK, ClockMoves, ConfigAssumption
  <1>2. ASSUME NEW j \in 1..Len(entries')
        PROVE  entries'[j].accepted <= now'
    <2>1. PICK i \in 1..Len(entries) :
             entries'[j].accepted = entries[i].accepted
      BY DEF SliceAged
    <2>2. entries[i].accepted \in Nat /\ entries[i].accepted <= now
      BY EntryTyped DEF TInv, NoFuture
    <2> QED BY <1>1, <2>1, <2>2
  <1>3. ASSUME NEW j \in 1..Len(entries'), NEW k \in 1..Len(due'[Worker]),
               entries'[j].msg = due'[Worker][k]
        PROVE  entries'[j].accepted + Interval <= now'
    <2>1. PICK i \in 1..Len(entries) :
             /\ entries'[j].msg = entries[i].msg
             /\ entries'[j].accepted = entries[i].accepted
      BY DEF SliceAged
    <2>2. PICK l \in 1..Len(due[Worker]) : due'[Worker][k] = due[Worker][l]
      BY DEF DueShrinks
    <2>3. entries[i].accepted \in Nat /\ entries[i].accepted + Interval <= now
      BY <1>3, <2>1, <2>2, EntryTyped DEF TInv, DueRipe
    <2> QED BY <1>1, <2>1, <2>3
  <1>4. NoFuture'
    BY <1>2 DEF NoFuture, ClockMoves
  <1>5. Waits'
    BY DEF Waits, SliceAged
  <1>6. DueRipe'
    BY <1>3 DEF DueRipe
  <1> QED BY <1>4, <1>5, <1>6 DEF TInv

\* Steps that leave the slice and the due lists alone.
LEMMA SameSliceTInv ==
    ASSUME IInv, TInv, UNCHANGED <<entries, due>>, ClockMoves,
           pc'[Worker] # "returned" => pc[Worker] # "returned"
    PROVE  TInv'
  <1>1. SliceAged
    BY DEF SliceAged, TInv, Waits
  <1>2. DueShrinks
    BY DEF DueShrinks
  <1> QED BY <1>1, <1>2, AgedTInv

\* A clock that stands still; a tick reads it, or is done with it.
LEMMA ClockStands ==
    ASSUME IInv, TInv, UNCHANGED now,
           \/ UNCHANGED tnow
           \/ \E t \in Threads, n \in {0, now} :
                 tnow' = [tnow EXCEPT ![t] = n]
    PROVE  ClockMoves
  <1>1. now \in Nat /\ tnow \in [Threads -> Nat]
        /\ \A t \in Threads : tnow[t] <= now
    BY DEF IInv, TypeOK, TInv, NoFuture
  <1>2. \A t \in Threads : tnow'[t] \in {0, now, tnow[t]}
    BY <1>1
  <1> QED BY <1>1, <1>2 DEF ClockMoves

LEMMA ControlTInv ==
    ASSUME IInv, TInv,
           \/ \E m \in Messages : Dispatch(m) \/ Finish(m)
           \/ \E m \in Messages, r \in Results : InlineReturn(m, r)
           \/ RunTick \/ RunStop
           \/ \E t \in Threads :
                 \/ TickNow(t) \/ TickLock(t) \/ TickExpireDone(t)
                 \/ TickUnlock(t) \/ TickAttempt(t) \/ TickEnd(t)
                 \/ \E r \in Results : TickReturn(t, r)
           \/ DrainStop \/ DrainWait \/ DrainCheck \/ DrainReport \/ Exit
           \/ UNCHANGED vars
    PROVE  TInv'
  <1>1. UNCHANGED <<entries, due, now>>
    BY DEF Dispatch, Finish, InlineReturn, RunTick, RunStop, TickNow, TickLock,
           TickExpireDone, TickUnlock, TickAttempt, TickEnd, TickReturn,
           DrainStop, DrainWait, DrainCheck, DrainReport, Exit, vars,
           queueVars, tickVars
  <1>2. CASE \/ \E m \in Messages : Dispatch(m) \/ Finish(m)
             \/ \E m \in Messages, r \in Results : InlineReturn(m, r)
             \/ RunTick \/ RunStop \/ UNCHANGED vars
    <2>1. UNCHANGED tnow /\ (UNCHANGED pc \/ pc[Worker] = "select")
      BY <1>2 DEF Dispatch, Finish, InlineReturn, RunTick, RunStop, vars,
                  tickVars
    <2> QED BY <1>1, <2>1, ClockStands, SameSliceTInv
  <1>3. ASSUME NEW t \in Threads,
               \/ TickNow(t) \/ TickLock(t) \/ TickExpireDone(t)
               \/ TickUnlock(t) \/ TickAttempt(t) \/ TickEnd(t)
               \/ \E r \in Results : TickReturn(t, r)
        PROVE  TInv'
    <2>1. pc[t] # "returned" /\ \E l : pc' = [pc EXCEPT ![t] = l]
      BY <1>3 DEF TickNow, TickLock, TickExpireDone, TickUnlock, TickAttempt,
                  TickEnd, TickReturn, Goto
    <2>2. pc'[Worker] # "returned" => pc[Worker] # "returned"
      BY <2>1 DEF IInv, TypeOK
    <2>3. UNCHANGED tnow \/ \E n \in {0, now} : tnow' = [tnow EXCEPT ![t] = n]
      <3>1. CASE TickNow(t)
        BY <3>1 DEF TickNow
      <3>2. CASE TickLock(t) \/ TickExpireDone(t) \/ TickUnlock(t)
        BY <3>2 DEF TickLock, TickExpireDone, TickUnlock
      <3>3. CASE \/ TickAttempt(t) \/ TickEnd(t)
                 \/ \E r \in Results : TickReturn(t, r)
        BY <3>3 DEF TickAttempt, TickEnd, TickReturn, tickVars
      <3> QED BY <1>3, <3>1, <3>2, <3>3
    <2>4. ClockMoves
      BY <1>1, <2>3, ClockStands
    <2> QED BY <1>1, <2>2, <2>4, SameSliceTInv
  <1>4. CASE DrainStop \/ DrainWait \/ DrainCheck \/ DrainReport \/ Exit
    <2>1. UNCHANGED tnow /\ \E l : Goto(Main, l)
      BY <1>4 DEF DrainStop, DrainWait, DrainCheck, DrainReport, Exit, tickVars
    <2>2. pc'[Worker] # "returned" => pc[Worker] # "returned"
      BY <2>1 DEF Goto, IInv, TypeOK
    <2> QED BY <1>1, <2>1, <2>2, ClockStands, SameSliceTInv
  <1> QED BY <1>2, <1>3, <1>4

LEMMA AdvanceTInv ==
    ASSUME IInv, TInv, Advance
    PROVE  TInv'
  <1>1. UNCHANGED <<entries, due, pc, tnow>> /\ now' = now + 1
    BY DEF Advance, queueVars, tickVars
  <1>2. ClockMoves
    BY <1>1 DEF ClockMoves, IInv, TypeOK, TInv, NoFuture
  <1> QED BY <1>1, <1>2, SameSliceTInv

\* remove changes no entry that stays.
LEMMA RemoveAged ==
    ASSUME IInv, TInv, NEW i \in 1..Len(entries), Remove(i),
           pc'[Worker] # "returned" => pc[Worker] # "returned"
    PROVE  SliceAged
  <1>1. \A j \in 1..Len(entries') :
           entries'[j] = IF j = i THEN entries[Len(entries)] ELSE entries[j]
    BY RemoveFacts
  <1>2. Len(entries) \in Nat /\ Len(entries') = Len(entries) - 1
    BY RemoveFacts DEF IInv, TypeOK
  <1>3. ASSUME NEW j \in 1..Len(entries')
        PROVE  \E l \in 1..Len(entries) : entries'[j] = entries[l]
    <2>1. CASE j = i
      BY <1>1, <1>2, <2>1
    <2>2. CASE j # i
      BY <1>1, <1>2, <2>2
    <2> QED BY <2>1, <2>2
  <1> QED BY <1>3 DEF SliceAged, TInv, Waits

LEMMA TickExpireTInv ==
    ASSUME IInv, TInv, NEW t \in Threads, TickExpire(t)
    PROVE  TInv'
  <1>1. UNCHANGED <<now, pc, tnow, due>>
    BY DEF TickExpire
  <1>2. ClockMoves /\ DueShrinks
    BY <1>1, ClockStands DEF DueShrinks
  <1>3. idx[t] \in 1..Len(entries)
    BY DEF TickExpire, IInv, TypeOK, ScanInBounds
  <1>4. CASE UNCHANGED queueVars
    BY <1>1, <1>2, <1>4, SameSliceTInv DEF queueVars
  <1>5. CASE Remove(idx[t])
    BY <1>1, <1>2, <1>3, <1>5, RemoveAged, AgedTInv
  <1> QED BY <1>4, <1>5 DEF TickExpire

\* A new entry waits for Interval, and is on no due list.
LEMMA EnqueueTInv ==
    ASSUME IInv, TInv, NEW m \in Messages, Enqueue(m)
    PROVE  TInv'
  <1>1. call[m] = "enqueue" /\ UNCHANGED <<now, pc, tnow, due>>
    BY DEF Enqueue, tickVars
  <1>2. ClockMoves
    BY <1>1, ClockStands
  <1>3. CASE UNCHANGED queueVars
    BY <1>1, <1>2, <1>3, SameSliceTInv DEF queueVars
  <1>4. CASE ~EntryLimit /\ ~ByteLimit(m)
    <2> DEFINE new == [msg |-> m, accepted |-> now,
                       nextTry |-> now + Interval, attempts |-> 0]
    <2>1. entries' = Append(entries, new)
      BY <1>4 DEF Enqueue
    <2>2. new.msg = m /\ new.accepted = now /\ new.nextTry = now + Interval
      OBVIOUS
    <2> HIDE DEF new
    <2>3. /\ Len(entries') = Len(entries) + 1 /\ Len(entries) \in Nat
          /\ entries'[Len(entries) + 1] = new
          /\ \A j \in 1..Len(entries) : entries'[j] = entries[j]
      BY <2>1 DEF IInv, TypeOK
    <2>4. \A j \in 1..Len(entries') : entries'[j] = new
                 \/ \E i \in 1..Len(entries) : i = j /\ entries'[j] = entries[i]
      BY <2>3
    <2>5. now \in Nat /\ Interval \in Nat
      BY ConfigAssumption DEF IInv, TypeOK, ConfigAssumption
    <2>6. NoFuture'
      BY <1>1, <2>2, <2>4, <2>5 DEF TInv, NoFuture
    <2>7. Waits'
      BY <1>1, <2>2, <2>4, <2>5 DEF TInv, Waits
    <2>8. \A k \in 1..Len(due[Worker]) : due[Worker][k] # m
      <3> SUFFICES ASSUME NEW k \in 1..Len(due[Worker])
                   PROVE  \E i \in 1..Len(entries) :
                              entries[i].msg = due[Worker][k]
        BY <1>1 DEF IInv, HeldWasQueued
      <3>1. due[Worker] \in Seq(Messages) /\ due[Worker] # <<>>
        BY DEF IInv, TypeOK
      <3>2. pc[Worker] \in {"copy"} \cup AttemptPCs
        BY <3>1 DEF IInv, DueOutside
      <3>3. CASE pc[Worker] = "copy"
        <4>1. idx[Worker] \in 1..(Len(entries) + 1)
          BY <3>3 DEF IInv, ScanInBounds
        <4>2. PICK i \in 1..(idx[Worker] - 1) : entries[i].msg = due[Worker][k]
          BY <3>3 DEF IInv, DueCovered, Covered
        <4> QED BY <2>3, <4>1, <4>2
      <3>4. CASE pc[Worker] \in AttemptPCs
        BY <3>4 DEF IInv, DueCovered, Covered
      <3> QED BY <3>2, <3>3, <3>4
    <2>9. DueRipe'
      BY <1>1, <2>2, <2>4, <2>8 DEF TInv, DueRipe
    <2> QED BY <2>6, <2>7, <2>9 DEF TInv
  <1> QED BY <1>3, <1>4 DEF Enqueue

\* The copy loop of the worker takes only entries that have waited.
LEMMA TickCopyTInv ==
    ASSUME IInv, TInv, NEW t \in Threads, TickCopy(t)
    PROVE  TInv'
  <1>1. UNCHANGED <<now, pc, tnow, entries>>
    BY DEF TickCopy, queueVars
  <1>2. ClockMoves
    BY <1>1, ClockStands
  <1>3. CASE UNCHANGED due
    BY <1>1, <1>2, <1>3, SameSliceTInv
  <1>4. CASE due' # due
    <2> DEFINE i == idx[t]
               e == entries[i]
    <2>1. /\ pc[t] = "copy" /\ i <= Len(entries) /\ e.nextTry <= tnow[t]
          /\ due' = [due EXCEPT ![t] = Append(due[t], e.msg)]
      BY <1>4 DEF TickCopy
    <2>2. i \in 1..Len(entries)
      BY <2>1 DEF IInv, TypeOK, ScanInBounds
    <2>3. NoFuture' /\ Waits'
      BY <1>1 DEF TInv, NoFuture, Waits
    <2>4. CASE t = Main
      <3>1. due'[Worker] = due[Worker]
        BY <2>1, <2>4 DEF IInv, TypeOK
      <3> QED BY <1>1, <2>3, <3>1 DEF TInv, DueRipe
    <2>5. CASE t = Worker
      <3>1. e.accepted + Interval <= now
        <4>1. /\ e.nextTry >= e.accepted + Interval
              /\ tnow[t] <= now
          BY <2>1, <2>2, <2>5 DEF TInv, Waits, NoFuture
        <4>2. /\ e.nextTry \in Nat /\ e.accepted \in Nat /\ tnow[t] \in Nat
              /\ now \in Nat /\ Interval \in Nat
          BY <2>2, EntryTyped, ConfigAssumption
          DEF IInv, TypeOK, ConfigAssumption
        <4> HIDE DEF e
        <4> QED BY <2>1, <4>1, <4>2
      <3>2. \A j \in 1..Len(entries) : entries[j].msg = e.msg => j = i
        BY <2>2 DEF IInv, SlotsDistinct
      <3>3. /\ due[Worker] \in Seq(Messages) /\ e.msg \in Messages
            /\ due'[Worker] = Append(due[Worker], e.msg)
        BY <2>1, <2>2, <2>5, EntryTyped DEF IInv, TypeOK
      <3>4. PICK x : x = e.msg
        OBVIOUS
      <3>5. \A k \in 1..Len(due'[Worker]) :
               \/ due'[Worker][k] = x
               \/ k \in 1..Len(due[Worker]) /\ due'[Worker][k] = due[Worker][k]
        <4> HIDE DEF e
        <4> QED BY <3>3, <3>4
      <3>6. DueRipe'
        <4> SUFFICES ASSUME NEW j \in 1..Len(entries),
                            NEW k \in 1..Len(due'[Worker]),
                            entries[j].msg = due'[Worker][k]
                     PROVE  entries[j].accepted + Interval <= now
          BY <1>1 DEF DueRipe
        <4>1. CASE due'[Worker][k] = x
          BY <3>1, <3>2, <3>4, <4>1
        <4>2. CASE /\ k \in 1..Len(due[Worker])
                   /\ due'[Worker][k] = due[Worker][k]
          BY <4>2 DEF TInv, DueRipe
        <4> QED BY <3>5, <4>1, <4>2
      <3> QED BY <2>3, <3>6 DEF TInv
    <2> QED BY <2>4, <2>5
  <1> QED BY <1>3, <1>4

LEMMA TickRecordTInv ==
    ASSUME IInv, TInv, NEW t \in Threads, TickRecord(t)
    PROVE  TInv'
  <1>1. /\ pc[t] = "record" /\ due[t] # <<>>
        /\ due' = [due EXCEPT ![t] = Tail(due[t])]
        /\ pc' = [pc EXCEPT ![t] = "next"]
        /\ UNCHANGED <<now, tnow>>
    BY DEF TickRecord, Goto, IInv, DueHead
  <1>2. ClockMoves
    BY <1>1, ClockStands
  <1>3. DueShrinks
    <2>1. due[t] \in Seq(Messages) /\ due[Worker] \in Seq(Messages)
      BY DEF IInv, TypeOK
    <2>2. \A k \in 1..Len(Tail(due[t])) :
             k + 1 \in 1..Len(due[t]) /\ Tail(due[t])[k] = due[t][k + 1]
      BY <1>1, <2>1
    <2>3. CASE t = Worker
      <3>1. due'[Worker] = Tail(due[t])
        BY <1>1, <2>3 DEF IInv, TypeOK
      <3> QED BY <2>2, <2>3, <3>1 DEF DueShrinks
    <2>4. CASE t = Main
      <3>1. due'[Worker] = due[Worker]
        BY <1>1, <2>4 DEF IInv, TypeOK
      <3> QED BY <3>1 DEF DueShrinks
    <2> QED BY <2>3, <2>4
  <1>4. pc'[Worker] # "returned" => pc[Worker] # "returned"
    BY <1>1 DEF IInv, TypeOK
  <1>5. PICK i \in 1..Len(entries) : RecordResult(t, i)
    <2>1. Held(Head(due[t]))
      BY <1>1, HeadHeld
    <2>2. IndexOf(Head(due[t])) \in 1..Len(entries)
      BY <2>1, IndexOfHeld DEF IInv
    <2> QED BY <2>1, <2>2 DEF TickRecord
  <1>6. CASE Remove(i)
    BY <1>2, <1>3, <1>4, <1>6, RemoveAged, AgedTInv
  <1>7. CASE ~Remove(i)
    <2>1. PICK n : entries' = [entries EXCEPT ![i].attempts = n,
                                              ![i].nextTry = now + Interval]
      BY <1>5, <1>7 DEF RecordResult
    <2>2. entries \in Seq(Entry)
      BY DEF IInv, TypeOK
    <2>3. Len(entries') = Len(entries)
          /\ \A j \in 1..Len(entries) :
                /\ entries'[j].msg = entries[j].msg
                /\ entries'[j].accepted = entries[j].accepted
                /\ entries'[j].nextTry =
                      IF j = i THEN now + Interval ELSE entries[j].nextTry
      BY <2>1, <2>2 DEF Entry
    <2>4. \A j \in 1..Len(entries) :
             entries[j].accepted \in Nat /\ entries[j].accepted <= now
      BY EntryTyped DEF TInv, NoFuture
    <2>5. now \in Nat /\ Interval \in Nat
      BY ConfigAssumption DEF IInv, TypeOK, ConfigAssumption
    <2>6. SliceAged
      <3> SUFFICES ASSUME NEW j \in 1..Len(entries)
                   PROVE  pc'[Worker] # "returned" =>
                             entries'[j].nextTry >= entries'[j].accepted + Interval
        BY <2>3 DEF SliceAged
      <3>1. CASE j = i
        BY <2>3, <2>4, <2>5, <3>1
      <3>2. CASE j # i
        BY <1>4, <2>3, <3>2 DEF TInv, Waits
      <3> QED BY <3>1, <3>2
    <2> QED BY <1>2, <1>3, <2>6, AgedTInv
  <1> QED BY <1>6, <1>7

\* Drain makes every entry due when the worker has returned.
LEMMA DrainZeroTInv ==
    ASSUME IInv, TInv, DrainZero
    PROVE  TInv'
  <1>1. /\ entries' = [i \in 1..Len(entries) |->
                          [entries[i] EXCEPT !.nextTry = None]]
        /\ UNCHANGED <<now, tnow, due>> /\ Goto(Main, "tick")
    BY DEF DrainZero, tickVars
  <1>2. pc'[Worker] = "returned"
    BY <1>1 DEF IInv, TypeOK, OneTicker, DrainZero, Goto
  <1>3. Len(entries) \in Nat
        /\ \A j \in 1..Len(entries) : entries[j] \in Entry
    BY DEF IInv, TypeOK
  <1>4. Len(entries') = Len(entries)
    BY <1>1, <1>3
  <1>5. \A j \in 1..Len(entries) :
           /\ entries'[j].msg = entries[j].msg
           /\ entries'[j].accepted = entries[j].accepted
    BY <1>1, <1>3 DEF Entry
  <1>6. SliceAged
    BY <1>2, <1>4, <1>5 DEF SliceAged
  <1> QED BY <1>1, <1>6, ClockStands, AgedTInv DEF DueShrinks

\* The worker never retries a message before retry.interval_sec has passed
\* since enqueue accepted it, however long ago its due list was made.
THEOREM RetryIsNotEarly == Spec => []RetryNotEarly
  <1>1. IInv /\ TInv /\ [Next]_vars => TInv'
    <2> SUFFICES ASSUME IInv, TInv, [Next]_vars
                 PROVE  TInv'
      OBVIOUS
    <2>1. CASE \E m \in Messages : Dispatch(m) \/ Enqueue(m) \/ Finish(m)
      BY <2>1, ControlTInv, EnqueueTInv
    <2>2. CASE \/ \E m \in Messages, r \in Results : InlineReturn(m, r)
               \/ RunTick \/ RunStop \/ Exit \/ UNCHANGED vars
      BY <2>2, ControlTInv
    <2>3. CASE \E t \in Threads : Tick(t)
      BY <2>3, ControlTInv, TickExpireTInv, TickCopyTInv, TickRecordTInv
      DEF Tick
    <2>4. CASE \E t \in Threads, r \in Results : TickReturn(t, r)
      BY <2>4, ControlTInv
    <2>5. CASE Drain
      BY <2>5, ControlTInv, DrainZeroTInv DEF Drain
    <2>6. CASE Advance
      BY <2>6, AdvanceTInv
    <2> QED BY <2>1, <2>2, <2>3, <2>4, <2>5, <2>6 DEF Next, Step
  <1>2. IInv /\ TInv => RetryNotEarly
    <2> SUFFICES ASSUME IInv, TInv, pc[Worker] = "attempt",
                        NEW i \in 1..Len(entries),
                        entries[i].msg = Head(due[Worker])
                 PROVE  now >= entries[i].accepted + Interval
      BY DEF RetryNotEarly
    <2>1. due[Worker] \in Seq(Messages) /\ due[Worker] # <<>>
      BY DEF IInv, TypeOK, DueHead
    <2>2. 1 \in 1..Len(due[Worker]) /\ Head(due[Worker]) = due[Worker][1]
      BY <2>1
    <2>3. entries[i].accepted + Interval <= now
      BY <2>2 DEF TInv, DueRipe
    <2>4. entries[i].accepted \in Nat /\ now \in Nat /\ Interval \in Nat
      BY EntryTyped, ConfigAssumption DEF IInv, TypeOK, ConfigAssumption
    <2> QED BY <2>3, <2>4
  <1> QED BY Invariance, InitTInv, <1>1, <1>2, PTL DEF Spec
=============================================================================
