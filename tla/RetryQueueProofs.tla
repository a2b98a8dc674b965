-------------------------- MODULE RetryQueueProofs --------------------------
(***************************************************************************)
(* Proofs about RetryQueue, for every set of messages, every configuration *)
(* that config.Validate accepts and every value of the model's bounds.     *)
(*                                                                         *)
(* None of the invariants is inductive on its own. Their common            *)
(* strengthening IInv adds what the code relies on silently: who holds     *)
(* q.mu, that only one goroutine at a time executes tick, that a message   *)
(* occupies one slot, and where the due list of a tick comes from.         *)
(***************************************************************************)
EXTENDS RetryQueue, WellFoundedInduction, TLAPS

\* q.mu is held exactly by the thread that is scanning the slice.
MutexHeld == \A t \in Threads : mu = t <=> pc[t] \in ScanPCs

\* Drain executes tick only after the worker has returned.
OneTicker == pc[Main] \notin {"serve", "wait"} => pc[Worker] = "returned"

\* A message occupies at most one slot.
SlotsDistinct ==
    \A i, j \in 1..Len(entries) : entries[i].msg = entries[j].msg => i = j

\* A held message has left Dispatch.
HeldWasQueued ==
    \A i \in 1..Len(entries) : call[entries[i].msg] \in {"Queued", "replied"}

\* The due list exists from the copy loop to the end of the attempts.
DueOutside ==
    \A t \in Threads : pc[t] \notin {"copy"} \cup AttemptPCs => due[t] = <<>>

\* An attempt is made for the head of the due list.
DueHead ==
    \A t \in Threads : pc[t] \in {"attempt", "record"} => due[t] # <<>>

\* The due list names no message twice.
DueDistinct ==
    \A t \in Threads :
        \A k, l \in 1..Len(due[t]) : due[t][k] = due[t][l] => k = l

\* Every message of ms sits in one of the first n slots of es.
Covered(ms, es, n) ==
    \A k \in 1..Len(ms) : \E i \in 1..n : es[i].msg = ms[k]

\* The due messages of a tick are in the slice: during the copy loop in the
\* slots already passed, afterwards anywhere.
DueCovered ==
    \A t \in Threads :
        /\ pc[t] = "copy" => Covered(due[t], entries, idx[t] - 1)
        /\ pc[t] \in AttemptPCs => Covered(due[t], entries, Len(entries))

\* The expiry loop leaves no expired entry behind the slots it has passed.
ExpiryScanned ==
    \A t \in Threads : pc[t] = "expire" =>
        \A i \in (idx[t] + 1)..Len(entries) : ~Expired(t, entries[i])

IInv ==
    /\ TypeOK /\ Capacity /\ ScanInBounds
    /\ MutexHeld /\ OneTicker
    /\ SlotsDistinct /\ HeldWasQueued
    /\ DueOutside /\ DueHead /\ DueDistinct /\ DueCovered
    /\ ExpiryScanned /\ ExpiryComplete

-----------------------------------------------------------------------------
(* The slice *)

USE DEF Worker, Main, Threads, Free, None, ScanPCs, AttemptPCs, TickPCs,
        WorkerPCs, MainPCs, Results, CallResults

\* remove of queue.go drops one slot and moves at most one entry.
LEMMA SwapRemoveFacts ==
    ASSUME NEW S, NEW s \in Seq(S), NEW i \in 1..Len(s)
    PROVE  /\ SwapRemove(s, i) \in Seq(S)
           /\ Len(SwapRemove(s, i)) = Len(s) - 1
           /\ \A j \in 1..(Len(s) - 1) :
                 SwapRemove(s, i)[j] = IF j = i THEN s[Len(s)] ELSE s[j]
           /\ \A k \in 1..Len(s) : k # i =>
                 \E j \in 1..(Len(s) - 1) : SwapRemove(s, i)[j] = s[k]
  <1> DEFINE r == SwapRemove(s, i)
  <1>1. r = [j \in 1..(Len(s) - 1) |-> IF j = i THEN s[Len(s)] ELSE s[j]]
    BY DEF SwapRemove
  <1>2. r \in Seq(S) /\ Len(r) = Len(s) - 1
    BY <1>1
  <1>3. ASSUME NEW k \in 1..Len(s), k # i
        PROVE  \E j \in 1..(Len(s) - 1) : r[j] = s[k]
    <2>1. CASE k = Len(s)
      <3>1. i \in 1..(Len(s) - 1) /\ r[i] = s[k]
        BY <1>1, <1>3, <2>1
      <3> QED BY <3>1
    <2>2. CASE k # Len(s)
      <3>1. k \in 1..(Len(s) - 1) /\ r[k] = s[k]
        BY <1>1, <1>3, <2>2
      <3> QED BY <3>1
    <2> QED BY <2>1, <2>2
  <1> QED BY <1>1, <1>2, <1>3

\* indexOf of queue.go finds the slot of a held message.
LEMMA IndexOfHeld ==
    ASSUME TypeOK, NEW m, Held(m), SlotsDistinct
    PROVE  /\ IndexOf(m) \in 1..Len(entries)
           /\ entries[IndexOf(m)].msg = m
  <1>1. PICK i \in 1..Len(entries) : entries[i].msg = m
    BY DEF Held
  <1>2. Len(entries) \in Nat
    BY DEF TypeOK
  <1>3. \A j \in 1..(i - 1) : entries[j].msg # m
    BY <1>1, <1>2 DEF SlotsDistinct
  <1> QED BY <1>1, <1>3 DEF IndexOf, Held

\* New and Start leave an empty queue with an idle worker.
LEMMA InitIInv == Init => IInv
  BY ConfigAssumption
  DEF Init, IInv, TypeOK, Capacity, ScanInBounds, MutexHeld, OneTicker,
      SlotsDistinct, HeldWasQueued, DueOutside, DueHead, DueDistinct,
      DueCovered, Covered, ExpiryScanned, ExpiryComplete, ConfigAssumption

-----------------------------------------------------------------------------
(* Steps that leave the slice and the scans alone *)

\* A step of a session or of the clock that keeps the slice and every
\* thread where it is.
LEMMA SessionFrame ==
    ASSUME IInv, TypeOK', HeldWasQueued',
           UNCHANGED <<entries, bytes, mu, pc, tnow, idx, due>>
    PROVE  IInv'
  <1>1. Capacity' /\ SlotsDistinct' /\ ScanInBounds'
    BY DEF IInv, Capacity, SlotsDistinct, ScanInBounds
  <1>2. MutexHeld' /\ OneTicker'
    BY DEF IInv, MutexHeld, OneTicker
  <1>3. DueOutside' /\ DueHead' /\ DueDistinct' /\ DueCovered'
    BY DEF IInv, DueOutside, DueHead, DueDistinct, DueCovered
  <1>4. ExpiryScanned' /\ ExpiryComplete'
    BY DEF IInv, ExpiryScanned, ExpiryComplete, Expired
  <1> QED BY <1>1, <1>2, <1>3, <1>4 DEF IInv

\* A step that moves one thread between places outside the scan.
LEMMA ControlFrame ==
    ASSUME IInv, TypeOK', OneTicker',
           NEW t \in Threads, NEW l, pc' = [pc EXCEPT ![t] = l],
           UNCHANGED <<entries, bytes, mu, tnow, idx, due, call>>,
           pc[t] \notin ScanPCs, l \notin ScanPCs,
           l \in AttemptPCs => pc[t] \in AttemptPCs,
           pc[t] \in AttemptPCs /\ l \notin AttemptPCs => due[t] = <<>>,
           l \in {"attempt", "record"} => due[t] # <<>>
    PROVE  IInv'
  <1>1. Capacity' /\ SlotsDistinct' /\ HeldWasQueued'
    BY DEF IInv, Capacity, SlotsDistinct, HeldWasQueued
  <1>2. MutexHeld' /\ ScanInBounds'
    BY DEF IInv, TypeOK, MutexHeld, ScanInBounds
  <1>3. DueOutside' /\ DueHead'
    BY DEF IInv, TypeOK, DueOutside, DueHead
  <1>4. DueDistinct' /\ DueCovered'
    BY DEF IInv, TypeOK, DueDistinct, DueCovered
  <1>5. ExpiryScanned' /\ ExpiryComplete'
    BY DEF IInv, TypeOK, ExpiryScanned, ExpiryComplete, Expired
  <1> QED BY <1>1, <1>2, <1>3, <1>4, <1>5 DEF IInv

\* Dispatch starts its inline attempt outside the queue.
LEMMA DispatchIInv ==
    ASSUME IInv, NEW m \in Messages, Dispatch(m)
    PROVE  IInv'
  <1>1. now + Timeout[m] \in Nat
    BY ConfigAssumption DEF IInv, TypeOK, ConfigAssumption
  <1>2. TypeOK'
    BY <1>1 DEF IInv, TypeOK, Dispatch, queueVars, tickVars
  <1>3. HeldWasQueued'
    BY DEF IInv, TypeOK, HeldWasQueued, Dispatch, queueVars
  <1> QED BY <1>2, <1>3, SessionFrame DEF Dispatch, queueVars, tickVars

\* The result of the inline attempt concerns only its session.
LEMMA InlineReturnIInv ==
    ASSUME IInv, NEW m \in Messages, NEW r \in Results, InlineReturn(m, r)
    PROVE  IInv'
  <1>1. TypeOK'
    BY DEF IInv, TypeOK, InlineReturn, queueVars, tickVars
  <1>2. HeldWasQueued'
    BY DEF IInv, TypeOK, HeldWasQueued, InlineReturn, queueVars
  <1> QED BY <1>1, <1>2, SessionFrame DEF InlineReturn, queueVars, tickVars

\* The session's log entry and its 250 leave the queue alone.
LEMMA FinishIInv ==
    ASSUME IInv, NEW m \in Messages, Finish(m)
    PROVE  IInv'
  <1>1. SessionEvent(call[m]) \in SessionEvents
    BY DEF Finish, SessionEvent, SessionEvents
  <1>2. Line(SessionEvent(call[m]), m, 0) \in LogEntry
    BY <1>1, BoundAssumption DEF Line, LogEntry, BoundAssumption
  <1>3. TypeOK'
    BY <1>2 DEF IInv, TypeOK, Finish, queueVars, tickVars
  <1>4. HeldWasQueued'
    BY DEF IInv, TypeOK, HeldWasQueued, Finish, queueVars
  <1> QED BY <1>3, <1>4, SessionFrame DEF Finish, queueVars, tickVars

\* The passing of time leaves the queue alone.
LEMMA AdvanceIInv ==
    ASSUME IInv, Advance
    PROVE  IInv'
  <1>1. TypeOK'
    BY DEF IInv, TypeOK, Advance, queueVars, tickVars
  <1>2. HeldWasQueued'
    BY DEF IInv, HeldWasQueued, Advance, queueVars
  <1> QED BY <1>1, <1>2, SessionFrame DEF Advance, queueVars, tickVars

\* run leaves its select for tick, or for good.
LEMMA RunIInv ==
    ASSUME IInv, RunTick \/ RunStop
    PROVE  IInv'
  <1>1. TypeOK' /\ OneTicker'
    BY DEF IInv, TypeOK, OneTicker, RunTick, RunStop, Goto, queueVars,
           tickVars
  <1>2. CASE RunTick
    BY <1>1, <1>2, ControlFrame, "tick" \notin ScanPCs \cup AttemptPCs
    DEF RunTick, Goto, queueVars, tickVars
  <1>3. CASE RunStop
    BY <1>1, <1>3, ControlFrame, "returned" \notin ScanPCs \cup AttemptPCs
    DEF RunStop, Goto, queueVars, tickVars
  <1> QED BY <1>2, <1>3

\* tick hands the next due message to the dispatcher.
LEMMA TickAttemptIInv ==
    ASSUME IInv, NEW t \in Threads, TickAttempt(t)
    PROVE  IInv'
  <1>1. Head(due[t]) \in Messages
    BY DEF IInv, TypeOK, TickAttempt
  <1>2. now + Timeout[Head(due[t])] \in Nat
    BY <1>1, ConfigAssumption DEF IInv, TypeOK, ConfigAssumption
  <1>3. TypeOK'
    BY <1>1, <1>2 DEF IInv, TypeOK, TickAttempt, Goto, queueVars, tickVars
  <1>4. OneTicker'
    BY DEF IInv, TypeOK, OneTicker, TickAttempt, Goto
  <1>5. pc[t] \in AttemptPCs /\ "attempt" \notin ScanPCs
    BY DEF TickAttempt
  <1> QED BY <1>3, <1>4, <1>5, ControlFrame
          DEF TickAttempt, Goto, queueVars, tickVars

\* The dispatcher returns to tick.
LEMMA TickReturnIInv ==
    ASSUME IInv, NEW t \in Threads, NEW r \in Results, TickReturn(t, r)
    PROVE  IInv'
  <1>1. due[t] # <<>>
    BY DEF IInv, DueHead, TickReturn
  <1>2. TypeOK'
    BY <1>1 DEF IInv, TypeOK, TickReturn, Goto, queueVars
  <1>3. OneTicker'
    BY DEF IInv, TypeOK, OneTicker, TickReturn, Goto
  <1>4. pc[t] \in AttemptPCs /\ "record" \notin ScanPCs
    BY DEF TickReturn
  <1> QED BY <1>1, <1>2, <1>3, <1>4, ControlFrame DEF TickReturn, Goto, queueVars

\* tick returns with its due list used up.
LEMMA TickEndIInv ==
    ASSUME IInv, NEW t \in Threads, TickEnd(t)
    PROVE  IInv'
  <1>1. TypeOK'
    BY DEF IInv, TypeOK, TickEnd, Goto, queueVars, tickVars
  <1>2. OneTicker'
    BY DEF IInv, TypeOK, OneTicker, TickEnd, Goto
  <1>3. CASE t = Worker
    BY <1>1, <1>2, <1>3, ControlFrame,
       "select" \notin ScanPCs \cup AttemptPCs
    DEF TickEnd, Goto, queueVars, tickVars
  <1>4. CASE t = Main
    BY <1>1, <1>2, <1>4, ControlFrame, "check" \notin ScanPCs \cup AttemptPCs
    DEF TickEnd, Goto, queueVars, tickVars
  <1> QED BY <1>3, <1>4

\* The steps of Drain that only move the main goroutine or write the log.
LEMMA DrainControlIInv ==
    ASSUME IInv, DrainStop \/ DrainWait \/ DrainCheck \/ DrainReport \/ Exit
    PROVE  IInv'
  <1>1. OneTicker'
    BY DEF IInv, TypeOK, OneTicker, DrainStop, DrainWait, DoneClosed,
           DrainCheck, DrainReport, Exit, Goto
  <1>2. CASE DrainStop \/ DrainWait \/ DrainCheck \/ Exit
    <2>1. PICK l \in {"wait", "check", "zero", "report", "exited"} :
             pc' = [pc EXCEPT ![Main] = l]
      BY <1>2 DEF DrainStop, DrainWait, DrainCheck, Exit, Goto
    <2>2. deadline' \in Nat
      BY <1>2, ConfigAssumption
      DEF IInv, TypeOK, DrainStop, DrainWait, DrainCheck, Exit,
          ConfigAssumption
    <2>3. UNCHANGED <<now, tickC, queueVars, mu, tickVars, ctx, call, log>>
      BY <1>2 DEF DrainStop, DrainWait, DrainCheck, Exit
    <2>4. pc' \in [Threads -> WorkerPCs \cup MainPCs]
          /\ pc'[Worker] \in WorkerPCs /\ pc'[Main] \in MainPCs
      BY <2>1 DEF IInv, TypeOK
    <2>5. TypeOK'
      BY <2>2, <2>3, <2>4 DEF IInv, TypeOK, queueVars, tickVars
    <2>6. pc[Main] \notin ScanPCs \cup AttemptPCs
      BY <1>2 DEF DrainStop, DrainWait, DrainCheck, Exit
    <2>7. l \notin ScanPCs \cup AttemptPCs
      BY <2>1
    <2> QED BY <1>1, <2>1, <2>3, <2>5, <2>6, <2>7, ControlFrame
            DEF queueVars, tickVars
  <1>3. CASE DrainReport
    <2>1. ASSUME NEW i \in 1..Len(entries)
          PROVE  Line("not drained", entries[i].msg, entries[i].attempts)
                   \in LogEntry
      <3>1. entries[i] \in Entry
        BY DEF IInv, TypeOK
      <3> QED BY <3>1 DEF Entry, LogEntry, Line, QueueEvents
    <2>2. log' \in SUBSET LogEntry
      BY <1>3, <2>1 DEF IInv, TypeOK, DrainReport
    <2>3. TypeOK'
      BY <1>3, <2>2
      DEF IInv, TypeOK, DrainReport, Goto, queueVars, tickVars
    <2> QED BY <1>1, <1>3, <2>3, ControlFrame,
               "drained" \notin ScanPCs \cup AttemptPCs
            DEF DrainReport, Goto, queueVars, tickVars
  <1> QED BY <1>2, <1>3

-----------------------------------------------------------------------------
(* Steps that take the mutex *)

\* enqueue refuses the message, or appends one that was not held.
LEMMA EnqueueIInv ==
    ASSUME IInv, NEW m \in Messages, Enqueue(m)
    PROVE  IInv'
  <1> DEFINE e == [msg |-> m, accepted |-> now, nextTry |-> now + Interval,
                   attempts |-> 0]
  <1>1. call[m] = "enqueue" /\ UNCHANGED <<now, tickC, mu, pc, tickVars, ctx,
                                           deadline>>
    BY DEF Enqueue
  <1>2. \A ev \in QueueEvents : Line(ev, m, 0) \in LogEntry
    BY BoundAssumption DEF Line, LogEntry, BoundAssumption
  <1>3. \A t \in Threads : pc[t] \notin ScanPCs
    BY DEF IInv, TypeOK, MutexHeld, Enqueue
  <1>4. CASE EntryLimit \/ ByteLimit(m)
    <2>1. UNCHANGED queueVars /\ call' = [call EXCEPT ![m] = "TempFail"]
      BY <1>4 DEF Enqueue
    <2>2. log' \in SUBSET LogEntry
      BY <1>2, <1>4 DEF Enqueue, IInv, TypeOK, QueueEvents
    <2>3. TypeOK'
      BY <1>1, <2>1, <2>2 DEF IInv, TypeOK, queueVars, tickVars
    <2>4. HeldWasQueued'
      BY <1>1, <2>1 DEF IInv, TypeOK, HeldWasQueued, queueVars
    <2> QED BY <1>1, <2>1, <2>3, <2>4, SessionFrame DEF queueVars, tickVars
  <1>5. CASE ~EntryLimit /\ ~ByteLimit(m)
    <2>1. /\ entries' = Append(entries, e)
          /\ bytes' = bytes + Size[m]
          /\ call' = [call EXCEPT ![m] = "Queued"]
          /\ log' = log \cup {Line("queued", m, 0)}
      BY <1>5 DEF Enqueue
    <2>2. e \in Entry
      BY ConfigAssumption, BoundAssumption
      DEF Entry, IInv, TypeOK, ConfigAssumption, BoundAssumption
    <2> HIDE DEF e
    <2>3. /\ entries' \in Seq(Entry) /\ Len(entries') = Len(entries) + 1
          /\ \A i \in 1..Len(entries) : entries'[i] = entries[i]
          /\ entries'[Len(entries) + 1] = e
      BY <2>1, <2>2 DEF IInv, TypeOK
    <2>4. e.msg = m
      BY DEF e
    <2>5. Size[m] \in Nat
      BY ConfigAssumption DEF ConfigAssumption
    <2>6. TypeOK'
      <3>1. bytes' \in Int
        BY <2>1, <2>5 DEF IInv, TypeOK
      <3>2. log' \in SUBSET LogEntry
        BY <1>2, <2>1 DEF IInv, TypeOK, QueueEvents
      <3> QED BY <1>1, <2>1, <2>3, <3>1, <3>2 DEF IInv, TypeOK, tickVars
    <2>7. Capacity'
      <3>1. MaxEntries \in Nat /\ MaxBytes \in Nat
        BY ConfigAssumption DEF ConfigAssumption
      <3> QED BY <1>5, <2>1, <2>3, <2>5, <3>1
              DEF IInv, TypeOK, Capacity, EntryLimit, ByteLimit
    <2>8. \A i \in 1..Len(entries) : entries[i].msg # m
      BY <1>1 DEF IInv, HeldWasQueued
    <2>9. SlotsDistinct' /\ HeldWasQueued'
      <3>1. Len(entries) \in Nat /\ Len(entries') \in Nat
        BY <2>3 DEF IInv, TypeOK
      <3>2. \A i \in 1..Len(entries') :
                \/ i \in 1..Len(entries) /\ entries'[i].msg = entries[i].msg
                \/ i = Len(entries) + 1 /\ entries'[i].msg = m
        BY <2>3, <2>4, <3>1
      <3>3. SlotsDistinct'
        BY <2>8, <3>1, <3>2 DEF IInv, SlotsDistinct
      <3>4. call'[m] = "Queued"
        BY <2>1 DEF IInv, TypeOK
      <3>5. \A n \in Messages \ {m} : call'[n] = call[n]
        BY <2>1 DEF IInv, TypeOK
      <3>6. \A i \in 1..Len(entries) : entries[i].msg \in Messages
        <4>1. \A i \in 1..Len(entries) : entries[i] \in Entry
          BY DEF IInv, TypeOK
        <4> QED BY <4>1 DEF Entry
      <3>7. HeldWasQueued'
        BY <2>8, <3>2, <3>4, <3>5, <3>6 DEF IInv, HeldWasQueued
      <3> QED BY <3>3, <3>7
    <2>10. MutexHeld' /\ OneTicker' /\ ScanInBounds'
      BY <1>1, <1>3 DEF IInv, MutexHeld, OneTicker, ScanInBounds
    <2>11. DueOutside' /\ DueHead' /\ DueDistinct'
      BY <1>1 DEF IInv, DueOutside, DueHead, DueDistinct, tickVars
    <2>12. DueCovered'
      <3> SUFFICES ASSUME NEW t \in Threads, pc[t] \in AttemptPCs
                   PROVE  Covered(due[t], entries', Len(entries'))
        BY <1>1, <1>3 DEF DueCovered, tickVars
      <3>1. Covered(due[t], entries, Len(entries))
        BY DEF IInv, DueCovered
      <3>2. ASSUME NEW k \in 1..Len(due[t])
            PROVE  \E i \in 1..Len(entries') : entries'[i].msg = due[t][k]
        <4>1. PICK i \in 1..Len(entries) : entries[i].msg = due[t][k]
          BY <3>1 DEF Covered
        <4>2. i \in 1..Len(entries') /\ entries'[i].msg = due[t][k]
          BY <2>3, <4>1 DEF IInv, TypeOK
        <4> QED BY <4>2
      <3> QED BY <3>2 DEF Covered
    <2>13. ExpiryScanned' /\ ExpiryComplete'
      BY <1>1, <1>3 DEF ExpiryScanned, ExpiryComplete
    <2> QED BY <2>6, <2>7, <2>9, <2>10, <2>11, <2>12, <2>13 DEF IInv
  <1> QED BY <1>4, <1>5

\* tick reads the clock before it takes the mutex.
LEMMA TickNowIInv ==
    ASSUME IInv, NEW t \in Threads, TickNow(t)
    PROVE  IInv'
  <1>1. TypeOK'
    BY DEF IInv, TypeOK, TickNow, Goto, queueVars
  <1>2. Capacity' /\ SlotsDistinct' /\ HeldWasQueued'
    BY DEF IInv, Capacity, SlotsDistinct, HeldWasQueued, TickNow, queueVars
  <1>3. MutexHeld' /\ OneTicker' /\ ScanInBounds'
    BY DEF IInv, TypeOK, MutexHeld, OneTicker, ScanInBounds, TickNow, Goto,
           queueVars
  <1>4. DueOutside' /\ DueHead' /\ DueDistinct' /\ DueCovered'
    BY DEF IInv, TypeOK, DueOutside, DueHead, DueDistinct, DueCovered,
           TickNow, Goto, queueVars
  <1>5. ExpiryScanned' /\ ExpiryComplete'
    BY DEF IInv, TypeOK, ExpiryScanned, ExpiryComplete, Expired, TickNow,
           Goto, queueVars
  <1> QED BY <1>1, <1>2, <1>3, <1>4, <1>5 DEF IInv

\* tick takes the mutex and starts at the final slot.
LEMMA TickLockIInv ==
    ASSUME IInv, NEW t \in Threads, TickLock(t)
    PROVE  IInv'
  <1>1. TypeOK'
    BY DEF IInv, TypeOK, TickLock, Goto, queueVars
  <1>2. Capacity' /\ SlotsDistinct' /\ HeldWasQueued'
    BY DEF IInv, Capacity, SlotsDistinct, HeldWasQueued, TickLock, queueVars
  <1>3. MutexHeld' /\ OneTicker' /\ ScanInBounds'
    BY DEF IInv, TypeOK, MutexHeld, OneTicker, ScanInBounds, TickLock, Goto,
           queueVars
  <1>4. DueOutside' /\ DueHead' /\ DueDistinct' /\ DueCovered'
    BY DEF IInv, TypeOK, DueOutside, DueHead, DueDistinct, DueCovered,
           TickLock, Goto, queueVars
  <1>5. ExpiryScanned' /\ ExpiryComplete'
    BY DEF IInv, TypeOK, MutexHeld, ExpiryScanned, ExpiryComplete, Expired,
           TickLock, Goto, queueVars
  <1> QED BY <1>1, <1>2, <1>3, <1>4, <1>5 DEF IInv

\* The expiry loop ends with no slot left to examine.
LEMMA TickExpireDoneIInv ==
    ASSUME IInv, NEW t \in Threads, TickExpireDone(t)
    PROVE  IInv'
  <1>1. TypeOK'
    BY DEF IInv, TypeOK, TickExpireDone, Goto, queueVars
  <1>2. Capacity' /\ SlotsDistinct' /\ HeldWasQueued'
    BY DEF IInv, Capacity, SlotsDistinct, HeldWasQueued, TickExpireDone,
           queueVars
  <1>3. MutexHeld' /\ OneTicker' /\ ScanInBounds'
    BY DEF IInv, TypeOK, MutexHeld, OneTicker, ScanInBounds, TickExpireDone,
           Goto, queueVars
  <1>4. DueOutside' /\ DueHead' /\ DueDistinct'
    BY DEF IInv, TypeOK, DueOutside, DueHead, DueDistinct, TickExpireDone,
           Goto, queueVars
  <1>5. Covered(due[t], entries, 0)
    <2>1. due[t] = <<>>
      BY DEF IInv, DueOutside, TickExpireDone
    <2> QED BY <2>1 DEF Covered
  <1>6. DueCovered'
    BY <1>5 DEF IInv, TypeOK, DueCovered, TickExpireDone, Goto, queueVars
  <1>7. ExpiryScanned' /\ ExpiryComplete'
    BY DEF IInv, TypeOK, ExpiryScanned, ExpiryComplete, Expired,
           TickExpireDone, Goto, queueVars
  <1> QED BY <1>1, <1>2, <1>3, <1>4, <1>6, <1>7 DEF IInv

\* One iteration of the copy loop of tick.
LEMMA TickCopyIInv ==
    ASSUME IInv, NEW t \in Threads, TickCopy(t)
    PROVE  IInv'
  <1> DEFINE m == entries[idx[t]].msg
  <1>1. /\ pc[t] = "copy" /\ idx[t] \in 1..Len(entries)
        /\ idx' = [idx EXCEPT ![t] = idx[t] + 1]
        /\ due' = [due EXCEPT ![t] = Append(due[t], m)] \/ UNCHANGED due
        /\ UNCHANGED <<now, tickC, queueVars, mu, pc, tnow, res, ctx,
                       deadline, call, log>>
    BY DEF IInv, TypeOK, ScanInBounds, TickCopy
  <1>2. m \in Messages
    <2>1. entries[idx[t]] \in Entry
      BY <1>1 DEF IInv, TypeOK
    <2> QED BY <2>1 DEF Entry
  <1>3. Covered(due[t], entries, idx[t] - 1)
    BY <1>1 DEF IInv, DueCovered
  <1>4. ASSUME NEW k \in 1..Len(due[t])
        PROVE  due[t][k] # m
    <2>1. PICK i \in 1..(idx[t] - 1) : entries[i].msg = due[t][k]
      BY <1>3 DEF Covered
    <2>2. idx[t] \in 1..Len(entries) /\ Len(entries) \in Nat
      BY <1>1 DEF IInv, TypeOK
    <2>3. i \in 1..Len(entries) /\ i # idx[t]
      BY <2>2
    <2> QED BY <2>1, <2>2, <2>3 DEF IInv, SlotsDistinct
  <1> HIDE DEF m
  <1>5. TypeOK'
    <2>1. due' \in [Threads -> Seq(Messages)]
      <3>1. Append(due[t], m) \in Seq(Messages)
        BY <1>2 DEF IInv, TypeOK
      <3> QED BY <1>1, <3>1 DEF IInv, TypeOK
    <2> QED BY <1>1, <2>1 DEF IInv, TypeOK, queueVars
  <1>6. Capacity' /\ SlotsDistinct' /\ HeldWasQueued'
    BY <1>1 DEF IInv, Capacity, SlotsDistinct, HeldWasQueued, queueVars
  <1>7. MutexHeld' /\ OneTicker' /\ ScanInBounds'
    BY <1>1 DEF IInv, TypeOK, MutexHeld, OneTicker, ScanInBounds, queueVars
  <1>8. DueOutside' /\ DueHead'
    BY <1>1 DEF IInv, TypeOK, DueOutside, DueHead
  <1>9. DueDistinct'
    <2>1. CASE UNCHANGED due
      BY <2>1 DEF IInv, DueDistinct
    <2>2. CASE due' = [due EXCEPT ![t] = Append(due[t], m)]
      <3>1. \A k, l \in 1..Len(Append(due[t], m)) :
               Append(due[t], m)[k] = Append(due[t], m)[l] => k = l
        <4>1. due[t] \in Seq(Messages)
          BY DEF IInv, TypeOK
        <4>2. \A k, l \in 1..Len(due[t]) : due[t][k] = due[t][l] => k = l
          BY DEF IInv, DueDistinct
        <4> QED BY <1>2, <1>4, <4>1, <4>2
      <3> QED BY <2>2, <3>1 DEF IInv, TypeOK, DueDistinct
    <2> QED BY <1>1, <2>1, <2>2
  <1>10. Covered(due'[t], entries, idx[t])
    <2>1. Covered(due[t], entries, idx[t])
      BY <1>1, <1>3 DEF Covered, IInv, TypeOK
    <2>2. Covered(Append(due[t], m), entries, idx[t])
      <3>1. entries[idx[t]].msg = m /\ idx[t] \in 1..idx[t]
        BY <1>1 DEF m, IInv, TypeOK
      <3>2. due[t] \in Seq(Messages)
        BY DEF IInv, TypeOK
      <3> QED BY <1>2, <2>1, <3>1, <3>2 DEF Covered
    <2>3. due'[t] = due[t] \/ due'[t] = Append(due[t], m)
      BY <1>1 DEF IInv, TypeOK
    <2> QED BY <2>1, <2>2, <2>3
  <1>11. DueCovered'
    BY <1>1, <1>10 DEF IInv, TypeOK, DueCovered, queueVars
  <1>12. ExpiryScanned' /\ ExpiryComplete'
    BY <1>1 DEF IInv, TypeOK, ExpiryScanned, ExpiryComplete, Expired,
                queueVars
  <1> QED BY <1>5, <1>6, <1>7, <1>8, <1>9, <1>11, <1>12 DEF IInv

\* tick releases the mutex with every due message in the slice.
LEMMA TickUnlockIInv ==
    ASSUME IInv, NEW t \in Threads, TickUnlock(t)
    PROVE  IInv'
  <1>1. TypeOK'
    BY DEF IInv, TypeOK, TickUnlock, Goto, queueVars
  <1>2. Capacity' /\ SlotsDistinct' /\ HeldWasQueued'
    BY DEF IInv, Capacity, SlotsDistinct, HeldWasQueued, TickUnlock,
           queueVars
  <1>3. MutexHeld' /\ OneTicker' /\ ScanInBounds'
    BY DEF IInv, TypeOK, MutexHeld, OneTicker, ScanInBounds, TickUnlock,
           Goto, queueVars
  <1>4. DueOutside' /\ DueHead' /\ DueDistinct'
    BY DEF IInv, TypeOK, DueOutside, DueHead, DueDistinct, TickUnlock, Goto,
           queueVars
  <1>5. idx[t] - 1 = Len(entries)
    BY DEF IInv, TypeOK, ScanInBounds, TickUnlock
  <1>6. DueCovered'
    BY <1>5 DEF IInv, TypeOK, DueCovered, TickUnlock, Goto, queueVars
  <1>7. ExpiryScanned' /\ ExpiryComplete'
    BY DEF IInv, TypeOK, MutexHeld, ExpiryScanned, ExpiryComplete, Expired,
           TickUnlock, Goto, queueVars
  <1> QED BY <1>1, <1>2, <1>3, <1>4, <1>6, <1>7 DEF IInv

\* Drain makes every entry due and changes nothing else of it.
LEMMA DrainZeroIInv ==
    ASSUME IInv, DrainZero
    PROVE  IInv'
  <1>1. /\ pc[Main] = "zero" /\ pc[Worker] = "returned"
        /\ pc' = [pc EXCEPT ![Main] = "tick"]
    BY DEF IInv, OneTicker, DrainZero, Goto
  <1>2. ASSUME NEW i \in 1..Len(entries)
        PROVE  /\ [entries[i] EXCEPT !.nextTry = None] \in Entry
               /\ [entries[i] EXCEPT !.nextTry = None].msg = entries[i].msg
    <2>1. entries[i] \in Entry
      BY DEF IInv, TypeOK
    <2> QED BY <2>1 DEF Entry
  <1>3. /\ entries' \in Seq(Entry) /\ Len(entries') = Len(entries)
        /\ \A i \in 1..Len(entries) : entries'[i].msg = entries[i].msg
    <2>1. entries' = [i \in 1..Len(entries) |->
                         [entries[i] EXCEPT !.nextTry = None]]
      BY DEF DrainZero
    <2>2. Len(entries) \in Nat
      BY DEF IInv, TypeOK
    <2>3. entries' \in [1..Len(entries) -> Entry]
      BY <1>2, <2>1
    <2>4. entries' \in Seq(Entry) /\ Len(entries') = Len(entries)
      BY <2>2, <2>3
    <2> QED BY <1>2, <2>1, <2>4
  <1>4. TypeOK'
    BY <1>1, <1>3 DEF IInv, TypeOK, DrainZero, queueVars, tickVars
  <1>5. Capacity' /\ SlotsDistinct' /\ HeldWasQueued'
    BY <1>3
    DEF IInv, Capacity, SlotsDistinct, HeldWasQueued, DrainZero, queueVars
  <1>6. MutexHeld' /\ OneTicker' /\ ScanInBounds'
    BY <1>1 DEF IInv, TypeOK, MutexHeld, OneTicker, ScanInBounds, DrainZero
  <1>7. DueOutside' /\ DueHead' /\ DueDistinct'
    BY <1>1
    DEF IInv, TypeOK, DueOutside, DueHead, DueDistinct, DrainZero, tickVars
  <1>8. DueCovered'
    BY <1>1 DEF TypeOK, IInv, DueCovered
  <1>9. ExpiryScanned' /\ ExpiryComplete'
    BY <1>1 DEF TypeOK, IInv, ExpiryScanned, ExpiryComplete
  <1> QED BY <1>4, <1>5, <1>6, <1>7, <1>8, <1>9 DEF IInv

-----------------------------------------------------------------------------
(* Steps that remove an entry *)

\* remove keeps every other entry, in a slot of its own, and frees bytes.
LEMMA RemoveFacts ==
    ASSUME IInv, NEW i \in 1..Len(entries), Remove(i)
    PROVE  /\ entries' \in Seq(Entry) /\ Len(entries') = Len(entries) - 1
           /\ \A j \in 1..Len(entries') :
                 entries'[j] = IF j = i THEN entries[Len(entries)]
                                        ELSE entries[j]
           /\ \A k \in 1..Len(entries) : k # i =>
                 \E j \in 1..Len(entries') : entries'[j] = entries[k]
           /\ bytes' \in Int /\ bytes' <= bytes
           /\ SlotsDistinct'
           /\ \A j \in 1..Len(entries') :
                 call[entries'[j].msg] \in {"Queued", "replied"}
  <1>1. entries \in Seq(Entry) /\ entries' = SwapRemove(entries, i)
    BY DEF IInv, TypeOK, Remove
  <1>2. /\ entries' \in Seq(Entry) /\ Len(entries') = Len(entries) - 1
        /\ \A j \in 1..Len(entries') :
              entries'[j] = IF j = i THEN entries[Len(entries)]
                                     ELSE entries[j]
        /\ \A k \in 1..Len(entries) : k # i =>
              \E j \in 1..Len(entries') : entries'[j] = entries[k]
    <2>1. /\ entries' \in Seq(Entry) /\ Len(entries') = Len(entries) - 1
          /\ \A j \in 1..(Len(entries) - 1) :
                entries'[j] = IF j = i THEN entries[Len(entries)]
                                       ELSE entries[j]
          /\ \A k \in 1..Len(entries) : k # i =>
                \E j \in 1..(Len(entries) - 1) : entries'[j] = entries[k]
      BY ONLY <1>1, SwapRemoveFacts, i \in 1..Len(entries)
    <2> QED BY <2>1
  <1>3. Size[entries[i].msg] \in Nat
    <2>1. entries[i] \in Entry
      BY <1>1
    <2> QED BY <2>1, ConfigAssumption DEF Entry, ConfigAssumption
  <1>4. bytes' \in Int /\ bytes' <= bytes
    BY <1>3 DEF IInv, TypeOK, Remove
  <1> DEFINE src(j) == IF j = i THEN Len(entries) ELSE j
  <1>5. ASSUME NEW j \in 1..Len(entries')
        PROVE  src(j) \in 1..Len(entries) /\ entries'[j] = entries[src(j)]
    <2>1. Len(entries) \in Nat /\ Len(entries') = Len(entries) - 1
      BY <1>1, <1>2
    <2>2. src(j) \in 1..Len(entries)
      BY <2>1
    <2>3. entries'[j] = entries[src(j)]
      BY <1>2
    <2> QED BY <2>2, <2>3
  <1>6. SlotsDistinct'
    <2> SUFFICES ASSUME NEW j \in 1..Len(entries'), NEW l \in 1..Len(entries'),
                        entries'[j].msg = entries'[l].msg
                 PROVE  j = l
      BY DEF SlotsDistinct
    <2>1. src(j) = src(l)
      BY <1>5 DEF IInv, SlotsDistinct
    <2> QED BY <1>1, <1>2, <2>1
  <1>7. \A j \in 1..Len(entries') :
           call[entries'[j].msg] \in {"Queued", "replied"}
    BY <1>5 DEF IInv, HeldWasQueued
  <1> QED BY <1>2, <1>4, <1>6, <1>7

\* One iteration of the expiry loop: the entry that remove moves into the
\* slot was examined before.
LEMMA TickExpireIInv ==
    ASSUME IInv, NEW t \in Threads, TickExpire(t)
    PROVE  IInv'
  <1> DEFINE e == entries[idx[t]]
  <1>1. /\ pc[t] = "expire" /\ idx' = [idx EXCEPT ![t] = idx[t] - 1]
        /\ UNCHANGED <<now, tickC, mu, pc, tnow, due, res, ctx, deadline,
                       call>>
    BY DEF TickExpire
  <1>2. idx[t] \in 1..Len(entries) /\ Len(entries) \in Nat
    BY DEF IInv, TypeOK, ScanInBounds, TickExpire
  <1>3. e \in Entry
    BY <1>2 DEF IInv, TypeOK
  <1>4. \A u \in Threads : u # t => pc[u] \notin ScanPCs \cup AttemptPCs
    BY <1>1 DEF IInv, TypeOK, MutexHeld, OneTicker
  <1>5. \A u \in Threads : pc[u] \notin AttemptPCs \cup {"copy"}
    BY <1>1, <1>4
  <1>6. idx' \in [Threads -> Nat] /\ idx'[t] = idx[t] - 1
    BY <1>1, <1>2 DEF IInv, TypeOK
  <1>7. MutexHeld' /\ OneTicker'
    BY <1>1 DEF IInv, MutexHeld, OneTicker
  <1>8. DueOutside' /\ DueHead' /\ DueDistinct'
    BY <1>1 DEF IInv, DueOutside, DueHead, DueDistinct
  <1>9. DueCovered' /\ ExpiryComplete'
    BY <1>1, <1>5 DEF DueCovered, ExpiryComplete
  <1>10. CASE ~Expired(t, e)
    <2>1. UNCHANGED <<queueVars, log>>
      BY <1>10 DEF TickExpire
    <2>2. TypeOK'
      BY <1>1, <1>6, <2>1 DEF IInv, TypeOK, queueVars
    <2>3. Capacity' /\ SlotsDistinct' /\ HeldWasQueued'
      BY <1>1, <2>1
      DEF IInv, Capacity, SlotsDistinct, HeldWasQueued, queueVars
    <2>4. ScanInBounds'
      BY <1>1, <1>2, <1>4, <1>6, <2>1 DEF ScanInBounds, queueVars
    <2>5. ExpiryScanned'
      BY <1>1, <1>2, <1>4, <1>6, <1>10, <2>1
      DEF IInv, ExpiryScanned, Expired, queueVars
    <2> QED BY <1>7, <1>8, <1>9, <2>2, <2>3, <2>4, <2>5 DEF IInv
  <1>11. CASE Expired(t, e)
    <2>1. Remove(idx[t]) /\ log' = log \cup {Line("expired", e.msg, e.attempts)}
      BY <1>11 DEF TickExpire
    <2>2. /\ entries' \in Seq(Entry) /\ Len(entries') = Len(entries) - 1
          /\ \A j \in 1..Len(entries') :
                entries'[j] = IF j = idx[t] THEN entries[Len(entries)]
                                            ELSE entries[j]
          /\ bytes' \in Int /\ bytes' <= bytes
          /\ SlotsDistinct'
          /\ \A j \in 1..Len(entries') :
                call[entries'[j].msg] \in {"Queued", "replied"}
      BY <1>2, <2>1, RemoveFacts
    <2>3. Line("expired", e.msg, e.attempts) \in LogEntry
      BY <1>3 DEF Entry, LogEntry, Line, QueueEvents
    <2>4. TypeOK'
      BY <1>1, <1>6, <2>1, <2>2, <2>3 DEF IInv, TypeOK
    <2>5. Capacity' /\ HeldWasQueued'
      <3>1. MaxEntries \in Nat /\ MaxBytes \in Nat
        BY ConfigAssumption DEF ConfigAssumption
      <3> QED BY <1>1, <1>2, <2>2, <3>1
              DEF IInv, TypeOK, Capacity, HeldWasQueued
    <2>6. ScanInBounds'
      BY <1>1, <1>2, <1>4, <1>6, <2>2 DEF ScanInBounds
    <2>7. ExpiryScanned'
      <3> SUFFICES ASSUME NEW j \in (idx'[t] + 1)..Len(entries')
                   PROVE  ~Expired(t, entries'[j])
        BY <1>1, <1>4 DEF ExpiryScanned, Expired
      <3>1. PICK k \in (idx[t] + 1)..Len(entries) : entries'[j] = entries[k]
        <4> DEFINE k == IF j = idx[t] THEN Len(entries) ELSE j
        <4>1. j \in 1..Len(entries') /\ k \in (idx[t] + 1)..Len(entries)
          BY <1>2, <1>6, <2>2
        <4>2. entries'[j] = entries[k]
          BY <2>2, <4>1
        <4> QED BY <4>1, <4>2
      <3> QED BY <1>1, <3>1 DEF IInv, ExpiryScanned, Expired
    <2> QED BY <1>7, <1>8, <1>9, <2>2, <2>4, <2>5, <2>6, <2>7 DEF IInv
  <1> QED BY <1>10, <1>11

\* tick records a result: the messages still due keep their slots.
LEMMA TickRecordIInv ==
    ASSUME IInv, NEW t \in Threads, TickRecord(t)
    PROVE  IInv'
  <1> DEFINE m == Head(due[t])
             i == IndexOf(m)
             e == entries[i]
  <1>1. /\ pc[t] = "record" /\ mu = Free
        /\ due' = [due EXCEPT ![t] = Tail(due[t])]
        /\ res' = [res EXCEPT ![t] = "OK"]
        /\ pc' = [pc EXCEPT ![t] = "next"]
        /\ UNCHANGED <<now, tickC, mu, tnow, idx, ctx, deadline, call>>
    BY DEF TickRecord, Goto
  <1>2. due[t] \in Seq(Messages) /\ due[t] # <<>>
    BY <1>1 DEF IInv, TypeOK, DueHead
  <1>3. Covered(due[t], entries, Len(entries))
    BY <1>1 DEF IInv, DueCovered
  <1>4. Held(m)
    BY <1>2, <1>3 DEF Covered, Held
  <1>5. i \in 1..Len(entries) /\ e.msg = m
    BY <1>4, IndexOfHeld DEF IInv
  <1>6. e \in Entry
    BY <1>5 DEF IInv, TypeOK
  <1>7. RecordResult(t, i)
    BY <1>4 DEF TickRecord
  <1> HIDE DEF i
  <1>8. Bump(e.attempts) \in 0..AttemptCap
    BY <1>6, BoundAssumption DEF Bump, Entry, BoundAssumption
  \* What recording does to the slice.
  <1>9. /\ entries' \in Seq(Entry) /\ Len(entries') <= Len(entries)
        /\ \A k \in 1..Len(entries) : entries[k].msg # m =>
              \E j \in 1..Len(entries') : entries'[j].msg = entries[k].msg
        /\ bytes' \in Int /\ bytes' <= bytes
        /\ SlotsDistinct'
        /\ \A j \in 1..Len(entries') :
              call[entries'[j].msg] \in {"Queued", "replied"}
        /\ log' \in SUBSET LogEntry
    <2>1. CASE res[t] \in {"OK", "PermFail"}
      <3>1. Remove(i)
        BY <1>7, <2>1 DEF RecordResult
      <3>2. log' \in SUBSET LogEntry
        <4>1. \A ev \in QueueEvents :
                 Line(ev, e.msg, Bump(e.attempts)) \in LogEntry
          BY <1>6, <1>8 DEF Entry, LogEntry, Line
        <4> QED BY <1>7, <2>1, <4>1
                DEF RecordResult, IInv, TypeOK, QueueEvents
      <3>3. \A k \in 1..Len(entries) : entries[k].msg # m => k # i
        BY <1>5
      <3>4. Len(entries) - 1 <= Len(entries)
        BY DEF IInv, TypeOK
      <3> QED BY <1>5, <3>1, <3>2, <3>3, <3>4, RemoveFacts
    <2>2. CASE res[t] = "TempFail"
      <3> DEFINE f == [e EXCEPT !.attempts = Bump(e.attempts),
                                !.nextTry = now + Interval]
      <3>1. entries' = [entries EXCEPT ![i] = f] /\ UNCHANGED <<bytes, log>>
        BY <1>7, <2>2 DEF RecordResult
      <3>2. f \in Entry /\ f.msg = m
        <4>1. now + Interval \in Nat
          BY ConfigAssumption DEF IInv, TypeOK, ConfigAssumption
        <4> QED BY <1>5, <1>6, <1>8, <4>1 DEF Entry
      <3> HIDE DEF f
      <3>3. /\ entries' \in Seq(Entry) /\ Len(entries') = Len(entries)
            /\ \A k \in 1..Len(entries) : entries'[k].msg = entries[k].msg
        BY <1>5, <3>1, <3>2 DEF IInv, TypeOK
      <3> QED BY <3>1, <3>3 DEF IInv, TypeOK, SlotsDistinct, HeldWasQueued
    <2> QED BY <2>1, <2>2 DEF IInv, TypeOK
  <1>10. Tail(due[t]) \in Seq(Messages) /\ Len(Tail(due[t])) = Len(due[t]) - 1
         /\ \A k \in 1..Len(Tail(due[t])) :
               /\ k + 1 \in 1..Len(due[t])
               /\ Tail(due[t])[k] = due[t][k + 1]
    BY <1>2
  <1>11. TypeOK'
    BY <1>1, <1>9, <1>10 DEF IInv, TypeOK
  <1>12. Capacity' /\ HeldWasQueued'
    <2>1. MaxEntries \in Nat /\ MaxBytes \in Nat
      BY ConfigAssumption DEF ConfigAssumption
    <2> QED BY <1>1, <1>9, <2>1 DEF IInv, TypeOK, Capacity, HeldWasQueued
  <1>13. \A u \in Threads : u # t => pc[u] \notin ScanPCs \cup AttemptPCs
    BY <1>1 DEF IInv, TypeOK, MutexHeld, OneTicker
  <1>14. MutexHeld' /\ OneTicker' /\ ScanInBounds'
    BY <1>1, <1>13
    DEF IInv, TypeOK, MutexHeld, OneTicker, ScanInBounds
  <1>15. DueOutside' /\ DueHead'
    BY <1>1 DEF IInv, TypeOK, DueOutside, DueHead
  <1>16. DueDistinct'
    <2>1. \A k, l \in 1..Len(Tail(due[t])) :
             Tail(due[t])[k] = Tail(due[t])[l] => k = l
      <3>1. \A k, l \in 1..Len(due[t]) : due[t][k] = due[t][l] => k = l
        BY DEF IInv, DueDistinct
      <3> QED BY <1>2, <1>10, <3>1
    <2> QED BY <1>1, <2>1 DEF IInv, TypeOK, DueDistinct
  <1>17. DueCovered'
    <2> SUFFICES Covered(Tail(due[t]), entries', Len(entries'))
      BY <1>1, <1>13 DEF DueCovered, IInv, TypeOK
    <2> SUFFICES ASSUME NEW k \in 1..Len(Tail(due[t]))
                 PROVE  \E j \in 1..Len(entries') :
                            entries'[j].msg = Tail(due[t])[k]
      BY DEF Covered
    <2>1. due[t][k + 1] # m
      BY <1>2, <1>10 DEF IInv, DueDistinct
    <2>2. PICK l \in 1..Len(entries) : entries[l].msg = due[t][k + 1]
      BY <1>3, <1>10 DEF Covered
    <2> QED BY <1>9, <1>10, <2>1, <2>2
  <1>18. ExpiryScanned' /\ ExpiryComplete'
    BY <1>1, <1>13 DEF IInv, TypeOK, ExpiryScanned, ExpiryComplete
  <1> QED BY <1>9, <1>11, <1>12, <1>14, <1>15, <1>16, <1>17, <1>18 DEF IInv

-----------------------------------------------------------------------------
(* The theorems *)

\* Every step of the sessions, the worker, Drain and the clock keeps IInv.
THEOREM Invariance == Spec => []IInv
  <1>1. IInv /\ [Next]_vars => IInv'
    <2> SUFFICES ASSUME IInv, [Next]_vars
                 PROVE  IInv'
      OBVIOUS
    <2>1. CASE UNCHANGED vars
      <3>1. TypeOK' /\ HeldWasQueued'
        BY <2>1 DEF IInv, TypeOK, HeldWasQueued, vars
      <3> QED BY <2>1, <3>1, SessionFrame DEF vars
    <2>2. CASE \E m \in Messages : Dispatch(m) \/ Enqueue(m) \/ Finish(m)
      BY <2>2, DispatchIInv, EnqueueIInv, FinishIInv
    <2>3. CASE \E m \in Messages, r \in Results : InlineReturn(m, r)
      BY <2>3, InlineReturnIInv
    <2>4. CASE RunTick \/ RunStop
      BY <2>4, RunIInv
    <2>5. CASE \E t \in Threads : Tick(t)
      BY <2>5, TickNowIInv, TickLockIInv, TickExpireIInv, TickExpireDoneIInv,
         TickCopyIInv, TickUnlockIInv, TickAttemptIInv, TickRecordIInv,
         TickEndIInv
      DEF Tick
    <2>6. CASE \E t \in Threads, r \in Results : TickReturn(t, r)
      BY <2>6, TickReturnIInv
    <2>7. CASE Drain \/ Exit
      BY <2>7, DrainControlIInv, DrainZeroIInv DEF Drain
    <2>8. CASE Advance
      BY <2>8, AdvanceIInv
    <2> QED BY <2>1, <2>2, <2>3, <2>4, <2>5, <2>6, <2>7, <2>8
            DEF Next, Step
  <1> QED BY InitIInv, <1>1, PTL DEF Spec

\* Every variable of the queue, of its goroutines and of the sessions keeps
\* its type.
THEOREM TypeCorrect == Spec => []TypeOK
  BY Invariance, PTL DEF IInv

\* The slice and the byte count stay within retry.max_entries and
\* retry.max_bytes, whatever the sessions, the worker and Drain interleave.
THEOREM CapacityHolds == Spec => []Capacity
  BY Invariance, PTL DEF IInv

\* The scan of tick never indexes outside q.entries.
THEOREM ScanStaysInBounds == Spec => []ScanInBounds
  BY Invariance, PTL DEF IInv

\* The expiry loop, which removes while it iterates, misses no entry.
THEOREM ExpiryIsComplete == Spec => []ExpiryComplete
  BY Invariance, PTL DEF IInv

\* What tick attempts after it has released q.mu is still in the queue: the
\* branch of tick for an entry that expired during its attempt is dead.
THEOREM DueStaysHeld == Spec => []DueHeld
  <1>1. IInv => DueHeld
    BY DEF IInv, DueCovered, Covered, DueHeld, Held
  <1> QED BY Invariance, <1>1, PTL

\* No message is attempted by two goroutines at once.
THEOREM AttemptsAreExclusive == Spec => []NoConcurrentAttempts
  <1>1. IInv => NoConcurrentAttempts
    <2> SUFFICES ASSUME IInv PROVE NoConcurrentAttempts
      OBVIOUS
    <2>1. Attempting(Worker) \cap Attempting(Main) = {}
      BY DEF IInv, OneTicker, Attempting
    <2>2. ASSUME NEW t \in Threads, NEW m \in Attempting(t)
          PROVE  call[m] \in {"Queued", "replied"}
      <3>1. pc[t] \in {"attempt", "record"} /\ m = Head(due[t])
        BY DEF Attempting
      <3>2. due[t] \in Seq(Messages) /\ due[t] # <<>>
        BY <3>1 DEF IInv, TypeOK, DueHead
      <3>3. PICK i \in 1..Len(entries) : entries[i].msg = m
        BY <3>1, <3>2 DEF IInv, DueCovered, Covered
      <3> QED BY <3>3 DEF IInv, HeldWasQueued
    <2> QED BY <2>1, <2>2 DEF NoConcurrentAttempts
  <1> QED BY Invariance, <1>1, PTL

-----------------------------------------------------------------------------
(* The byte count. TotalSize is a recursive function; what it computes is  *)
(* compared with running totals by way of a least counterexample.          *)

\* f holds the running totals of the sizes in es.
RunsUp(f, es) ==
    f = [i \in 0..Len(es) |-> IF i = 0 THEN 0 ELSE f[i - 1] + Size[es[i].msg]]

\* q.bytes is the last of the running totals of the slice.
BInv ==
    \E f \in [0..Len(entries) -> Int] :
        RunsUp(f, entries) /\ bytes = f[Len(entries)]

\* A set of natural numbers has a least element.
LEMMA NatMin ==
    ASSUME NEW T, T \subseteq Nat, T # {}
    PROVE  \E x \in T : \A y \in T : x <= y
  <1> DEFINE R == {ss \in Nat \X Nat : ss[1] < ss[2]}
  <1>1. IsWellFoundedOn(R, Nat)
    BY NatLessThanWellFounded DEF OpToRel
  <1>2. PICK x \in T : \A y \in T : ~(<<y, x>> \in R)
    <2> HIDE DEF R
    <2> QED BY <1>1, WFMin
  <1>3. \A y \in T : ~(y < x)
    BY <1>2
  <1> QED BY <1>3

\* The running totals are unique.
LEMMA SameTotals ==
    ASSUME NEW es, Len(es) \in Nat, NEW f, NEW g, RunsUp(f, es), RunsUp(g, es)
    PROVE  \A i \in 0..Len(es) : f[i] = g[i]
  <1> SUFFICES ASSUME NEW i \in 0..Len(es), f[i] # g[i] PROVE FALSE
    OBVIOUS
  <1> DEFINE T == {j \in 0..Len(es) : f[j] # g[j]}
  <1>1. PICK j \in T : \A k \in T : j <= k
    <2>1. T \subseteq Nat /\ T # {}
      OBVIOUS
    <2> HIDE DEF T
    <2> QED BY <2>1, NatMin
  <1>2. j # 0
    BY DEF RunsUp
  <1>3. j - 1 \in 0..Len(es) /\ j - 1 \notin T
    BY <1>1, <1>2
  <1> QED BY <1>1, <1>2, <1>3 DEF RunsUp

\* TotalSize is the last running total.
LEMMA TotalIsLast ==
    ASSUME NEW es, Len(es) \in Nat, NEW f, RunsUp(f, es)
    PROVE  TotalSize(es) = f[Len(es)]
  <1> DEFINE g == CHOOSE h : RunsUp(h, es)
  <1>1. RunsUp(g, es)
    OBVIOUS
  <1>2. TotalSize(es) = g[Len(es)]
    BY DEF TotalSize, RunsUp
  <1> HIDE DEF g
  <1> QED BY <1>1, <1>2, SameTotals

\* The fields of an entry.
LEMMA EntryTyped ==
    ASSUME IInv, NEW i \in 1..Len(entries)
    PROVE  /\ entries[i] \in Entry /\ entries[i].msg \in Messages
           /\ entries[i].accepted \in Nat /\ entries[i].nextTry \in Nat
           /\ entries[i].attempts \in 0..AttemptCap
  <1>1. entries[i] \in Entry
    BY DEF IInv, TypeOK
  <1> QED BY <1>1 DEF Entry

\* The head of a due list that is being attempted.
LEMMA HeadHeld ==
    ASSUME IInv, NEW t \in Threads, pc[t] \in AttemptPCs, due[t] # <<>>
    PROVE  Head(due[t]) \in Messages /\ Held(Head(due[t]))
  <1>1. due[t] \in Seq(Messages) /\ Covered(due[t], entries, Len(entries))
    BY DEF IInv, TypeOK, DueCovered
  <1> QED BY <1>1 DEF Covered, Held

\* A step that keeps the messages in their slots keeps the totals.
LEMMA SameSlotsBInv ==
    ASSUME IInv, BInv, UNCHANGED bytes, Len(entries') = Len(entries),
           \A i \in 1..Len(entries) : entries'[i].msg = entries[i].msg
    PROVE  BInv'
  <1>1. PICK f \in [0..Len(entries) -> Int] :
           RunsUp(f, entries) /\ bytes = f[Len(entries)]
    BY DEF BInv
  <1>2. Len(entries) \in Nat
    BY DEF IInv, TypeOK
  <1>3. RunsUp(f, entries')
    <2>1. \A i \in 0..Len(entries) : i # 0 => i \in 1..Len(entries)
      BY <1>2
    <2>2. \A i \in 0..Len(entries) :
             f[i] = IF i = 0 THEN 0 ELSE f[i - 1] + Size[entries'[i].msg]
      BY <1>1, <2>1 DEF RunsUp
    <2> QED BY <1>1, <2>2 DEF RunsUp
  <1>4. f \in [0..Len(entries') -> Int] /\ bytes' = f[Len(entries')]
    BY <1>1
  <1> QED BY <1>3, <1>4 DEF BInv

\* remove subtracts the size of the entry it removes: the totals behind slot
\* i change by the same amount.
LEMMA RemoveBInv ==
    ASSUME IInv, BInv, NEW i \in 1..Len(entries), Remove(i)
    PROVE  BInv'
  <1> DEFINE n == Len(entries)
             a == Size[entries[i].msg]
             z == Size[entries[n].msg]
  <1>1. PICK f \in [0..n -> Int] : RunsUp(f, entries) /\ bytes = f[n]
    BY DEF BInv
  <1>2. n \in Nat /\ n # 0 /\ n \in 1..n
    BY DEF IInv, TypeOK
  <1>3. \A j \in 1..n : Size[entries[j].msg] \in Nat
    BY EntryTyped, ConfigAssumption DEF ConfigAssumption
  <1>4. Len(entries') = n - 1
        /\ \A j \in 1..Len(entries') :
              entries'[j] = IF j = i THEN entries[n] ELSE entries[j]
    BY RemoveFacts
  <1>5. bytes' = bytes - a
    BY DEF Remove
  <1>6. f[0] = 0 /\ \A j \in 1..n : f[j] = f[j - 1] + Size[entries[j].msg]
    <2>1. \A j \in 1..n : j \in 0..n /\ j # 0
      BY <1>2
    <2>2. 0 \in 0..n
      BY <1>2
    <2> QED BY <1>1, <2>1, <2>2 DEF RunsUp
  <1>7. a \in Nat /\ z \in Nat
    BY <1>2, <1>3
  <1> DEFINE g == [j \in 0..(n - 1) |-> IF j < i THEN f[j] ELSE f[j] - a + z]
  <1> HIDE DEF n
  <1>8. \A j \in 1..n : j - 1 \in 0..n /\ f[j] \in Int /\ f[j - 1] \in Int
    BY <1>1, <1>2
  <1>9. g \in [0..(n - 1) -> Int]
    <2> HIDE DEF a, z
    <2> QED BY <1>1, <1>2, <1>7
  <1>10. ASSUME NEW j \in 1..(n - 1)
         PROVE  g[j] = g[j - 1] + Size[entries'[j].msg]
    <2>1. j \in 1..n /\ j \in 0..(n - 1) /\ j - 1 \in 0..(n - 1)
      BY <1>2
    <2>2. f[j] = f[j - 1] + Size[entries[j].msg]
          /\ f[j] \in Int /\ f[j - 1] \in Int
      BY <1>6, <1>8, <2>1
    <2>3. CASE j < i
      <3>1. g[j] = f[j] /\ g[j - 1] = f[j - 1] /\ entries'[j] = entries[j]
        BY <1>4, <2>1, <2>3
      <3> QED BY <2>2, <3>1
    <2>4. CASE j = i
      <3>1. g[j] = f[j] - a + z /\ g[j - 1] = f[j - 1]
            /\ entries'[j] = entries[n]
        BY <1>4, <2>1, <2>4
      <3>2. Size[entries[j].msg] = a /\ Size[entries'[j].msg] = z
        BY <2>4, <3>1
      <3> HIDE DEF a, z, g
      <3> QED BY <1>7, <2>2, <3>1, <3>2
    <2>5. CASE j > i
      <3>1. g[j] = f[j] - a + z /\ g[j - 1] = f[j - 1] - a + z
            /\ entries'[j] = entries[j] /\ Size[entries[j].msg] \in Nat
        BY <1>3, <1>4, <2>1, <2>5
      <3> HIDE DEF a, z, g
      <3> QED BY <1>7, <2>2, <3>1
    <2> QED BY <2>3, <2>4, <2>5
  <1>11. g[0] = 0
    BY <1>2, <1>6
  <1>12. g[n - 1] = bytes'
    <2>1. f[n] = f[n - 1] + z /\ f[n] \in Int /\ f[n - 1] \in Int
      BY <1>2, <1>6, <1>8
    <2>2. CASE i = n
      <3>1. g[n - 1] = f[n - 1] /\ a = z
        BY <1>2, <2>2
      <3> HIDE DEF a, z, g
      <3> QED BY <1>1, <1>5, <1>7, <2>1, <3>1
    <2>3. CASE i < n
      <3>1. g[n - 1] = f[n - 1] - a + z
        BY <1>2, <2>3
      <3> HIDE DEF a, z, g
      <3> QED BY <1>1, <1>5, <1>7, <2>1, <3>1
    <2> QED BY <1>2, <2>2, <2>3 DEF n
  <1>13. RunsUp(g, entries')
    <2>1. g = [j \in 0..(n - 1) |->
                  IF j = 0 THEN 0 ELSE g[j - 1] + Size[entries'[j].msg]]
      <3>1. \A j \in 0..(n - 1) :
               g[j] = IF j = 0 THEN 0 ELSE g[j - 1] + Size[entries'[j].msg]
        <4> HIDE DEF g
        <4> QED BY <1>2, <1>10, <1>11
      <3> QED BY <3>1
    <2> QED BY <1>4, <2>1 DEF RunsUp
  <1> QED BY <1>4, <1>9, <1>12, <1>13 DEF BInv

\* enqueue adds the size of the entry it appends.
LEMMA EnqueueBInv ==
    ASSUME IInv, BInv, NEW m \in Messages, Enqueue(m)
    PROVE  BInv'
  <1>1. CASE UNCHANGED queueVars
    BY <1>1, SameSlotsBInv DEF queueVars
  <1>2. CASE ~EntryLimit /\ ~ByteLimit(m)
    <2> DEFINE new == [msg |-> m, accepted |-> now,
                       nextTry |-> now + Interval, attempts |-> 0]
               n == Len(entries)
    <2>1. entries' = Append(entries, new) /\ bytes' = bytes + Size[m]
      BY <1>2 DEF Enqueue
    <2>2. new.msg = m
      OBVIOUS
    <2> HIDE DEF new
    <2>3. /\ Len(entries') = n + 1 /\ n \in Nat
          /\ entries'[n + 1].msg = m
          /\ \A j \in 1..n : entries'[j] = entries[j]
      BY <2>1, <2>2 DEF IInv, TypeOK
    <2>4. PICK f \in [0..n -> Int] : RunsUp(f, entries) /\ bytes = f[n]
      BY DEF BInv
    <2>5. Size[m] \in Nat
      BY ConfigAssumption DEF ConfigAssumption
    <2> HIDE DEF n
    <2> DEFINE g == [j \in 0..(n + 1) |-> IF j = n + 1 THEN f[n] + Size[m]
                                                       ELSE f[j]]
    <2>6. g \in [0..(n + 1) -> Int] /\ g[n + 1] = bytes'
      BY <2>1, <2>3, <2>4, <2>5
    <2>7. \A j \in 0..(n + 1) :
             g[j] = IF j = 0 THEN 0 ELSE g[j - 1] + Size[entries'[j].msg]
      <3> SUFFICES ASSUME NEW j \in 0..(n + 1)
                   PROVE  g[j] = IF j = 0 THEN 0
                                 ELSE g[j - 1] + Size[entries'[j].msg]
        OBVIOUS
      <3>1. CASE j = n + 1
        BY <2>3, <3>1
      <3>2. CASE j # n + 1
        <4>1. j \in 0..n /\ (j # 0 => j \in 1..n /\ j - 1 \in 0..n)
          BY <2>3, <3>2
        <4>2. f[j] = IF j = 0 THEN 0 ELSE f[j - 1] + Size[entries[j].msg]
          BY <2>4, <4>1 DEF RunsUp, n
        <4>3. g[j] = f[j] /\ (j # 0 => g[j - 1] = f[j - 1])
          BY <2>3, <3>2, <4>1
        <4> HIDE DEF g
        <4> QED BY <2>3, <4>1, <4>2, <4>3
      <3> QED BY <3>1, <3>2
    <2>8. RunsUp(g, entries')
      BY <2>3, <2>7 DEF RunsUp
    <2> QED BY <2>3, <2>6, <2>8 DEF BInv
  <1> QED BY <1>1, <1>2 DEF Enqueue

LEMMA TickRecordBInv ==
    ASSUME IInv, BInv, NEW t \in Threads, TickRecord(t)
    PROVE  BInv'
  <1>1. pc[t] = "record" /\ due[t] # <<>>
    BY DEF TickRecord, IInv, DueHead
  <1>2. Held(Head(due[t]))
    BY <1>1, HeadHeld
  <1>3. PICK i \in 1..Len(entries) : RecordResult(t, i)
    <2>1. IndexOf(Head(due[t])) \in 1..Len(entries)
      BY <1>2, IndexOfHeld DEF IInv
    <2> QED BY <1>2, <2>1 DEF TickRecord
  <1>4. CASE Remove(i)
    BY <1>4, RemoveBInv
  <1>5. CASE ~Remove(i)
    <2>1. PICK n : entries' = [entries EXCEPT ![i].attempts = n,
                                              ![i].nextTry = now + Interval]
                   /\ UNCHANGED bytes
      BY <1>3, <1>5 DEF RecordResult
    <2>2. entries \in Seq(Entry)
      BY DEF IInv, TypeOK
    <2>3. Len(entries') = Len(entries)
      BY <2>1, <2>2
    <2>4. \A j \in 1..Len(entries) : entries'[j].msg = entries[j].msg
      BY <2>1, <2>2 DEF Entry
    <2> QED BY <2>1, <2>3, <2>4, SameSlotsBInv
  <1> QED BY <1>4, <1>5

LEMMA DrainZeroBInv ==
    ASSUME IInv, BInv, DrainZero
    PROVE  BInv'
  <1>1. /\ entries' = [i \in 1..Len(entries) |->
                          [entries[i] EXCEPT !.nextTry = None]]
        /\ UNCHANGED bytes
    BY DEF DrainZero
  <1>2. Len(entries) \in Nat
        /\ \A j \in 1..Len(entries) : entries[j] \in Entry
    BY DEF IInv, TypeOK
  <1>3. Len(entries') = Len(entries)
    BY <1>1, <1>2
  <1>4. \A j \in 1..Len(entries) : entries'[j].msg = entries[j].msg
    BY <1>1, <1>2 DEF Entry
  <1> QED BY <1>1, <1>3, <1>4, SameSlotsBInv

\* q.bytes is the sum of the sizes of the bodies that the queue holds.
THEOREM BytesAreAccounted == Spec => []BytesAccounted
  <1>1. Init => BInv
    <2> SUFFICES ASSUME Init PROVE BInv
      OBVIOUS
    <2> DEFINE f == [i \in 0..0 |-> 0]
    <2>1. Len(entries) = 0 /\ bytes = 0
      BY DEF Init
    <2>2. f \in [0..0 -> Int] /\ f[0] = 0
      OBVIOUS
    <2>3. RunsUp(f, entries)
      <3>1. \A i \in 0..0 : i = 0
        OBVIOUS
      <3> QED BY <2>1, <3>1 DEF RunsUp
    <2> QED BY <2>1, <2>2, <2>3 DEF BInv
  <1>2. IInv /\ BInv /\ [Next]_vars => BInv'
    <2> SUFFICES ASSUME IInv, BInv, [Next]_vars
                 PROVE  BInv'
      OBVIOUS
    <2>1. ASSUME UNCHANGED queueVars PROVE BInv'
      BY <2>1, SameSlotsBInv DEF queueVars
    <2>2. CASE \E m \in Messages : Dispatch(m) \/ Enqueue(m) \/ Finish(m)
      BY <2>1, <2>2, EnqueueBInv DEF Dispatch, Finish
    <2>3. CASE \/ \E m \in Messages, r \in Results : InlineReturn(m, r)
               \/ RunTick \/ RunStop \/ Exit \/ Advance \/ UNCHANGED vars
      BY <2>1, <2>3
      DEF InlineReturn, RunTick, RunStop, Exit, Advance, vars, queueVars
    <2>4. ASSUME NEW t \in Threads, TickExpire(t) PROVE BInv'
      <3>1. idx[t] \in 1..Len(entries)
        BY <2>4 DEF TickExpire, IInv, TypeOK, ScanInBounds
      <3> QED BY <2>1, <2>4, <3>1, RemoveBInv DEF TickExpire
    <2>5. ASSUME NEW t \in Threads,
                 \/ TickNow(t) \/ TickLock(t) \/ TickExpireDone(t)
                 \/ TickCopy(t) \/ TickUnlock(t) \/ TickAttempt(t) \/ TickEnd(t)
                 \/ \E r \in Results : TickReturn(t, r)
          PROVE  BInv'
      BY <2>1, <2>5 DEF TickNow, TickLock, TickExpireDone, TickCopy,
         TickUnlock, TickAttempt, TickEnd, TickReturn
    <2>6. CASE \E t \in Threads : Tick(t)
      BY <2>4, <2>5, <2>6, TickRecordBInv DEF Tick
    <2>7. CASE \E t \in Threads, r \in Results : TickReturn(t, r)
      BY <2>5, <2>7
    <2>8. CASE Drain
      BY <2>1, <2>8, DrainZeroBInv
      DEF Drain, DrainStop, DrainWait, DrainCheck, DrainReport
    <2> QED BY <2>2, <2>3, <2>6, <2>7, <2>8 DEF Next, Step
  <1>3. IInv /\ BInv => BytesAccounted
    <2> SUFFICES ASSUME IInv, BInv PROVE BytesAccounted
      OBVIOUS
    <2>1. PICK f \in [0..Len(entries) -> Int] :
             RunsUp(f, entries) /\ bytes = f[Len(entries)]
      BY DEF BInv
    <2>2. Len(entries) \in Nat
      BY DEF IInv, TypeOK
    <2> QED BY <2>1, <2>2, TotalIsLast DEF BytesAccounted
  <1> QED BY Invariance, <1>1, <1>2, <1>3, PTL DEF Spec
=============================================================================
