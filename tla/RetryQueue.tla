----------------------------- MODULE RetryQueue -----------------------------
(***************************************************************************)
(* The in-memory retry queue of internal/queue/queue.go, together with the *)
(* parties that touch it:                                                  *)
(*                                                                         *)
(*   - one session goroutine per message past the dot, which calls         *)
(*     Queue.Dispatch once, logs the outcome and replies 250               *)
(*     (handleData in internal/server/transaction.go);                     *)
(*   - the worker goroutine, which runs tick on every ticker event;        *)
(*   - the main goroutine, which calls Drain on a stop signal and then     *)
(*     lets the process end (cmd/smtpfilter/main.go).                      *)
(*                                                                         *)
(* tick is executed by two goroutines, by run and, after the worker has    *)
(* returned, by Drain; its steps are therefore actions of a thread t.      *)
(* The mutex q.mu is held across several steps only while tick scans the   *)
(* slice; every other critical section is one step, taken when mu is free. *)
(***************************************************************************)
EXTENDS Integers, Sequences

CONSTANTS
    Messages,     \* the messages that reach the dot, by identity
    Size,         \* Size[m]: len(m.Body)
    Timeout,      \* Timeout[m]: m.Route.Timeout()
    MaxEntries,   \* retry.max_entries
    MaxBytes,     \* retry.max_bytes
    Interval,     \* retry.interval_sec
    Expire,       \* retry.expire_sec
    DrainLimit,   \* drainLimit of main.go
    AttemptCap,   \* bound: Entry.Attempts is counted up to this value
    LastCall,     \* bound: no message reaches the dot after this time
    LastStop,     \* bound: no stop signal arrives after this time
    Horizon       \* bound: the clock stops here

\* What config.Validate requires of an enabled retry section, and of a route.
ASSUME ConfigAssumption ==
    /\ Size \in [Messages -> Nat]
    /\ Timeout \in [Messages -> Nat \ {0}]
    /\ MaxEntries \in Nat \ {0}
    /\ MaxBytes \in Nat \ {0}
    /\ Interval \in Nat \ {0}
    /\ Expire \in Nat /\ Expire > Interval
    /\ DrainLimit \in Nat \ {0}

\* The bounds of the model.
ASSUME BoundAssumption ==
    /\ AttemptCap \in Nat \ {0}
    /\ LastCall \in Nat
    /\ LastStop \in Nat
    /\ Horizon \in Nat

VARIABLES
    now,       \* time.Now()
    tickC,     \* len(t.C): the events in the ticker channel, of capacity one
    entries,   \* q.entries
    bytes,     \* q.bytes
    mu,        \* the thread that holds q.mu across steps, or Free
    pc,        \* pc[t]: where thread t is
    tnow,      \* tnow[t]: the local variable now of tick
    idx,       \* idx[t]: the local variable i of tick's scan, one-based
    due,       \* due[t]: the messages still to attempt; its head is current
    res,       \* res[t]: the result of the attempt that has just returned
    ctx,       \* ctx[m]: context deadline of the attempt in flight, or None
    deadline,  \* the local variable deadline of Drain
    call,      \* call[m]: the session's progress through Dispatch
    log        \* the log entries about messages

queueVars == <<entries, bytes>>
tickVars  == <<tnow, idx, due, res>>
vars == <<now, tickC, entries, bytes, mu, pc, tnow, idx, due, res, ctx,
          deadline, call, log>>

-----------------------------------------------------------------------------
(* Values *)

Worker  == "run"
Main    == "Drain"
Threads == {Worker, Main}

Free == "free"
None == 0                      \* no deadline; also time.Time{} in nextTry

\* Results of one disposition attempt, and of Queue.Dispatch.
Results      == {"OK", "TempFail", "PermFail"}
CallResults  == Results \cup {"Queued"}

\* What the queue logs about a message, and what its session logs.
QueueEvents   == {"queued", "entry limit", "byte limit", "expired",
                  "retry delivered", "retry permanent", "not drained"}
SessionEvents == {"delivered", "queued for retry", "no capacity", "permanent"}

Entry == [msg : Messages, accepted : Nat, nextTry : Nat,
          attempts : 0..AttemptCap]
LogEntry == [event : QueueEvents \cup SessionEvents, msg : Messages,
             attempts : 0..AttemptCap]

Line(e, m, n) == [event |-> e, msg |-> m, attempts |-> n]
Logged(e, m)  == \E n \in 0..AttemptCap : Line(e, m, n) \in log

\* The pcs inside tick, the part of them that holds q.mu, and the part in
\* which the thread works through its due list.
ScanPCs    == {"expire", "copy"}
AttemptPCs == {"next", "attempt", "record"}
TickPCs    == {"tick", "lock"} \cup ScanPCs \cup AttemptPCs

WorkerPCs == {"select", "returned"} \cup TickPCs
MainPCs   == {"serve", "wait", "check", "zero", "report", "drained",
              "exited"} \cup TickPCs

\* Fault: Drain waits for done before it closes stop.
StopClosed_AfterDone == pc[Main] \notin {"serve", "wait"}

Alive      == pc[Main] # "exited"
StopClosed == pc[Main] # "serve"
DoneClosed == pc[Worker] = "returned"

Goto(t, l) == pc' = [pc EXCEPT ![t] = l]

\* Attempts + 1, counted up to the bound.
Bump(n) == IF n < AttemptCap THEN n + 1 ELSE n

-----------------------------------------------------------------------------
(* The slice *)

Held(m) == \E i \in 1..Len(entries) : entries[i].msg = m

\* indexOf: the first position that holds m, 0 (for -1) when there is none.
IndexOf(m) ==
    IF Held(m)
    THEN CHOOSE i \in 1..Len(entries) :
            /\ entries[i].msg = m
            /\ \A j \in 1..(i - 1) : entries[j].msg # m
    ELSE 0

\* Fault: remove truncates the slice without moving the final element.
SwapRemove_NoMove(s, i) == SubSeq(s, 1, Len(s) - 1)

\* remove: the final element moves into slot i and the slice is truncated.
SwapRemove(s, i) ==
    [j \in 1..(Len(s) - 1) |-> IF j = i THEN s[Len(s)] ELSE s[j]]

\* Fault: remove reads the size from the slot after the swap.
Remove_SizeAfterSwap(i) ==
    /\ entries' = SwapRemove(entries, i)
    /\ bytes' = bytes - Size[entries[Len(entries)].msg]

Remove(i) ==
    /\ entries' = SwapRemove(entries, i)
    /\ bytes' = bytes - Size[entries[i].msg]

\* Fault: the size of the new message is not counted.
ByteLimit_WithoutNew(m) == bytes >= MaxBytes

EntryLimit   == Len(entries) >= MaxEntries
ByteLimit(m) == bytes + Size[m] > MaxBytes

-----------------------------------------------------------------------------
(* Sessions: Dispatch and the part of handleData that follows it *)

\* The session calls Dispatch, which starts the inline attempt.
Dispatch(m) ==
    /\ Alive
    /\ call[m] = "idle"
    /\ now <= LastCall
    /\ call' = [call EXCEPT ![m] = "inline"]
    /\ ctx' = [ctx EXCEPT ![m] = now + Timeout[m]]
    /\ UNCHANGED <<now, tickC, queueVars, mu, pc, tickVars, deadline, log>>

\* The inline attempt returns. Anything but a temporary failure is final.
InlineReturn(m, r) ==
    /\ Alive
    /\ call[m] = "inline"
    /\ call' = [call EXCEPT ![m] = IF r = "TempFail" THEN "enqueue" ELSE r]
    /\ ctx' = [ctx EXCEPT ![m] = None]
    /\ UNCHANGED <<now, tickC, queueVars, mu, pc, tickVars, deadline, log>>

\* enqueue: the two limits, in the order of the code, then the append.
Enqueue(m) ==
    /\ Alive
    /\ call[m] = "enqueue"
    /\ mu = Free
    /\ \/ /\ EntryLimit
          /\ log' = log \cup {Line("entry limit", m, 0)}
          /\ call' = [call EXCEPT ![m] = "TempFail"]
          /\ UNCHANGED queueVars
       \/ /\ ~EntryLimit /\ ByteLimit(m)
          /\ log' = log \cup {Line("byte limit", m, 0)}
          /\ call' = [call EXCEPT ![m] = "TempFail"]
          /\ UNCHANGED queueVars
       \/ /\ ~EntryLimit /\ ~ByteLimit(m)
          /\ entries' = Append(entries,
                               [msg |-> m, accepted |-> now,
                                nextTry |-> now + Interval, attempts |-> 0])
          /\ bytes' = bytes + Size[m]
          /\ log' = log \cup {Line("queued", m, 0)}
          /\ call' = [call EXCEPT ![m] = "Queued"]
    /\ UNCHANGED <<now, tickC, mu, pc, tickVars, ctx, deadline>>

\* The log entry of handleData for each result of Dispatch.
SessionEvent(r) ==
    CASE r = "OK"       -> "delivered"
      [] r = "Queued"   -> "queued for retry"
      [] r = "TempFail" -> "no capacity"
      [] r = "PermFail" -> "permanent"

\* The session logs the outcome and sends the 250 of finish().
Finish(m) ==
    /\ Alive
    /\ call[m] \in CallResults
    /\ log' = log \cup {Line(SessionEvent(call[m]), m, 0)}
    /\ call' = [call EXCEPT ![m] = "replied"]
    /\ UNCHANGED <<now, tickC, queueVars, mu, pc, tickVars, ctx, deadline>>

-----------------------------------------------------------------------------
(* The worker loop *)

\* case <-t.C
RunTick ==
    /\ Alive
    /\ pc[Worker] = "select"
    /\ tickC = 1
    /\ tickC' = 0
    /\ Goto(Worker, "tick")
    /\ UNCHANGED <<now, queueVars, mu, tickVars, ctx, deadline, call, log>>

\* case <-q.stop, with the deferred close(q.done)
RunStop ==
    /\ Alive
    /\ pc[Worker] = "select"
    /\ StopClosed
    /\ Goto(Worker, "returned")
    /\ UNCHANGED <<now, tickC, queueVars, mu, tickVars, ctx, deadline, call,
                   log>>

-----------------------------------------------------------------------------
(* tick, executed by thread t *)

\* now := time.Now(), before the mutex is taken.
TickNow(t) ==
    /\ Alive
    /\ pc[t] = "tick"
    /\ tnow' = [tnow EXCEPT ![t] = now]
    /\ Goto(t, "lock")
    /\ UNCHANGED <<now, tickC, queueVars, mu, idx, due, res, ctx, deadline,
                   call, log>>

\* Faults: the expiry loop starts one slot after or before the final element.
LockAt(t, i) ==
    /\ Alive /\ pc[t] = "lock" /\ mu = Free
    /\ mu' = t
    /\ idx' = [idx EXCEPT ![t] = i]
    /\ Goto(t, "expire")
    /\ UNCHANGED <<now, tickC, queueVars, tnow, due, res, ctx, deadline, call,
                   log>>
TickLock_PastEnd(t)  == LockAt(t, Len(entries) + 1)
TickLock_SkipLast(t) ==
    LockAt(t, IF entries = <<>> THEN 0 ELSE Len(entries) - 1)

\* q.mu.Lock(); the expiry loop starts at the final element.
TickLock(t) ==
    /\ Alive
    /\ pc[t] = "lock"
    /\ mu = Free
    /\ mu' = t
    /\ idx' = [idx EXCEPT ![t] = Len(entries)]
    /\ Goto(t, "expire")
    /\ UNCHANGED <<now, tickC, queueVars, tnow, due, res, ctx, deadline, call,
                   log>>

\* Fault: the age is measured from the last attempt.
Expired_SinceAttempt(t, e) == tnow[t] - e.nextTry > Expire

Expired(t, e) == tnow[t] - e.accepted > Expire

\* Fault: an expired entry is removed without a log entry.
TickExpire_Silent(t) ==
    /\ Alive /\ pc[t] = "expire" /\ idx[t] > 0
    /\ IF Expired(t, entries[idx[t]]) THEN Remove(idx[t])
                                      ELSE UNCHANGED queueVars
    /\ idx' = [idx EXCEPT ![t] = idx[t] - 1]
    /\ UNCHANGED <<now, tickC, mu, pc, tnow, due, res, ctx, deadline, call,
                   log>>

\* One iteration of the expiry loop.
TickExpire(t) ==
    /\ Alive
    /\ pc[t] = "expire"
    /\ idx[t] > 0
    /\ LET e == entries[idx[t]] IN
       \/ /\ Expired(t, e)
          /\ log' = log \cup {Line("expired", e.msg, e.attempts)}
          /\ Remove(idx[t])
       \/ /\ ~Expired(t, e)
          /\ UNCHANGED <<queueVars, log>>
    /\ idx' = [idx EXCEPT ![t] = idx[t] - 1]
    /\ UNCHANGED <<now, tickC, mu, pc, tnow, due, res, ctx, deadline, call>>

\* The expiry loop ends; the copy loop starts at the first element.
TickExpireDone(t) ==
    /\ Alive
    /\ pc[t] = "expire"
    /\ idx[t] = 0
    /\ idx' = [idx EXCEPT ![t] = 1]
    /\ Goto(t, "copy")
    /\ UNCHANGED <<now, tickC, queueVars, mu, tnow, due, res, ctx, deadline,
                   call, log>>

\* Fault: every entry is copied, due or not.
TickCopy_All(t) ==
    /\ Alive /\ pc[t] = "copy" /\ idx[t] <= Len(entries)
    /\ due' = [due EXCEPT ![t] = Append(due[t], entries[idx[t]].msg)]
    /\ idx' = [idx EXCEPT ![t] = idx[t] + 1]
    /\ UNCHANGED <<now, tickC, queueVars, mu, pc, tnow, res, ctx, deadline,
                   call, log>>

\* One iteration of the loop that copies the due entries.
TickCopy(t) ==
    /\ Alive
    /\ pc[t] = "copy"
    /\ idx[t] <= Len(entries)
    /\ \/ /\ entries[idx[t]].nextTry <= tnow[t]
          /\ due' = [due EXCEPT ![t] = Append(due[t], entries[idx[t]].msg)]
       \/ /\ entries[idx[t]].nextTry > tnow[t]
          /\ UNCHANGED due
    /\ idx' = [idx EXCEPT ![t] = idx[t] + 1]
    /\ UNCHANGED <<now, tickC, queueVars, mu, pc, tnow, res, ctx, deadline,
                   call, log>>

\* Fault: the mutex is not released before the attempts.
TickUnlock_Keep(t) ==
    /\ Alive /\ pc[t] = "copy" /\ idx[t] > Len(entries)
    /\ idx' = [idx EXCEPT ![t] = 0]
    /\ tnow' = [tnow EXCEPT ![t] = 0]
    /\ Goto(t, "next")
    /\ UNCHANGED <<now, tickC, queueVars, mu, due, res, ctx, deadline, call,
                   log>>

\* q.mu.Unlock() before the attempts.
TickUnlock(t) ==
    /\ Alive
    /\ pc[t] = "copy"
    /\ idx[t] > Len(entries)
    /\ mu' = Free
    /\ idx' = [idx EXCEPT ![t] = 0]
    /\ tnow' = [tnow EXCEPT ![t] = 0]
    /\ Goto(t, "next")
    /\ UNCHANGED <<now, tickC, queueVars, due, res, ctx, deadline, call, log>>

\* The next due message is handed to the dispatcher; no lock is held.
TickAttempt(t) ==
    /\ Alive
    /\ pc[t] = "next"
    /\ due[t] # <<>>
    /\ ctx' = [ctx EXCEPT ![Head(due[t])] = now + Timeout[Head(due[t])]]
    /\ Goto(t, "attempt")
    /\ UNCHANGED <<now, tickC, queueVars, mu, tickVars, deadline, call, log>>

\* The dispatcher returns r. No lock is held yet.
TickReturn(t, r) ==
    /\ Alive
    /\ pc[t] = "attempt"
    /\ res' = [res EXCEPT ![t] = r]
    /\ ctx' = [ctx EXCEPT ![Head(due[t])] = None]
    /\ Goto(t, "record")
    /\ UNCHANGED <<now, tickC, queueVars, mu, tnow, idx, due, deadline, call,
                   log>>

\* The switch on the result, for the entry at index i.
RecordResult(t, i) ==
    LET e == entries[i] IN
    \/ /\ res[t] = "OK"
       /\ log' = log \cup {Line("retry delivered", e.msg, Bump(e.attempts))}
       /\ Remove(i)
    \/ /\ res[t] = "PermFail"
       /\ log' = log \cup {Line("retry permanent", e.msg, Bump(e.attempts))}
       /\ Remove(i)
    \/ /\ res[t] = "TempFail"
       /\ entries' = [entries EXCEPT ![i].attempts = Bump(e.attempts),
                                     ![i].nextTry = now + Interval]
       /\ UNCHANGED <<bytes, log>>

\* The result is recorded under the mutex. An entry that is no longer held
\* is skipped.
TickRecord(t) ==
    /\ Alive
    /\ pc[t] = "record"
    /\ mu = Free
    /\ IF Held(Head(due[t]))
       THEN RecordResult(t, IndexOf(Head(due[t])))
       ELSE UNCHANGED <<queueVars, log>>
    /\ due' = [due EXCEPT ![t] = Tail(due[t])]
    /\ res' = [res EXCEPT ![t] = "OK"]
    /\ Goto(t, "next")
    /\ UNCHANGED <<now, tickC, mu, tnow, idx, ctx, deadline, call>>

\* Fault: the worker goes on with the loop of Drain.
TickEnd_Check(t) ==
    /\ Alive /\ pc[t] = "next" /\ due[t] = <<>>
    /\ Goto(t, "check")
    /\ UNCHANGED <<now, tickC, queueVars, mu, tickVars, ctx, deadline, call,
                   log>>

\* tick returns to run's select or to the loop of Drain.
TickEnd(t) ==
    /\ Alive
    /\ pc[t] = "next"
    /\ due[t] = <<>>
    /\ Goto(t, IF t = Worker THEN "select" ELSE "check")
    /\ UNCHANGED <<now, tickC, queueVars, mu, tickVars, ctx, deadline, call,
                   log>>

Tick(t) ==
    \/ TickNow(t) \/ TickLock(t)
    \/ TickExpire(t) \/ TickExpireDone(t)
    \/ TickCopy(t) \/ TickUnlock(t)
    \/ TickAttempt(t) \/ TickRecord(t) \/ TickEnd(t)

-----------------------------------------------------------------------------
(* Drain, executed by the main goroutine *)

\* A stop signal: main calls Drain, which closes q.stop.
DrainStop ==
    /\ pc[Main] = "serve"
    /\ now <= LastStop
    /\ Goto(Main, "wait")
    /\ UNCHANGED <<now, tickC, queueVars, mu, tickVars, ctx, deadline, call,
                   log>>

\* Fault: Drain does not wait for the worker.
DrainWait_NoWait ==
    /\ pc[Main] = "wait"
    /\ deadline' = now + DrainLimit
    /\ Goto(Main, "check")
    /\ UNCHANGED <<now, tickC, queueVars, mu, tickVars, ctx, call, log>>

\* <-q.done, then the deadline is set.
DrainWait ==
    /\ pc[Main] = "wait"
    /\ DoneClosed
    /\ deadline' = now + DrainLimit
    /\ Goto(Main, "check")
    /\ UNCHANGED <<now, tickC, queueVars, mu, tickVars, ctx, call, log>>

\* The loop condition; Len takes the mutex.
DrainCheck ==
    /\ pc[Main] = "check"
    /\ mu = Free
    /\ Goto(Main, IF Len(entries) > 0 /\ now < deadline
                  THEN "zero" ELSE "report")
    /\ UNCHANGED <<now, tickC, queueVars, mu, tickVars, ctx, deadline, call,
                   log>>

\* Every entry is made due, then tick is called.
DrainZero ==
    /\ pc[Main] = "zero"
    /\ mu = Free
    /\ entries' = [i \in 1..Len(entries) |->
                      [entries[i] EXCEPT !.nextTry = None]]
    /\ Goto(Main, "tick")
    /\ UNCHANGED <<now, tickC, bytes, mu, tickVars, ctx, deadline, call, log>>

\* Each entry that is still held is logged as lost.
DrainReport ==
    /\ pc[Main] = "report"
    /\ mu = Free
    /\ log' = log \cup {Line("not drained", entries[i].msg,
                             entries[i].attempts) : i \in 1..Len(entries)}
    /\ Goto(Main, "drained")
    /\ UNCHANGED <<now, tickC, queueVars, mu, tickVars, ctx, deadline, call>>

\* main returns and every goroutine ends with the process.
Exit ==
    /\ pc[Main] = "drained"
    /\ Goto(Main, "exited")
    /\ UNCHANGED <<now, tickC, queueVars, mu, tickVars, ctx, deadline, call,
                   log>>

Drain == DrainStop \/ DrainWait \/ DrainCheck \/ DrainZero \/ DrainReport

-----------------------------------------------------------------------------
(* Time *)

\* A context deadline ends its attempt, so time does not pass it while the
\* attempt is in flight. The ticker drops an event when its channel is full.
Advance ==
    /\ Alive
    /\ now < Horizon
    /\ \A m \in Messages : ctx[m] # None => now < ctx[m]
    /\ now' = now + 1
    /\ tickC' = IF ~DoneClosed /\ (tickC = 1 \/ (now + 1) % Interval = 0)
                THEN 1 ELSE 0
    /\ UNCHANGED <<queueVars, mu, pc, tickVars, ctx, deadline, call, log>>

-----------------------------------------------------------------------------

Init ==
    /\ now = 0
    /\ tickC = 0
    /\ entries = <<>>
    /\ bytes = 0
    /\ mu = Free
    /\ pc = [t \in Threads |-> IF t = Worker THEN "select" ELSE "serve"]
    /\ tnow = [t \in Threads |-> 0]
    /\ idx = [t \in Threads |-> 0]
    /\ due = [t \in Threads |-> <<>>]
    /\ res = [t \in Threads |-> "OK"]
    /\ ctx = [m \in Messages |-> None]
    /\ deadline = None
    /\ call = [m \in Messages |-> "idle"]
    /\ log = {}

\* Every step but the passing of time.
Step ==
    \/ \E m \in Messages : Dispatch(m) \/ Enqueue(m) \/ Finish(m)
    \/ \E m \in Messages, r \in Results : InlineReturn(m, r)
    \/ RunTick \/ RunStop
    \/ \E t \in Threads : Tick(t)
    \/ \E t \in Threads, r \in Results : TickReturn(t, r)
    \/ Drain
    \/ Exit

Next == Step \/ Advance

Spec == Init /\ [][Next]_vars

-----------------------------------------------------------------------------
(* Scheduling, for the liveness properties only *)

\* A goroutine has a step to take that does not wait for an endpoint.
Runnable ==
    \/ \E m \in Messages : ENABLED Enqueue(m) \/ ENABLED Finish(m)
    \/ ENABLED (RunTick \/ RunStop)
    \/ \E t \in Threads : ENABLED Tick(t)
    \/ ENABLED (DrainWait \/ DrainCheck \/ DrainZero \/ DrainReport \/ Exit)

\* A runnable goroutine runs within one unit of time. Without this a bounded
\* clock could reach its bound while a goroutine waits for its turn.
PromptAdvance == ~Runnable /\ Advance

PromptNext == Step \/ PromptAdvance

\* Goroutines are scheduled, an attempt returns, and time passes, however
\* busy the goroutines are. A sync.Mutex is starvation-free, so a session
\* that keeps finding it free takes it. Nothing obliges a message to arrive
\* or a signal to be sent.
Fairness ==
    /\ \A m \in Messages :
        /\ WF_vars(\E r \in Results : InlineReturn(m, r))
        /\ SF_vars(Enqueue(m))
        /\ WF_vars(Finish(m))
    /\ WF_vars(RunTick \/ RunStop)
    /\ \A t \in Threads :
        /\ WF_vars(Tick(t))
        /\ WF_vars(\E r \in Results : TickReturn(t, r))
    /\ WF_vars(DrainWait \/ DrainCheck \/ DrainZero \/ DrainReport)
    /\ WF_vars(Exit)
    /\ SF_vars(PromptAdvance)

PromptSpec == Init /\ [][PromptNext]_vars /\ Fairness

-----------------------------------------------------------------------------
(* Properties *)

\* Every variable has its type.
TypeOK ==
    /\ now \in Nat
    /\ tickC \in 0..1
    /\ entries \in Seq(Entry)
    /\ bytes \in Int
    /\ mu \in Threads \cup {Free}
    /\ pc \in [Threads -> WorkerPCs \cup MainPCs]
    /\ pc[Worker] \in WorkerPCs
    /\ pc[Main] \in MainPCs
    /\ tnow \in [Threads -> Nat]
    /\ idx \in [Threads -> Nat]
    /\ due \in [Threads -> Seq(Messages)]
    /\ res \in [Threads -> Results]
    /\ ctx \in [Messages -> Nat]
    /\ deadline \in Nat
    /\ call \in [Messages -> {"idle", "inline", "enqueue", "replied"}
                                \cup CallResults]
    /\ log \in SUBSET LogEntry

\* The scan of tick never indexes outside the slice: sessions append to it
\* and another tick removes from it, but not between the steps of a scan.
ScanInBounds ==
    \A t \in Threads :
        /\ pc[t] = "expire" => idx[t] <= Len(entries)
        /\ pc[t] = "copy" => idx[t] \in 1..(Len(entries) + 1)

\* The limits of enqueue hold at all times, although sessions, the worker and
\* Drain change the slice and the byte count concurrently.
Capacity ==
    /\ Len(entries) <= MaxEntries
    /\ bytes <= MaxBytes

\* The size of the bodies in es, summed slot by slot.
TotalSize(es) ==
    LET total[i \in 0..Len(es)] ==
            IF i = 0 THEN 0 ELSE total[i - 1] + Size[es[i].msg]
    IN  total[Len(es)]

\* q.bytes is the total size of the held bodies: enqueue and remove account
\* for the same message, also when remove swaps another entry into its slot.
BytesAccounted == bytes = TotalSize(entries)

\* The messages thread t is attempting, up to the recording of the result.
Attempting(t) ==
    IF pc[t] \in {"attempt", "record"} THEN {Head(due[t])} ELSE {}

\* A message is never attempted by two goroutines at once: not by the worker
\* and by Drain (which waits for q.done), and not by tick while the session's
\* inline attempt is still running.
NoConcurrentAttempts ==
    /\ Attempting(Worker) \cap Attempting(Main) = {}
    /\ \A t \in Threads : \A m \in Attempting(t) :
          call[m] \in {"Queued", "replied"}

\* Every message a tick has still to attempt or to record is in the queue,
\* although the mutex was released: nobody else removes entries. The branch
\* of tick for an entry that "expired during the attempt" is never taken.
DueHeld ==
    \A t \in Threads : pc[t] \in AttemptPCs =>
        \A k \in 1..Len(due[t]) : Held(due[t][k])

\* When the expiry loop has ended, no expired entry is left, although each
\* removal moves the final element into the slot just examined.
ExpiryComplete ==
    \A t \in Threads : pc[t] = "copy" =>
        \A i \in 1..Len(entries) : ~Expired(t, entries[i])

\* The worker never retries a message before Interval has passed since it was
\* accepted, also when the due list was computed long before the attempt.
RetryNotEarly ==
    pc[Worker] = "attempt" =>
        \A i \in 1..Len(entries) : entries[i].msg = Head(due[Worker]) =>
            now >= entries[i].accepted + Interval

\* The three ways in which the queue itself settles a message it holds.
SettleEvents == {"retry delivered", "retry permanent", "expired"}

\* A queued message is in the slice, in one slot, or was settled in exactly
\* one way; a message that was never queued is in neither state.
ExactlyOneFate ==
    \A m \in Messages :
        LET slots   == {i \in 1..Len(entries) : entries[i].msg = m}
            settled == {e \in SettleEvents : Logged(e, m)}
        IN  IF Logged("queued", m)
            THEN \/ settled = {} /\ \E i \in slots : slots = {i}
                 \/ slots = {} /\ \E e \in settled : settled = {e}
            ELSE slots = {} /\ settled = {}

DeliveredEvents == {"delivered", "retry delivered"}
LossEvents      == {"entry limit", "byte limit", "expired", "no capacity",
                    "permanent", "retry permanent", "not drained"}

\* The log is the record of every message that was answered with 250: it is
\* still held, or its delivery or its loss is logged, and never both.
LogIsRecord ==
    \A m \in Messages :
        LET delivered == \E e \in DeliveredEvents : Logged(e, m)
            lost      == \E e \in LossEvents : Logged(e, m)
        IN  /\ ~(delivered /\ lost)
            /\ call[m] = "replied" => Held(m) \/ delivered \/ lost

\* The abstract fate of a message. A message that the process still holds
\* when it ends is lost.
FateOf(m) ==
    CASE call[m] = "idle" -> "sender"
      [] call[m] \in {"inline", "enqueue"} -> "trying"
      [] OTHER ->
            IF Held(m)
            THEN IF \E t \in Threads : m \in Attempting(t) THEN "retrying"
                 ELSE IF Alive THEN "held" ELSE "lost"
            ELSE IF call[m] = "OK" \/ \E e \in DeliveredEvents : Logged(e, m)
                 THEN "delivered" ELSE "lost"

C == INSTANCE Custody WITH fate <- [m \in Messages |-> FateOf(m)]

\* The queue implements Custody: a message has one fate at a time, delivered
\* and lost are final, at most one retry runs although run and Drain both
\* execute tick, and no message is discarded while it is being retried.
ImplementsCustody == C!Spec

\* A stop signal ends the process: Drain waits for the worker, and its loop
\* ends although failing entries are made due again on every pass.
DrainTerminates == pc[Main] = "wait" ~> pc[Main] = "exited"

\* No message is held forever: it is settled, or the process ends.
HeldSettles ==
    \A m \in Messages : Held(m) ~> (~Held(m) \/ ~Alive)

\* A session that reaches the dot is answered: neither the inline attempt nor
\* the mutex of the queue delays its 250 forever.
CallReplied ==
    \A m \in Messages : call[m] = "inline" ~> (call[m] = "replied" \/ ~Alive)

\* queue.go says of Drain: "Anything still held when it returns is lost, and
\* each loss is logged." A session may still enqueue after the final scan.
LossesLogged ==
    pc[Main] = "exited" =>
        \A m \in Messages : Held(m) => Logged("not drained", m)
=============================================================================
