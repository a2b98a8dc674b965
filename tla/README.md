# A TLA+ model of smtp_filter_server

smtpfilter is an SMTP server without mailboxes. It admits a sender by network,
reverse DNS, whitelist and SPF, looks the recipient up in a route table, and
hands each message to a command, a webhook or another SMTP server. After the
dot the reply is always `250`; a message whose first delivery fails temporarily
is held in memory and retried. This directory models the program from the
configuration file to the result of a delivery, checks it with TLC, and proves
its invariants for every value of the constants with TLAPS.

## 1. Inventory

| Component | State | Operations | Interacts with |
|---|---|---|---|
| Retry queue, `internal/queue/queue.go` | slice of entries, byte count, mutex, channels `stop` and `done` | `Dispatch`, `enqueue`, `run`, `tick`, `remove`, `Drain` | called by every session goroutine and by main; calls the router |
| Session, `internal/server/session.go`, `transaction.go` | buffered reader, TLS state, `helo`, `from`, `rcpt`, `inTx`, deadline; locals of `readBody` | the command loop, STARTTLS, MAIL, RCPT, DATA, `readBody`, `finish` | one goroutine per connection; calls policy, the route table and the queue |
| Policy, `internal/policy/policy.go` | none between calls; the progress of one decision | `Decide`, `FCrDNS`, `mapSPF` | called by MAIL; calls the resolver |
| Resolver, `internal/policy/resolver.go` | per call: deadline, goroutine, channel | `LookupAddr`, `LookupIPAddr`, `CheckSPF` | the DNS, the SPF library |
| Server, `internal/server/server.go` | listeners, `closing`, semaphore, configuration pointer | `ListenAndServe`, `bind`, `serve`, `Reload`, `Close` | starts sessions; called by main |
| Process, `cmd/smtpfilter/main.go` | signal channel, error channel | start, reload on HUP, `Close` and `Drain` on TERM | all of the above |
| Dispositions, `internal/dispatch` | none between calls | `Forward`, `Webhook`, `Command`, `Router` | called by the queue; external endpoints |
| Configuration, `internal/config` | the parsed file | `Load`, `Prepare`, `Validate`, `LookupRoute` | read by everyone |

What is hard here: sessions, the worker and the main goroutine share the slice,
and `tick` releases the mutex in the middle; `tick` is executed by two
goroutines; removal reorders the slice under a scan; shutdown races with
sessions that are still running; the session reads through a buffer that
outlives commands, limits and the start of TLS; every read, query and attempt
has a deadline inside another deadline; a decision depends on queries that may
fail; listeners start, fail and close in any order with signals; and an
endpoint may have taken a message whose answer never arrives. `PROJECT.json`
lists each hazard at its line with the properties that would catch it.

What makes the parts correct:

- **Queue.** The limits hold; the byte count is the size of what is held; a
  message is in one place and has one fate, which the log records; nothing is
  attempted twice at once or too early; expiry is complete; no message is held,
  and no session kept waiting, forever; a stop signal ends the process.
- **Session.** A message is dispatched with the sender and recipient of its own
  transaction and within the limit; nothing sent before TLS is executed after
  it; every session past its greeting ends. For a client that frames its body
  (section 2 says how), both ends agree where the body ends, and the text
  arrives whole, with every line ending made CRLF.
- **Policy.** Admission rests on evidence; the first matching rule decides; the
  decision is reached under its deadline and leaves nothing running.
- **Server and process.** The semaphore counts the sessions; `Close` finds
  every listener that is served; the queue is drained before the process ends;
  a stop, or the loss of all listeners, ends it.
- **Configuration.** What `Validate` accepts, the program can run with; the
  lookup tables say what the file says; no route hides another.
- **Dispositions.** Success means that the endpoint took the message; success
  that was heard is never repeated; a permanent failure was pronounced by the
  endpoint (`PermJustified` lists the exceptions); the body arrives; the attempt
  ends.

## 2. Modules

| Module | Models |
|---|---|
| `RetryQueue` | the queue, the part of `handleData` after the dot, `Drain` and the end of the process |
| `Custody` | abstract: who is responsible for a message, and how that may change |
| `RetryQueueProofs`, `RetryQueueFates`, `RetryQueueCustody` | proofs about `RetryQueue`: limits and due lists; the fate of a message; the refinement of `Custody` |
| `Session`, `SessionProofs` | one connection with its client; proofs |
| `Policy`, `PolicyProofs` | one admission decision with its queries; proofs |
| `Server`, `ServerProofs` | main with its signals, `ListenAndServe`, the accept loops, `Reload`, `Close`; proofs |
| `Config`, `ConfigProofs` | operators: what `Load` makes of a file, and `LookupRoute`; lemmas about them |
| `Delivery`, `DeliveryProofs` | `Config` composed with the router, one attempt of each disposition, and its endpoint; proofs |
| `MCRetryQueue`, `MCSession`, `MCPolicy`, `MCServer`, `MCDelivery` | the small instances for TLC |

A definition whose name has a suffix after an underscore and a comment that
begins with "Fault" (`StopClosed_AfterDone`) is no part of a specification. It
is a deliberately wrong form of the definition after it; replacing that
definition by it must make a property fail, which shows that the property
depends on that line of the code. `PROJECT.json` says which.

### RetryQueue

A message is its identity, as in the code, where entries are found by pointer;
`Size` and `Timeout` give what the queue reads of it. Two threads, `Worker` and
`Main`, have a program counter each and can both be inside `tick`, whose local
variables are indexed by thread. `TickNow`, `TickLock`, `TickExpire`,
`TickExpireDone`, `TickCopy` and `TickUnlock` are the critical section step by
step, `TickAttempt`, `TickReturn` and `TickRecord` one attempt. The critical
sections of `enqueue`, of the recording of a result, and of `Drain` are one
step each, taken when the mutex is free: they make no call that waits. `mu` is
kept across the steps of the scan because the scan is where removal and
iteration meet. Sessions are one call each (`Dispatch`, `InlineReturn`,
`Enqueue`, `Finish`). `log` is the set of log entries about messages; the
wording is reduced to an event, and `attempts` is kept because a document
speaks about it.

The ticker channel has capacity one: an event that finds it full is dropped.
Time is a counter. An attempt is ended by its context, so the clock does not
pass the deadline of an attempt in flight. For webhook and forward routes the
code guarantees this; a command whose descendants keep its pipes open can
exceed it, since `exec.Cmd.WaitDelay` is not set. That case is a listed hazard.
A stop is a signal or a failed listener: both call `Drain` and end the process.
The branches for a disabled queue are left out, because main then creates none.

### Session

A line is a record with its verb and argument; `"?"` stands for an argument
that `parsePath` refuses. `wire` is the socket and `rbuf` the content of the
`bufio.Reader`: this is the difference that matters for pipelining, for
STARTTLS and for `discardLine`. The client may send commands ahead, also behind
the dot while the message is dispatched (PIPELINING is advertised), sends the
body after `354`, counts the replies it is owed, and may fall silent or hang up
at any time; `dotDue` says that the first reply it is owed is the answer to its
dot, and `client = "fault"` when the server answers out of step.

The body is counted in octets. A body line is known by its kind, which gives
what ends it: CRLF, a bare LF (`lf`, `lfdot`) or CR CR LF (`crs`, `crdot`).
`readLine` returns the line with its ending (`Received`), `TrimRight` takes LF
and CRs away (`Trimmed`), a doubled dot is reversed (`Unstuffed`), and text and
a CRLF are appended (`Appended`); the client's `meant` counts the text it
composed with a CRLF after each line. So line endings are normalised here as
in the code, and `MessageIntact` is about the text and its length, not about
the endings.

`readBody` takes any line that trims to a period for the end of the body. To a
client whose lines end with CRLF, the period of `lfdot` or `crdot` is text:
what follows it is then read as commands. And a dot directly after a line over
the limit is taken by `discardLine`: what follows is then read as body. The
model does both, with the client going on in either case. `framing` is a
history of what the client has sent: "broken" after one of the two. `InStep`
and the second part of `MessageIntact` are claims for a client that has not
broken its framing; the other properties hold for every client. `left` and `wait` count down to the end of the session
and of the operation in progress. Decisions, routes and dispatch results are
nondeterministic; replies carry only their code. `origin` is a history of how
the current sender and recipient were accepted.

### Policy

Names are sequences of labels, so `name == s || HasSuffix(name, "."+s)` is a
suffix of labels. `world` holds the facts the DNS would give (PTR names, which
of them resolve back to the peer, the SPF result); each query may also fail or
run into its deadline, recorded in `failed`. `CheckSPF` runs the library as a
goroutine that the deadline does not stop, with its channel of capacity one.

### Server

One variable per goroutine says where it is: `main`, `las` (`ListenAndServe`)
and `loop` (the accept loop of each listener); `conn` has the life of each
connection and `sem` the filled slots of the semaphore. What `main` captures
when it starts (semaphore size, TLS, queue) is `start`, the atomic pointer is
`cfg`: their difference after a reload is what the run `server_reload` is
about. `Bind` and `Register` are two steps, because `Close` can run between
them. The signal channel has capacity one and a signal that finds it full is
dropped, as the Go runtime does. A listener may fail to bind, and `Accept` may
fail at any time for good. `Close` is one step, as the code holds the mutex. A
session is its life only (`Session` has its commands), and `Drain` is one step
(`RetryQueue` has it).

### Config and Delivery

A file is a record with the fields of type `Config`, and names keep their
letter case: `Lower`, `Undotted` and `DomainOf` are the string functions the
code calls. `Decodes`, `Prepare`, `Validate`, `Load` and `LookupRoute` are the
functions of `config.go`; faults do not accumulate, because only acceptance
matters. `Duration` wraps like a 64-bit product, scaled down.

A behaviour of `Delivery` takes a file, loads it, looks up a recipient and
makes one attempt under a context that may expire at any moment (`late`).
`Forward` is a command at a time: `Send` writes it, the target answers
(`Answer`), `Expect` reads one reply line. The target obeys RFC 5321 but its
replies may be of several lines, negative, garbled or missing; `pipe` holds
what has not been read, so a garbled reply to `EHLO` leaves lines that are read
for later commands. Body lines are their leading dots and whether text follows:
what stuffing tells apart. The webhook is one request and its status; the
command is a child that exits, is killed by the context or by another process,
and may leave a descendant that holds its output pipes (`held`). A child that
has ended is not yet waited for: the context may signal it first, and `Run`
then returns the context's error although the program succeeded (`killed`,
`Reap`). `taken`, `heard`, `said` and `got` are histories of what the endpoint
did and of what was read of it.

## 3. Runs

| Run | Expect | Shows |
|---|---|---|
| `queue_safety` | pass | ten invariants of the queue, three messages; `RetryQueue` implements `Custody` |
| `queue_liveness` | pass | `Drain` ends, messages settle, sessions are answered |
| `queue_losses_logged` | violation | a session enqueues after the last scan of `Drain` |
| `session` | pass | five invariants, all listener modes, two lines ahead; a session past its greeting ends |
| `session_implicit_tls` | violation | a silent client holds a session on an implicit listener |
| `session_dot_swallowed` | violation | `discardLine` consumes the dot |
| `policy_decision` | pass | justified, ordered, reached, nothing left running |
| `policy_timeout` | violation | a DNS timeout becomes a permanent refusal |
| `server` | pass | slots, registration, drain before exit; a stop and the loss of all listeners end the process |
| `server_reload` | violation | a reload does not change the connection limit |
| `delivery` | pass | lookup, validation, and results that say what the endpoint did; the attempt ends |
| `delivery_orphan` | violation | a descendant of a command holds the attempt past its deadline |

The six violations are disagreements between the code and a sentence of its
documents or comments; `findings` in `PROJECT.json` quotes each one.

Things the models show that have no run of their own:

- `Drain` compares the clock with its limit between passes only; a pass goes on
  past it, each attempt up to its own timeout.
- With `expire_sec` less than twice `interval_sec` an entry can expire before
  its first retry, because expiry comes first in a tick.
- `ListenAndServe` goes on binding after `Close`, so a stop during the start
  leaves listeners that are served until the process ends (`ServedIsRegistered`
  and `StopHonoured` say what still holds), and a HUP handled before its
  goroutine runs changes the listener set.
- A TERM that arrives while a HUP is in the channel is dropped.
- `writeBody` sends one empty line more than the body has (`RelayedIntact`
  states exactly that).
- A program that succeeds as its deadline comes is reported as temporary and
  run again. One that a signal of another process ends is a permanent failure.
- After a garbled reply to EHLO, a 5xx to EHLO is read as the answer to HELO
  and ends the attempt as permanent; `PermJustified` counts it as the target's
  word.
- A period with a bare LF or a second CR before its LF ends a body.
- `Validate` accepts seconds that overflow a `Duration` (`Fits`), a URL from
  which no request can be built (`PermJustified`), and a domain route with an
  at sign, which no recipient reaches.

**Deadlock** is not checked: the process ends, a session closes, a decision or
an attempt returns, and the clock of the queue has a bound. That nothing is
stuck before is the subject of the liveness properties.

**Bounds.** Queue: sizes 1, 2, 2 with `MaxEntries = 2` and `MaxBytes = 3` reach
both limits, and put entries of different sizes into one slice; `Interval = 1`,
`Expire = 2`, `Horizon = 3` let an entry be queued, retried, requeued and
expire; the stop signal arrives at any time up to 2, also during a tick.
`AttemptCap` only limits a number in the log. The liveness run has
`Horizon = 8`, enough that the last message can be called (1), queued, stopped
(4) and drained before the clock stops.

Session: `MaxAhead` lines in flight and replies owed: two, so that a command
can follow the dot and a line the one that is read. A limit of 4 octets with
lines that add 2 and 3, so that a body of two lines can meet the limit, pass it
by one octet and go on; a body line of every kind, and commands that reach
every branch of every handler; a lifetime of two command timeouts, so that the
second read is cut short by the first.

Policy: two query deadlines exceed the command timeout. Server: three
configurations that differ in listeners, certificate, limit and queue; two
listeners, so that one can fail while the other serves; three connections for
limits of one and two; three signals, so that a reload can be followed by a
pending HUP and a TERM that is dropped. Delivery: one file for every rule of
`Validate`, and every pair of route keys over two names in two cases; a body
with a lone dot; reply codes on both sides of every comparison in the code,
and replies of two lines, garbled in the first. With `Second = 4` and
`MaxInt = 32`, nine seconds overflow.

**Symmetry** is used in `queue_safety` only: the two messages of size 2 are
interchangeable, and its one temporal formula, the refinement, is a safety
property that treats all messages alike.

**Fairness.** Queue: each goroutine step is weakly fair; an attempt returns
because its context ends it; `Enqueue` is strongly fair because a Go mutex
hands itself to a waiter that has starved; time passes however busy the
goroutines are. In this specification (`PromptSpec`) time advances only when no
goroutine has a step to take that does not wait for an endpoint: otherwise the
bounded clock could reach its end while a goroutine waits for a turn, which is
an artefact of the bound. No message is obliged to arrive and no signal to be
sent. Endpoints may fail every time. Session: the goroutine and the clock; the
client owes nothing. This includes that `Decide` and `Dispatch` return, which
`policy_decision` and `delivery` check, the second not without an assumption
of its own (below). Policy: the goroutine, the clock, and the library, which
returns in the end but at no known time; without that the goroutine of
`CheckSPF` stays, whatever the channel. Server: main, `ListenAndServe`, and the
return of `Accept` on a closed listener; no client must connect, no signal be
sent and no session end. Delivery: the goroutine of the attempt, and the
deadline, which comes; endpoints owe nothing. The passing run (`EndingSpec`)
also assumes that a descendant ends: nothing in the code makes it, and
`delivery_orphan` (`FairSpec`) shows what happens without.

## 4. Proofs

Each theorem has the form `Spec => []P`, for every value of the constants, and
`P` is an invariant that a run checks on a small instance. None of the
invariants is inductive by itself. Each component has an inductive invariant
that holds initially, that every action preserves (one lemma per action, with
the effect of an action on a piece of state stated once where several need it),
and that implies the properties. TLC checked the inductive invariants on the
instances of the runs before they were proved.

| Module | Theorem | Property |
|---|---|---|
| `RetryQueueProofs` | `Invariance` | `IInv` |
| | `TypeCorrect`, `CapacityHolds`, `ScanStaysInBounds` | `TypeOK`, `Capacity`, `ScanInBounds` |
| | `ExpiryIsComplete`, `DueStaysHeld` | `ExpiryComplete`, `DueHeld` |
| | `AttemptsAreExclusive`, `BytesAreAccounted` | `NoConcurrentAttempts`, `BytesAccounted` |
| `RetryQueueFates` | `FateInvariance` | `IInv /\ FInv` |
| | `FateIsUnique`, `LogIsComplete`, `RetryIsNotEarly` | `ExactlyOneFate`, `LogIsRecord`, `RetryNotEarly` |
| `RetryQueueCustody` | `RefinesCustody` | `ImplementsCustody` |
| `SessionProofs` | `Invariance` | `Inv` |
| | `TypeCorrect`, `TransactionIsOne`, `PlaintextIsDropped` | `TypeOK`, `OneTransaction`, `NoPlaintextAfterTLS` |
| | `BothInStep`, `MessageIsIntact` | `InStep`, `MessageIntact` |
| `PolicyProofs` | `Invariance` | `PInv` |
| | `TypeCorrect`, `AdmissionJustified`, `FirstRuleIsDecisive` | `TypeOK`, `AdmitJustified`, `FirstRuleDecides` |
| `ServerProofs` | `Invariance` | `IInv` |
| | `TypeCorrect`, `SlotsAreCounted` | `TypeOK`, `SlotsCounted` |
| | `ServedAreRegistered`, `DrainComesFirst` | `ServedIsRegistered`, `DrainFirst` |
| `DeliveryProofs` | `Invariance` | `DInv` |
| | `TypeCorrect`, `LookupIsSpecified`, `NoneIsShadowed` | `TypeOK`, `LookupSpecified`, `NoRouteShadowed` |
| | `ConfigIsFit`, `BodyIsRelayed` | `FitForUse`, `RelayedIntact` |
| | `SuccessIsReal`, `AcceptanceIsFinal`, `PermIsJustified` | `OkMeansTaken`, `HeardIsFinal`, `PermJustified` |

### The queue

The assumptions are `ConfigAssumption` (what `config.Validate` demands of the
retry section and of routes) and `BoundAssumption`.

`DueHeld` says that the branch of `tick` for an entry that "expired during the
attempt" is never taken: only the goroutine in `tick` removes entries. `IInv`
adds what it rests on:

- `MutexHeld`: a thread in its scan holds the mutex, and nobody else does, so
  the slice does not change between the steps of a scan;
- `OneTicker`: main is inside `tick` only after the worker has returned, so one
  thread at a time removes entries;
- `SlotsDistinct`, `HeldWasQueued`: a message is in at most one slot, and only
  after its own session has put it there;
- `DueDistinct`, `DueCovered`, `DueOutside`, `DueHead`: a due list names
  distinct messages, during the copy those of slots already passed, and is
  empty outside; so removing one entry never takes another message of the list;
- `ExpiryScanned`: slots behind the index of the expiry loop are not expired.
  The element that `remove` moves comes from there, which is why the loop must
  run from the end.

`BytesAccounted` compares the counter with a recursive function over the slice.
`BInv` says instead that a function of running totals exists whose last value
is the counter. Each action yields such a function for the new slice: for
`remove`, which moves the last entry into a gap, the old totals up to the gap
and shifted ones after it. That the totals agree with the recursive function
follows by way of a least counterexample.

`FInv` (`RetryQueueFates`) ties the three places that know about a message: how
far its session is, whether it is held, and what is logged about it. Read
message by message, every step either leaves all three alone or changes those
of one message in a way the invariant allows. `TInv` is about time: until
`Drain` makes every entry due, an entry waits its interval, and what is on the
worker's due list has waited already.

`RefinesCustody` maps the state to a fate per message (`FateOf`). `FInv` and
`IInv` give the table `FateTable` of the mapping, and each action is shown to
be one step of `Custody` for one message, the abandonment of everything held
when the process ends, or a step that changes no fate. The last kind includes
every step of a scan.

### Session

`SessionAssumption` states the types of the limits, that TLS handshake bytes
and a lone period are no command, and which lines a body may have. Sets of
commands and addresses, the octets of lines and the depth of pipelining are
arbitrary.

`Inv` has two parts. `SInv` holds whatever the client sends: the transaction
and its record agree, a body is read and dispatched within a transaction, what
is buffered is what was counted. `Marked` (every line in flight was sent under
the present TLS state) gives `NoPlaintextAfterTLS`, and holds across STARTTLS
only because the new reader replaces the old with what it had buffered.

`FInv` holds as long as the framing is not broken. It says for each place of
the session goroutine which of the lines on their way, in `s.r` or in the
socket (`Flight`), are body and which are commands, and how many replies the
client is owed. Within a body either the client is still composing and every
line in flight is text, or its dot is in flight with text before it and
commands after it (`Ended`). `NotAfterLong` keeps the dot out of the place
where `discardLine` takes a line. DATA is the last line in flight, because the
client waits for its answer. `Composed` compares octets: running totals from
what is in memory to what the client composed, at the dot or at the last line
sent, so `MessageIntact` needs no sum over sequences. `AppendedIs` is the fact
about `readBody` it rests on: whatever ended a line and whether or not it was
stuffed, text and two octets are appended.

The CASE of `Reply` is not in the provers' reach as it stands; the lemma
`Heard` replaces it by implications and everything else uses those.

### Policy

From `PolicyAssumption` only: any lists, any names, any facts of the DNS, any
two timeouts. `PInv` says at each point of `Decide` which names are behind
`FCrDNS`, which rules are behind `Decide`, and why SPF is being asked.
`AdmitJustified` uses the part that holds whatever failed, `FirstRuleDecides`
the part that holds while nothing has failed. The first applicable rule is the
minimum of a set of indices, whose existence the proof takes from the
well-foundedness of the natural numbers.

### Server

From `ServerAssumption`: valid configurations with at least one listener and
one slot. `Progress` says which accept loops exist, `Started` that a
configuration is in force before any connection, `EndCause` why a loop or
`ListenAndServe` may have ended; from the last, `ListenAndServe` never returns
nil while main is in its select, which is what `DrainFirst` rests on. That the
semaphore counts the sessions needs the cardinality of finite sets.

### Config and Delivery

`ConfigConstants` says of the functions on strings what `strings.ToLower` and
the search for the at sign do: lowering twice is lowering once, and the domain
of a lowered address is the lowered domain. `DeliveryAssumption` gives files,
bodies and replies the types of the code; how many routes a file has, how many
lines a body or a reply, which codes occur and in which order is arbitrary.

`ConfigProofs` is about the operators alone. The two tables are last-wins
(`Table` takes the greatest index), so a key always leads to some route that
has it (`TableFacts`), and `LookupIs` compares what is found with the file as it
was written. `NoneShadowed` needs that `Validate` compares keys after `Prepare`
has normalised them. The durations are products modulo 2^64, scaled, and
`DurationIs` shows where the product is the true one.

The parts of `DInv` follow the attempt: `Configured` (cfg is what `Load` made of
the file, and the route one of its routes), `Placed` (each disposition runs for
routes of its type), `Fresh` (nothing is said or done before the endpoint is
reached), then one part for each disposition.

- `Conversing`, for Forward. After a garbled reply to EHLO a line may be left
  in the pipe, and from then on every reply is read for the command after its
  own. The invariant shows why that never turns a refusal into a success: a
  final line with code 354 is in the pipe only while DATA is the command, and
  is then the last line, with nothing left to answer. So the body goes out on
  an empty pipe, and a 250 that is read for it is the target's answer to it.
  `Relayed` adds that the target then has the body; `BodyArrives` proves that
  unstuffing undoes stuffing and that no stuffed line ends the body early.
- `Responding`, for the webhook: a status below 300 on its way is an acceptance.
- `Waiting`, for the command: the signal is sent after the deadline only, and
  an exit code that counts is the child's own, unless another process ended
  it.

**Only model-checked.** The liveness properties, because fairness and ENABLED
are out of the prover's reach: `AttemptEnds` and the temporal properties of the
other runs.

## 5. Not modelled

- Memory: `readLine` collects a line before it compares its length, so a line
  without a terminator is bounded by the read deadline only. The zeroing in
  `remove` serves the garbage collector.
- `boundedBuffer`, which keeps the first octets of a command's output for the
  log and never makes the child wait: a pure function of one goroutine per
  pipe.
- What a body line says beyond its kind: lines are lengths, so that a message
  with the right number of wrong octets is not told apart. A line with a dot
  that the client failed to double is not sent, nor one that ends in more than
  two CRs, nor a stuffed one without CRLF; `readBody` treats them as the others.
- Texts of replies and faults, log layout, address syntax, JSON syntax, TLS
  itself, headers and HMAC signatures, the environment of a command,
  `StubDispatcher`, `build.sh`, the systemd unit, keys and sample
  configuration.

## 6. Plan

Done: all modules of section 2. Every invariant that a run checks is proved, and
so is the refinement of `Custody`; what is left to TLC is liveness.

## 7. Running it

    tlc -workers 2 -config RetryQueueSafety.cfg MCRetryQueue
    tlc -workers 2 -config Delivery.cfg MCDelivery
    tlapm RetryQueueCustody.tla
    tlapm SessionProofs.tla
    tlapm DeliveryProofs.tla
