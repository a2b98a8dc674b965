------------------------------- MODULE Server -------------------------------
(***************************************************************************)
(* The process around the sessions: main with its signal loop              *)
(* (cmd/smtpfilter/main.go), ListenAndServe, the accept loops with their   *)
(* semaphore, Reload and Close (internal/server/server.go).                *)
(*                                                                         *)
(* Goroutines: main; one for ListenAndServe; one accept loop per listener; *)
(* one session per connection. A session is reduced to its life: module    *)
(* Session shows what it does and that it ends. Drain is one step: module  *)
(* RetryQueue shows that it ends.                                          *)
(***************************************************************************)
EXTENDS Integers, Sequences, FiniteSets

CONSTANTS
    Configs,       \* valid configurations
    MaxListeners,  \* bound: listeners of a configuration
    Conns,         \* connections that clients make
    MaxSignals     \* bound: signals sent to the process

Faulty == [conns |-> 0]      \* what Load makes of a defective file

ASSUME ServerAssumption ==
    /\ MaxListeners \in Nat /\ MaxSignals \in Nat
    /\ \A c \in Configs :
          /\ Len(c.listeners) \in 1..MaxListeners /\ c.conns \in Nat \ {0}
          /\ \A i \in 1..Len(c.listeners) : c.listeners[i] # "plain" => c.cert

VARIABLES
    main,      \* where main is
    exit,      \* the exit code, None before
    drained,   \* history: Drain has returned
    start,     \* the configuration at start: semaphore, resolver, queue, TLS
    cfg,       \* s.cfg, the atomic pointer
    sig,       \* the signal channel, of capacity one
    signals,   \* signals sent so far
    serveErr,  \* the channel for the result of ListenAndServe
    las,       \* where ListenAndServe is
    want,      \* its listeners: cfg.Listeners
    next,      \* its loop index
    errs,      \* an error of bind or of an accept loop
    sock,      \* the listening sockets
    listeners, \* s.listeners
    closing,   \* s.closing
    loop,      \* the accept loops
    conn,      \* the connections
    sem        \* len(s.sem)

mainv == <<main, exit, drained, start>>
lasv  == <<las, want, next, errs>>
lnv   == <<sock, listeners, closing>>
connv == <<conn, sem>>
vars  == <<main, exit, drained, start, cfg, sig, signals, serveErr, las, want,
           next, errs, sock, listeners, closing, loop, conn, sem>>

None == -1
Lns  == 1..MaxListeners
Up   == main \notin {"boot", "exited"}

-----------------------------------------------------------------------------
(* Start *)

\* main up to the select: the file may be faulty, the certificate unreadable,
\* or the process started with -check.
Boot ==
    /\ main = "boot"
    /\ \/ \E code \in {0, 2} : main' = "exited" /\ exit' = code
          /\ UNCHANGED <<start, cfg, las>>
       \/ /\ start' \in Configs /\ cfg' = start'
          /\ main' = "select" /\ las' = "start"
          /\ UNCHANGED exit
    /\ UNCHANGED <<drained, sig, signals, serveErr, want, next, errs, lnv,
                   loop, connv>>

-----------------------------------------------------------------------------
(* ListenAndServe *)

\* The goroutine reads the pointer when it first runs.
ListenAndServe ==
    /\ Up /\ las = "start"
    /\ las' = "bind" /\ want' = cfg.listeners
    /\ UNCHANGED <<mainv, cfg, sig, signals, serveErr, next, errs, lnv, loop,
                   connv>>

\* Close
CloseAll ==
    /\ closing' = TRUE
    /\ sock' = [l \in Lns |-> IF l \in listeners THEN "closed" ELSE sock[l]]
    /\ listeners' = {}

\* bind. An implicit listener needs the tls.Config that main built at start.
\* After a failure the listeners so far are closed and waited for.
Bind ==
    /\ Up /\ las = "bind" /\ next <= Len(want)
    /\ \/ /\ want[next] = "implicit" => start.cert
          /\ sock' = [sock EXCEPT ![next] = "open"]
          /\ las' = "append"
          /\ UNCHANGED <<errs, listeners, closing>>
       \/ /\ CloseAll
          /\ errs' = TRUE
          /\ las' = "wait"
    /\ UNCHANGED <<mainv, cfg, sig, signals, serveErr, want, next, loop,
                   connv>>

\* Fault: the accept loop is started before the listener is registered.
Register_ServeFirst ==
    /\ Up /\ las = "append"
    /\ \/ loop[next] = "none" /\ loop' = [loop EXCEPT ![next] = "accept"]
          /\ UNCHANGED <<listeners, las, next>>
       \/ loop[next] # "none" /\ listeners' = listeners \cup {next}
          /\ las' = "bind" /\ next' = next + 1 /\ UNCHANGED loop
    /\ UNCHANGED <<mainv, cfg, sig, signals, serveErr, want, errs, sock,
                   closing, connv>>

\* The listener is appended, and its accept loop starts.
Register ==
    /\ Up /\ las = "append"
    /\ listeners' = listeners \cup {next}
    /\ loop' = [loop EXCEPT ![next] = "accept"]
    /\ las' = "bind" /\ next' = next + 1
    /\ UNCHANGED <<mainv, cfg, sig, signals, serveErr, want, errs, sock,
                   closing, connv>>

\* Fault: the error of bind is not returned.
Outcome_NoBindError ==
    IF errs /\ next > Len(want) THEN "error" ELSE "nil"

\* What ListenAndServe returns.
Outcome == IF errs THEN "error" ELSE "nil"

\* No listener is left to bind, and every accept loop has returned.
NoneServed ==
    /\ las = "wait" \/ (las = "bind" /\ next > Len(want))
    /\ \A l \in Lns : loop[l] \in {"none", "ended"}

\* wg.Wait
Return ==
    /\ Up /\ NoneServed
    /\ las' = "returned"
    /\ serveErr' = <<Outcome>>
    /\ UNCHANGED <<mainv, cfg, sig, signals, want, next, errs, lnv, loop,
                   connv>>

-----------------------------------------------------------------------------
(* serve, and the connections *)

\* Accept fails: because the listener is closed, or because the system has no
\* descriptor left, which is no timeout. The socket itself stays open.
AcceptFails(l) ==
    /\ Up /\ loop[l] = "accept"
    /\ errs' = (errs \/ ~closing)
    /\ loop' = [loop EXCEPT ![l] = "ended"]
    /\ UNCHANGED <<mainv, cfg, sig, signals, serveErr, las, want, next, lnv,
                   connv>>

\* A connection is accepted, and gets a slot of the semaphore or is closed.
\* The capacity of the semaphore is that of the configuration at start.
Accept(l) ==
    /\ Up /\ loop[l] = "accept" /\ sock[l] = "open"
    /\ \E c \in Conns :
          /\ conn[c] = "idle"
          /\ \/ /\ sem < start.conns
                /\ sem' = sem + 1
                /\ conn' = [conn EXCEPT ![c] = "spawned"]
             \/ /\ sem >= start.conns
                /\ conn' = [conn EXCEPT ![c] = "refused"]
                /\ UNCHANGED sem
    /\ UNCHANGED <<mainv, cfg, sig, signals, serveErr, lasv, lnv, loop>>

Session(c, from, to, slots) ==
    /\ Up /\ conn[c] = from
    /\ conn' = [conn EXCEPT ![c] = to]
    /\ sem' = sem + slots
    /\ UNCHANGED <<mainv, cfg, sig, signals, serveErr, lasv, lnv, loop>>

\* Fault: the slot is returned when the goroutine starts.
SessionStarts_EarlyRelease(c) == Session(c, "spawned", "session", -1)

\* The goroutine enters handleConn; handleConn returns; the slot is returned.
SessionStarts(c) == Session(c, "spawned", "session", 0)
SessionEnds(c)   == Session(c, "session", "over", 0)
SlotReturned(c)  == Session(c, "over", "gone", -1)

-----------------------------------------------------------------------------
(* Signals and the end *)

\* The runtime delivers a signal without waiting: a full channel drops it.
Signal(s) ==
    /\ Up /\ signals < MaxSignals
    /\ signals' = signals + 1
    /\ sig' = IF sig = <<>> THEN <<s>> ELSE sig
    /\ UNCHANGED <<mainv, cfg, serveErr, lasv, lnv, loop, connv>>

\* SIGHUP: Load and Reload. A faulty file changes nothing.
ReceiveHUP ==
    /\ main = "select" /\ sig = <<"HUP">>
    /\ sig' = <<>>
    /\ \/ UNCHANGED cfg
       \/ cfg' \in Configs
    /\ UNCHANGED <<mainv, signals, serveErr, lasv, lnv, loop, connv>>

\* main goes to Drain when there is a queue, and leaves with this code.
Leave(code) ==
    /\ main' = IF start.retry THEN "drain" ELSE "exited"
    /\ exit' = code

\* SIGINT and SIGTERM
ReceiveTERM ==
    /\ main = "select" /\ sig = <<"TERM">>
    /\ sig' = <<>>
    /\ CloseAll
    /\ Leave(0)
    /\ UNCHANGED <<drained, start, cfg, signals, serveErr, lasv, loop, connv>>

\* Fault: main logs the error and goes on.
ReceiveErr_GoesOn ==
    /\ main = "select" /\ serveErr # <<>>
    /\ serveErr' = <<>>
    /\ UNCHANGED <<mainv, cfg, sig, signals, lasv, lnv, loop, connv>>

\* ListenAndServe has returned. After nil, main returns at once.
ReceiveErr ==
    /\ main = "select" /\ serveErr # <<>>
    /\ serveErr' = <<>>
    /\ IF serveErr = <<"error">>
       THEN Leave(1) ELSE main' = "exited" /\ exit' = 0
    /\ UNCHANGED <<drained, start, cfg, sig, signals, lasv, lnv, loop, connv>>

\* Fault: main waits for ListenAndServe before it drains.
Drain_AwaitsServe ==
    /\ main = "drain" /\ las = "returned"
    /\ drained' = TRUE /\ main' = "exited"
    /\ UNCHANGED <<exit, start, cfg, sig, signals, serveErr, lasv, lnv, loop,
                   connv>>

\* q.Drain returns and the process ends.
Drain ==
    /\ main = "drain"
    /\ drained' = TRUE /\ main' = "exited"
    /\ UNCHANGED <<exit, start, cfg, sig, signals, serveErr, lasv, lnv, loop,
                   connv>>

-----------------------------------------------------------------------------

Init ==
    /\ main = "boot" /\ exit = None /\ drained = FALSE
    /\ start = Faulty /\ cfg = Faulty
    /\ sig = <<>> /\ signals = 0 /\ serveErr = <<>>
    /\ las = "none" /\ want = <<>> /\ next = 1 /\ errs = FALSE
    /\ sock = [l \in Lns |-> "none"] /\ listeners = {} /\ closing = FALSE
    /\ loop = [l \in Lns |-> "none"]
    /\ conn = [c \in Conns |-> "idle"] /\ sem = 0

Main   == ReceiveHUP \/ ReceiveTERM \/ ReceiveErr \/ Drain
Serve  == ListenAndServe \/ Bind \/ Register \/ Return
Closed(l) == sock[l] = "closed" /\ AcceptFails(l)

Next ==
    \/ Boot \/ Main \/ Serve
    \/ \E l \in Lns : Accept(l) \/ AcceptFails(l)
    \/ \E c \in Conns : SessionStarts(c) \/ SessionEnds(c) \/ SlotReturned(c)
    \/ \E s \in {"HUP", "TERM"} : Signal(s)

Spec == Init /\ [][Next]_vars

\* Goroutines run, and Accept on a closed listener returns. Nobody is obliged
\* to connect or to send a signal, and no session to end.
FairSpec ==
    /\ Spec
    /\ WF_vars(Main) /\ WF_vars(Serve)
    /\ \A l \in Lns : WF_vars(Closed(l))

-----------------------------------------------------------------------------
(* Properties *)

\* Every variable has its type.
TypeOK ==
    /\ main \in {"boot", "select", "drain", "exited"}
    /\ exit \in {None, 0, 1, 2} /\ drained \in BOOLEAN
    /\ {start, cfg} \subseteq Configs \cup {Faulty}
    /\ Len(sig) <= 1 /\ Len(serveErr) <= 1
    /\ las \in {"none", "start", "bind", "append", "wait", "returned"}
    /\ next \in 1..MaxListeners + 1 /\ errs \in BOOLEAN
    /\ sock \in [Lns -> {"none", "open", "closed"}]
    /\ listeners \subseteq Lns /\ closing \in BOOLEAN
    /\ loop \in [Lns -> {"none", "accept", "ended"}]
    /\ conn \in [Conns -> {"idle", "refused", "spawned", "session", "over",
                           "gone"}]
    /\ sem \in Nat

\* The connections that have not returned their slot.
InUse == {c \in Conns : conn[c] \in {"spawned", "session", "over"}}

\* The semaphore counts the connections that have not returned their slot, so
\* that sessions on all listeners together never exceed max_connections of
\* the start, and none is lost by a refused connection or a reload.
SlotsCounted ==
    /\ sem = Cardinality(InUse)
    /\ start # Faulty => sem <= start.conns

\* Close can reach every listener that is served: also one that was bound
\* while Close ran, or after it, is in the list for a next Close.
ServedIsRegistered ==
    \A l \in Lns :
        loop[l] # "none" /\ sock[l] = "open" => l \in listeners

\* The process does not leave a queue without the final attempt: the branch
\* that returns without Drain, for a ListenAndServe that returned nil, is not
\* taken, whatever listener fails in whatever way.
DrainFirst ==
    main = "exited" /\ start # Faulty /\ start.retry => drained

\* A stop signal that main can receive ends the process, although sessions go
\* on, and although a listener that was bound after Close is still served.
StopHonoured == main = "select" /\ sig = <<"TERM">> ~> main = "exited"

\* The process does not stay when the last of its accept loops has failed.
DeafEnds == NoneServed ~> main = "exited"

\* docs/user_manual.md says: "Reload **does** apply changes to
\* `cidr_whitelist`, `providers`, `whitelist`, `routes`, `limits`, and `dns`."
\* A connection is refused only when the sessions have reached the limit of
\* the configuration that is in force.
LimitInForce ==
    [][\A c \in Conns :
          conn[c] # "refused" /\ conn'[c] = "refused" => sem >= cfg.conns]_vars
=============================================================================
