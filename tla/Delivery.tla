------------------------------ MODULE Delivery ------------------------------
(***************************************************************************)
(* From a configuration file to the result of one disposition attempt:     *)
(* Load, the route of a recipient, the router, and the three dispositions  *)
(* of internal/dispatch with the endpoint at the other end. The attempt    *)
(* runs under a context whose deadline is the route's timeout. What is     *)
(* done with the result is the business of RetryQueue.                     *)
(*                                                                         *)
(* External: the target mail server, the HTTP endpoint and the child       *)
(* process. They may answer anything, be silent, or break the connection.  *)
(***************************************************************************)
EXTENDS Config

CONSTANTS
    Files,       \* configuration files
    Recipients,  \* forward-paths
    Bodies,      \* message bodies, as sequences of lines
    Replies,     \* replies of a target: sequences of reply lines
    Statuses,    \* HTTP status codes
    ExitCodes    \* exit codes of a child

VARIABLES
    file, cfg,   \* the file, and what Load returned
    to, route,   \* the recipient and m.Route, an index into cfg.routes
    body,        \* m.Body
    at,          \* where the attempt is
    cmd,         \* Forward: the command in progress
    late,        \* ctx.Err() # nil
    up,          \* the connection to the endpoint works
    pipe,        \* replies on their way, in the socket or in bufio
    asked,       \* what the endpoint has yet to answer
    envelope,    \* what the target has of an envelope
    child,       \* the child process: Running, or its exit code
    killed,      \* the context has sent the child its signal
    held,        \* a descendant of the child holds the output pipes
    result,      \* the Result of the attempt
    said,        \* history: codes read from the endpoint
    taken,       \* history: the endpoint has done its work with the message
    got,         \* history: the lines of the body the target has received
    heard        \* history: the answer that it has done so was read

setup    == <<file, cfg, to, route, body>>
step     == <<at, cmd, result>>
endpoint == <<asked, envelope, taken, got>>
proc     == <<child, killed, held>>
vars == <<file, cfg, to, route, body, at, cmd, late, up, pipe, asked, envelope,
          child, killed, held, result, said, taken, got, heard>>

Bad     == 0           \* the code of a line that is short or has no number
Running == -2
Killed  == -1          \* ExitCode of a child that a signal ended
Empty   == [dots |-> 0, text |-> FALSE]  \* a line: leading dots, and the rest

ReplyLine == [code : 200..599 \cup {Bad}, more : BOOLEAN]
BodyLine  == [dots : Nat, text : BOOLEAN]

ASSUME DeliveryAssumption ==
    /\ Files \subseteq File
    /\ Recipients \subseteq Strings
    /\ Bodies \subseteq Seq(BodyLine)
    /\ Replies \subseteq Seq(ReplyLine)
    /\ \A r \in Replies :
          r # <<>> /\ \A i \in 1..Len(r) : r[i].more <=> i < Len(r)
    /\ Statuses \subseteq 200..599
    /\ ExitCodes \subseteq 0..255

TheRoute == cfg.routes[route]
InFlight == {"route", "dial", "send", "expect", "post", "respond", "start",
             "run", "output"}

-----------------------------------------------------------------------------
(* Configuration, route and deadline *)

LoadFile ==
    /\ at = "file"
    /\ cfg' = Load(file)
    /\ at' = IF cfg' = Rejected THEN "rejected" ELSE "ready"
    /\ UNCHANGED <<file, to, route, body, cmd, late, up, pipe, endpoint, proc,
                   result, said, heard>>

\* Fault: a recipient without a route goes on to DATA.
Message_NoNilCheck ==
    /\ at = "ready" /\ at' = "route"
    /\ to' \in Recipients /\ body' \in Bodies
    /\ route' = LookupRoute(cfg, to')
    /\ UNCHANGED <<file, cfg, cmd, late, up, pipe, endpoint, proc, result,
                   said, heard>>

\* RCPT looks the recipient up, DATA brings the body, and Dispatch is called.
\* A recipient without a route is refused.
Message ==
    /\ at = "ready"
    /\ to' \in Recipients /\ body' \in Bodies
    /\ route' = LookupRoute(cfg, to')
    /\ at' = IF route' = NoRoute THEN "refused" ELSE "route"
    /\ UNCHANGED <<file, cfg, cmd, late, up, pipe, endpoint, proc, result,
                   said, heard>>

\* The context of the attempt expires.
Deadline ==
    /\ at \in InFlight /\ ~late
    /\ late' = TRUE
    /\ UNCHANGED <<setup, step, up, pipe, endpoint, proc, said, heard>>

\* The connection breaks. What is in the pipe may or may not arrive.
Break ==
    /\ up /\ at \in InFlight
    /\ up' = FALSE
    /\ UNCHANGED <<setup, step, late, pipe, endpoint, proc, said, heard>>

End(r) == at' = "done" /\ result' = r /\ UNCHANGED cmd

\* Router.Dispatch. Its branches for no route and for an unknown type are not
\* reached: see FitForUse.
Router ==
    /\ at = "route"
    /\ at' = CASE TheRoute.type = "command" -> "start"
               [] TheRoute.type = "webhook" -> "post"
               [] TheRoute.type = "forward" -> "dial"
    /\ UNCHANGED <<setup, cmd, late, up, pipe, endpoint, proc, result, said,
                   heard>>

-----------------------------------------------------------------------------
(* Forward *)

Want(c) == CASE c = "banner" -> 220 [] c = "DATA" -> 354 [] c = "QUIT" -> 221
             [] OTHER -> 250

\* Fault: any positive reply will do.
Accepts_Positive(c, code) == code \in 200..399

Accepts(c, code) == code = Want(c)

After(c) == CASE c = "banner" -> "EHLO" [] c \in {"EHLO", "HELO"} -> "MAIL"
              [] c = "MAIL" -> "RCPT"   [] c = "RCPT" -> "DATA"
              [] c = "DATA" -> "body"   [] c = "body" -> "QUIT"

Goto(a, c) == at' = a /\ cmd' = c /\ UNCHANGED result

\* Fault: a failure of QUIT is a failure of the attempt.
Fails_QuitCounts(r) == IF cmd = "EHLO" THEN Goto("send", "HELO") ELSE End(r)

\* A command, or the reading of its reply, returns an error with result r:
\* EHLO is followed by HELO, and QUIT is not looked at.
Fails(r) ==
    CASE cmd = "EHLO" -> Goto("send", "HELO")
      [] cmd = "QUIT" -> End("OK")
      [] OTHER        -> End(r)

\* Fault: the deadline is not set on the connection.
Broken_NoDeadline == ~up

\* A read or a write on the connection fails.
Broken == late \/ ~up

Dial ==
    /\ at = "dial"
    /\ \/ ~late /\ Goto("expect", "banner") /\ up' = TRUE /\ asked' = "banner"
       \/ End("Temp") /\ UNCHANGED <<up, asked>>
    /\ UNCHANGED <<setup, late, pipe, envelope, taken, got, proc, said, heard>>

\* Fault: the dots are left as they are.
Stuff_None(l) == l

Stuff(l) == IF l.dots > 0 THEN [l EXCEPT !.dots = @ + 1] ELSE l

\* writeBody. Every line of the body ends in CRLF, so Split returns an empty
\* string after the last.
OnTheWire(b) ==
    [i \in 1..Len(b) + 1 |-> Stuff(IF i > Len(b) THEN Empty ELSE b[i])]
      \o <<[dots |-> 1, text |-> FALSE]>>

\* The target reads to the first line that is a single dot, and unstuffs.
Unstuffed(w) ==
    LET end == Min({i \in DOMAIN w : w[i] = [dots |-> 1, text |-> FALSE]})
    IN  [i \in 1..end - 1 |-> IF w[i].dots > 0
                               THEN [w[i] EXCEPT !.dots = @ - 1] ELSE w[i]]

\* cmd and writeBody up to the flush.
Send ==
    /\ at = "send"
    /\ \/ /\ ~Broken
          /\ Goto("expect", cmd)
          /\ asked' = cmd
          /\ got' = IF cmd = "body" THEN Unstuffed(OnTheWire(body)) ELSE got
       \/ /\ Broken
          /\ Fails("Temp")
          /\ UNCHANGED <<asked, got>>
    /\ UNCHANGED <<setup, late, up, pipe, envelope, taken, proc, said, heard>>

\* The target moves through a transaction in the order of RFC 5321.
Moves == {<<"MAIL", "none", "mail">>, <<"RCPT", "mail", "rcpt">>,
          <<"DATA", "rcpt", "data">>, <<"body", "data", "none">>}
Free  == {"banner", "EHLO", "HELO", "QUIT"}

\* The target answers, with a success only where it is due. It owns the
\* message when it has said 250 to the body, whether that arrives or not.
Answer ==
    /\ asked # None /\ up /\ at \in {"send", "expect"}
    /\ \E r \in Replies :
          LET code == Last(r).code
              next == {m[3] : m \in {n \in Moves : n[1] = asked
                                                     /\ n[2] = envelope}}
          IN  /\ code \in {220, 221, 250, 354} =>
                    code = Want(asked) /\ (asked \in Free \/ next # {})
              /\ code = 251 => asked = "RCPT" /\ next # {}
              /\ envelope' = IF code < 400 /\ code # Bad /\ next # {}
                             THEN CHOOSE e \in next : TRUE ELSE envelope
              /\ taken' = (taken \/ (asked = "body" /\ code = 250))
              /\ pipe' = pipe \o r
    /\ asked' = None
    /\ UNCHANGED <<setup, step, late, up, got, proc, said, heard>>

\* expect reads one line.
Expect ==
    /\ at = "expect" /\ pipe # <<>>
    /\ LET l == Head(pipe) IN
       /\ \/ l.code = Bad /\ Fails("Temp")
          \/ l.code # Bad /\ l.more /\ UNCHANGED step
          \/ /\ l.code # Bad /\ ~l.more /\ Accepts(cmd, l.code)
             /\ IF cmd = "QUIT" THEN End("OK") ELSE Goto("send", After(cmd))
          \/ /\ l.code # Bad /\ ~l.more /\ ~Accepts(cmd, l.code)
             /\ Fails(IF l.code >= 500 THEN "Perm" ELSE "Temp")
       /\ said' = IF l.more THEN said ELSE said \cup {l.code}
       /\ heard' = (heard \/ (cmd = "body" /\ ~l.more /\ l.code = 250))
    /\ pipe' = Tail(pipe)
    /\ UNCHANGED <<setup, late, up, endpoint, proc>>

\* expect meets a deadline or a broken connection.
ReadFails ==
    /\ at = "expect" /\ Broken
    /\ Fails("Temp")
    /\ UNCHANGED <<setup, late, up, pipe, endpoint, proc, said, heard>>

-----------------------------------------------------------------------------
(* Webhook *)

\* The request is built and sent.
Post ==
    /\ at = "post"
    /\ \/ TheRoute.url = "unparsable" /\ End("Perm") /\ UNCHANGED <<up, asked>>
       \/ TheRoute.url # "unparsable" /\ End("Temp") /\ UNCHANGED <<up, asked>>
       \/ /\ TheRoute.url # "unparsable" /\ ~late
          /\ Goto("respond", "POST") /\ up' = TRUE /\ asked' = "POST"
    /\ UNCHANGED <<setup, late, pipe, envelope, taken, got, proc, said, heard>>

\* The endpoint answers. One that fails may have done its work before.
Respond ==
    /\ at = "respond" /\ asked = "POST" /\ up
    /\ \E s \in Statuses, b \in BOOLEAN :
          /\ s < 300 => b
          /\ s \in 300..499 => ~b
          /\ taken' = b
          /\ pipe' = <<[code |-> s, more |-> FALSE]>>
    /\ asked' = None
    /\ UNCHANGED <<setup, step, late, up, envelope, got, proc, said, heard>>

StatusResult(s) ==
    CASE s \in 200..299 -> "OK"
      [] s >= 500 \/ s = 429 -> "Temp"
      [] OTHER -> "Perm"

\* client.Do returns a response, or an error.
Done ==
    /\ at = "respond"
    /\ \/ /\ pipe # <<>>
          /\ LET s == Head(pipe).code IN
             /\ End(StatusResult(s))
             /\ said' = {s}
             /\ heard' = (s < 300)
          /\ pipe' = <<>>
       \/ Broken /\ End("Temp") /\ UNCHANGED <<pipe, said, heard>>
    /\ UNCHANGED <<setup, late, up, endpoint, proc>>

-----------------------------------------------------------------------------
(* Command *)

\* cmd.Run starts the program, or cannot.
Start ==
    /\ at = "start"
    /\ \/ ~late /\ Goto("run", "child") /\ child' = Running
       \/ End("Temp") /\ UNCHANGED child
    /\ UNCHANGED <<setup, late, up, pipe, endpoint, killed, held, said, heard>>

\* The child ends by itself, or by a signal of another process; only the
\* first says what became of the message. It may leave a descendant that has
\* inherited its standard output.
Exit ==
    /\ at = "run" /\ child = Running
    /\ child' \in ExitCodes \cup {Killed}
    /\ said' = {child'} \ {Killed}
    /\ taken' \in BOOLEAN /\ (child' # Killed => taken' = (child' = 0))
    /\ held' \in BOOLEAN
    /\ UNCHANGED <<setup, step, late, up, pipe, asked, envelope, got, killed,
                   heard>>

\* The context kills the child, whatever it has done by then. A child that has
\* ended and is not yet waited for takes the signal as well.
Kill ==
    /\ at = "run" /\ late /\ ~killed
    /\ killed' = TRUE
    /\ \/ /\ child = Running
          /\ child' = Killed /\ taken' \in BOOLEAN /\ held' \in BOOLEAN
       \/ child # Running /\ UNCHANGED <<child, taken, held>>
    /\ UNCHANGED <<setup, step, late, up, pipe, asked, envelope, got, said,
                   heard>>

\* The wait for the child returns. Its success counts, and is heard, unless
\* the signal was sent first.
Reap ==
    /\ at = "run" /\ child # Running
    /\ Goto("output", cmd)
    /\ heard' = (child = 0 /\ ~killed)
    /\ UNCHANGED <<setup, late, up, pipe, endpoint, proc, said>>

\* The descendant ends.
Release ==
    /\ held /\ held' = FALSE
    /\ UNCHANGED <<setup, step, late, up, pipe, endpoint, child, killed, said,
                   heard>>

\* Fault: the exit code is looked at before the context.
ExitResult_CodeFirst(code) ==
    CASE code = 0 -> "OK"
      [] TheRoute.tempFail # 0 /\ code = TheRoute.tempFail -> "Temp"
      [] OTHER -> "Perm"

ExitResult(code) ==
    CASE code = 0 /\ ~killed -> "OK"
      [] ~(code = 0 /\ ~killed)
           /\ (late \/ (TheRoute.tempFail # 0 /\ code = TheRoute.tempFail))
         -> "Temp"
      [] OTHER -> "Perm"

\* cmd.Run returns when the output is copied, to the last holder of the pipes.
RunReturns ==
    /\ at = "output" /\ ~held
    /\ End(ExitResult(child))
    /\ UNCHANGED <<setup, late, up, pipe, endpoint, proc, said, heard>>

-----------------------------------------------------------------------------

Init ==
    /\ file \in Files /\ cfg = Rejected
    /\ to = None /\ route = NoRoute /\ body = <<>>
    /\ at = "file" /\ cmd = None /\ late = FALSE /\ up = FALSE /\ pipe = <<>>
    /\ asked = None /\ envelope = "none" /\ child = Running /\ killed = FALSE
    /\ held = FALSE /\ result = None
    /\ said = {} /\ taken = FALSE /\ got = <<>> /\ heard = FALSE

Dispatch == \/ Router \/ Dial \/ Send \/ Expect \/ ReadFails
            \/ Post \/ Done \/ Start \/ Kill \/ Reap \/ RunReturns
External == Answer \/ Respond \/ Exit \/ Release \/ Break

Next == LoadFile \/ Message \/ Deadline \/ Dispatch \/ External

Spec == Init /\ [][Next]_vars

\* The goroutine runs, and the deadline comes. The endpoint owes nothing.
FairSpec == Spec /\ WF_vars(Dispatch) /\ WF_vars(Deadline)

\* The same, for programs that leave no descendant running without end.
EndingSpec == FairSpec /\ WF_vars(Release)

-----------------------------------------------------------------------------
(* Properties *)

\* Every variable has its type.
TypeOK ==
    /\ cfg = Rejected \/ cfg.ok
    /\ at \in InFlight \cup {"file", "rejected", "ready", "refused", "done"}
    /\ at \in InFlight \cup {"done"} => route \in DOMAIN cfg.routes
    /\ {late, up, killed, held, taken, heard} \subseteq BOOLEAN
    /\ \A i \in DOMAIN pipe : pipe[i].code \in 200..599 \cup {Bad}
    /\ child \in ExitCodes \cup {Running, Killed}
    /\ at = "done" <=> result # None

Loaded == cfg # Rejected

\* The two derived tables do what section 9 of docs/tech_spec.md says of the
\* file: an entry for the complete address before one for the domain, in any
\* letter case, and nil when there is neither.
LookupSpecified ==
    Loaded =>
        \A a \in Recipients :
            LET found == LookupRoute(cfg, a)
                dom   == DomainOf[a]
                Key(i)    == Lower[file.routes[i].recipient]
                Exact(i)  == /\ file.routes[i].match \in {None, "address"}
                             /\ Key(i) = Lower[a]
                Domain(i) == /\ file.routes[i].match = "domain"
                             /\ dom # NoDomain /\ Key(i) = Lower[dom]
                routes    == DOMAIN file.routes
            IN  IF found = NoRoute
                THEN \A i \in routes : ~Exact(i) /\ ~Domain(i)
                ELSE \/ Exact(found)
                     \/ Domain(found) /\ \A i \in routes : ~Exact(i)

\* No route of an accepted file is shadowed by a later one: the duplicates
\* that the last-wins tables would hide are found although match may be
\* absent and recipients may differ in case.
NoRouteShadowed ==
    Loaded => DOMAIN cfg.routes = Range(cfg.exact) \cup Range(cfg.domain)

Fits(sec) == sec * Second <= MaxInt

\* What Validate accepts, the rest of the program can run with: NewTicker gets
\* a positive interval and an attempt a deadline that is not past, the
\* semaphore has room, bind never lacks a certificate, the router knows every
\* type, and the keys are in the case the comparisons use. The seconds are
\* assumed to fit a Duration; Validate does not check that.
FitForUse ==
    Loaded =>
        /\ cfg.retry.enabled /\ Fits(cfg.retry.interval) =>
              Duration(cfg.retry.interval) > 0
        /\ cfg.retry.enabled /\ Fits(cfg.retry.expire) =>
              Duration(cfg.retry.expire) > Duration(cfg.retry.interval)
        /\ \A r \in Range(cfg.routes) :
              /\ Fits(r.timeout) => Duration(r.timeout) > 0
              /\ r.type \in RouteTypes
        /\ cfg.limits.conns > 0
        /\ \A l \in Range(cfg.listeners) :
              l.tls \in TLSModes /\ (l.tls # "plain" => cfg.cert # None)
        /\ \A e \in Range(cfg.nets) \cup Range(cfg.providers) :
              LowerAll(e.domains) = e.domains
        /\ \A w \in Range(cfg.whitelist) : Lower[w.value] = w.value

\* The message is reported as delivered only when the endpoint has taken it:
\* also when a garbled reply to EHLO has left a line behind and every later
\* reply is read for the command after its own.
OkMeansTaken == result = "OK" => taken

\* When the endpoint's acceptance has been read, the attempt succeeds, and the
\* queue sends no second copy. Only an answer that is lost or late does that.
HeardIsFinal == at = "done" /\ heard => result = "OK"

\* A message is discarded as a permanent failure only after the endpoint said
\* so; a deadline or a transport fault is temporary. Two cases are not the
\* endpoint's word: a URL from which no request can be built, which Validate
\* does not notice, and a child that a signal of another process ended. And a
\* 5xx of the target may be one that refused an earlier command: after a
\* garbled reply to EHLO, its 5xx to EHLO is read as the answer to HELO.
PermJustified ==
    result = "Perm" =>
        /\ TheRoute.type = "forward" => \E c \in said : c >= 500
        /\ TheRoute.type = "webhook" =>
              \/ TheRoute.url = "unparsable"
              \/ said # {} /\ said \subseteq (300..499) \ {429}
        /\ TheRoute.type = "command" =>
              ~late /\ 0 \notin said /\ (said # {} \/ child = Killed)

\* The target gets the lines of the body with their dots, and one empty line
\* that the body does not have.
RelayedIntact ==
    taken /\ TheRoute.type = "forward" => got = Append(body, Empty)

\* docs/tech_spec.md says of routes: "`timeout_sec` bounds one attempt." Every
\* attempt returns, whatever the endpoint does or does not do.
AttemptEnds == at = "route" ~> at = "done"
=============================================================================
