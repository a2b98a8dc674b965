------------------------------- MODULE Session -------------------------------
(***************************************************************************)
(* One SMTP session of internal/server: handleConn, loop and the command   *)
(* handlers of session.go and transaction.go, with the client that talks   *)
(* to it. The client may pipeline commands, also after the dot that ends a *)
(* body, sends a body only after 354, and may be silent or hang up at any  *)
(* time.                                                                   *)
(*                                                                         *)
(* A line on the wire is a record; what its octets say is its verb and its *)
(* argument. A body line is known by its kind:                             *)
(*   "dot"     a single period, then CRLF: the client's end of the body    *)
(*   "text"    any other text, then CRLF                                   *)
(*   "stuffed" text with a leading period, which the client doubles        *)
(*   "lf"      text, then a bare LF         "crs"    text, then CR CR LF   *)
(*   "lfdot"   a period, then a bare LF     "crdot"  a period, then CR CR LF *)
(*   "long"    text over both line limits                                  *)
(* To the client a line ends with CRLF, so that to it the period of lfdot  *)
(* and crdot stands within a line, and is text. The bytes in flight are in *)
(* two places: wire, still in the socket, and rbuf, already read into the  *)
(* bufio.Reader s.r.                                                       *)
(*                                                                         *)
(* External: the admission decision (package policy), the route table and  *)
(* the dispatcher are nondeterministic here.                               *)
(***************************************************************************)
EXTENDS Integers, Sequences

CONSTANTS
    Modes,           \* the TLS modes of the listeners: subset of AllModes
    HasCert,         \* s.srv.tlsConf # nil
    Senders,         \* reverse-paths
    Recipients,      \* forward-paths
    Routed,          \* the recipients for which LookupRoute finds a route
    Commands,        \* the command lines the client may send
    BodyLines,       \* the body lines the client may send
    Octets,          \* Octets[v]: length of line v's text, without its ending
    MaxMessageBytes, \* limits.max_message_bytes
    CommandTimeout,  \* limits.command_timeout_sec
    SessionTimeout,  \* limits.session_timeout_sec
    MaxAhead         \* bound: lines and replies the client is ahead by

AllModes == {"none", "starttls", "implicit"}

Dots  == {"dot", "lfdot", "crdot"}
Kinds == Dots \cup {"text", "stuffed", "lf", "crs", "long"}

ASSUME SessionAssumption ==
    /\ Modes \subseteq AllModes
    /\ HasCert \in BOOLEAN
    /\ Routed \subseteq Recipients
    /\ \A l \in Commands : l.verb \notin Dots \cup {"hello"}
    /\ BodyLines \subseteq Kinds
    /\ Octets \in [BodyLines \cup {l.verb : l \in Commands} -> Nat]
    /\ MaxMessageBytes \in Nat \ {0}
    /\ CommandTimeout \in Nat \ {0}
    /\ SessionTimeout \in Nat \ {0}
    /\ MaxAhead \in Nat \ {0}

VARIABLES
    mode,       \* s.mode
    conn,       \* where the session goroutine is
    left,       \* time to s.deadline, the end of the session's lifetime
    wait,       \* time to the deadline of the operation in progress
    wire, rbuf, \* lines in the socket and in s.r
    encrypted,  \* s.encrypted
    helo,       \* s.helo # ""
    inTx, from, rcpt,       \* s.inTx, s.from, s.rcpt (s.route goes with rcpt)
    buf, total, oversize,   \* the locals of readBody: octets, not contents
    client,     \* what the client is doing
    owed,       \* replies the client is waiting for
    dotDue,     \* the first of them is the answer to the dot
    meant,      \* octets of the body the client is sending
    framing,    \* history: whether the client's lines end where it means to
    origin,     \* history: how the current sender and recipient were accepted
    message     \* the message in the hands of the dispatcher, as a set

line  == <<mode, left, encrypted>>
tx    == <<helo, inTx, from, rcpt, origin>>
body  == <<buf, total, oversize>>
peer  == <<client, owed, dotDue, meant, framing>>
vars == <<mode, conn, left, wait, wire, rbuf, encrypted, helo, inTx, from,
          rcpt, buf, total, oversize, client, owed, dotDue, meant, framing,
          origin, message>>

None == ""                     \* an empty string field

NoOrigin == [from |-> None, fromTLS |-> FALSE, rcpt |-> None]

-----------------------------------------------------------------------------
(* Replies and reads *)

\* The client hears a reply. A client that waits for the answer to DATA goes
\* on when nothing else is owed; a reply that nobody asked for, or an answer
\* to the dot other than 250, is a fault.
Reply(code) ==
    /\ owed' = IF owed > 0 THEN owed - 1 ELSE 0
    /\ client' =
         CASE client = "gone" -> "gone"
           [] client # "gone" /\ (owed = 0 \/ (dotDue /\ code # 250)) -> "fault"
           [] client = "data?" /\ owed = 1 /\ (dotDue => code = 250) ->
                 IF code = 354 THEN "body" ELSE "command"
           [] OTHER -> client
    /\ dotDue' = FALSE
    /\ meant' = 0
    /\ UNCHANGED framing

Reading    == {"read", "dataread", "discard"}
Operating  == Reading \cup {"handshake", "decide"}

\* Take the next line out of s.r.
Take(v) == /\ rbuf # <<>> /\ Head(rbuf).verb = v
           /\ rbuf' = Tail(rbuf)

\* Fault: the recipient survives the reset.
ResetTx_KeepRcpt == /\ inTx' = FALSE /\ from' = None /\ rcpt' = rcpt
                    /\ origin' = NoOrigin

\* resetTx
ResetTx == /\ inTx' = FALSE /\ from' = None /\ rcpt' = None
           /\ origin' = NoOrigin

Close == conn' = "closed"
Loop  == conn' = "loop"

\* Fault: every command renews the deadline.
Arm_Unbounded(now, next) ==
    /\ conn = now /\ conn' = next
    /\ wait' = CommandTimeout
    /\ UNCHANGED <<line, wire, rbuf, tx, body, peer, message>>

\* setReadDeadline: the command timeout, bounded by what is left of the
\* session; an error when nothing is left.
Arm(now, next) ==
    /\ conn = now
    /\ \/ left = 0 /\ Close /\ UNCHANGED wait
       \/ /\ left > 0
          /\ wait' = IF CommandTimeout < left THEN CommandTimeout ELSE left
          /\ conn' = next
    /\ UNCHANGED <<line, wire, rbuf, tx, body, peer, message>>

ReadCommand == Arm("loop", "read")
ReadBody    == Arm("dataloop", "dataread")

\* bufio fills its buffer from the socket, under the read deadline.
Fill ==
    /\ conn \in Reading /\ wait > 0
    /\ wire # <<>> /\ Head(wire).verb # "hello"
    /\ rbuf' = Append(rbuf, Head(wire))
    /\ wire' = Tail(wire)
    /\ UNCHANGED <<line, conn, wait, tx, body, peer, message>>

\* A read ends with a timeout, with EOF, or with bytes that are no line.
ReadFails ==
    /\ conn \in Reading /\ rbuf = <<>>
    /\ \/ wait = 0
       \/ wire = <<>> /\ client = "gone"
       \/ wire # <<>> /\ Head(wire).verb = "hello"
    /\ Close
    /\ UNCHANGED <<line, wait, wire, rbuf, tx, body, peer, message>>

-----------------------------------------------------------------------------
(* Connection *)

\* handleConn writes the banner. On an implicit listener the write performs
\* the TLS handshake, which reads; only the write deadline is set. A failed
\* handshake is noticed by the first read.
Greet ==
    /\ conn = "accepted"
    /\ \/ /\ mode # "implicit"
          /\ Loop
          /\ client' = IF client = "gone" THEN "gone" ELSE "command"
          /\ UNCHANGED wire
       \/ /\ mode = "implicit" /\ wire # <<>>
          /\ wire' = Tail(wire)
          /\ IF Head(wire).verb = "hello"
             THEN /\ Loop
                  /\ client' = IF client = "gone" THEN "gone" ELSE "command"
             ELSE Close /\ UNCHANGED client
       \/ /\ mode = "implicit" /\ wire = <<>> /\ client = "gone"
          /\ Close
          /\ UNCHANGED <<wire, client>>
    /\ UNCHANGED <<line, wait, rbuf, tx, body, owed, dotDue, meant, framing,
                   message>>

-----------------------------------------------------------------------------
(* Commands *)

\* A line over 512 octets is answered and ends the session.
LineTooLong ==
    /\ conn = "read" /\ Take("long")
    /\ Reply(500) /\ Close
    /\ UNCHANGED <<line, wait, wire, tx, body, message>>

\* A bare line feed ends the session without a reply.
BareLineFeed ==
    /\ conn = "read" /\ (Take("lf") \/ Take("lfdot"))
    /\ Close
    /\ UNCHANGED <<line, wait, wire, tx, body, peer, message>>

\* handleEHLO, handleHELO
HandleEHLO ==
    /\ conn = "read" /\ (Take("EHLO") \/ Take("HELO"))
    /\ \/ Head(rbuf).arg = "" /\ Reply(501) /\ UNCHANGED tx
       \/ Head(rbuf).arg # "" /\ helo' = TRUE /\ ResetTx /\ Reply(250)
    /\ Loop
    /\ UNCHANGED <<line, wait, wire, body, message>>

\* handleSTARTTLS, up to the start of the handshake. The client that hears
\* 220 starts its side; lines it sent after STARTTLS are owed no reply.
HandleSTARTTLS ==
    /\ conn = "read" /\ Take("STARTTLS")
    /\ LET arg == Head(rbuf).arg IN
       \/ arg # "" /\ Reply(501) /\ Loop /\ UNCHANGED wait
       \/ /\ arg = "" /\ (mode # "starttls" \/ ~HasCert)
          /\ Reply(502) /\ Loop /\ UNCHANGED wait
       \/ /\ arg = "" /\ mode = "starttls" /\ HasCert /\ encrypted
          /\ Reply(503) /\ Loop /\ UNCHANGED wait
       \/ /\ arg = "" /\ mode = "starttls" /\ HasCert /\ ~encrypted
          /\ conn' = "handshake"
          /\ wait' = CommandTimeout
          /\ owed' = 0
          /\ client' = IF client = "gone" THEN "gone" ELSE "tls"
          /\ UNCHANGED <<dotDue, meant, framing>>
    /\ UNCHANGED <<line, wire, tx, body, message>>

\* Fault: s.r keeps what it has buffered.
Handshake_KeepReader ==
    /\ conn = "handshake" /\ wire # <<>> /\ Head(wire).verb = "hello"
    /\ wire' = Tail(wire)
    /\ encrypted' = TRUE
    /\ helo' = FALSE
    /\ ResetTx
    /\ client' = IF client = "gone" THEN "gone" ELSE "command"
    /\ Loop
    /\ UNCHANGED <<mode, left, wait, rbuf, body, owed, dotDue, meant, framing,
                   message>>

\* The handshake reads the socket, not s.r. On success a new reader replaces
\* s.r and the session starts over.
Handshake ==
    /\ conn = "handshake"
    /\ \/ /\ wait > 0 /\ wire # <<>> /\ Head(wire).verb = "hello"
          /\ wire' = Tail(wire)
          /\ rbuf' = <<>>
          /\ encrypted' = TRUE
          /\ helo' = FALSE
          /\ ResetTx
          /\ client' = IF client = "gone" THEN "gone" ELSE "command"
          /\ Loop
       \/ /\ \/ wait = 0
             \/ wire # <<>> /\ Head(wire).verb # "hello"
             \/ wire = <<>> /\ client = "gone"
          /\ Close
          /\ UNCHANGED <<wire, rbuf, encrypted, tx, client>>
    /\ UNCHANGED <<mode, left, wait, body, owed, dotDue, meant, framing,
                   message>>

\* handleMail, up to the call of Decide. loop ends the session after an early
\* reply too, except inside a transaction.
HandleMAIL ==
    /\ conn = "read" /\ rbuf # <<>> /\ Head(rbuf).verb = "MAIL"
    /\ \/ ~helo /\ Take("MAIL") /\ Reply(503) /\ Close /\ UNCHANGED wait
       \/ helo /\ inTx /\ Take("MAIL") /\ Reply(503) /\ Loop /\ UNCHANGED wait
       \/ /\ helo /\ ~inTx /\ Head(rbuf).arg \notin Senders
          /\ Take("MAIL") /\ Reply(501) /\ Close /\ UNCHANGED wait
       \/ /\ helo /\ ~inTx /\ Head(rbuf).arg \in Senders
          /\ conn' = "decide" /\ wait' = CommandTimeout
          /\ UNCHANGED <<rbuf, peer>>
    /\ UNCHANGED <<line, wire, tx, body, message>>

\* Decide returns, within the command timeout.
Decided ==
    /\ conn = "decide" /\ Take("MAIL")
    /\ \/ /\ from' = Head(rbuf).arg /\ inTx' = TRUE
          /\ origin' = [from |-> from', fromTLS |-> encrypted, rcpt |-> None]
          /\ Reply(250) /\ Loop
          /\ UNCHANGED <<helo, rcpt>>
       \/ \E code \in {451, 550} : Reply(code) /\ Close /\ UNCHANGED tx
    /\ UNCHANGED <<line, wait, wire, body, message>>

\* handleRcpt
HandleRCPT ==
    /\ conn = "read" /\ Take("RCPT")
    /\ LET path == Head(rbuf).arg IN
       \/ ~inTx /\ Reply(503) /\ Loop /\ UNCHANGED tx
       \/ inTx /\ rcpt # None /\ Reply(452) /\ Loop /\ UNCHANGED tx
       \/ /\ inTx /\ rcpt = None /\ path \notin Recipients
          /\ Reply(501) /\ Loop /\ UNCHANGED tx
       \/ /\ inTx /\ rcpt = None /\ path \in Recipients \ Routed
          /\ Reply(550) /\ Close /\ UNCHANGED tx
       \/ /\ inTx /\ rcpt = None /\ path \in Routed
          /\ rcpt' = path
          /\ origin' = [origin EXCEPT !.rcpt = path]
          /\ Reply(250) /\ Loop
          /\ UNCHANGED <<helo, inTx, from>>
    /\ UNCHANGED <<line, wait, wire, body, message>>

\* handleData, up to the start of readBody
HandleDATA ==
    /\ conn = "read" /\ Take("DATA")
    /\ \/ Head(rbuf).arg # "" /\ Reply(501) /\ Loop /\ UNCHANGED body
       \/ /\ Head(rbuf).arg = "" /\ (~inTx \/ rcpt = None)
          /\ Reply(503) /\ Loop /\ UNCHANGED body
       \/ /\ Head(rbuf).arg = "" /\ inTx /\ rcpt # None
          /\ Reply(354) /\ conn' = "dataloop"
          /\ buf' = 0 /\ total' = 0 /\ oversize' = FALSE
    /\ UNCHANGED <<line, wait, wire, tx, message>>

HandleRSET ==
    /\ conn = "read" /\ Take("RSET")
    /\ ResetTx /\ Reply(250) /\ Loop
    /\ UNCHANGED <<line, wait, wire, helo, body, message>>

HandleQUIT ==
    /\ conn = "read" /\ Take("QUIT")
    /\ Reply(221) /\ Close
    /\ UNCHANGED <<line, wait, wire, tx, body, message>>

\* NOOP, the commands that are refused, and every other line, including one
\* that was meant as body.
HandleOther ==
    /\ conn = "read"
    /\ \E v \in {"NOOP", "AUTH", "JUNK", "dot", "crdot", "crs", "text",
                 "stuffed"} :
          /\ Take(v)
          /\ Reply(IF v = "NOOP" THEN 250
                   ELSE IF v = "AUTH" THEN 502 ELSE 500)
    /\ Loop
    /\ UNCHANGED <<line, wait, wire, tx, body, message>>

-----------------------------------------------------------------------------
(* The body *)

\* A line over 65536 octets. readLine has consumed all of it; discardLine
\* reads on to the next line feed.
BodyTooLong ==
    /\ conn = "dataread" /\ Take("long")
    /\ conn' = "discard"
    /\ UNCHANGED <<line, wait, wire, tx, body, peer, message>>

DiscardLine ==
    /\ conn = "discard" /\ rbuf # <<>>
    /\ rbuf' = Tail(rbuf)
    /\ oversize' = TRUE /\ buf' = 0
    /\ conn' = "dataloop"
    /\ UNCHANGED <<line, wait, wire, tx, total, peer, message>>

\* The line's text as it is sent: a leading period is doubled.
Stuffed(v) == Octets[v] + IF v = "stuffed" THEN 1 ELSE 0

\* The octets that end the line.
Ending(v) == CASE v \in {"lf", "lfdot"}  -> 1
               [] v \in {"crs", "crdot"} -> 3
               [] OTHER                  -> 2

\* The line as readLine returns it.
Received(v) == Stuffed(v) + Ending(v)

\* TrimRight: line feed and every carriage return before it go.
Trimmed(v) == Received(v) - Ending(v)

\* The doubled dot is reversed.
Unstuffed(v) == IF v = "stuffed" THEN Trimmed(v) - 1 ELSE Trimmed(v)

\* Fault: the line keeps the ending it came with.
Appended_AsReceived(v) ==
    IF v = "stuffed" THEN Received(v) - 1 ELSE Received(v)

\* What is appended to the message: the text, and a CRLF.
Appended(v) == Unstuffed(v) + 2

\* Fault: a line is appended without regard to the limit.
BodyLine_NoLimit ==
    /\ conn = "dataread" /\ rbuf # <<>>
    /\ Head(rbuf).verb \notin Dots \cup {"long"}
    /\ total' = total + Appended(Head(rbuf).verb)
    /\ buf' = total'
    /\ rbuf' = Tail(rbuf)
    /\ conn' = "dataloop"
    /\ UNCHANGED <<line, wait, wire, tx, oversize, peer, message>>

\* Fault: a body over the limit is answered at once.
BodyLine_ReplyEarly ==
    /\ conn = "dataread" /\ rbuf # <<>>
    /\ Head(rbuf).verb \notin Dots \cup {"long"}
    /\ total' = total + Appended(Head(rbuf).verb)
    /\ rbuf' = Tail(rbuf)
    /\ \/ /\ total' > MaxMessageBytes
          /\ buf' = 0 /\ ResetTx /\ Reply(250) /\ Loop
          /\ UNCHANGED helo
       \/ /\ total' <= MaxMessageBytes
          /\ buf' = total' /\ conn' = "dataloop"
          /\ UNCHANGED <<tx, peer>>
    /\ UNCHANGED <<line, wait, wire, oversize, message>>

\* A line of the body, whoever meant it as one, is counted, and appended
\* unless the limit is passed.
BodyLine ==
    /\ conn = "dataread" /\ rbuf # <<>>
    /\ LET v == Head(rbuf).verb IN
       /\ v \notin Dots \cup {"long"}
       /\ total' = total + Appended(v)
       /\ IF total' > MaxMessageBytes
          THEN oversize' = TRUE /\ buf' = 0
          ELSE /\ UNCHANGED oversize
               /\ buf' = IF oversize THEN buf ELSE buf + Appended(v)
    /\ rbuf' = Tail(rbuf)
    /\ conn' = "dataloop"
    /\ UNCHANGED <<line, wait, wire, tx, peer, message>>

\* The end of the body: a line that is a period, whatever its ending. An
\* oversize message is dropped, any other is dispatched.
BodyDot ==
    /\ conn = "dataread" /\ \E v \in Dots : Take(v)
    /\ \/ /\ oversize
          /\ ResetTx /\ Reply(250) /\ Loop
          /\ UNCHANGED <<helo, message>>
       \/ /\ ~oversize
          /\ message' = {[from |-> from, to |-> rcpt, bytes |-> buf,
                          meant |-> meant, tls |-> encrypted,
                          origin |-> origin]}
          /\ conn' = "dispatch"
          /\ UNCHANGED <<tx, peer>>
    /\ buf' = 0 /\ total' = 0 /\ oversize' = FALSE
    /\ UNCHANGED <<line, wait, wire>>

\* Dispatch returns, whatever its result; finish().
Dispatched ==
    /\ conn = "dispatch"
    /\ message' = {}
    /\ ResetTx /\ Reply(250) /\ Loop
    /\ UNCHANGED <<line, wait, wire, rbuf, helo, body>>

-----------------------------------------------------------------------------
(* The client and time *)

Send(v, a, b) ==
    /\ Len(wire) + Len(rbuf) < MaxAhead
    /\ conn # "closed"
    /\ wire' = Append(wire, [verb |-> v, arg |-> a, tls |-> encrypted,
                             body |-> b])
    /\ UNCHANGED <<line, conn, wait, rbuf, tx, body, message>>

\* A command, before or after the answer to the previous ones.
SendCommand ==
    /\ client = "command" /\ owed < MaxAhead
    /\ \E l \in Commands :
          /\ Send(l.verb, l.arg, FALSE)
          /\ client' = IF l.verb = "DATA" THEN "data?" ELSE client
    /\ owed' = owed + 1
    /\ UNCHANGED <<dotDue, meant, framing>>

\* History of the body lines sent: a period that the client does not mean as
\* the end of the body breaks the framing, and so does its end of the body
\* directly after a line over the limit, which discardLine takes with it.
Framing(v) ==
    IF \/ framing = "broken"
       \/ v \in Dots \ {"dot"}
       \/ v = "dot" /\ framing = "long"
    THEN "broken"
    ELSE IF v = "long" THEN "long" ELSE "plain"

\* A line of the body. After the dot the client may go on with commands; the
\* next reply is the answer to the dot. What the client means is its text,
\* with a CRLF after each line. The bound on meant keeps the body one line
\* longer than the limit.
SendBody ==
    /\ client = "body"
    /\ \E v \in BodyLines :
          /\ meant <= MaxMessageBytes \/ v = "dot"
          /\ Send(v, "", TRUE)
          /\ framing' = Framing(v)
          /\ \/ /\ v = "dot"
                /\ client' = "command" /\ owed' = owed + 1 /\ dotDue' = TRUE
                /\ UNCHANGED meant
             \/ /\ v # "dot"
                /\ meant' = meant + Octets[v] + 2
                /\ UNCHANGED <<client, owed, dotDue>>

\* The first bytes of a TLS handshake.
SendHello ==
    /\ client = "tls"
    /\ Send("hello", "", FALSE)
    /\ client' = "tls?"
    /\ UNCHANGED <<owed, dotDue, meant, framing>>

HangUp ==
    /\ client # "gone" /\ conn # "closed"
    /\ client' = "gone"
    /\ UNCHANGED <<line, conn, wait, wire, rbuf, tx, body, owed, dotDue, meant,
                   framing, message>>

\* Time passes, but not past the deadline of an operation in progress.
Pass ==
    /\ conn # "closed"
    /\ conn \in Operating => wait > 0
    /\ left' = IF left > 0 THEN left - 1 ELSE 0
    /\ wait' = IF conn \in Operating THEN wait - 1 ELSE wait
    /\ UNCHANGED <<mode, conn, wire, rbuf, encrypted, tx, body, peer, message>>

Client == SendCommand \/ SendBody \/ SendHello \/ HangUp

-----------------------------------------------------------------------------

Init ==
    /\ mode \in Modes
    /\ conn = "accepted"
    /\ left = SessionTimeout /\ wait = 0
    /\ wire = <<>> /\ rbuf = <<>>
    /\ encrypted = (mode = "implicit")
    /\ helo = FALSE /\ inTx = FALSE /\ from = None /\ rcpt = None
    /\ origin = NoOrigin
    /\ buf = 0 /\ total = 0 /\ oversize = FALSE
    /\ client = IF mode = "implicit" THEN "tls" ELSE "silent"
    /\ owed = 0 /\ dotDue = FALSE /\ meant = 0 /\ framing = "plain"
    /\ message = {}

\* The steps of the session goroutine.
Serve ==
    \/ Greet \/ ReadCommand \/ ReadBody \/ Fill \/ ReadFails
    \/ LineTooLong \/ BareLineFeed \/ HandleEHLO \/ HandleSTARTTLS \/ Handshake
    \/ HandleMAIL \/ Decided \/ HandleRCPT \/ HandleDATA
    \/ HandleRSET \/ HandleQUIT \/ HandleOther
    \/ BodyTooLong \/ DiscardLine \/ BodyLine \/ BodyDot \/ Dispatched

Next == Serve \/ Client \/ Pass

Spec == Init /\ [][Next]_vars

\* The session goroutine runs and time passes. The client owes nothing.
FairSpec == Spec /\ WF_vars(Serve) /\ SF_vars(Pass)

-----------------------------------------------------------------------------
(* Properties *)

Verbs == {l.verb : l \in Commands} \cup BodyLines \cup {"hello"}
Args  == {l.arg : l \in Commands} \cup {""}
Line  == [verb : Verbs, arg : Args, tls : BOOLEAN, body : BOOLEAN]

BodyStates == {"dataloop", "dataread", "discard"}

\* Every variable has its type.
TypeOK ==
    /\ mode \in Modes
    /\ conn \in {"accepted", "loop", "dispatch", "closed"} \cup BodyStates
                  \cup Operating
    /\ left \in 0..SessionTimeout
    /\ wait \in 0..CommandTimeout
    /\ wire \in Seq(Line) /\ rbuf \in Seq(Line)
    /\ {encrypted, helo, inTx, oversize, dotDue} \subseteq BOOLEAN
    /\ from \in Senders \cup {None}
    /\ rcpt \in Routed \cup {None}
    /\ buf \in 0..MaxMessageBytes
    /\ total \in Nat /\ owed \in Nat /\ meant \in Nat
    /\ client \in {"silent", "command", "data?", "body", "tls", "tls?", "gone",
                   "fault"}
    /\ framing \in {"plain", "long", "broken"}
    /\ conn = "dispatch" <=> message # {}

\* A message is dispatched for the recipient that was accepted after its
\* sender, in one transaction, and under one TLS state: RSET, EHLO, STARTTLS
\* and the dot leave nothing of a transaction behind, however commands are
\* mixed and pipelined.
OneTransaction ==
    \A m \in message :
        m.origin = [from |-> m.from, fromTLS |-> m.tls, rcpt |-> m.to]

\* A line the client sent in plain text is never executed after STARTTLS,
\* also when it was pipelined and already sits in the read buffer.
NoPlaintextAfterTLS ==
    \A i \in 1..Len(rbuf) : rbuf[i].tls = encrypted

\* Client and session agree where the body ends, as long as the client sends
\* no period that it does not mean as the end (a line readBody trims to ".",
\* sent with a bare line feed or a second carriage return) and no dot directly
\* after a line over the limit: the lines up to the client's dot are taken as
\* body and those it pipelined after the dot as commands, no reply comes
\* unasked, and the answer to the dot is 250.
InStep ==
    framing # "broken" =>
        /\ client # "fault"
        /\ conn # "closed" =>
              LET flight == rbuf \o wire
              IN \A i \in 1..Len(flight) :
                    flight[i].body <=>
                        /\ conn \in BodyStates
                        /\ \A j \in 1..(i - 1) : flight[j].verb # "dot"

\* A dispatched message is within limits.max_message_bytes, and has the length
\* of the text the client composed, its leading dots included and every line
\* ended by CRLF: whatever ended a line on the wire, readBody loses no text
\* and adds none. The second part is for a client that frames its body as in
\* InStep.
MessageIntact ==
    \A m \in message :
        /\ m.bytes <= MaxMessageBytes
        /\ framing # "broken" => m.bytes = m.meant

\* README.md says of limits.session_timeout_sec: "Total permitted lifetime of
\* one connection." Every session ends, whatever the client sends or does not
\* send.
SessionEnds == conn # "closed" ~> conn = "closed"

\* Apart from the handshake of an implicit listener, every session ends: no
\* command, body, handshake or decision renews the time it has left. The
\* fairness of Serve includes that Dispatch returns; Delivery shows when an
\* endpoint's command may keep it from returning.
GreetedEnds ==
    conn # "closed" /\ ~(mode = "implicit" /\ conn = "accepted")
        ~> conn = "closed"

\* transaction.go says of a body over the limit that "the connection stays in
\* a defined state and the caller can return 250"; docs/tech_spec.md that the
\* stream is discarded "until the dot is found, and the reply is 250". When
\* everything the client sent has been read, its dot has been answered.
DotAnswered ==
    conn = "dataread" /\ wire = <<>> /\ rbuf = <<>> => ~dotDue
=============================================================================
