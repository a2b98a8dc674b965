---------------------------- MODULE SessionProofs ----------------------------
(***************************************************************************)
(* Proofs about Session, for every set of commands, senders, recipients    *)
(* and body lines, every limit and any depth of pipelining.                *)
(*                                                                         *)
(* Two invariants. SInv holds whatever the client sends: what the session  *)
(* keeps of a transaction, and under which TLS state the lines on their    *)
(* way were sent. FInv holds as long as the framing is not broken; it says *)
(* for each state of the session goroutine which of the lines on their way *)
(* are body and which are commands, how many replies the client is owed,   *)
(* and which octets of the message are still to come.                      *)
(***************************************************************************)
EXTENDS Session, TLAPS

CommandStates == {"loop", "read", "decide"}

\* The lines on their way, in the order in which they were sent.
Flight == rbuf \o wire

-----------------------------------------------------------------------------
(* Whatever the client sends *)

\* The history agrees with the fields of the session.
TxRecord ==
    \/ inTx /\ origin = [from |-> from, fromTLS |-> encrypted, rcpt |-> rcpt]
    \/ ~inTx /\ origin = NoOrigin /\ from = None /\ rcpt = None

\* The MAIL command stays in s.r until Decide returns, and the body is read
\* and dispatched within a transaction.
Deciding ==
    /\ conn = "decide" => /\ rbuf # <<>> /\ Head(rbuf).arg \in Senders
                          /\ helo /\ ~inTx
    /\ conn \in BodyStates \cup {"dispatch"} => inTx

\* A line on its way was sent under the present TLS state.
Marked ==
    /\ \A i \in 1..Len(rbuf) : rbuf[i].tls = encrypted
    /\ \A i \in 1..Len(wire) : wire[i].tls = encrypted

\* The client starts a handshake only when the session waits for one, the
\* first bytes of it are not read as a line, and nothing is sent after them.
HelloLast ==
    /\ client \in {"silent", "tls", "tls?"} =>
          conn \in {"accepted", "handshake", "closed"}
    /\ conn = "handshake" => client \in {"tls", "tls?", "gone"}
    /\ \A i \in 1..Len(rbuf) : rbuf[i].verb # "hello"
    /\ \A i \in 1..Len(wire) : wire[i].verb = "hello" =>
          /\ i = Len(wire) /\ client \in {"tls?", "gone"}
          /\ conn \in {"accepted", "handshake", "closed"}

\* Before the banner.
AtAccept ==
    conn = "accepted" =>
        /\ rbuf = <<>> /\ owed = 0 /\ ~dotDue
        /\ client \in {"silent", "tls", "tls?", "gone"}
        /\ \A i \in 1..Len(wire) : wire[i].verb = "hello" /\ ~wire[i].body
        /\ mode # "implicit" => client \in {"silent", "gone"} /\ wire = <<>>

\* The buffer has what was counted, until the message is over a limit.
Buffered == conn \in {"dataloop", "dataread"} /\ ~oversize => buf = total

Fits == \A m \in message : m.bytes <= MaxMessageBytes

SInv ==
    /\ TypeOK /\ TxRecord /\ Deciding /\ Marked /\ HelloLast /\ AtAccept
    /\ Buffered /\ OneTransaction /\ Fits

-----------------------------------------------------------------------------
(* As long as the framing is not broken *)

\* A line of the body before its end, and the end.
IsText(l) == l.body /\ l.verb \in BodyLines \ Dots
IsDot(l)  == l.body /\ l.verb = "dot"

\* A command; the client sends nothing after DATA.
IsCommand(i) ==
    /\ ~Flight[i].body /\ Flight[i].verb \notin Dots
    /\ Flight[i].verb = "DATA" => i = Len(Flight) /\ client \in {"data?", "gone"}

\* Outside of the body every line on its way is a command that is owed a
\* reply, and while a message is dispatched its dot is owed one too.
Commanded ==
    /\ client \in {"command", "data?", "gone"}
    /\ \A i \in 1..Len(Flight) : IsCommand(i)

AtCommands ==
    conn \in CommandStates => Commanded /\ owed = Len(Flight) /\ ~dotDue

AtDispatch ==
    conn = "dispatch" => Commanded /\ owed = Len(Flight) + 1 /\ dotDue

\* The commands that were sent after STARTTLS are not answered.
AtHandshake ==
    conn = "handshake" =>
        /\ owed = 0 /\ ~dotDue
        /\ \A i \in 1..Len(Flight) : ~Flight[i].body

\* The client has not sent the dot.
Composing ==
    /\ client \in {"body", "gone"} /\ owed = 0 /\ ~dotDue
    /\ \A i \in 1..Len(Flight) : IsText(Flight[i])

\* The client's dot is line k on its way.
Ended(k) ==
    /\ client \in {"command", "data?", "gone"} /\ dotDue
    /\ owed = Len(Flight) - k + 1
    /\ IsDot(Flight[k])
    /\ \A i \in 1..(k - 1) : IsText(Flight[i])
    /\ \A i \in (k + 1)..Len(Flight) : IsCommand(i)

AtBody ==
    conn \in BodyStates => Composing \/ \E k \in 1..Len(Flight) : Ended(k)

\* The dot is not in the place where discardLine takes a line.
NotAfterLong ==
    conn \in BodyStates =>
        /\ \A i \in 1..Len(Flight) : Flight[i].body /\ Flight[i].verb = "long" =>
              /\ i < Len(Flight) => Flight[i + 1].verb # "dot"
              /\ i = Len(Flight) => framing = "long"
        /\ conn = "discard" =>
              /\ Len(Flight) > 0 => Flight[1].verb # "dot"
              /\ Len(Flight) = 0 => framing = "long"

\* What a line adds to the message.
Adds(l) == IF IsText(l) THEN Octets[l.verb] + 2 ELSE 0

\* f counts the octets of the message up to each line on its way; at the dot,
\* or at the last line sent, it has what the client composed.
Counts(f) ==
    /\ f[0] = buf
    /\ \A i \in 1..Len(Flight) : f[i] = f[i - 1] + Adds(Flight[i])
    /\ \A i \in 1..Len(Flight) : IsDot(Flight[i]) => f[i] = meant
    /\ ~dotDue => f[Len(Flight)] = meant

\* What the session has and what is on its way is what the client composed,
\* unless the message is already over a limit.
Composed ==
    conn \in {"dataloop", "dataread"} /\ ~oversize =>
        \E f \in [0..Len(Flight) -> Nat] : Counts(f)

Complete == \A m \in message : m.bytes = m.meant

FInv ==
    /\ client # "fault"
    /\ AtCommands /\ AtDispatch /\ AtHandshake /\ AtBody /\ NotAfterLong
    /\ Composed /\ Complete

Inv == SInv /\ (framing # "broken" => FInv)

-----------------------------------------------------------------------------
(* The lines on their way *)

\* Sequences by their elements.
LEMMA TailOf ==
    ASSUME NEW s \in Seq(Line), s # <<>>
    PROVE  /\ Len(s) \in Nat /\ Len(s) > 0
           /\ Tail(s) \in Seq(Line) /\ Len(Tail(s)) = Len(s) - 1
           /\ \A i \in 1..(Len(s) - 1) : Tail(s)[i] = s[i + 1]
           /\ Head(s) = s[1] /\ Head(s) \in Line
           /\ Len(s) = 1 => Tail(s) = <<>>
  <1>1. Len(s) \in Nat /\ Len(s) > 0
    OBVIOUS
  <1>2. Tail(s) \in Seq(Line) /\ Len(Tail(s)) = Len(s) - 1
    OBVIOUS
  <1>3. \A i \in 1..(Len(s) - 1) : Tail(s)[i] = s[i + 1]
    BY <1>2
  <1>4. Head(s) = s[1] /\ Head(s) \in Line
    BY <1>1
  <1>5. \A t \in Seq(Line) : Len(t) = 0 => t = <<>>
    OBVIOUS
  <1>6. Len(s) = 1 => Len(Tail(s)) = 0
    BY <1>2
  <1>7. Len(s) = 1 => Tail(s) = <<>>
    BY <1>2, <1>5, <1>6, Zenon
  <1> QED BY <1>1, <1>2, <1>3, <1>4, <1>7

LEMMA AppendOf ==
    ASSUME NEW s \in Seq(Line), NEW l \in Line
    PROVE  /\ Len(s) \in Nat
           /\ Append(s, l) \in Seq(Line) /\ Len(Append(s, l)) = Len(s) + 1
           /\ \A i \in 1..Len(s) : Append(s, l)[i] = s[i]
           /\ Append(s, l)[Len(s) + 1] = l
  OBVIOUS

LEMMA JoinOf ==
    ASSUME NEW s \in Seq(Line), NEW t \in Seq(Line)
    PROVE  /\ Len(s) \in Nat /\ Len(t) \in Nat
           /\ s \o t \in Seq(Line) /\ Len(s \o t) = Len(s) + Len(t)
           /\ \A i \in 1..Len(s) : (s \o t)[i] = s[i]
           /\ \A i \in 1..Len(t) : (s \o t)[Len(s) + i] = t[i]
  OBVIOUS

\* The lines on their way are those of s.r, then those of the socket.
LEMMA FlightOf ==
    ASSUME rbuf \in Seq(Line), wire \in Seq(Line)
    PROVE  /\ Flight \in Seq(Line) /\ Len(Flight) \in Nat
           /\ Len(Flight) = Len(rbuf) + Len(wire)
           /\ \A i \in 1..Len(Flight) : Flight[i] \in Line
           /\ rbuf # <<>> => Len(Flight) > 0 /\ Head(rbuf) = Flight[1]
  <1>1. /\ Flight \in Seq(Line) /\ Len(Flight) = Len(rbuf) + Len(wire)
        /\ \A i \in 1..Len(rbuf) : Flight[i] = rbuf[i]
        /\ Len(rbuf) \in Nat /\ Len(wire) \in Nat
    BY JoinOf DEF Flight
  <1>2. Len(Flight) \in Nat /\ \A i \in 1..Len(Flight) : Flight[i] \in Line
    BY <1>1
  <1>3. rbuf # <<>> => Len(Flight) > 0 /\ Head(rbuf) = Flight[1]
    <2>1. rbuf # <<>> => Len(rbuf) > 0 /\ Head(rbuf) = rbuf[1]
      BY TailOf
    <2> QED BY <1>1, <2>1
  <1> QED BY <1>1, <1>2, <1>3

\* A line is taken out of s.r.
LEMMA FlightTaken ==
    ASSUME TypeOK, rbuf # <<>>, rbuf' = Tail(rbuf), wire' = wire
    PROVE  /\ rbuf' \in Seq(Line) /\ Head(rbuf) = Flight[1] /\ Head(rbuf) \in Line
           /\ Len(Flight) \in Nat /\ Len(Flight) > 0
           /\ Len(Flight') = Len(Flight) - 1
           /\ \A i \in 1..(Len(Flight) - 1) : Flight'[i] = Flight[i + 1]
  <1>1. rbuf \in Seq(Line) /\ wire \in Seq(Line)
    BY DEF TypeOK
  <1>2. PICK r \in Nat : r = Len(rbuf) /\ r > 0 /\ Len(rbuf') = r - 1
                         /\ (\A i \in 1..(r - 1) : rbuf'[i] = rbuf[i + 1])
                         /\ rbuf' \in Seq(Line) /\ Head(rbuf) \in Line
    BY <1>1, TailOf
  <1>3. PICK w \in Nat : w = Len(wire)
    BY <1>1
  <1>4. /\ Len(Flight) = r + w /\ Head(rbuf) = Flight[1]
        /\ \A i \in 1..r : Flight[i] = rbuf[i]
        /\ \A i \in 1..w : Flight[r + i] = wire[i]
    BY <1>1, <1>2, <1>3, JoinOf, FlightOf DEF Flight
  <1>5. /\ Len(Flight') = r - 1 + w
        /\ \A i \in 1..(r - 1) : Flight'[i] = rbuf'[i]
        /\ \A i \in 1..w : Flight'[r - 1 + i] = wire[i]
    BY <1>1, <1>2, <1>3, JoinOf DEF Flight
  <1>6. ASSUME NEW i \in 1..(r + w - 1) PROVE Flight'[i] = Flight[i + 1]
    <2>1. CASE i < r
      <3>1. i \in 1..(r - 1) /\ i + 1 \in 1..r
        BY <2>1
      <3> QED BY <1>2, <1>4, <1>5, <3>1
    <2>2. CASE ~(i < r)
      <3>1. PICK j \in 1..w : i = r - 1 + j /\ i + 1 = r + j
        <4>1. i - r + 1 \in 1..w /\ i = r - 1 + (i - r + 1)
              /\ i + 1 = r + (i - r + 1)
          BY <2>2
        <4> QED BY <4>1
      <3> QED BY <1>4, <1>5, <3>1
    <2> QED BY <2>1, <2>2
  <1> QED BY <1>2, <1>4, <1>5, <1>6

\* A line moves from the socket to s.r.
LEMMA FlightFilled ==
    ASSUME TypeOK, wire # <<>>, rbuf' = Append(rbuf, Head(wire)),
           wire' = Tail(wire)
    PROVE  /\ rbuf' \in Seq(Line) /\ wire' \in Seq(Line)
           /\ Flight' = Flight
  <1>1. rbuf \in Seq(Line) /\ wire \in Seq(Line)
    BY DEF TypeOK
  <1>2. PICK w \in Nat : w = Len(wire) /\ w > 0 /\ Len(wire') = w - 1
                         /\ (\A i \in 1..(w - 1) : wire'[i] = wire[i + 1])
                         /\ wire' \in Seq(Line)
                         /\ Head(wire) = wire[1] /\ Head(wire) \in Line
    BY <1>1, TailOf
  <1>3. PICK r \in Nat : r = Len(rbuf) /\ Len(rbuf') = r + 1
                         /\ (\A i \in 1..r : rbuf'[i] = rbuf[i])
                         /\ rbuf'[r + 1] = wire[1] /\ rbuf' \in Seq(Line)
    BY <1>1, <1>2, AppendOf
  <1>4. /\ Flight \in Seq(Line) /\ Len(Flight) = r + w
        /\ \A i \in 1..r : Flight[i] = rbuf[i]
        /\ \A i \in 1..w : Flight[r + i] = wire[i]
    BY <1>1, <1>2, <1>3, JoinOf DEF Flight
  <1>5. /\ Flight' \in Seq(Line) /\ Len(Flight') = r + w
        /\ \A i \in 1..(r + 1) : Flight'[i] = rbuf'[i]
        /\ \A i \in 1..(w - 1) : Flight'[r + 1 + i] = wire'[i]
    BY <1>2, <1>3, JoinOf DEF Flight
  <1>6. ASSUME NEW i \in 1..(r + w) PROVE Flight'[i] = Flight[i]
    <2>1. CASE i <= r
      <3>1. i \in 1..r /\ i \in 1..(r + 1)
        BY <2>1
      <3> QED BY <1>3, <1>4, <1>5, <3>1
    <2>2. CASE i = r + 1
      <3>1. Flight'[r + 1] = wire[1]
        BY <1>3, <1>5
      <3>2. Flight[r + 1] = wire[1]
        BY <1>2, <1>4
      <3> QED BY <2>2, <3>1, <3>2
    <2>3. CASE i > r + 1
      <3>1. PICK j \in 1..(w - 1) : i = r + 1 + j /\ i = r + (j + 1) /\ j + 1 \in 1..w
        <4>1. i - r - 1 \in 1..(w - 1) /\ i = r + 1 + (i - r - 1)
              /\ i = r + ((i - r - 1) + 1) /\ (i - r - 1) + 1 \in 1..w
          BY <2>3
        <4> QED BY <4>1
      <3> QED BY <1>2, <1>4, <1>5, <3>1
    <2> QED BY <2>1, <2>2, <2>3
  <1>7. \A s, t \in Seq(Line) :
           Len(s) = Len(t) /\ (\A i \in 1..Len(s) : s[i] = t[i]) => s = t
    OBVIOUS
  <1>8. Len(Flight') = Len(Flight) /\ \A i \in 1..Len(Flight') : Flight'[i] = Flight[i]
    BY <1>4, <1>5, <1>6
  <1>9. Flight' = Flight
    BY <1>4, <1>5, <1>7, <1>8, Zenon
  <1> QED BY <1>2, <1>3, <1>9

\* The client sends a line.
LEMMA FlightSent ==
    ASSUME TypeOK, NEW l \in Line, rbuf' = rbuf, wire' = Append(wire, l)
    PROVE  /\ wire' \in Seq(Line)
           /\ Len(Flight) \in Nat /\ Len(Flight') = Len(Flight) + 1
           /\ \A i \in 1..Len(Flight) : Flight'[i] = Flight[i]
           /\ Flight'[Len(Flight) + 1] = l
  <1>1. rbuf \in Seq(Line) /\ wire \in Seq(Line)
    BY DEF TypeOK
  <1>2. PICK w \in Nat : w = Len(wire) /\ Len(wire') = w + 1
                         /\ (\A i \in 1..w : wire'[i] = wire[i])
                         /\ wire'[w + 1] = l /\ wire' \in Seq(Line)
    BY <1>1, AppendOf
  <1>3. PICK r \in Nat : r = Len(rbuf)
    BY <1>1
  <1>4. /\ Len(Flight) = r + w
        /\ \A i \in 1..r : Flight[i] = rbuf[i]
        /\ \A i \in 1..w : Flight[r + i] = wire[i]
    BY <1>1, <1>2, <1>3, JoinOf DEF Flight
  <1>5. /\ Len(Flight') = r + w + 1
        /\ \A i \in 1..r : Flight'[i] = rbuf[i]
        /\ \A i \in 1..(w + 1) : Flight'[r + i] = wire'[i]
    BY <1>1, <1>2, <1>3, JoinOf DEF Flight
  <1>6. ASSUME NEW i \in 1..(r + w) PROVE Flight'[i] = Flight[i]
    <2>1. CASE i <= r
      <3>1. i \in 1..r
        BY <2>1
      <3> QED BY <1>4, <1>5, <3>1
    <2>2. CASE i > r
      <3>1. PICK j \in 1..w : i = r + j /\ j \in 1..(w + 1)
        <4>1. i - r \in 1..w /\ i = r + (i - r) /\ i - r \in 1..(w + 1)
          BY <2>2
        <4> QED BY <4>1
      <3> QED BY <1>2, <1>4, <1>5, <3>1
    <2> QED BY <2>1, <2>2
  <1>7. Flight'[r + w + 1] = l
    <2>1. w + 1 \in 1..(w + 1) /\ r + (w + 1) = r + w + 1
      OBVIOUS
    <2> QED BY <1>2, <1>5, <2>1
  <1> QED BY <1>2, <1>4, <1>5, <1>6, <1>7

\* Nothing on its way.
LEMMA FlightEmpty ==
    ASSUME rbuf' = <<>>, wire' = <<>>
    PROVE  Len(Flight') = 0 /\ Len(rbuf') = 0 /\ Len(wire') = 0
           /\ rbuf' \in Seq(Line) /\ wire' \in Seq(Line)
  <1>1. /\ rbuf' \in Seq(Line) /\ wire' \in Seq(Line)
        /\ Len(rbuf') = 0 /\ Len(wire') = 0
    OBVIOUS
  <1>2. Len(rbuf' \o wire') = Len(rbuf') + Len(wire')
    BY <1>1, JoinOf
  <1> QED BY <1>1, <1>2 DEF Flight

-----------------------------------------------------------------------------
(* Steps, whatever the client sends *)

Speaking == {"command", "data?", "body", "gone", "fault"}

\* The reply is one that the client may hear now.
Due(code) == owed # 0 /\ (dotDue => code = 250)

\* What the client hears.
LEMMA Heard ==
    ASSUME TypeOK, NEW code, Reply(code)
    PROVE  /\ owed' = (IF owed > 0 THEN owed - 1 ELSE 0) /\ owed' \in Nat
           /\ meant' = 0 /\ ~dotDue' /\ framing' = framing
           /\ client = "gone" => client' = "gone"
           /\ client \in Speaking => client' \in Speaking
           /\ client = "command" /\ Due(code) => client' = "command"
           /\ client = "data?" /\ Due(code) /\ owed = 1 =>
                 client' = IF code = 354 THEN "body" ELSE "command"
           /\ client = "data?" /\ Due(code) /\ owed # 1 => client' = "data?"
  <1>1. /\ owed' = (IF owed > 0 THEN owed - 1 ELSE 0) /\ meant' = 0
        /\ ~dotDue' /\ framing' = framing
    BY Zenon DEF Reply
  <1>2. owed' \in Nat
    BY <1>1 DEF TypeOK
  <1>3. 1 # 0 /\ "gone" # "command" /\ "gone" # "data?" /\ "command" # "data?"
    OBVIOUS
  <1>4. CASE client = "gone"
    <2>1. client' = "gone"
      BY <1>3, <1>4, Zenon DEF Reply
    <2> QED BY <1>1, <1>2, <1>3, <1>4, <2>1 DEF Speaking
  <1>5. CASE client # "gone" /\ ~Due(code)
    <2>1. client' = "fault"
      BY <1>3, <1>5, Zenon DEF Reply, Due
    <2> QED BY <1>1, <1>2, <1>3, <1>5, <2>1 DEF Speaking
  <1>6. CASE client = "data?" /\ owed = 1 /\ Due(code)
    <2>1. client' = IF code = 354 THEN "body" ELSE "command"
      BY <1>3, <1>6, Zenon DEF Reply, Due
    <2> QED BY <1>1, <1>2, <1>3, <1>6, <2>1 DEF Speaking
  <1>7. CASE client # "gone" /\ Due(code) /\ ~(client = "data?" /\ owed = 1)
    <2>1. client' = client
      BY <1>7, Zenon DEF Reply, Due
    <2> QED BY <1>1, <1>2, <1>3, <1>7, <2>1 DEF Speaking
  <1> QED BY <1>4, <1>5, <1>6, <1>7

\* A reply that the client waits for, other than 354.
LEMMA HeardDue ==
    ASSUME TypeOK, NEW code, Reply(code), code # 354, Due(code),
           client \in {"command", "data?", "gone"}
    PROVE  /\ owed' = owed - 1 /\ ~dotDue'
           /\ client' \in {"command", "data?", "gone"}
           /\ client = "gone" => client' = "gone"
           /\ client = "data?" /\ owed # 1 => client' = "data?"
  <1>1. owed # 0 /\ owed \in Nat
    <2>1. owed # 0
      BY Zenon DEF Due
    <2> QED BY <2>1 DEF TypeOK
  <1>2. owed' = owed - 1 /\ ~dotDue'
    BY <1>1, Heard
  <1>3. /\ client = "gone" => client' = "gone"
        /\ client = "command" => client' = "command"
        /\ client = "data?" /\ owed = 1 => client' = "command"
        /\ client = "data?" /\ owed # 1 => client' = "data?"
    BY Heard
  <1> QED BY <1>2, <1>3

\* Outside of accept and handshake the client speaks SMTP.
LEMMA Speaks ==
    ASSUME SInv, conn \notin {"accepted", "handshake", "closed"}
    PROVE  /\ client \in Speaking
           /\ \A i \in 1..Len(wire) : wire[i].verb # "hello"
  BY DEF SInv, TypeOK, HelloLast, Speaking

\* A line taken out of s.r leaves the others as they are.
LEMMA TakenS ==
    ASSUME SInv, rbuf # <<>>, rbuf' = Tail(rbuf), UNCHANGED <<wire, encrypted>>
    PROVE  /\ rbuf' \in Seq(Line) /\ wire' \in Seq(Line) /\ Marked'
           /\ \A i \in 1..Len(rbuf') : rbuf'[i].verb # "hello"
           /\ Head(rbuf) \in Line /\ Head(rbuf).verb # "hello"
  <1>1. rbuf \in Seq(Line) /\ wire \in Seq(Line)
    BY DEF SInv, TypeOK
  <1>2. /\ Len(rbuf) \in Nat /\ Len(rbuf) > 0 /\ rbuf' \in Seq(Line)
        /\ Len(rbuf') = Len(rbuf) - 1 /\ Head(rbuf) \in Line
        /\ Head(rbuf) = rbuf[1]
        /\ \A i \in 1..(Len(rbuf) - 1) : rbuf'[i] = rbuf[i + 1]
    BY <1>1, TailOf
  <1>3. \A i \in 1..Len(rbuf') : rbuf'[i] = rbuf[i + 1] /\ i + 1 \in 1..Len(rbuf)
    BY <1>2
  <1>4. Marked'
    BY <1>3 DEF SInv, Marked
  <1>5. \A i \in 1..Len(rbuf') : rbuf'[i].verb # "hello"
    BY <1>3 DEF SInv, HelloLast
  <1>6. 1 \in 1..Len(rbuf)
    BY <1>2
  <1>7. Head(rbuf).verb # "hello"
    BY <1>2, <1>6 DEF SInv, HelloLast
  <1> QED BY <1>1, <1>2, <1>4, <1>5, <1>7

\* No message is dispatched outside of Dispatch.
LEMMA NoMessage ==
    ASSUME SInv, conn # "dispatch", conn' # "dispatch", message' = message
    PROVE  /\ message = {} /\ conn' = "dispatch" <=> message' # {}
  BY DEF SInv, TypeOK

\* A reply is sent, and the session goes on with commands or ends.
LEMMA RepliedS ==
    ASSUME SInv, conn \notin {"accepted", "handshake", "closed"},
           conn' \in {"loop", "closed"}, message' = {},
           NEW code, Reply(code), UNCHANGED <<mode, left, wait, wire, encrypted>>,
           \/ rbuf # <<>> /\ rbuf' = Tail(rbuf)
           \/ rbuf' = rbuf,
           helo' \in BOOLEAN, inTx' \in BOOLEAN, from' \in Senders \cup {None},
           rcpt' \in Routed \cup {None}, TxRecord',
           buf' \in 0..MaxMessageBytes, total' \in Nat, oversize' \in BOOLEAN
    PROVE  SInv'
  <1>1. /\ rbuf' \in Seq(Line) /\ wire' \in Seq(Line) /\ Marked'
        /\ \A i \in 1..Len(rbuf') : rbuf'[i].verb # "hello"
    <2>1. CASE rbuf # <<>> /\ rbuf' = Tail(rbuf)
      BY <2>1, TakenS
    <2>2. CASE rbuf' = rbuf
      BY <2>2 DEF SInv, TypeOK, Marked, HelloLast
    <2> QED BY <2>1, <2>2
  <1>2. client \in Speaking /\ \A i \in 1..Len(wire) : wire[i].verb # "hello"
    BY Speaks
  <1>3. /\ client' \in Speaking /\ owed' \in Nat /\ meant' = 0
        /\ ~dotDue' /\ framing' = framing
    BY <1>2, Heard DEF SInv
  <1>4. TypeOK'
    <2>1. /\ mode' \in Modes /\ left' \in 0..SessionTimeout
          /\ wait' \in 0..CommandTimeout /\ encrypted' \in BOOLEAN
          /\ framing' \in {"plain", "long", "broken"}
      BY <1>3 DEF SInv, TypeOK
    <2>2. dotDue' \in BOOLEAN
      BY Zenon DEF Reply
    <2> QED BY <1>1, <1>3, <2>1, <2>2 DEF TypeOK, Speaking
  <1>5. HelloLast'
    BY <1>1, <1>2, <1>3 DEF HelloLast, Speaking
  <1>6. Deciding' /\ AtAccept' /\ Buffered' /\ OneTransaction' /\ Fits'
    BY DEF Deciding, BodyStates, AtAccept, Buffered, OneTransaction, Fits
  <1> QED BY <1>1, <1>4, <1>5, <1>6 DEF SInv

\* A transaction that stays as it is keeps its record.
LEMMA SameTx ==
    ASSUME SInv, UNCHANGED tx, encrypted' = encrypted
    PROVE  /\ helo' \in BOOLEAN /\ inTx' \in BOOLEAN
           /\ from' \in Senders \cup {None} /\ rcpt' \in Routed \cup {None}
           /\ TxRecord'
  BY DEF SInv, TypeOK, TxRecord, tx

LEMMA SameBody ==
    ASSUME SInv, UNCHANGED <<buf, total, oversize>>
    PROVE  buf' \in 0..MaxMessageBytes /\ total' \in Nat /\ oversize' \in BOOLEAN
  BY DEF SInv, TypeOK

\* resetTx leaves nothing.
LEMMA Reset ==
    ASSUME ResetTx
    PROVE  /\ inTx' \in BOOLEAN
           /\ from' \in Senders \cup {None} /\ rcpt' \in Routed \cup {None}
           /\ TxRecord'
  BY DEF ResetTx, TxRecord, NoOrigin

\* A step that touches neither the lines nor the transaction nor the client.
LEMMA QuietS ==
    ASSUME SInv,
           UNCHANGED <<mode, wire, rbuf, encrypted, helo, inTx, from, rcpt,
                       origin, buf, total, oversize, client, owed, dotDue, meant,
                       framing, message>>,
           left' \in 0..SessionTimeout, wait' \in 0..CommandTimeout,
           \/ conn' = conn
           \/ conn = "loop" /\ conn' = "read"
           \/ conn = "dataloop" /\ conn' = "dataread"
           \/ conn # "dispatch" /\ conn' = "closed"
    PROVE  SInv'
  <1>1. TypeOK'
    BY DEF SInv, TypeOK, Operating, Reading
  <1>2. TxRecord' /\ Deciding' /\ Marked' /\ Buffered'
    BY DEF SInv, TxRecord, Deciding, BodyStates, Marked, Buffered
  <1>3. HelloLast' /\ AtAccept'
    BY DEF SInv, HelloLast, AtAccept
  <1>4. OneTransaction' /\ Fits'
    BY DEF SInv, OneTransaction, Fits
  <1> QED BY <1>1, <1>2, <1>3, <1>4 DEF SInv

\* A command of conn = "read" that is answered and leaves the body alone.
LEMMA AnsweredS ==
    ASSUME SInv, conn \in {"read", "decide"}, conn' \in {"loop", "closed"},
           rbuf # <<>>, rbuf' = Tail(rbuf), NEW code, Reply(code),
           UNCHANGED <<mode, left, wait, wire, encrypted, buf, total, oversize,
                       message>>,
           helo' \in BOOLEAN, inTx' \in BOOLEAN, from' \in Senders \cup {None},
           rcpt' \in Routed \cup {None}, TxRecord'
    PROVE  SInv'
  <1>1. message' = {}
    BY NoMessage
  <1>2. buf' \in 0..MaxMessageBytes /\ total' \in Nat /\ oversize' \in BOOLEAN
    BY SameBody
  <1> QED BY <1>1, <1>2, RepliedS

-----------------------------------------------------------------------------
(* Steps, as long as the framing is not broken *)

\* After the end of the session nothing more is promised.
LEMMA ClosedF ==
    ASSUME conn' = "closed", client' # "fault", message' = {}
    PROVE  FInv'
  BY DEF FInv, AtCommands, CommandStates, AtDispatch, AtHandshake, AtBody, BodyStates,
         NotAfterLong, Composed, Complete

\* Nothing changes but the place of the session goroutine.
LEMMA QuietF ==
    ASSUME FInv,
           UNCHANGED <<wire, rbuf, buf, oversize, client, owed, dotDue, meant,
                       framing, message>>,
           \/ conn' = conn
           \/ conn = "loop" /\ conn' = "read"
           \/ conn = "read" /\ conn' = "decide"
           \/ conn = "dataloop" /\ conn' = "dataread"
           \/ conn # "dispatch" /\ conn' = "closed"
    PROVE  FInv'
  <1>1. Flight' = Flight
    BY DEF Flight
  <1>2. \A i : IsCommand(i)' <=> IsCommand(i)
    BY <1>1 DEF IsCommand
  <1>3. \A k : Ended(k)' <=> Ended(k)
    BY <1>1, <1>2 DEF Ended
  <1>4. Composing' <=> Composing
    BY <1>1 DEF Composing
  <1>5. \A f : Counts(f)' <=> Counts(f)
    BY <1>1 DEF Counts
  <1>6. AtCommands' /\ AtDispatch'
    BY <1>1, <1>2 DEF FInv, AtCommands, CommandStates, AtDispatch, Commanded
  <1>7. AtHandshake'
    BY <1>1 DEF FInv, AtHandshake
  <1>8. AtBody'
    BY <1>1, <1>3, <1>4 DEF FInv, AtBody, BodyStates
  <1>9. NotAfterLong'
    BY <1>1 DEF FInv, NotAfterLong, BodyStates
  <1>10. Composed'
    BY <1>1, <1>5 DEF FInv, Composed
  <1>11. Complete' /\ client' # "fault"
    BY DEF FInv, Complete
  <1> QED BY <1>6, <1>7, <1>8, <1>9, <1>10, <1>11 DEF FInv

\* The session reads commands, and every line on its way is one.
LEMMA CommandsF ==
    ASSUME conn' \in {"loop", "read", "decide"},
           client' \in {"command", "data?", "gone"}, ~dotDue',
           owed' = Len(Flight'), \A i \in 1..Len(Flight') : IsCommand(i)',
           message' = {}
    PROVE  FInv'
  <1>1. AtCommands'
    BY DEF AtCommands, Commanded
  <1>2. AtDispatch' /\ AtHandshake' /\ AtBody' /\ NotAfterLong' /\ Composed' /\ Complete'
    BY DEF AtDispatch, AtHandshake, AtBody, BodyStates, NotAfterLong, Composed,
           Complete
  <1> QED BY <1>1, <1>2 DEF FInv

\* A command is taken from s.r and answered, other than by 354.
LEMMA AnsweredF ==
    ASSUME SInv, FInv, conn \in {"read", "decide"}, conn' \in {"loop", "closed"},
           rbuf # <<>>, rbuf' = Tail(rbuf), wire' = wire, message' = {},
           NEW code, Reply(code), code # 354
    PROVE  FInv'
  <1>1. /\ client \in {"command", "data?", "gone"} /\ ~dotDue
        /\ owed = Len(Flight) /\ \A i \in 1..Len(Flight) : IsCommand(i)
    BY DEF FInv, AtCommands, CommandStates, Commanded
  <1>2. PICK n \in Nat : n = Len(Flight) /\ n > 0 /\ Len(Flight') = n - 1
                         /\ \A i \in 1..(n - 1) : Flight'[i] = Flight[i + 1]
    BY FlightTaken DEF SInv
  <1>3. /\ owed' = n - 1 /\ ~dotDue'
        /\ client = "gone" => client' = "gone"
        /\ client = "data?" /\ n # 1 => client' = "data?"
        /\ client' \in {"command", "data?", "gone"}
    <2>1. Due(code)
      BY <1>1, <1>2 DEF Due
    <2> QED BY <1>1, <1>2, <2>1, HeardDue DEF SInv
  <1>5. CASE conn' = "closed"
    BY <1>3, <1>5, ClosedF
  <1>6. CASE conn' = "loop"
    <2>1. ASSUME NEW i \in 1..(n - 1) PROVE IsCommand(i)'
      <3>1. i + 1 \in 1..n /\ n # 1 /\ (i + 1 = n => i = n - 1)
        OBVIOUS
      <3>2. /\ ~Flight'[i].body /\ Flight'[i].verb \notin Dots
            /\ Flight'[i].verb = "DATA" => i + 1 = n /\ client \in {"data?", "gone"}
        BY <1>1, <1>2, <3>1 DEF IsCommand
      <3> QED BY <1>2, <1>3, <3>1, <3>2 DEF IsCommand
    <2> QED BY <1>2, <1>3, <1>6, <2>1, CommandsF
  <1> QED BY <1>5, <1>6

\* Both invariants, after a command that is answered other than by 354.
LEMMA AnsweredInv ==
    ASSUME Inv, conn \in {"read", "decide"}, conn' \in {"loop", "closed"},
           rbuf # <<>>, rbuf' = Tail(rbuf), NEW code, Reply(code), code # 354,
           UNCHANGED <<mode, left, wait, wire, encrypted, buf, total, oversize,
                       message>>,
           helo' \in BOOLEAN, inTx' \in BOOLEAN, from' \in Senders \cup {None},
           rcpt' \in Routed \cup {None}, TxRecord'
    PROVE  Inv'
  <1>1. SInv'
    BY AnsweredS DEF Inv
  <1>2. framing' = framing
    BY Heard DEF Inv, SInv
  <1>3. message' = {}
    BY NoMessage DEF Inv
  <1>4. framing # "broken" => FInv'
    BY <1>3, AnsweredF DEF Inv
  <1> QED BY <1>1, <1>2, <1>4 DEF Inv

\* Both invariants, after a step that leaves lines and client alone.
LEMMA QuietInv ==
    ASSUME Inv,
           UNCHANGED <<mode, wire, rbuf, encrypted, helo, inTx, from, rcpt,
                       origin, buf, total, oversize, client, owed, dotDue, meant,
                       framing, message>>,
           left' \in 0..SessionTimeout, wait' \in 0..CommandTimeout,
           \/ conn' = conn
           \/ conn = "loop" /\ conn' = "read"
           \/ conn = "dataloop" /\ conn' = "dataread"
           \/ conn # "dispatch" /\ conn' = "closed"
    PROVE  Inv'
  <1>1. SInv'
    BY QuietS DEF Inv
  <1>2. framing # "broken" => FInv'
    BY QuietF DEF Inv
  <1> QED BY <1>1, <1>2 DEF Inv

-----------------------------------------------------------------------------
(* The commands *)

LEMMA PlainCommandInv ==
    ASSUME Inv, LineTooLong \/ HandleQUIT \/ HandleOther \/ HandleRSET
    PROVE  Inv'
  <1> USE DEF line, body
  <1>1. conn = "read" /\ conn' \in {"loop", "closed"} /\ rbuf # <<>>
        /\ rbuf' = Tail(rbuf)
    BY DEF LineTooLong, HandleQUIT, HandleOther, HandleRSET, Close, Loop, Take
  <1>2. \E code : Reply(code) /\ code # 354
    <2>1. CASE LineTooLong
      BY <2>1 DEF LineTooLong
    <2>2. CASE HandleQUIT
      BY <2>2 DEF HandleQUIT
    <2>3. CASE HandleRSET
      BY <2>3 DEF HandleRSET
    <2>4. CASE HandleOther
      <3>1. \E code \in {250, 502, 500} : Reply(code)
        BY <2>4 DEF HandleOther
      <3> QED BY <3>1
    <2> QED BY <2>1, <2>2, <2>3, <2>4
  <1>3. UNCHANGED <<mode, left, wait, wire, encrypted, buf, total, oversize, message>>
    BY DEF LineTooLong, HandleQUIT, HandleOther, HandleRSET
  <1>4. /\ helo' \in BOOLEAN /\ inTx' \in BOOLEAN
        /\ from' \in Senders \cup {None} /\ rcpt' \in Routed \cup {None}
        /\ TxRecord'
    <2>1. CASE HandleRSET
      <3>1. ResetTx /\ helo' = helo
        BY <2>1 DEF HandleRSET
      <3> QED BY <3>1, Reset DEF Inv, SInv, TypeOK
    <2>2. CASE LineTooLong \/ HandleQUIT \/ HandleOther
      <3>1. UNCHANGED tx
        BY <2>2 DEF LineTooLong, HandleQUIT, HandleOther
      <3> QED BY <1>3, <3>1, SameTx DEF Inv
    <2> QED BY <2>1, <2>2
  <1> QED BY <1>1, <1>2, <1>3, <1>4, AnsweredInv

LEMMA HandleEHLOInv ==
    ASSUME Inv, HandleEHLO
    PROVE  Inv'
  <1> USE DEF line, body
  <1>1. conn = "read" /\ conn' = "loop" /\ rbuf # <<>> /\ rbuf' = Tail(rbuf)
        /\ UNCHANGED <<mode, left, wait, wire, encrypted, buf, total, oversize,
                       message>>
    BY DEF HandleEHLO, Loop, Take
  <1>2. CASE Reply(501) /\ UNCHANGED tx
    BY <1>1, <1>2, SameTx, AnsweredInv DEF Inv
  <1>3. CASE helo' = TRUE /\ ResetTx /\ Reply(250)
    BY <1>1, <1>3, Reset, AnsweredInv
  <1> QED BY <1>2, <1>3 DEF HandleEHLO

LEMMA DecidedInv ==
    ASSUME Inv, Decided
    PROVE  Inv'
  <1> USE DEF line, body
  <1>1. conn = "decide" /\ conn' \in {"loop", "closed"} /\ rbuf # <<>>
        /\ rbuf' = Tail(rbuf)
        /\ UNCHANGED <<mode, left, wait, wire, encrypted, buf, total, oversize,
                       message>>
    BY DEF Decided, Loop, Close, Take
  <1>2. CASE \E code \in {451, 550} : Reply(code) /\ UNCHANGED tx
    BY <1>1, <1>2, SameTx, AnsweredInv DEF Inv
  <1>3. CASE /\ from' = Head(rbuf).arg /\ inTx' = TRUE
             /\ origin' = [from |-> from', fromTLS |-> encrypted, rcpt |-> None]
             /\ Reply(250) /\ UNCHANGED <<helo, rcpt>>
    <2>1. Head(rbuf).arg \in Senders /\ ~inTx
      BY <1>1 DEF Inv, SInv, Deciding
    <2>2. rcpt = None
      BY <2>1 DEF Inv, SInv, TxRecord
    <2>3. TxRecord'
      BY <1>1, <1>3, <2>2 DEF TxRecord
    <2>4. /\ helo' \in BOOLEAN /\ inTx' \in BOOLEAN
          /\ from' \in Senders \cup {None} /\ rcpt' \in Routed \cup {None}
      BY <1>3, <2>1, <2>2 DEF Inv, SInv, TypeOK
    <2> QED BY <1>1, <1>3, <2>3, <2>4, AnsweredInv
  <1> QED BY <1>2, <1>3 DEF Decided

LEMMA HandleRCPTInv ==
    ASSUME Inv, HandleRCPT
    PROVE  Inv'
  <1> USE DEF line, body
  <1>1. conn = "read" /\ conn' \in {"loop", "closed"} /\ rbuf # <<>>
        /\ rbuf' = Tail(rbuf)
        /\ UNCHANGED <<mode, left, wait, wire, encrypted, buf, total, oversize,
                       message>>
    BY DEF HandleRCPT, Loop, Close, Take
  <1>2. CASE UNCHANGED tx /\ \E code \in {503, 452, 501, 550} : Reply(code)
    BY <1>1, <1>2, SameTx, AnsweredInv DEF Inv
  <1>3. CASE /\ inTx /\ rcpt = None /\ Head(rbuf).arg \in Routed
             /\ rcpt' = Head(rbuf).arg
             /\ origin' = [origin EXCEPT !.rcpt = Head(rbuf).arg]
             /\ Reply(250) /\ UNCHANGED <<helo, inTx, from>>
    <2>1. origin = [from |-> from, fromTLS |-> encrypted, rcpt |-> None]
      BY <1>3 DEF Inv, SInv, TxRecord
    <2>2. origin' = [from |-> from, fromTLS |-> encrypted, rcpt |-> rcpt']
      BY <1>3, <2>1
    <2>3. TxRecord'
      BY <1>1, <1>3, <2>2 DEF TxRecord
    <2>4. /\ helo' \in BOOLEAN /\ inTx' \in BOOLEAN
          /\ from' \in Senders \cup {None} /\ rcpt' \in Routed \cup {None}
      BY <1>3 DEF Inv, SInv, TypeOK
    <2> QED BY <1>1, <1>3, <2>3, <2>4, AnsweredInv
  <1>4. \/ UNCHANGED tx /\ \E code \in {503, 452, 501, 550} : Reply(code)
        \/ /\ inTx /\ rcpt = None /\ Head(rbuf).arg \in Routed
           /\ rcpt' = Head(rbuf).arg
           /\ origin' = [origin EXCEPT !.rcpt = Head(rbuf).arg]
           /\ Reply(250) /\ UNCHANGED <<helo, inTx, from>>
    BY DEF HandleRCPT
  <1> QED BY <1>2, <1>3, <1>4

LEMMA HandleMAILInv ==
    ASSUME Inv, HandleMAIL
    PROVE  Inv'
  <1> USE DEF line, body
  <1>1. conn = "read" /\ rbuf # <<>> /\ UNCHANGED tx
        /\ UNCHANGED <<mode, left, wire, encrypted, buf, total, oversize, message>>
    BY DEF HandleMAIL
  <1>2. CASE /\ rbuf' = Tail(rbuf) /\ wait' = wait /\ conn' \in {"loop", "closed"}
             /\ \E code \in {501, 503} : Reply(code)
    BY <1>1, <1>2, SameTx, AnsweredInv DEF Inv
  <1>3. CASE /\ helo /\ ~inTx /\ Head(rbuf).arg \in Senders
             /\ conn' = "decide" /\ wait' = CommandTimeout
             /\ UNCHANGED <<rbuf, peer>>
    <2> USE DEF peer
    <2>1. TypeOK'
      BY <1>1, <1>3, SessionAssumption
         DEF SessionAssumption, Inv, SInv, TypeOK, tx, Operating
    <2>2. TxRecord' /\ Deciding' /\ Buffered'
      BY <1>1, <1>3 DEF Inv, SInv, TxRecord, Deciding, BodyStates, tx, Buffered
    <2>3. Marked' /\ HelloLast' /\ AtAccept'
      BY <1>1, <1>3 DEF Inv, SInv, Marked, HelloLast, AtAccept
    <2>4. OneTransaction' /\ Fits'
      BY <1>1 DEF Inv, SInv, OneTransaction, Fits
    <2>5. framing # "broken" => FInv'
      BY <1>1, <1>3, QuietF DEF Inv
    <2> QED BY <1>3, <2>1, <2>2, <2>3, <2>4, <2>5 DEF Inv, SInv
  <1>4. \/ /\ rbuf' = Tail(rbuf) /\ wait' = wait /\ conn' \in {"loop", "closed"}
           /\ \E code \in {501, 503} : Reply(code)
        \/ /\ helo /\ ~inTx /\ Head(rbuf).arg \in Senders
           /\ conn' = "decide" /\ wait' = CommandTimeout
           /\ UNCHANGED <<rbuf, peer>>
    BY DEF HandleMAIL, Take, Loop, Close
  <1> QED BY <1>2, <1>3, <1>4

\* A bare line feed ends the session.
LEMMA BareLineFeedInv ==
    ASSUME Inv, BareLineFeed
    PROVE  Inv'
  <1> USE DEF BareLineFeed, Close, Take, line, tx, body, peer
  <1>1. UNCHANGED <<mode, left, wait, wire, encrypted, helo, inTx, from, rcpt,
                    origin, buf, total, oversize, client, owed, dotDue, meant,
                    framing, message>>
        /\ conn = "read" /\ conn' = "closed" /\ rbuf # <<>> /\ rbuf' = Tail(rbuf)
    OBVIOUS
  <1>2. /\ rbuf' \in Seq(Line) /\ wire' \in Seq(Line) /\ Marked'
        /\ \A i \in 1..Len(rbuf') : rbuf'[i].verb # "hello"
    BY <1>1, TakenS DEF Inv
  <1>3. message' = {} /\ (conn' = "dispatch" <=> message' # {})
    BY <1>1, NoMessage DEF Inv
  <1>4. TypeOK' /\ TxRecord'
    BY <1>1, <1>2, <1>3 DEF Inv, SInv, TypeOK, TxRecord
  <1>5. HelloLast'
    BY <1>1, <1>2 DEF Inv, SInv, HelloLast
  <1>6. Deciding' /\ AtAccept' /\ Buffered' /\ OneTransaction' /\ Fits'
    BY <1>1, <1>3 DEF Deciding, BodyStates, AtAccept, Buffered, OneTransaction, Fits
  <1>7. framing # "broken" => FInv'
    <2>1. framing # "broken" => client' # "fault"
      BY <1>1 DEF Inv, FInv
    <2> QED BY <1>1, <1>3, <2>1, ClosedF
  <1> QED BY <1>1, <1>2, <1>4, <1>5, <1>6, <1>7 DEF Inv, SInv

-----------------------------------------------------------------------------
(* Connection, reads and TLS *)

\* A connection starts with nothing on its way.
LEMMA InitInv == Init => Inv
  <1> SUFFICES ASSUME Init PROVE Inv
    OBVIOUS
  <1>1. Len(rbuf) = 0 /\ Len(wire) = 0 /\ rbuf = <<>> /\ wire = <<>>
    BY DEF Init
  <1>2. TypeOK
    <2>1. rbuf \in Seq(Line) /\ wire \in Seq(Line)
      BY DEF Init
    <2>2. encrypted \in BOOLEAN
      BY DEF Init
    <2>3. left \in 0..SessionTimeout /\ wait \in 0..CommandTimeout
          /\ buf \in 0..MaxMessageBytes /\ total \in Nat /\ owed \in Nat
          /\ meant \in Nat
      BY SessionAssumption DEF SessionAssumption, Init
    <2> QED BY <2>1, <2>2, <2>3 DEF Init, TypeOK
  <1>3. TxRecord /\ Deciding /\ Buffered
    BY DEF Init, TxRecord, Deciding, BodyStates, Buffered
  <1>4. Marked /\ HelloLast /\ AtAccept
    BY <1>1 DEF Init, Marked, HelloLast, AtAccept
  <1>5. OneTransaction /\ Fits
    BY DEF Init, OneTransaction, Fits
  <1>6. FInv
    BY DEF Init, FInv, AtCommands, CommandStates, AtDispatch, AtHandshake, AtBody,
           BodyStates, NotAfterLong, Composed, Complete
  <1> QED BY <1>2, <1>3, <1>4, <1>5, <1>6 DEF Inv, SInv

\* A read is started, or the session's time is over.
LEMMA ArmInv ==
    ASSUME Inv, ReadCommand \/ ReadBody
    PROVE  Inv'
  <1> USE DEF ReadCommand, ReadBody, Arm, Close, line, tx, body, peer
  <1>1. UNCHANGED <<mode, wire, rbuf, encrypted, helo, inTx, from, rcpt, origin,
                    buf, total, oversize, client, owed, dotDue, meant, framing,
                    message>>
    OBVIOUS
  <1>2. \/ conn = "loop" /\ conn' = "read"
        \/ conn = "dataloop" /\ conn' = "dataread"
        \/ conn # "dispatch" /\ conn' = "closed"
    OBVIOUS
  <1>3. wait' \in 0..CommandTimeout /\ left' \in 0..SessionTimeout
    BY SessionAssumption DEF SessionAssumption, Inv, SInv, TypeOK
  <1> QED BY <1>1, <1>2, <1>3, QuietInv

\* Time passes.
LEMMA PassInv ==
    ASSUME Inv, Pass
    PROVE  Inv'
  <1> USE DEF Pass, tx, body, peer
  <1>1. UNCHANGED <<mode, conn, wire, rbuf, encrypted, helo, inTx, from, rcpt, origin,
                    buf, total, oversize, client, owed, dotDue, meant, framing,
                    message>>
    OBVIOUS
  <1>2. left' \in 0..SessionTimeout
    BY SessionAssumption DEF SessionAssumption, Inv, SInv, TypeOK
  <1>3. wait' \in 0..CommandTimeout
    BY SessionAssumption DEF SessionAssumption, Inv, SInv, TypeOK
  <1> QED BY <1>1, <1>2, <1>3, QuietInv

LEMMA StutterInv ==
    ASSUME Inv, UNCHANGED vars
    PROVE  Inv'
  <1>1. left' \in 0..SessionTimeout /\ wait' \in 0..CommandTimeout
    BY DEF vars, Inv, SInv, TypeOK
  <1> QED BY <1>1, QuietInv DEF vars

\* A failed read ends the session.
LEMMA ReadFailsInv ==
    ASSUME Inv, ReadFails
    PROVE  Inv'
  <1> USE DEF ReadFails, Close, line, tx, body, peer
  <1>1. UNCHANGED <<mode, left, wait, wire, rbuf, encrypted, helo, inTx, from, rcpt,
                    origin, buf, total, oversize, client, owed, dotDue, meant,
                    framing, message>>
    OBVIOUS
  <1>2. conn # "dispatch" /\ conn' = "closed"
    BY DEF Reading
  <1>3. left' \in 0..SessionTimeout /\ wait' \in 0..CommandTimeout
    BY <1>1 DEF Inv, SInv, TypeOK
  <1> QED BY <1>1, <1>2, <1>3, QuietInv

\* The lines only change places.
LEMMA FillInv ==
    ASSUME Inv, Fill
    PROVE  Inv'
  <1> USE DEF Fill, line, tx, body, peer
  <1>1. UNCHANGED <<mode, left, wait, conn, encrypted, helo, inTx, from, rcpt,
                    origin, buf, total, oversize, client, owed, dotDue, meant,
                    framing, message>>
        /\ wire # <<>> /\ Head(wire).verb # "hello" /\ conn \in Reading
        /\ rbuf' = Append(rbuf, Head(wire)) /\ wire' = Tail(wire)
    OBVIOUS
  <1>2. rbuf' \in Seq(Line) /\ wire' \in Seq(Line) /\ Flight' = Flight
    BY <1>1, FlightFilled DEF Inv, SInv
  <1>3. rbuf \in Seq(Line) /\ wire \in Seq(Line)
    BY DEF Inv, SInv, TypeOK
  <1>4. /\ Len(wire) \in Nat /\ Len(wire) > 0 /\ Len(wire') = Len(wire) - 1
        /\ \A i \in 1..(Len(wire) - 1) : wire'[i] = wire[i + 1]
        /\ Head(wire) = wire[1] /\ Head(wire) \in Line
    BY <1>1, <1>3, TailOf
  <1>5. /\ Len(rbuf) \in Nat /\ Len(rbuf') = Len(rbuf) + 1
        /\ \A i \in 1..Len(rbuf) : rbuf'[i] = rbuf[i]
        /\ rbuf'[Len(rbuf) + 1] = wire[1]
    BY <1>1, <1>3, <1>4, AppendOf
  <1>6. \A i \in 1..Len(rbuf') : \/ i \in 1..Len(rbuf) /\ rbuf'[i] = rbuf[i]
                                 \/ rbuf'[i] = wire[1]
    BY <1>5
  <1>7. 1 \in 1..Len(wire)
        /\ \A i \in 1..Len(wire') : wire'[i] = wire[i + 1] /\ i + 1 \in 1..Len(wire)
    BY <1>4
  <1>8. Marked'
    BY <1>1, <1>6, <1>7 DEF Inv, SInv, Marked
  <1>9. HelloLast'
    <2>1. \A i \in 1..Len(wire) : wire[i].verb # "hello"
      BY <1>1 DEF Inv, SInv, HelloLast, Reading
    <2> QED BY <1>1, <1>6, <1>7, <2>1 DEF Inv, SInv, HelloLast
  <1>10. TypeOK'
    BY <1>1, <1>2 DEF Inv, SInv, TypeOK
  <1>11. TxRecord' /\ Deciding' /\ AtAccept' /\ Buffered'
    BY <1>1 DEF Inv, SInv, TxRecord, Deciding, BodyStates, AtAccept, Buffered, Reading
  <1>12. OneTransaction' /\ Fits'
    BY <1>1 DEF Inv, SInv, OneTransaction, Fits
  <1>13. ASSUME FInv PROVE FInv'
    <2>1. \A i : IsCommand(i)' <=> IsCommand(i)
      BY <1>1, <1>2 DEF IsCommand
    <2>2. \A k : Ended(k)' <=> Ended(k)
      BY <1>1, <1>2, <2>1 DEF Ended
    <2>3. Composing' <=> Composing
      BY <1>1, <1>2 DEF Composing
    <2>4. \A f : Counts(f)' <=> Counts(f)
      BY <1>1, <1>2 DEF Counts
    <2>5. AtCommands' /\ AtDispatch'
      BY <1>1, <1>2, <1>13, <2>1 DEF FInv, AtCommands, AtDispatch, Commanded
    <2>6. AtHandshake' /\ NotAfterLong'
      BY <1>1, <1>2, <1>13 DEF FInv, AtHandshake, NotAfterLong
    <2>7. AtBody'
      BY <1>1, <1>2, <1>13, <2>2, <2>3 DEF FInv, AtBody
    <2>8. Composed' /\ Complete' /\ client' # "fault"
      BY <1>1, <1>2, <1>13, <2>4 DEF FInv, Composed, Complete
    <2> QED BY <2>5, <2>6, <2>7, <2>8 DEF FInv
  <1> QED BY <1>1, <1>8, <1>9, <1>10, <1>11, <1>12, <1>13 DEF Inv, SInv

\* Commands are read from an empty queue.
LEMMA StartCommands ==
    ASSUME SInv, conn # "dispatch", conn' = "loop", rbuf' = <<>>, wire' = <<>>,
           owed' = 0, ~dotDue', client' \in {"command", "gone"},
           UNCHANGED <<mode, left, wait, buf, total, oversize, owed, dotDue, meant,
                       framing, message>>,
           encrypted' \in BOOLEAN, helo' \in BOOLEAN, inTx' \in BOOLEAN,
           from' \in Senders \cup {None}, rcpt' \in Routed \cup {None}, TxRecord'
    PROVE  SInv' /\ FInv'
  <1>1. /\ Len(Flight') = 0 /\ Len(rbuf') = 0 /\ Len(wire') = 0
        /\ rbuf' \in Seq(Line) /\ wire' \in Seq(Line)
    BY FlightEmpty
  <1>2. message' = {} /\ (conn' = "dispatch" <=> message' # {})
    BY NoMessage
  <1>3. TypeOK'
    BY <1>1, <1>2 DEF SInv, TypeOK
  <1>4. Marked' /\ HelloLast'
    BY <1>1 DEF Marked, HelloLast
  <1>5. Deciding' /\ AtAccept' /\ Buffered' /\ OneTransaction' /\ Fits'
    BY <1>2 DEF Deciding, BodyStates, AtAccept, Buffered, OneTransaction, Fits
  <1>6. FInv'
    <2>1. \A i \in 1..Len(Flight') : IsCommand(i)'
      BY <1>1
    <2> QED BY <1>1, <1>2, <2>1, CommandsF
  <1> QED BY <1>3, <1>4, <1>5, <1>6 DEF SInv

\* The handshake takes the first bytes, and nothing comes after them.
LEMMA HelloIsAll ==
    ASSUME SInv, wire # <<>>, Head(wire).verb = "hello"
    PROVE  Tail(wire) = <<>>
  <1>1. Len(wire) \in Nat /\ Len(wire) > 0 /\ Head(wire) = wire[1]
        /\ (Len(wire) = 1 => Tail(wire) = <<>>)
    BY TailOf DEF SInv, TypeOK
  <1>2. 1 \in 1..Len(wire) /\ wire[1].verb = "hello"
    BY <1>1
  <1>3. 1 = Len(wire)
    BY <1>2 DEF SInv, HelloLast
  <1> QED BY <1>1, <1>3

LEMMA GreetInv ==
    ASSUME Inv, Greet
    PROVE  Inv'
  <1> USE DEF Greet, line, tx, body
  <1>1. conn = "accepted" /\ UNCHANGED <<mode, left, wait, rbuf, encrypted, helo,
            inTx, from, rcpt, origin, buf, total, oversize, owed, dotDue, meant,
            framing, message>>
    OBVIOUS
  <1>2. /\ rbuf = <<>> /\ owed = 0 /\ ~dotDue
        /\ \A i \in 1..Len(wire) : wire[i].verb = "hello"
        /\ mode # "implicit" => wire = <<>>
    BY <1>1 DEF Inv, SInv, AtAccept
  <1>3. wire # <<>> => Head(wire).verb = "hello" /\ Tail(wire) = <<>>
    <2>1. wire # <<>> => Head(wire) = wire[1] /\ 1 \in 1..Len(wire)
      BY TailOf DEF Inv, SInv, TypeOK
    <2> QED BY <1>2, <2>1, HelloIsAll DEF Inv
  <1>4. TxRecord' /\ helo' \in BOOLEAN /\ inTx' \in BOOLEAN /\ encrypted' \in BOOLEAN
        /\ from' \in Senders \cup {None} /\ rcpt' \in Routed \cup {None}
    BY <1>1 DEF Inv, SInv, TypeOK, TxRecord
  <1>5. CASE conn' = "loop" /\ client' \in {"command", "gone"} /\ wire' = <<>>
    BY <1>1, <1>2, <1>4, <1>5, StartCommands DEF Inv
  <1>6. CASE conn' = "closed" /\ UNCHANGED <<wire, client>>
    <2>1. left' \in 0..SessionTimeout /\ wait' \in 0..CommandTimeout
      BY <1>1 DEF Inv, SInv, TypeOK
    <2> QED BY <1>1, <1>6, <2>1, QuietInv
  <1>7. CASE mode # "implicit"
    <2>1. conn' = "loop" /\ client' \in {"command", "gone"} /\ wire' = wire
      BY <1>7 DEF Loop
    <2> QED BY <1>2, <1>5, <1>7, <2>1
  <1>8. CASE mode = "implicit"
    BY <1>3, <1>5, <1>6, <1>8 DEF Loop, Close
  <1> QED BY <1>7, <1>8

\* 220 is sent; commands that were pipelined after STARTTLS are owed nothing.
LEMMA HandleSTARTTLSInv ==
    ASSUME Inv, HandleSTARTTLS
    PROVE  Inv'
  <1> USE DEF line, body
  <1>1. conn = "read" /\ rbuf # <<>> /\ rbuf' = Tail(rbuf) /\ UNCHANGED tx
        /\ UNCHANGED <<mode, left, wire, encrypted, buf, total, oversize, message>>
    BY DEF HandleSTARTTLS, Take
  <1>2. CASE conn' = "loop" /\ wait' = wait /\ \E code \in {501, 502, 503} : Reply(code)
    BY <1>1, <1>2, SameTx, AnsweredInv DEF Inv
  <1>3. CASE /\ conn' = "handshake" /\ wait' = CommandTimeout /\ owed' = 0
             /\ client' = (IF client = "gone" THEN "gone" ELSE "tls")
             /\ UNCHANGED <<dotDue, meant, framing>>
    <2>1. /\ rbuf' \in Seq(Line) /\ wire' \in Seq(Line) /\ Marked'
          /\ \A i \in 1..Len(rbuf') : rbuf'[i].verb # "hello"
      BY <1>1, TakenS DEF Inv
    <2>2. \A i \in 1..Len(wire) : wire[i].verb # "hello"
      BY <1>1, Speaks DEF Inv
    <2>3. client' \in {"tls", "gone"}
      BY <1>3
    <2>4. HelloLast'
      BY <1>1, <1>3, <2>1, <2>2, <2>3 DEF HelloLast
    <2>5. message' = {} /\ (conn' = "dispatch" <=> message' # {})
      BY <1>1, <1>3, NoMessage DEF Inv
    <2>6. /\ TxRecord' /\ helo' \in BOOLEAN /\ inTx' \in BOOLEAN
          /\ from' \in Senders \cup {None} /\ rcpt' \in Routed \cup {None}
      BY <1>1, SameTx DEF Inv
    <2>7. TypeOK'
      BY <1>1, <1>3, <2>1, <2>3, <2>5, <2>6, SessionAssumption
         DEF SessionAssumption, Inv, SInv, TypeOK, Operating
    <2>8. Deciding' /\ AtAccept' /\ Buffered' /\ OneTransaction' /\ Fits'
      BY <1>3, <2>5 DEF Deciding, BodyStates, AtAccept, Buffered, OneTransaction,
                        Fits
    <2>9. ASSUME FInv PROVE FInv'
      <3>1. ~dotDue /\ \A i \in 1..Len(Flight) : ~Flight[i].body
        BY <1>1, <2>9 DEF FInv, AtCommands, CommandStates, Commanded, IsCommand
      <3>2. PICK n \in Nat : n = Len(Flight) /\ n > 0 /\ Len(Flight') = n - 1
                             /\ \A i \in 1..(n - 1) : Flight'[i] = Flight[i + 1]
        BY <1>1, FlightTaken DEF Inv, SInv
      <3>3. ASSUME NEW i \in 1..(n - 1) PROVE ~Flight'[i].body
        <4>1. i + 1 \in 1..n
          OBVIOUS
        <4> QED BY <3>1, <3>2, <4>1
      <3>4. AtHandshake'
        BY <1>3, <3>1, <3>2, <3>3 DEF AtHandshake
      <3>5. /\ AtCommands' /\ AtDispatch' /\ AtBody' /\ NotAfterLong' /\ Composed'
            /\ Complete' /\ client' # "fault"
        BY <1>3, <2>3, <2>5 DEF AtCommands, CommandStates, AtDispatch, AtBody,
                      BodyStates, NotAfterLong, Composed, Complete
      <3> QED BY <3>4, <3>5 DEF FInv
    <2> QED BY <1>3, <2>1, <2>4, <2>6, <2>7, <2>8, <2>9 DEF Inv, SInv
  <1>4. \/ conn' = "loop" /\ wait' = wait /\ \E code \in {501, 502, 503} : Reply(code)
        \/ /\ conn' = "handshake" /\ wait' = CommandTimeout /\ owed' = 0
           /\ client' = (IF client = "gone" THEN "gone" ELSE "tls")
           /\ UNCHANGED <<dotDue, meant, framing>>
    <2>1. \/ Reply(501) /\ Loop /\ wait' = wait
          \/ Reply(502) /\ Loop /\ wait' = wait
          \/ Reply(503) /\ Loop /\ wait' = wait
          \/ /\ conn' = "handshake" /\ wait' = CommandTimeout /\ owed' = 0
             /\ client' = (IF client = "gone" THEN "gone" ELSE "tls")
             /\ UNCHANGED <<dotDue, meant, framing>>
      BY Zenon DEF HandleSTARTTLS
    <2> QED BY <2>1 DEF Loop
  <1> QED BY <1>2, <1>3, <1>4

\* The reader is replaced and the session starts over; or the session ends.
LEMMA HandshakeInv ==
    ASSUME Inv, Handshake
    PROVE  Inv'
  <1> USE DEF body
  <1>1. conn = "handshake" /\ UNCHANGED <<mode, left, wait, buf, total, oversize,
            owed, dotDue, meant, framing, message>>
    BY DEF Handshake
  <1>2. CASE /\ wire # <<>> /\ Head(wire).verb = "hello" /\ wire' = Tail(wire)
             /\ rbuf' = <<>> /\ encrypted' = TRUE /\ helo' = FALSE /\ ResetTx
             /\ client' = (IF client = "gone" THEN "gone" ELSE "command")
             /\ conn' = "loop"
    <2>1. wire' = <<>>
      BY <1>2, HelloIsAll DEF Inv
    <2>2. SInv'
      <3>1. /\ Len(rbuf') = 0 /\ Len(wire') = 0
            /\ rbuf' \in Seq(Line) /\ wire' \in Seq(Line)
        BY <1>2, <2>1, FlightEmpty
      <3>2. message' = {} /\ (conn' = "dispatch" <=> message' # {})
        BY <1>1, <1>2, NoMessage DEF Inv
      <3>3. /\ TxRecord' /\ inTx' \in BOOLEAN
            /\ from' \in Senders \cup {None} /\ rcpt' \in Routed \cup {None}
        BY <1>2, Reset
      <3>4. client' \in {"command", "gone"}
        BY <1>2
      <3>5. TypeOK'
        BY <1>1, <1>2, <3>1, <3>2, <3>3, <3>4 DEF Inv, SInv, TypeOK
      <3>6. Marked' /\ HelloLast'
        <4>1. \A i : i \notin 1..Len(rbuf') /\ i \notin 1..Len(wire')
          BY <3>1
        <4>2. Marked'
          BY <4>1, Zenon DEF Marked
        <4> QED BY <1>2, <3>4, <4>1, <4>2 DEF HelloLast
      <3>7. Deciding' /\ AtAccept' /\ Buffered' /\ OneTransaction' /\ Fits'
        BY <1>2, <3>2 DEF Deciding, BodyStates, AtAccept, Buffered, OneTransaction,
                          Fits
      <3> QED BY <3>3, <3>5, <3>6, <3>7 DEF SInv
    <2>3. ASSUME FInv PROVE FInv'
      <3>1. owed = 0 /\ ~dotDue
        BY <1>1, <2>3 DEF FInv, AtHandshake
      <3>2. client' \in {"command", "gone"}
        BY <1>2
      <3>3. Len(Flight') = 0
        BY <1>2, <2>1, FlightEmpty
      <3>4. message' = {}
        BY <1>1, <1>2, NoMessage DEF Inv
      <3>5. \A i \in 1..Len(Flight') : IsCommand(i)'
        BY <3>3
      <3> QED BY <1>1, <1>2, <3>1, <3>2, <3>3, <3>4, <3>5, CommandsF
    <2> QED BY <1>1, <2>2, <2>3 DEF Inv
  <1>3. CASE conn' = "closed" /\ UNCHANGED <<wire, rbuf, encrypted, tx, client>>
    <2>1. left' \in 0..SessionTimeout /\ wait' \in 0..CommandTimeout
      BY <1>1 DEF Inv, SInv, TypeOK
    <2> QED BY <1>1, <1>3, <2>1, QuietInv DEF tx
  <1> QED BY <1>2, <1>3 DEF Handshake, Loop, Close

\* 354 starts the body: the client waits, and nothing is on its way.
LEMMA HandleDATAInv ==
    ASSUME Inv, HandleDATA
    PROVE  Inv'
  <1> USE DEF line
  <1>1. conn = "read" /\ rbuf # <<>> /\ rbuf' = Tail(rbuf) /\ UNCHANGED tx
        /\ UNCHANGED <<mode, left, wait, wire, encrypted, message>>
        /\ Head(rbuf).verb = "DATA"
    BY DEF HandleDATA, Take
  <1>2. CASE conn' = "loop" /\ UNCHANGED body /\ \E code \in {501, 503} : Reply(code)
    BY <1>1, <1>2, SameTx, AnsweredInv DEF Inv, body
  <1>3. CASE /\ inTx /\ Reply(354) /\ conn' = "dataloop"
             /\ buf' = 0 /\ total' = 0 /\ oversize' = FALSE
    <2>1. /\ rbuf' \in Seq(Line) /\ wire' \in Seq(Line) /\ Marked'
          /\ \A i \in 1..Len(rbuf') : rbuf'[i].verb # "hello"
      BY <1>1, TakenS DEF Inv
    <2>2. client \in Speaking /\ \A i \in 1..Len(wire) : wire[i].verb # "hello"
      BY <1>1, Speaks DEF Inv
    <2>3. /\ client' \in Speaking /\ owed' \in Nat /\ meant' = 0 /\ ~dotDue'
          /\ framing' = framing
      BY <1>3, <2>2, Heard DEF Inv, SInv
    <2>4. dotDue' \in BOOLEAN
      BY <1>3, Zenon DEF Reply
    <2>5. message' = {} /\ (conn' = "dispatch" <=> message' # {})
      BY <1>1, <1>3, NoMessage DEF Inv
    <2>6. /\ TxRecord' /\ helo' \in BOOLEAN /\ inTx' \in BOOLEAN
          /\ from' \in Senders \cup {None} /\ rcpt' \in Routed \cup {None}
      BY <1>1, SameTx DEF Inv
    <2>7. TypeOK'
      <3>1. /\ mode' \in Modes /\ left' \in 0..SessionTimeout
            /\ wait' \in 0..CommandTimeout /\ encrypted' \in BOOLEAN
            /\ framing' \in {"plain", "long", "broken"}
        BY <1>1, <2>3 DEF Inv, SInv, TypeOK
      <3>2. buf' \in 0..MaxMessageBytes /\ total' \in Nat /\ oversize' \in BOOLEAN
        <4>1. buf' \in 0..MaxMessageBytes /\ total' \in Nat
          BY <1>3, SessionAssumption DEF SessionAssumption
        <4>2. oversize' \in BOOLEAN
          BY <1>3, Zenon
        <4> QED BY <4>1, <4>2
      <3> QED BY <1>3, <2>1, <2>3, <2>4, <2>5, <2>6, <3>1, <3>2
              DEF TypeOK, Speaking, BodyStates
    <2>8. HelloLast'
      BY <1>1, <1>3, <2>1, <2>2, <2>3 DEF HelloLast, Speaking
    <2>9. Deciding' /\ AtAccept' /\ Buffered' /\ OneTransaction' /\ Fits'
      BY <1>1, <1>3, <2>5 DEF Deciding, BodyStates, AtAccept, Buffered,
                              OneTransaction, Fits, tx
    <2>10. ASSUME FInv PROVE FInv'
      <3>1. /\ client \in {"command", "data?", "gone"} /\ ~dotDue
            /\ owed = Len(Flight) /\ \A i \in 1..Len(Flight) : IsCommand(i)
        BY <1>1, <2>10 DEF FInv, AtCommands, CommandStates, Commanded
      <3>2. PICK n \in Nat : n = Len(Flight) /\ n > 0 /\ Len(Flight') = n - 1
                             /\ Flight[1].verb = "DATA"
        BY <1>1, FlightTaken DEF Inv, SInv
      <3>3. 1 \in 1..n
        BY <3>2
      <3>4. 1 = n /\ client \in {"data?", "gone"}
        BY <3>1, <3>2, <3>3 DEF IsCommand
      <3>5. Len(Flight') = 0 /\ owed = 1
        <4>1. n = 1
          BY <3>4
        <4>2. Len(Flight') = n - 1 /\ owed = n
          BY <3>1, <3>2
        <4> QED BY <4>1, <4>2
      <3>6. Due(354)
        BY <3>1, <3>2, <3>4 DEF Due
      <3>7. client' \in {"body", "gone"} /\ owed' = 0
        <4>1. TypeOK
          BY DEF Inv, SInv
        <4>2. owed' = 0
          BY <1>3, <3>5, <4>1, Heard
        <4>3. CASE client = "gone"
          BY <1>3, <4>1, <4>2, <4>3, Heard
        <4>4. CASE client = "data?"
          BY <1>3, <3>5, <3>6, <4>1, <4>2, <4>4, Heard
        <4> QED BY <3>4, <4>3, <4>4
      <3>8. Composing'
        BY <2>3, <3>5, <3>7 DEF Composing
      <3>9. AtBody' /\ NotAfterLong'
        BY <1>3, <3>5, <3>8 DEF AtBody, NotAfterLong
      <3>10. Composed'
        <4> DEFINE f == [i \in 0..0 |-> 0]
        <4>1. f \in [0..0 -> Nat] /\ f[0] = 0
          OBVIOUS
        <4>2. Counts(f)'
          BY <1>3, <2>3, <3>5, <4>1 DEF Counts
        <4> QED BY <3>5, <4>1, <4>2 DEF Composed
      <3>11. AtCommands' /\ AtDispatch' /\ AtHandshake' /\ Complete' /\ client' # "fault"
        BY <1>3, <2>5, <3>7 DEF AtCommands, CommandStates, AtDispatch, AtHandshake,
                               Complete
      <3> QED BY <3>9, <3>10, <3>11 DEF FInv
    <2> QED BY <2>1, <2>3, <2>6, <2>7, <2>8, <2>9, <2>10 DEF Inv, SInv
  <1> QED BY <1>2, <1>3 DEF HandleDATA, Loop

-----------------------------------------------------------------------------
(* The body *)

\* readBody appends the text of a line and a CRLF, whatever ended the line and
\* whether or not it began with a doubled dot.
LEMMA AppendedIs ==
    ASSUME NEW v \in Verbs \ {"hello"}
    PROVE  Octets[v] \in Nat /\ Appended(v) = Octets[v] + 2
  <1>1. Octets[v] \in Nat
    BY SessionAssumption DEF SessionAssumption, Verbs
  <1>2. Ending(v) \in {1, 2, 3}
    BY DEF Ending
  <1>3. Stuffed(v) \in Nat
    BY <1>1 DEF Stuffed
  <1>4. Trimmed(v) = Stuffed(v)
    BY <1>2, <1>3 DEF Trimmed, Received
  <1>5. Unstuffed(v) = Octets[v]
    BY <1>1, <1>4 DEF Unstuffed, Stuffed
  <1> QED BY <1>1, <1>5 DEF Appended

LEMMA AddsNat ==
    ASSUME NEW l
    PROVE  /\ Adds(l) \in Nat
           /\ IsText(l) => Adds(l) = Octets[l.verb] + 2
           /\ IsDot(l) => Adds(l) = 0
           /\ ~l.body => Adds(l) = 0
  <1>1. IsText(l) => Octets[l.verb] \in Nat
    BY SessionAssumption DEF SessionAssumption, IsText
  <1>2. CASE IsText(l)
    <2>1. l.body /\ ~IsDot(l)
      BY <1>2 DEF IsText, IsDot, Dots
    <2> QED BY <1>1, <1>2, <2>1 DEF Adds
  <1>3. CASE ~IsText(l)
    BY <1>3 DEF Adds
  <1> QED BY <1>2, <1>3

\* A line of the body is read, and the session stays in the body.
LEMMA BodyS ==
    ASSUME SInv, conn \in BodyStates, conn' \in BodyStates,
           rbuf # <<>>, rbuf' = Tail(rbuf),
           UNCHANGED <<line, wait, wire, tx, peer, message>>,
           buf' \in 0..MaxMessageBytes, total' \in Nat, oversize' \in BOOLEAN,
           Buffered'
    PROVE  SInv'
  <1> USE DEF line, peer
  <1>1. /\ rbuf' \in Seq(Line) /\ wire' \in Seq(Line) /\ Marked'
        /\ \A i \in 1..Len(rbuf') : rbuf'[i].verb # "hello"
    BY TakenS
  <1>2. /\ TxRecord' /\ helo' \in BOOLEAN /\ inTx' \in BOOLEAN
        /\ from' \in Senders \cup {None} /\ rcpt' \in Routed \cup {None}
    BY SameTx
  <1>3. client \in Speaking /\ \A i \in 1..Len(wire) : wire[i].verb # "hello"
    BY Speaks DEF BodyStates
  <1>4. message' = {} /\ (conn' = "dispatch" <=> message' # {})
    BY NoMessage DEF BodyStates
  <1>5. TypeOK'
    BY <1>1, <1>2, <1>4 DEF SInv, TypeOK
  <1>6. HelloLast'
    BY <1>1, <1>3 DEF HelloLast, Speaking, BodyStates
  <1>7. Deciding' /\ AtAccept'
    BY DEF SInv, Deciding, BodyStates, AtAccept, tx
  <1>8. OneTransaction' /\ Fits'
    BY <1>4 DEF OneTransaction, Fits
  <1> QED BY <1>1, <1>2, <1>5, <1>6, <1>7, <1>8 DEF SInv

\* A line that is not the dot is text, and the dot comes one line nearer.
LEMMA BodyTaken ==
    ASSUME SInv, FInv, conn \in BodyStates, rbuf # <<>>, rbuf' = Tail(rbuf),
           wire' = wire, UNCHANGED peer, Head(rbuf).verb # "dot"
    PROVE  /\ IsText(Head(rbuf))
           /\ Composing' \/ \E k \in 1..Len(Flight') : Ended(k)'
           /\ \A i \in 1..Len(Flight') :
                 Flight'[i].body /\ Flight'[i].verb = "long" =>
                    /\ i < Len(Flight') => Flight'[i + 1].verb # "dot"
                    /\ i = Len(Flight') => framing = "long"
           /\ Head(rbuf).verb = "long" =>
                 /\ Len(Flight') > 0 => Flight'[1].verb # "dot"
                 /\ Len(Flight') = 0 => framing = "long"
  <1>1. PICK n \in Nat : n = Len(Flight) /\ n > 0 /\ Len(Flight') = n - 1
                         /\ (\A i \in 1..(n - 1) : Flight'[i] = Flight[i + 1])
                         /\ Head(rbuf) = Flight[1]
    BY FlightTaken DEF SInv
  <1>2. UNCHANGED <<client, owed, dotDue, meant, framing>>
    BY DEF peer
  <1>3. Composing \/ \E k \in 1..n : Ended(k)
    BY <1>1 DEF FInv, AtBody
  <1>4. /\ IsText(Flight[1])
        /\ Composing' \/ \E k \in 1..(n - 1) : Ended(k)'
    <2>1. CASE Composing
      <3>1. /\ client \in {"body", "gone"} /\ owed = 0 /\ ~dotDue
            /\ \A i \in 1..n : IsText(Flight[i])
        BY <1>1, <2>1 DEF Composing
      <3>2. 1 \in 1..n /\ \A i \in 1..(n - 1) : i + 1 \in 1..n
        BY <1>1
      <3>3. \A i \in 1..(n - 1) : IsText(Flight'[i])
        BY <1>1, <3>1, <3>2
      <3>4. Composing'
        BY <1>1, <1>2, <3>1, <3>3 DEF Composing
      <3> QED BY <3>1, <3>2, <3>4
    <2>2. CASE \E k \in 1..n : Ended(k)
      <3>1. PICK k \in 1..n : Ended(k)
        BY <2>2
      <3>2. /\ client \in {"command", "data?", "gone"} /\ dotDue
            /\ owed = n - k + 1 /\ IsDot(Flight[k])
            /\ \A i \in 1..(k - 1) : IsText(Flight[i])
            /\ \A i \in (k + 1)..n : IsCommand(i)
        BY <1>1, <3>1 DEF Ended
      <3>3. k # 1
        BY <1>1, <3>2 DEF IsDot
      <3>4. k - 1 \in 1..(n - 1) /\ 1 \in 1..(k - 1) /\ (k - 1) + 1 = k
        BY <3>3
      <3>5. IsDot(Flight'[k - 1])
        BY <1>1, <3>2, <3>4
      <3>6. ASSUME NEW i \in 1..((k - 1) - 1) PROVE IsText(Flight'[i])
        <4>1. i + 1 \in 1..(k - 1) /\ i \in 1..(n - 1)
          BY <3>4
        <4> QED BY <1>1, <3>2, <4>1
      <3>7. ASSUME NEW i \in ((k - 1) + 1)..(n - 1) PROVE IsCommand(i)'
        <4>1. i + 1 \in (k + 1)..n /\ i \in 1..(n - 1) /\ (i + 1 = n => i = n - 1)
          BY <3>4
        <4>2. /\ ~Flight'[i].body /\ Flight'[i].verb \notin Dots
              /\ Flight'[i].verb = "DATA" => i + 1 = n /\ client \in {"data?", "gone"}
          BY <1>1, <3>2, <4>1 DEF IsCommand
        <4> QED BY <1>1, <1>2, <4>1, <4>2 DEF IsCommand
      <3>8. owed' = (n - 1) - (k - 1) + 1
        BY <1>2, <3>2
      <3>9. Ended(k - 1)'
        BY <1>1, <1>2, <3>2, <3>5, <3>6, <3>7, <3>8 DEF Ended
      <3> QED BY <3>2, <3>4, <3>9
    <2> QED BY <1>3, <2>1, <2>2
  <1>5. \A i \in 1..n : Flight[i].body /\ Flight[i].verb = "long" =>
              /\ i < n => Flight[i + 1].verb # "dot"
              /\ i = n => framing = "long"
    BY <1>1 DEF FInv, NotAfterLong
  <1>6. ASSUME NEW i \in 1..(n - 1), Flight'[i].body, Flight'[i].verb = "long"
        PROVE  /\ i < n - 1 => Flight'[i + 1].verb # "dot"
               /\ i = n - 1 => framing = "long"
    <2>1. /\ i + 1 \in 1..n /\ (i < n - 1 => i + 1 < n /\ i + 1 \in 1..(n - 1))
          /\ (i = n - 1 => i + 1 = n)
      OBVIOUS
    <2>2. Flight[i + 1].body /\ Flight[i + 1].verb = "long"
      BY <1>1, <1>6
    <2>3. /\ i + 1 < n => Flight[(i + 1) + 1].verb # "dot"
          /\ i + 1 = n => framing = "long"
      BY <1>5, <2>1, <2>2
    <2>4. i + 1 \in 1..(n - 1) => Flight'[i + 1] = Flight[(i + 1) + 1]
      BY <1>1
    <2> QED BY <2>1, <2>3, <2>4
  <1>7. ASSUME Flight[1].verb = "long"
        PROVE  /\ n - 1 > 0 => Flight'[1].verb # "dot"
               /\ n - 1 = 0 => framing = "long"
    <2>1. Flight[1].body
      BY <1>4 DEF IsText
    <2>2. 1 \in 1..n /\ (n - 1 > 0 => 1 < n /\ 1 \in 1..(n - 1)) /\ (n - 1 = 0 => 1 = n)
      BY <1>1
    <2>3. (1 < n => Flight[1 + 1].verb # "dot") /\ (1 = n => framing = "long")
      BY <1>5, <1>7, <2>1, <2>2
    <2>4. 1 \in 1..(n - 1) => Flight'[1] = Flight[1 + 1]
      BY <1>1
    <2> QED BY <2>2, <2>3, <2>4
  <1> QED BY <1>1, <1>4, <1>6, <1>7

LEMMA BodyTooLongInv ==
    ASSUME Inv, BodyTooLong
    PROVE  Inv'
  <1> USE DEF BodyTooLong, Take
  <1>1. /\ conn = "dataread" /\ conn' = "discard" /\ rbuf # <<>>
        /\ rbuf' = Tail(rbuf) /\ Head(rbuf).verb = "long"
        /\ UNCHANGED <<line, wait, wire, tx, body, peer, message>>
    OBVIOUS
  <1>2. SInv'
    <2>1. buf' \in 0..MaxMessageBytes /\ total' \in Nat /\ oversize' \in BOOLEAN
      BY <1>1, SameBody DEF Inv, body
    <2>2. Buffered'
      BY <1>1 DEF Buffered
    <2> QED BY <1>1, <2>1, <2>2, BodyS DEF Inv, BodyStates
  <1>3. ASSUME FInv PROVE FInv'
    <2>1. /\ Composing' \/ \E k \in 1..Len(Flight') : Ended(k)'
          /\ \A i \in 1..Len(Flight') :
                 Flight'[i].body /\ Flight'[i].verb = "long" =>
                    /\ i < Len(Flight') => Flight'[i + 1].verb # "dot"
                    /\ i = Len(Flight') => framing = "long"
          /\ Len(Flight') > 0 => Flight'[1].verb # "dot"
          /\ Len(Flight') = 0 => framing = "long"
      BY <1>1, <1>3, BodyTaken DEF Inv, BodyStates
    <2>2. AtBody'
      BY <2>1 DEF AtBody
    <2>3. framing' = framing
      BY <1>1 DEF peer
    <2>4. NotAfterLong'
      BY <2>1, <2>3 DEF NotAfterLong
    <2>5. message' = {}
      BY <1>1, NoMessage DEF Inv
    <2>6. /\ AtCommands' /\ AtDispatch' /\ AtHandshake' /\ Composed' /\ Complete'
          /\ client' # "fault"
      BY <1>1, <1>3, <2>5 DEF AtCommands, CommandStates, AtDispatch, AtHandshake,
                              Composed, Complete, FInv, peer
    <2> QED BY <2>2, <2>4, <2>6 DEF FInv
  <1> QED BY <1>1, <1>2, <1>3 DEF Inv, peer

LEMMA DiscardLineInv ==
    ASSUME Inv, DiscardLine
    PROVE  Inv'
  <1> USE DEF DiscardLine
  <1>1. /\ conn = "discard" /\ conn' = "dataloop" /\ rbuf # <<>>
        /\ rbuf' = Tail(rbuf) /\ buf' = 0 /\ oversize'
        /\ UNCHANGED <<line, wait, wire, tx, total, peer, message>>
    OBVIOUS
  <1>2. SInv'
    <2>1. buf' \in 0..MaxMessageBytes /\ total' \in Nat
      BY <1>1, SessionAssumption DEF SessionAssumption, Inv, SInv, TypeOK
    <2>2. oversize' \in BOOLEAN
      BY Zenon
    <2>3. Buffered'
      BY <1>1 DEF Buffered
    <2> QED BY <1>1, <2>1, <2>2, <2>3, BodyS DEF Inv, BodyStates
  <1>3. ASSUME FInv PROVE FInv'
    <2>1. Head(rbuf).verb # "dot"
      <3>1. Len(Flight) > 0 /\ Head(rbuf) = Flight[1]
        BY <1>1, FlightOf DEF Inv, SInv, TypeOK
      <3> QED BY <1>1, <1>3, <3>1 DEF FInv, NotAfterLong, BodyStates
    <2>2. /\ Composing' \/ \E k \in 1..Len(Flight') : Ended(k)'
          /\ \A i \in 1..Len(Flight') :
                 Flight'[i].body /\ Flight'[i].verb = "long" =>
                    /\ i < Len(Flight') => Flight'[i + 1].verb # "dot"
                    /\ i = Len(Flight') => framing = "long"
      BY <1>1, <1>3, <2>1, BodyTaken DEF Inv, BodyStates
    <2>3. AtBody'
      BY <2>2 DEF AtBody
    <2>4. framing' = framing
      BY <1>1 DEF peer
    <2>5. NotAfterLong'
      BY <1>1, <2>2, <2>4 DEF NotAfterLong
    <2>6. message' = {}
      BY <1>1, NoMessage DEF Inv
    <2>7. /\ AtCommands' /\ AtDispatch' /\ AtHandshake' /\ Composed' /\ Complete'
          /\ client' # "fault"
      BY <1>1, <1>3, <2>6 DEF AtCommands, CommandStates, AtDispatch, AtHandshake,
                              Composed, Complete, FInv, peer
    <2> QED BY <2>3, <2>5, <2>7 DEF FInv
  <1> QED BY <1>1, <1>2, <1>3 DEF Inv, peer

\* A line is appended to the message.
LEMMA CountTaken ==
    ASSUME TypeOK, rbuf # <<>>, rbuf' = Tail(rbuf), wire' = wire,
           NEW f \in [0..Len(Flight) -> Nat], Counts(f),
           buf' = buf + Adds(Head(rbuf)), UNCHANGED <<meant, dotDue>>
    PROVE  \E g \in [0..Len(Flight') -> Nat] : Counts(g)'
  <1>1. PICK n \in Nat : n = Len(Flight) /\ n > 0 /\ Len(Flight') = n - 1
                         /\ (\A i \in 1..(n - 1) : Flight'[i] = Flight[i + 1])
                         /\ Head(rbuf) = Flight[1]
    BY FlightTaken
  <1>2. /\ f \in [0..n -> Nat] /\ f[0] = buf
        /\ \A i \in 1..n : f[i] = f[i - 1] + Adds(Flight[i])
        /\ \A i \in 1..n : IsDot(Flight[i]) => f[i] = meant
        /\ ~dotDue => f[n] = meant
    BY <1>1 DEF Counts
  <1> DEFINE g == [i \in 0..(n - 1) |-> f[i + 1]]
  <1>3. \A i \in 0..(n - 1) : g[i] = f[i + 1] /\ f[i + 1] \in Nat
    <2>1. \A i \in 0..(n - 1) : i + 1 \in 0..n
      OBVIOUS
    <2> QED BY <1>2, <2>1
  <1>4. g \in [0..(n - 1) -> Nat]
    BY <1>3
  <1> HIDE DEF g
  <1>5. g[0] = buf'
    <2>1. 1 \in 1..n /\ 0 \in 0..(n - 1) /\ 0 + 1 = 1 /\ 1 - 1 = 0
      BY <1>1
    <2>2. f[1] = f[1 - 1] + Adds(Flight[1])
      BY <1>2, <2>1
    <2> QED BY <1>1, <1>2, <1>3, <2>1, <2>2
  <1>6. ASSUME NEW i \in 1..(n - 1)
        PROVE  /\ g[i] = g[i - 1] + Adds(Flight'[i])
               /\ IsDot(Flight'[i]) => g[i] = meant
    <2>1. /\ i \in 0..(n - 1) /\ i - 1 \in 0..(n - 1) /\ i + 1 \in 1..n
          /\ (i + 1) - 1 = i /\ (i - 1) + 1 = i
      OBVIOUS
    <2>2. g[i] = f[i + 1] /\ g[i - 1] = f[i]
      BY <1>3, <2>1
    <2>3. f[i + 1] = f[i] + Adds(Flight[i + 1]) /\ Flight'[i] = Flight[i + 1]
          /\ (IsDot(Flight[i + 1]) => f[i + 1] = meant)
      BY <1>1, <1>2, <2>1
    <2> QED BY <2>2, <2>3
  <1>7. ~dotDue => g[n - 1] = meant
    <2>1. n - 1 \in 0..(n - 1) /\ (n - 1) + 1 = n
      BY <1>1
    <2>2. g[n - 1] = f[n]
      BY <1>3, <2>1
    <2> QED BY <1>2, <2>2
  <1>8. Counts(g)'
    BY <1>1, <1>5, <1>6, <1>7 DEF Counts
  <1> QED BY <1>1, <1>4, <1>8

LEMMA BodyLineInv ==
    ASSUME Inv, BodyLine
    PROVE  Inv'
  <1> DEFINE v == Head(rbuf).verb
  <1>1. /\ conn = "dataread" /\ conn' = "dataloop" /\ rbuf # <<>>
        /\ rbuf' = Tail(rbuf) /\ v \notin Dots \cup {"long"}
        /\ UNCHANGED <<line, wait, wire, tx, peer, message>>
        /\ total' = total + Appended(v)
        /\ IF total' > MaxMessageBytes
           THEN oversize' = TRUE /\ buf' = 0
           ELSE /\ oversize' = oversize
                /\ buf' = IF oversize THEN buf ELSE buf + Appended(v)
    BY DEF BodyLine
  <1>2. v \in Verbs \ {"hello"}
    <2>1. Head(rbuf) \in Line /\ Head(rbuf).verb # "hello"
      BY <1>1, TakenS DEF Inv, line
    <2> QED BY <2>1 DEF Line
  <1>3. Octets[v] \in Nat /\ Appended(v) = Octets[v] + 2
    BY <1>2, AppendedIs
  <1>4. total \in Nat /\ buf \in 0..MaxMessageBytes /\ oversize \in BOOLEAN
        /\ (~oversize => buf = total) /\ MaxMessageBytes \in Nat
    BY <1>1, SessionAssumption DEF SessionAssumption, Inv, SInv, TypeOK, Buffered
  <1> HIDE DEF v
  <1>7. SInv'
    <2>1. CASE total' > MaxMessageBytes
      <3>1. oversize' = TRUE /\ buf' = 0
        BY <1>1, <2>1
      <3>2. total' \in Nat /\ buf' \in 0..MaxMessageBytes
        BY <1>1, <1>3, <1>4, <3>1
      <3>3. oversize' \in BOOLEAN /\ oversize'
        BY <3>1
      <3>4. Buffered'
        BY <3>3 DEF Buffered
      <3> QED BY <1>1, <3>2, <3>3, <3>4, BodyS DEF Inv, BodyStates
    <2>2. CASE ~(total' > MaxMessageBytes)
      <3>1. oversize' = oversize /\ buf' = IF oversize THEN buf ELSE buf + Appended(v)
        BY <1>1, <2>2
      <3>2. total' \in Nat /\ total' <= MaxMessageBytes
        BY <1>1, <1>3, <1>4, <2>2
      <3>3. ~oversize => buf' = total'
        BY <1>1, <1>4, <3>1
      <3>4. buf' \in 0..MaxMessageBytes
        <4>1. CASE oversize
          BY <1>4, <3>1, <4>1
        <4>2. CASE ~oversize
          BY <1>4, <3>2, <3>3, <4>2
        <4> QED BY <4>1, <4>2
      <3>5. Buffered'
        BY <3>1, <3>3 DEF Buffered
      <3> QED BY <1>1, <1>4, <3>1, <3>2, <3>4, <3>5, BodyS DEF Inv, BodyStates
    <2> QED BY <2>1, <2>2
  <1>8. ASSUME FInv PROVE FInv'
    <2>1. Head(rbuf).verb # "dot"
      BY <1>1 DEF v, Dots
    <2>2. /\ IsText(Head(rbuf))
          /\ Composing' \/ \E k \in 1..Len(Flight') : Ended(k)'
          /\ \A i \in 1..Len(Flight') :
                 Flight'[i].body /\ Flight'[i].verb = "long" =>
                    /\ i < Len(Flight') => Flight'[i + 1].verb # "dot"
                    /\ i = Len(Flight') => framing = "long"
      BY <1>1, <1>8, <2>1, BodyTaken DEF Inv, BodyStates
    <2>3. AtBody'
      BY <2>2 DEF AtBody
    <2>4. framing' = framing /\ meant' = meant /\ dotDue' = dotDue
      BY <1>1 DEF peer
    <2>5. NotAfterLong'
      BY <1>1, <2>2, <2>4 DEF NotAfterLong
    <2>6. message' = {}
      BY <1>1, NoMessage DEF Inv
    <2>7. AtCommands' /\ AtDispatch' /\ AtHandshake' /\ Complete' /\ client' # "fault"
      BY <1>1, <1>8, <2>6 DEF AtCommands, CommandStates, AtDispatch, AtHandshake,
                              Complete, FInv, peer
    <2>8. Composed'
      <3> SUFFICES ASSUME ~oversize'
                   PROVE  \E g \in [0..Len(Flight') -> Nat] : Counts(g)'
        BY DEF Composed
      <3>1. ~(total' > MaxMessageBytes)
        BY <1>1
      <3>2. ~oversize /\ buf' = buf + Appended(v)
        BY <1>1, <3>1
      <3>3. Adds(Head(rbuf)) = Appended(v)
        BY <1>3, <2>2, AddsNat DEF v
      <3>4. PICK f \in [0..Len(Flight) -> Nat] : Counts(f)
        BY <1>1, <1>8, <3>2 DEF FInv, Composed
      <3> QED BY <1>1, <2>4, <3>2, <3>3, <3>4, CountTaken DEF Inv, SInv
    <2> QED BY <2>3, <2>5, <2>7, <2>8 DEF FInv
  <1> QED BY <1>1, <1>7, <1>8 DEF Inv, peer

\* The line that readBody takes for the end is the client's dot, and only
\* commands come after it.
LEMMA DotTaken ==
    ASSUME SInv, FInv, conn = "dataread", rbuf # <<>>, rbuf' = Tail(rbuf),
           wire' = wire, Head(rbuf).verb \in Dots
    PROVE  /\ IsDot(Flight[1]) /\ dotDue /\ owed # 0
           /\ client \in {"command", "data?", "gone"}
           /\ Len(Flight') \in Nat /\ owed = Len(Flight') + 1
           /\ \A i \in 1..Len(Flight') :
                 /\ ~Flight'[i].body /\ Flight'[i].verb \notin Dots
                 /\ Flight'[i].verb = "DATA" =>
                       i = Len(Flight') /\ client \in {"data?", "gone"}
  <1>1. PICK n \in Nat : n = Len(Flight) /\ n > 0 /\ Len(Flight') = n - 1
                         /\ (\A i \in 1..(n - 1) : Flight'[i] = Flight[i + 1])
                         /\ Head(rbuf) = Flight[1]
    BY FlightTaken DEF SInv
  <1>2. 1 \in 1..n /\ ~IsText(Flight[1])
    BY <1>1 DEF IsText
  <1>3. ~Composing
    BY <1>1, <1>2 DEF Composing
  <1>4. PICK k \in 1..n : Ended(k)
    BY <1>1, <1>3 DEF FInv, AtBody, BodyStates
  <1>5. /\ client \in {"command", "data?", "gone"} /\ dotDue
        /\ owed = n - k + 1 /\ IsDot(Flight[k])
        /\ \A i \in 1..(k - 1) : IsText(Flight[i])
        /\ \A i \in (k + 1)..n : IsCommand(i)
    BY <1>1, <1>4 DEF Ended
  <1>6. k = 1
    <2>1. k # 1 => 1 \in 1..(k - 1)
      OBVIOUS
    <2> QED BY <1>2, <1>5, <2>1
  <1>7. owed = n /\ n # 0 /\ n = (n - 1) + 1 /\ n - 1 \in Nat
    BY <1>1, <1>5, <1>6
  <1>8. ASSUME NEW i \in 1..(n - 1)
        PROVE  /\ ~Flight'[i].body /\ Flight'[i].verb \notin Dots
               /\ Flight'[i].verb = "DATA" =>
                       i = n - 1 /\ client \in {"data?", "gone"}
    <2>1. i + 1 \in (k + 1)..n /\ (i + 1 = n => i = n - 1)
      BY <1>6
    <2> QED BY <1>1, <1>5, <2>1 DEF IsCommand
  <1> QED BY <1>1, <1>5, <1>6, <1>7, <1>8

\* 250 is the answer to the dot; the commands after it are still to be read.
LEMMA DotAnsweredF ==
    ASSUME TypeOK, Reply(250), conn' = "loop", message' = {},
           owed # 0, client \in {"command", "data?", "gone"},
           Len(Flight') \in Nat, owed = Len(Flight') + 1,
           \A i \in 1..Len(Flight') :
                 /\ ~Flight'[i].body /\ Flight'[i].verb \notin Dots
                 /\ Flight'[i].verb = "DATA" =>
                       i = Len(Flight') /\ client \in {"data?", "gone"}
    PROVE  FInv'
  <1>1. Due(250)
    BY DEF Due
  <1>2. /\ owed' = owed - 1 /\ ~dotDue'
        /\ client' \in {"command", "data?", "gone"}
        /\ client = "gone" => client' = "gone"
        /\ client = "data?" /\ owed # 1 => client' = "data?"
    BY <1>1, HeardDue
  <1>3. owed' = Len(Flight')
    BY <1>2
  <1>4. ASSUME NEW i \in 1..Len(Flight') PROVE IsCommand(i)'
    <2>1. owed # 1
      OBVIOUS
    <2> QED BY <1>2, <2>1 DEF IsCommand
  <1> QED BY <1>2, <1>3, <1>4, CommandsF

LEMMA BodyDotInv ==
    ASSUME Inv, BodyDot
    PROVE  Inv'
  <1>1. /\ conn = "dataread" /\ rbuf # <<>> /\ rbuf' = Tail(rbuf)
        /\ Head(rbuf).verb \in Dots
        /\ UNCHANGED <<line, wait, wire>>
        /\ buf' = 0 /\ total' = 0 /\ oversize' = FALSE
    BY DEF BodyDot, Take
  <1>2. buf' \in 0..MaxMessageBytes /\ total' \in Nat /\ oversize' \in BOOLEAN
    <2>1. buf' \in 0..MaxMessageBytes /\ total' \in Nat
      BY <1>1, SessionAssumption DEF SessionAssumption
    <2>2. oversize' \in BOOLEAN
      BY <1>1, Zenon
    <2> QED BY <2>1, <2>2
  <1>3. CASE ResetTx /\ Reply(250) /\ conn' = "loop" /\ UNCHANGED <<helo, message>>
    <2>1. message' = {}
      BY <1>1, <1>3, NoMessage DEF Inv
    <2>2. /\ helo' \in BOOLEAN /\ inTx' \in BOOLEAN
          /\ from' \in Senders \cup {None} /\ rcpt' \in Routed \cup {None}
          /\ TxRecord'
      BY <1>3, Reset DEF Inv, SInv, TypeOK
    <2>3. SInv'
      BY <1>1, <1>2, <1>3, <2>1, <2>2, RepliedS DEF Inv, line
    <2>4. framing' = framing
      BY <1>3, Heard DEF Inv, SInv
    <2>5. ASSUME FInv PROVE FInv'
      BY <1>1, <1>3, <2>1, <2>5, DotTaken, DotAnsweredF DEF Inv, SInv
    <2> QED BY <2>3, <2>4, <2>5 DEF Inv
  <1>4. CASE /\ ~oversize /\ conn' = "dispatch" /\ UNCHANGED <<tx, peer>>
             /\ message' = {[from |-> from, to |-> rcpt, bytes |-> buf,
                             meant |-> meant, tls |-> encrypted,
                             origin |-> origin]}
    <2>1. /\ rbuf' \in Seq(Line) /\ wire' \in Seq(Line) /\ Marked'
          /\ \A i \in 1..Len(rbuf') : rbuf'[i].verb # "hello"
      BY <1>1, TakenS DEF Inv, line
    <2>2. client \in Speaking /\ \A i \in 1..Len(wire) : wire[i].verb # "hello"
      BY <1>1, Speaks DEF Inv
    <2>3. /\ TxRecord' /\ helo' \in BOOLEAN /\ inTx' \in BOOLEAN
          /\ from' \in Senders \cup {None} /\ rcpt' \in Routed \cup {None}
      BY <1>1, <1>4, SameTx DEF Inv, line
    <2>4. TypeOK'
      <3>1. conn' = "dispatch" <=> message' # {}
        BY <1>4
      <3> QED BY <1>1, <1>2, <1>4, <2>1, <2>3, <3>1 DEF Inv, SInv, TypeOK, line, peer
    <2>5. inTx
      BY <1>1 DEF Inv, SInv, Deciding, BodyStates
    <2>6. OneTransaction'
      <3>1. origin = [from |-> from, fromTLS |-> encrypted, rcpt |-> rcpt]
        BY <2>5 DEF Inv, SInv, TxRecord
      <3> QED BY <1>4, <3>1 DEF OneTransaction
    <2>7. Fits'
      <3>1. buf <= MaxMessageBytes
        BY SessionAssumption DEF SessionAssumption, Inv, SInv, TypeOK
      <3> QED BY <1>4, <3>1 DEF Fits
    <2>8. HelloLast'
      BY <1>1, <1>4, <2>1, <2>2 DEF HelloLast, Speaking, line, peer
    <2>9. Deciding' /\ AtAccept' /\ Buffered'
      BY <1>4, <2>5 DEF Deciding, AtAccept, Buffered, tx
    <2>10. ASSUME FInv PROVE FInv'
      <3>1. /\ IsDot(Flight[1]) /\ dotDue
            /\ client \in {"command", "data?", "gone"}
            /\ owed = Len(Flight') + 1
            /\ \A i \in 1..Len(Flight') :
                 /\ ~Flight'[i].body /\ Flight'[i].verb \notin Dots
                 /\ Flight'[i].verb = "DATA" =>
                       i = Len(Flight') /\ client \in {"data?", "gone"}
        BY <1>1, <2>10, DotTaken DEF Inv, line
      <3>2. UNCHANGED <<client, owed, dotDue>>
        BY <1>4 DEF peer
      <3>3. \A i \in 1..Len(Flight') : IsCommand(i)'
        BY <3>1, <3>2 DEF IsCommand
      <3>4. AtDispatch'
        BY <3>1, <3>2, <3>3 DEF AtDispatch, Commanded
      <3>5. buf = meant
        <4>1. PICK f \in [0..Len(Flight) -> Nat] : Counts(f)
          BY <1>1, <1>4, <2>10 DEF FInv, Composed
        <4>2. 1 \in 1..Len(Flight) /\ 1 - 1 = 0
          BY <1>1, FlightOf DEF Inv, SInv, TypeOK
        <4>3. f[1] = f[0] + Adds(Flight[1]) /\ f[0] = buf /\ f[1] = meant
          BY <3>1, <4>1, <4>2 DEF Counts
        <4>4. Adds(Flight[1]) = 0 /\ buf \in Nat
          BY <3>1, AddsNat, SessionAssumption
             DEF SessionAssumption, Inv, SInv, TypeOK
        <4> QED BY <4>3, <4>4
      <3>6. Complete'
        BY <1>4, <3>5 DEF Complete
      <3>7. /\ AtCommands' /\ AtHandshake' /\ AtBody' /\ NotAfterLong' /\ Composed'
            /\ client' # "fault"
        BY <1>4, <3>1, <3>2 DEF AtCommands, CommandStates, AtHandshake, AtBody,
                                BodyStates, NotAfterLong, Composed
      <3> QED BY <3>4, <3>6, <3>7 DEF FInv
    <2> QED BY <1>4, <2>1, <2>3, <2>4, <2>6, <2>7, <2>8, <2>9, <2>10
            DEF Inv, SInv, peer
  <1> QED BY <1>3, <1>4 DEF BodyDot, Loop

LEMMA DispatchedInv ==
    ASSUME Inv, Dispatched
    PROVE  Inv'
  <1> USE DEF Dispatched, line, body
  <1>1. /\ conn = "dispatch" /\ conn' = "loop" /\ message' = {} /\ ResetTx
        /\ Reply(250)
        /\ UNCHANGED <<mode, left, encrypted, wait, wire, rbuf, helo, buf, total,
                       oversize>>
    BY DEF Loop
  <1>2. /\ helo' \in BOOLEAN /\ inTx' \in BOOLEAN
        /\ from' \in Senders \cup {None} /\ rcpt' \in Routed \cup {None}
        /\ TxRecord'
    BY <1>1, Reset DEF Inv, SInv, TypeOK
  <1>3. buf' \in 0..MaxMessageBytes /\ total' \in Nat /\ oversize' \in BOOLEAN
    BY <1>1, SameBody DEF Inv
  <1>4. SInv'
    BY <1>1, <1>2, <1>3, RepliedS DEF Inv
  <1>5. framing' = framing
    BY <1>1, Heard DEF Inv, SInv
  <1>6. ASSUME FInv PROVE FInv'
    <2>1. Flight' = Flight /\ Len(Flight) \in Nat
      BY <1>1, FlightOf DEF Flight, Inv, SInv, TypeOK
    <2>2. /\ client \in {"command", "data?", "gone"} /\ owed = Len(Flight) + 1
          /\ \A i \in 1..Len(Flight) : IsCommand(i)
      BY <1>1, <1>6 DEF FInv, AtDispatch, Commanded
    <2>3. owed # 0 /\ owed = Len(Flight') + 1 /\ Len(Flight') \in Nat
      BY <2>1, <2>2
    <2>4. \A i \in 1..Len(Flight') :
             /\ ~Flight'[i].body /\ Flight'[i].verb \notin Dots
             /\ Flight'[i].verb = "DATA" =>
                   i = Len(Flight') /\ client \in {"data?", "gone"}
      BY <2>1, <2>2 DEF IsCommand
    <2> QED BY <1>1, <2>2, <2>3, <2>4, DotAnsweredF DEF Inv, SInv
  <1> QED BY <1>4, <1>5, <1>6 DEF Inv

-----------------------------------------------------------------------------
(* The client *)

\* A command or a line of the body is sent.
LEMMA SentS ==
    ASSUME SInv, NEW l \in Line, l.verb # "hello", l.tls = encrypted,
           wire' = Append(wire, l), conn # "closed",
           UNCHANGED <<line, conn, wait, rbuf, tx, body, message>>,
           client \in {"command", "body"},
           client' \in {"command", "data?", "body"}, owed' \in Nat,
           meant' \in Nat, dotDue' \in BOOLEAN,
           framing' \in {"plain", "long", "broken"}
    PROVE  SInv' /\ conn \notin {"accepted", "handshake", "closed"}
  <1> USE DEF line, tx, body
  <1>1. conn \notin {"accepted", "handshake", "closed"}
    BY DEF SInv, AtAccept, HelloLast
  <1>2. PICK w \in Nat : w = Len(wire) /\ Len(wire') = w + 1
                         /\ (\A i \in 1..w : wire'[i] = wire[i])
                         /\ wire'[w + 1] = l /\ wire' \in Seq(Line)
    BY AppendOf DEF SInv, TypeOK
  <1>3. \A i \in 1..(w + 1) : i \in 1..w \/ i = w + 1
    OBVIOUS
  <1>4. TypeOK'
    BY <1>2 DEF SInv, TypeOK
  <1>5. Marked'
    BY <1>2, <1>3 DEF SInv, Marked
  <1>6. HelloLast'
    <2>1. \A i \in 1..(w + 1) : wire'[i].verb # "hello"
      BY <1>1, <1>2, <1>3 DEF SInv, HelloLast
    <2> QED BY <1>1, <1>2, <2>1 DEF SInv, HelloLast
  <1>7. TxRecord' /\ Deciding' /\ AtAccept' /\ Buffered'
    BY <1>1 DEF SInv, TxRecord, Deciding, BodyStates, AtAccept, Buffered
  <1>8. OneTransaction' /\ Fits'
    BY DEF SInv, OneTransaction, Fits
  <1> QED BY <1>1, <1>4, <1>5, <1>6, <1>7, <1>8 DEF SInv

\* The count of the octets goes on with the line that is sent.
LEMMA CountSent ==
    ASSUME TypeOK, NEW l \in Line, rbuf' = rbuf, wire' = Append(wire, l),
           buf' = buf, NEW f \in [0..Len(Flight) -> Nat], Counts(f),
           \A i \in 1..Len(Flight) : IsDot(Flight[i]) => meant' = meant,
           IsDot(l) \/ ~dotDue' => f[Len(Flight)] + Adds(l) = meant'
    PROVE  \E g \in [0..Len(Flight') -> Nat] : Counts(g)'
  <1>1. PICK n \in Nat : n = Len(Flight) /\ Len(Flight') = n + 1
                         /\ (\A i \in 1..n : Flight'[i] = Flight[i])
                         /\ Flight'[n + 1] = l
    BY FlightSent
  <1>2. /\ f \in [0..n -> Nat] /\ f[0] = buf
        /\ \A i \in 1..n : f[i] = f[i - 1] + Adds(Flight[i])
        /\ \A i \in 1..n : IsDot(Flight[i]) => f[i] = meant
    BY <1>1 DEF Counts
  <1> DEFINE g == [i \in 0..(n + 1) |-> IF i = n + 1 THEN f[n] + Adds(l) ELSE f[i]]
  <1>3. /\ \A i \in 0..n : g[i] = f[i] /\ f[i] \in Nat
        /\ g[n + 1] = f[n] + Adds(l) /\ g[n + 1] \in Nat
    <2>1. \A i \in 0..n : i \in 0..(n + 1) /\ i # n + 1
      OBVIOUS
    <2>2. n + 1 \in 0..(n + 1) /\ n \in 0..n
      OBVIOUS
    <2>3. Adds(l) \in Nat
      BY AddsNat
    <2> QED BY <1>2, <2>1, <2>2, <2>3
  <1>4. g \in [0..(n + 1) -> Nat]
    <2>1. \A i \in 0..(n + 1) : i \in 0..n \/ i = n + 1
      OBVIOUS
    <2>2. \A i \in 0..(n + 1) : g[i] \in Nat
      BY <1>3, <2>1
    <2> QED BY <2>2
  <1> HIDE DEF g
  <1>5. g[0] = buf'
    BY <1>2, <1>3
  <1>6. ASSUME NEW i \in 1..n
        PROVE  /\ g[i] = g[i - 1] + Adds(Flight'[i])
               /\ IsDot(Flight'[i]) => g[i] = meant'
    <2>1. i \in 0..n /\ i - 1 \in 0..n
      OBVIOUS
    <2>2. g[i] = f[i] /\ g[i - 1] = f[i - 1] /\ Flight'[i] = Flight[i]
      BY <1>1, <1>3, <2>1
    <2> QED BY <1>1, <1>2, <2>2
  <1>7. /\ g[n + 1] = g[(n + 1) - 1] + Adds(Flight'[n + 1])
        /\ IsDot(Flight'[n + 1]) \/ ~dotDue' => g[n + 1] = meant'
    <2>1. (n + 1) - 1 = n /\ n \in 0..n
      OBVIOUS
    <2> QED BY <1>1, <1>3, <2>1
  <1>8. \A i \in 1..(n + 1) : i \in 1..n \/ i = n + 1
    OBVIOUS
  <1>9. Counts(g)'
    BY <1>1, <1>5, <1>6, <1>7, <1>8 DEF Counts
  <1> QED BY <1>1, <1>4, <1>9

\* A command follows commands, or the dot.
LEMMA CommandSentF ==
    ASSUME SInv, FInv, NEW l \in Line, ~l.body, l.verb \notin Dots,
           wire' = Append(wire, l), conn \notin {"accepted", "handshake", "closed"},
           UNCHANGED <<line, conn, wait, rbuf, tx, body, message>>,
           client = "command", owed' = owed + 1, UNCHANGED <<dotDue, meant, framing>>,
           client' = IF l.verb = "DATA" THEN "data?" ELSE client
    PROVE  FInv'
  <1>1. PICK n \in Nat : n = Len(Flight) /\ Len(Flight') = n + 1
                         /\ (\A i \in 1..n : Flight'[i] = Flight[i])
                         /\ Flight'[n + 1] = l
    BY FlightSent DEF SInv
  <1>2. client' \in {"command", "data?"} /\ (l.verb = "DATA" => client' = "data?")
    OBVIOUS
  <1>3. owed \in Nat
    BY DEF SInv, TypeOK
  <1>4. \A i \in 1..n : IsCommand(i) => IsCommand(i)'
    BY <1>1 DEF IsCommand
  <1>5. IsCommand(n + 1)'
    BY <1>1, <1>2 DEF IsCommand
  <1>6. \A i \in 1..(n + 1) : i \in 1..n \/ i = n + 1
    OBVIOUS
  <1>7. Commanded => Commanded'
    BY <1>1, <1>2, <1>4, <1>5, <1>6 DEF Commanded
  <1>8. AtCommands' /\ AtDispatch'
    BY <1>1, <1>3, <1>7 DEF FInv, AtCommands, CommandStates, AtDispatch
  <1>9. AtHandshake'
    BY DEF AtHandshake
  <1>10. ASSUME conn \in BodyStates PROVE \E k \in 1..Len(Flight') : Ended(k)'
    <2>1. PICK k \in 1..n : Ended(k)
      BY <1>1, <1>10 DEF FInv, AtBody, Composing
    <2>2. /\ dotDue /\ owed = n - k + 1 /\ IsDot(Flight[k])
          /\ \A i \in 1..(k - 1) : IsText(Flight[i])
          /\ \A i \in (k + 1)..n : IsCommand(i)
      BY <1>1, <2>1 DEF Ended
    <2>3. owed' = (n + 1) - k + 1 /\ k \in 1..(n + 1)
      BY <2>2
    <2>4. \A i \in 1..(k - 1) : i \in 1..n
      OBVIOUS
    <2>5. \A i \in (k + 1)..(n + 1) :
             i = n + 1 \/ (i \in 1..n /\ i \in (k + 1)..n)
      OBVIOUS
    <2>6. \A i \in (k + 1)..(n + 1) : IsCommand(i)'
      BY <1>4, <1>5, <2>2, <2>5
    <2>7. Ended(k)'
      BY <1>1, <1>2, <2>2, <2>3, <2>4, <2>6 DEF Ended
    <2> QED BY <1>1, <2>3, <2>7
  <1>11. AtBody'
    BY <1>10 DEF AtBody
  <1>12. NotAfterLong'
    <2> SUFFICES ASSUME conn \in BodyStates PROVE NotAfterLong'
      BY DEF NotAfterLong
    <2>1. ASSUME NEW i \in 1..(n + 1), Flight'[i].body, Flight'[i].verb = "long"
          PROVE  /\ i < n + 1 => Flight'[i + 1].verb # "dot"
                 /\ i = n + 1 => framing' = "long"
      <3>1. i \in 1..n
        BY <1>1, <1>6, <2>1
      <3>2. CASE i = n
        BY <1>1, <3>2 DEF Dots
      <3>3. CASE i # n
        <4>1. i < n /\ i + 1 \in 1..n /\ i # n + 1
          BY <3>1, <3>3
        <4> QED BY <1>1, <2>1, <3>1, <4>1 DEF FInv, NotAfterLong
      <3> QED BY <3>2, <3>3
    <2>2. conn = "discard" => Flight'[1].verb # "dot"
      <3>1. CASE n = 0
        BY <1>1, <3>1 DEF Dots
      <3>2. CASE n # 0
        <4>1. n > 0 /\ 1 \in 1..n
          BY <3>2
        <4> QED BY <1>1, <4>1 DEF FInv, NotAfterLong
      <3> QED BY <3>1, <3>2
    <2>3. n + 1 # 0
      OBVIOUS
    <2> QED BY <1>1, <2>1, <2>2, <2>3 DEF NotAfterLong
  <1>13. Composed'
    <2> SUFFICES ASSUME conn \in {"dataloop", "dataread"}, ~oversize
                 PROVE  \E g \in [0..Len(Flight') -> Nat] : Counts(g)'
      BY DEF Composed, body
    <2>1. dotDue
      BY DEF FInv, AtBody, BodyStates, Composing, Ended
    <2>2. PICK f \in [0..Len(Flight) -> Nat] : Counts(f)
      BY DEF FInv, Composed
    <2>3. ~(IsDot(l) \/ ~dotDue')
      BY <2>1 DEF IsDot
    <2> QED BY <2>2, <2>3, CountSent DEF SInv, body
  <1>14. Complete' /\ client' # "fault"
    BY <1>2 DEF FInv, Complete
  <1> QED BY <1>8, <1>9, <1>11, <1>12, <1>13, <1>14 DEF FInv

LEMMA SendCommandInv ==
    ASSUME Inv, SendCommand
    PROVE  Inv'
  <1>1. PICK c \in Commands :
           /\ Send(c.verb, c.arg, FALSE)
           /\ client' = IF c.verb = "DATA" THEN "data?" ELSE client
    BY DEF SendCommand
  <1> DEFINE l == [verb |-> c.verb, arg |-> c.arg, tls |-> encrypted, body |-> FALSE]
  <1>2. /\ client = "command" /\ owed' = owed + 1
        /\ UNCHANGED <<dotDue, meant, framing>>
    BY DEF SendCommand
  <1>3. /\ conn # "closed" /\ wire' = Append(wire, l)
        /\ UNCHANGED <<line, conn, wait, rbuf, tx, body, message>>
    BY <1>1 DEF Send
  <1>4. c.verb \notin Dots \cup {"hello"}
    BY SessionAssumption DEF SessionAssumption
  <1>5. encrypted \in BOOLEAN /\ owed \in Nat /\ meant \in Nat /\ dotDue \in BOOLEAN
        /\ framing \in {"plain", "long", "broken"}
    BY DEF Inv, SInv, TypeOK
  <1>6. l \in Line
    <2>1. c.verb \in Verbs /\ c.arg \in Args
      BY DEF Verbs, Args
    <2> QED BY <1>5, <2>1 DEF Line
  <1>7. l.verb = c.verb /\ l.tls = encrypted /\ ~l.body
    OBVIOUS
  <1> HIDE DEF l
  <1>8. client' \in {"command", "data?"} /\ owed' \in Nat /\ meant' \in Nat
        /\ framing' \in {"plain", "long", "broken"}
    BY <1>1, <1>2, <1>5
  <1>9. dotDue' \in BOOLEAN
    BY <1>2, <1>5
  <1>10. SInv' /\ conn \notin {"accepted", "handshake", "closed"}
    BY <1>2, <1>3, <1>4, <1>6, <1>7, <1>8, <1>9, SentS DEF Inv
  <1>11. ASSUME FInv PROVE FInv'
    BY <1>1, <1>2, <1>3, <1>4, <1>6, <1>7, <1>10, <1>11, CommandSentF DEF Inv
  <1> QED BY <1>2, <1>10, <1>11 DEF Inv

\* A client that sends a body is read by readBody, and has not sent its end.
LEMMA BodyIsRead ==
    ASSUME SInv, FInv, client = "body", conn # "closed"
    PROVE  conn \in BodyStates /\ Composing
  <1>1. conn \notin {"accepted", "handshake", "dispatch"} \cup CommandStates
    BY DEF SInv, AtAccept, HelloLast, FInv, AtDispatch, AtCommands, Commanded
  <1>2. conn \in BodyStates
    BY <1>1 DEF SInv, TypeOK, Operating, Reading, CommandStates, BodyStates
  <1> QED BY <1>2 DEF FInv, AtBody, Ended

\* A line of the body follows lines of the body.
LEMMA TextSentF ==
    ASSUME SInv, FInv, NEW l \in Line, IsText(l), wire' = Append(wire, l),
           conn # "closed", client = "body",
           UNCHANGED <<line, conn, wait, rbuf, tx, body, message>>,
           UNCHANGED <<client, owed, dotDue>>, meant' = meant + Adds(l),
           l.verb = "long" => framing' = "long"
    PROVE  FInv'
  <1>1. PICK n \in Nat : n = Len(Flight) /\ Len(Flight') = n + 1
                         /\ (\A i \in 1..n : Flight'[i] = Flight[i])
                         /\ Flight'[n + 1] = l
    BY FlightSent DEF SInv
  <1>2. conn \in BodyStates /\ Composing
    BY BodyIsRead
  <1>3. \A i \in 1..(n + 1) : IsText(Flight'[i])
    <2>1. \A i \in 1..(n + 1) : i \in 1..n \/ i = n + 1
      OBVIOUS
    <2> QED BY <1>1, <1>2, <2>1 DEF Composing
  <1>4. AtBody'
    BY <1>1, <1>2, <1>3 DEF AtBody, Composing
  <1>5. NotAfterLong'
    <2>1. \A i \in 1..(n + 1) : Flight'[i].verb # "dot"
      BY <1>3 DEF IsText, Dots
    <2>2. ASSUME NEW i \in 1..(n + 1), Flight'[i].body, Flight'[i].verb = "long"
          PROVE  /\ i < n + 1 => Flight'[i + 1].verb # "dot"
                 /\ i = n + 1 => framing' = "long"
      <3>1. i < n + 1 => i + 1 \in 1..(n + 1)
        OBVIOUS
      <3> QED BY <1>1, <2>1, <2>2, <3>1
    <2>3. 1 \in 1..(n + 1) /\ n + 1 # 0
      OBVIOUS
    <2> QED BY <1>1, <2>1, <2>2, <2>3 DEF NotAfterLong
  <1>6. Composed'
    <2> SUFFICES ASSUME conn \in {"dataloop", "dataread"}, ~oversize
                 PROVE  \E g \in [0..Len(Flight') -> Nat] : Counts(g)'
      BY DEF Composed, body
    <2>1. ~dotDue /\ \A i \in 1..Len(Flight) : ~IsDot(Flight[i])
      BY <1>2 DEF Composing, IsText, IsDot, Dots
    <2>2. PICK f \in [0..Len(Flight) -> Nat] : Counts(f)
      BY DEF FInv, Composed
    <2>3. f[Len(Flight)] + Adds(l) = meant'
      BY <2>1, <2>2 DEF Counts
    <2> QED BY <2>1, <2>2, <2>3, CountSent DEF SInv, body
  <1>7. AtCommands' /\ AtDispatch' /\ AtHandshake'
    BY <1>2 DEF AtCommands, CommandStates, AtDispatch, AtHandshake, BodyStates
  <1>8. Complete' /\ client' # "fault"
    BY DEF FInv, Complete
  <1> QED BY <1>4, <1>5, <1>6, <1>7, <1>8 DEF FInv

\* The dot follows lines of the body, the last of them not over the limit.
LEMMA DotSentF ==
    ASSUME SInv, FInv, NEW l \in Line, IsDot(l), wire' = Append(wire, l),
           conn # "closed", client = "body", framing # "long",
           UNCHANGED <<line, conn, wait, rbuf, tx, body, message>>,
           client' = "command", owed' = owed + 1, dotDue', meant' = meant
    PROVE  FInv'
  <1>1. PICK n \in Nat : n = Len(Flight) /\ Len(Flight') = n + 1
                         /\ (\A i \in 1..n : Flight'[i] = Flight[i])
                         /\ Flight'[n + 1] = l
    BY FlightSent DEF SInv
  <1>2. conn \in BodyStates /\ Composing
    BY BodyIsRead
  <1>3. /\ owed = 0 /\ ~dotDue
        /\ \A i \in 1..n : IsText(Flight'[i]) /\ ~IsDot(Flight[i])
    BY <1>1, <1>2 DEF Composing, IsText, IsDot, Dots
  <1>4. Ended(n + 1)'
    <2>1. /\ owed' = (n + 1) - (n + 1) + 1 /\ n + 1 - 1 = n
          /\ \A i \in (n + 1 + 1)..(n + 1) : FALSE
      BY <1>3
    <2> QED BY <1>1, <1>3, <2>1 DEF Ended
  <1>5. AtBody'
    <2>1. n + 1 \in 1..(n + 1)
      OBVIOUS
    <2> QED BY <1>1, <1>4, <2>1 DEF AtBody
  <1>6. NotAfterLong'
    <2>1. ASSUME NEW i \in 1..(n + 1), Flight'[i].body, Flight'[i].verb = "long"
          PROVE  i < n /\ Flight'[i + 1].verb # "dot"
      <3>1. i \in 1..n
        BY <1>1, <2>1 DEF IsDot
      <3>2. i < n
        BY <1>1, <1>2, <2>1, <3>1 DEF FInv, NotAfterLong
      <3>3. i + 1 \in 1..n
        BY <3>1, <3>2
      <3> QED BY <1>1, <1>2, <2>1, <3>1, <3>2, <3>3 DEF FInv, NotAfterLong
    <2>2. conn = "discard" => Flight'[1].verb # "dot"
      <3>1. CASE n = 0
        BY <1>1, <1>2, <3>1 DEF FInv, NotAfterLong
      <3>2. CASE n # 0
        <4>1. n > 0 /\ 1 \in 1..n
          BY <3>2
        <4> QED BY <1>1, <1>2, <4>1 DEF FInv, NotAfterLong
      <3> QED BY <3>1, <3>2
    <2>3. n + 1 # 0 /\ \A i \in 1..(n + 1) : i < n => i # n + 1
      OBVIOUS
    <2> QED BY <1>1, <2>1, <2>2, <2>3 DEF NotAfterLong
  <1>7. Composed'
    <2> SUFFICES ASSUME conn \in {"dataloop", "dataread"}, ~oversize
                 PROVE  \E g \in [0..Len(Flight') -> Nat] : Counts(g)'
      BY DEF Composed, body
    <2>1. PICK f \in [0..Len(Flight) -> Nat] : Counts(f)
      BY DEF FInv, Composed
    <2>2. f[Len(Flight)] = meant /\ Adds(l) = 0 /\ meant \in Nat
      BY <1>3, <2>1, AddsNat DEF Counts, SInv, TypeOK
    <2>3. f[Len(Flight)] + Adds(l) = meant'
      BY <2>2
    <2> QED BY <1>1, <1>3, <2>1, <2>3, CountSent DEF SInv, body
  <1>8. AtCommands' /\ AtDispatch' /\ AtHandshake'
    BY <1>2 DEF AtCommands, CommandStates, AtDispatch, AtHandshake, BodyStates
  <1>9. Complete' /\ client' # "fault"
    BY DEF FInv, Complete
  <1> QED BY <1>5, <1>6, <1>7, <1>8, <1>9 DEF FInv

LEMMA SendBodyInv ==
    ASSUME Inv, SendBody
    PROVE  Inv'
  <1>1. PICK v \in BodyLines :
           /\ Send(v, "", TRUE)
           /\ framing' = Framing(v)
           /\ \/ /\ v = "dot"
                 /\ client' = "command" /\ owed' = owed + 1 /\ dotDue' = TRUE
                 /\ UNCHANGED meant
              \/ /\ v # "dot"
                 /\ meant' = meant + Octets[v] + 2
                 /\ UNCHANGED <<client, owed, dotDue>>
    BY DEF SendBody
  <1> DEFINE l == [verb |-> v, arg |-> "", tls |-> encrypted, body |-> TRUE]
  <1>2. client = "body"
    BY DEF SendBody
  <1>3. /\ conn # "closed" /\ wire' = Append(wire, l)
        /\ UNCHANGED <<line, conn, wait, rbuf, tx, body, message>>
    BY <1>1 DEF Send
  <1>4. v # "hello" /\ Octets[v] \in Nat
    BY SessionAssumption DEF SessionAssumption, Kinds, Dots
  <1>5. encrypted \in BOOLEAN /\ owed \in Nat /\ meant \in Nat /\ dotDue \in BOOLEAN
    BY DEF Inv, SInv, TypeOK
  <1>6. l \in Line
    <2>1. v \in Verbs /\ "" \in Args
      BY DEF Verbs, Args
    <2> QED BY <1>5, <2>1 DEF Line
  <1>7. l.verb = v /\ l.tls = encrypted /\ l.body
    OBVIOUS
  <1> HIDE DEF l
  <1>8. framing' \in {"plain", "long", "broken"}
    BY <1>1 DEF Framing
  <1>9. /\ v = "dot" => client' = "command" /\ owed' = owed + 1 /\ meant' = meant
        /\ v # "dot" => /\ meant' = meant + Octets[v] + 2
                        /\ UNCHANGED <<client, owed>>
    BY <1>1, Zenon
  <1>10. owed \in Nat /\ meant \in Nat
    BY <1>5, Zenon
  <1>11. client' \in {"command", "body"} /\ owed' \in Nat /\ meant' \in Nat
    <2>1. CASE v = "dot"
      <3>1. client' = "command" /\ owed' = owed + 1 /\ meant' = meant
        BY <1>9, <2>1, Zenon
      <3> QED BY <1>10, <3>1
    <2>2. CASE v # "dot"
      <3>1. /\ client' = "body" /\ owed' = owed
            /\ meant' = meant + Octets[v] + 2
        BY <1>2, <1>9, <2>2, Zenon
      <3> QED BY <1>4, <1>10, <3>1
    <2> QED BY <2>1, <2>2
  <1>12. dotDue' \in BOOLEAN
    BY <1>1, <1>5, Zenon
  <1>13. SInv'
    BY <1>2, <1>3, <1>4, <1>6, <1>7, <1>8, <1>11, <1>12, SentS DEF Inv
  <1>14. ASSUME framing' # "broken" PROVE FInv'
    <2>1. /\ framing # "broken" /\ v \notin Dots \ {"dot"}
          /\ v = "dot" => framing # "long"
          /\ v = "long" => framing' = "long"
      BY <1>1, <1>14 DEF Framing
    <2>2. CASE v = "dot"
      <3>1. IsDot(l) /\ client' = "command" /\ owed' = owed + 1 /\ dotDue'
            /\ meant' = meant
        BY <1>1, <1>7, <2>2 DEF IsDot
      <3> QED BY <1>2, <1>3, <1>6, <2>1, <2>2, <3>1, DotSentF DEF Inv
    <2>3. CASE v # "dot"
      <3>1. IsText(l)
        BY <1>7, <2>1, <2>3 DEF IsText
      <3>2. meant' = meant + Adds(l)
        <4>1. meant' = meant + Octets[v] + 2
          BY <1>9, <2>3, Zenon
        <4>2. Adds(l) = Octets[v] + 2
          BY <1>7, <3>1, AddsNat
        <4> QED BY <1>4, <1>10, <4>1, <4>2
      <3>3. UNCHANGED <<client, owed, dotDue>>
        BY <1>1, <2>3
      <3> QED BY <1>2, <1>3, <1>6, <1>7, <2>1, <3>1, <3>2, <3>3, TextSentF DEF Inv
    <2> QED BY <2>2, <2>3
  <1> QED BY <1>13, <1>14 DEF Inv

LEMMA SendHelloInv ==
    ASSUME Inv, SendHello
    PROVE  Inv'
  <1> USE DEF line, tx, body
  <1> DEFINE l == [verb |-> "hello", arg |-> "", tls |-> encrypted, body |-> FALSE]
  <1>1. /\ client = "tls" /\ client' = "tls?"
        /\ UNCHANGED <<owed, dotDue, meant, framing>>
        /\ conn # "closed" /\ wire' = Append(wire, l)
        /\ UNCHANGED <<line, conn, wait, rbuf, tx, body, message>>
    BY DEF SendHello, Send
  <1>2. conn \in {"accepted", "handshake"}
    BY <1>1 DEF Inv, SInv, HelloLast
  <1>3. encrypted \in BOOLEAN
    BY DEF Inv, SInv, TypeOK
  <1>4. l \in Line
    BY <1>3 DEF Line, Verbs, Args
  <1>5. l.verb = "hello" /\ l.tls = encrypted /\ ~l.body
    OBVIOUS
  <1> HIDE DEF l
  <1>6. PICK w \in Nat : w = Len(wire) /\ Len(wire') = w + 1
                         /\ (\A i \in 1..w : wire'[i] = wire[i])
                         /\ wire'[w + 1] = l /\ wire' \in Seq(Line)
    BY <1>1, <1>4, AppendOf DEF Inv, SInv, TypeOK
  <1>7. \A i \in 1..(w + 1) : i \in 1..w \/ i = w + 1
    OBVIOUS
  <1>8. TypeOK'
    BY <1>1, <1>6 DEF Inv, SInv, TypeOK
  <1>9. Marked'
    BY <1>1, <1>5, <1>6, <1>7 DEF Inv, SInv, Marked
  <1>10. HelloLast'
    <2>1. \A i \in 1..w : wire[i].verb # "hello"
      BY <1>1, <1>6 DEF Inv, SInv, HelloLast
    <2>2. \A i \in 1..(w + 1) : wire'[i].verb = "hello" => i = w + 1
      BY <1>6, <1>7, <2>1
    <2> QED BY <1>1, <1>2, <1>6, <2>2 DEF Inv, SInv, HelloLast
  <1>11. AtAccept'
    <2>1. conn = "accepted" => mode = "implicit"
      BY <1>1 DEF Inv, SInv, AtAccept
    <2>2. conn = "accepted" =>
             \A i \in 1..(w + 1) : wire'[i].verb = "hello" /\ ~wire'[i].body
      BY <1>5, <1>6, <1>7 DEF Inv, SInv, AtAccept
    <2> QED BY <1>1, <1>6, <2>1, <2>2 DEF Inv, SInv, AtAccept
  <1>12. TxRecord' /\ Deciding' /\ Buffered'
    BY <1>1, <1>2 DEF Inv, SInv, TxRecord, Deciding, BodyStates, Buffered
  <1>13. OneTransaction' /\ Fits'
    BY <1>1 DEF Inv, SInv, OneTransaction, Fits
  <1>14. SInv'
    BY <1>8, <1>9, <1>10, <1>11, <1>12, <1>13 DEF SInv
  <1>15. ASSUME FInv PROVE FInv'
    <2>1. AtHandshake'
      <3>1. PICK n \in Nat : n = Len(Flight) /\ Len(Flight') = n + 1
                         /\ (\A i \in 1..n : Flight'[i] = Flight[i])
                         /\ Flight'[n + 1] = l
        BY <1>1, <1>4, FlightSent DEF Inv, SInv
      <3>2. \A i \in 1..(n + 1) : i \in 1..n \/ i = n + 1
        OBVIOUS
      <3> QED BY <1>1, <1>5, <1>15, <3>1, <3>2 DEF FInv, AtHandshake
    <2>2. AtCommands' /\ AtDispatch' /\ AtBody' /\ NotAfterLong' /\ Composed'
      BY <1>1, <1>2 DEF AtCommands, CommandStates, AtDispatch, AtBody, BodyStates,
                        NotAfterLong, Composed
    <2>3. Complete' /\ client' # "fault"
      BY <1>1, <1>15 DEF FInv, Complete
    <2> QED BY <2>1, <2>2, <2>3 DEF FInv
  <1> QED BY <1>1, <1>14, <1>15 DEF Inv

LEMMA HangUpInv ==
    ASSUME Inv, HangUp
    PROVE  Inv'
  <1> USE DEF line, tx, body
  <1>1. /\ client' = "gone" /\ conn # "closed"
        /\ UNCHANGED <<line, conn, wait, wire, rbuf, tx, body, owed, dotDue, meant,
                       framing, message>>
    BY DEF HangUp
  <1>2. TypeOK' /\ TxRecord' /\ Deciding' /\ Marked' /\ Buffered'
    BY <1>1 DEF Inv, SInv, TypeOK, TxRecord, Deciding, Marked, Buffered
  <1>3. HelloLast' /\ AtAccept'
    BY <1>1 DEF Inv, SInv, HelloLast, AtAccept
  <1>4. OneTransaction' /\ Fits'
    BY <1>1 DEF Inv, SInv, OneTransaction, Fits
  <1>5. ASSUME FInv PROVE FInv'
    <2>1. Flight' = Flight
      BY <1>1 DEF Flight
    <2>2. \A i : IsCommand(i) => IsCommand(i)'
      BY <1>1, <2>1 DEF IsCommand
    <2>3. \A k : Ended(k) => Ended(k)'
      BY <1>1, <2>1, <2>2 DEF Ended
    <2>4. Composing => Composing'
      BY <1>1, <2>1 DEF Composing
    <2>5. \A f : Counts(f) => Counts(f)'
      BY <1>1, <2>1 DEF Counts
    <2>6. AtCommands' /\ AtDispatch'
      BY <1>1, <1>5, <2>1, <2>2 DEF FInv, AtCommands, AtDispatch, Commanded
    <2>7. AtHandshake'
      BY <1>1, <1>5, <2>1 DEF FInv, AtHandshake
    <2>8. AtBody'
      BY <1>1, <1>5, <2>1, <2>3, <2>4 DEF FInv, AtBody
    <2>9. NotAfterLong'
      BY <1>1, <1>5, <2>1 DEF FInv, NotAfterLong
    <2>10. Composed'
      BY <1>1, <1>5, <2>1, <2>5 DEF FInv, Composed
    <2>11. Complete' /\ client' # "fault"
      BY <1>1, <1>5 DEF FInv, Complete
    <2> QED BY <2>6, <2>7, <2>8, <2>9, <2>10, <2>11 DEF FInv
  <1> QED BY <1>1, <1>2, <1>3, <1>4, <1>5 DEF Inv, SInv

-----------------------------------------------------------------------------

LEMMA NextInv == Inv /\ [Next]_vars => Inv'
  <1> SUFFICES ASSUME Inv, [Next]_vars PROVE Inv'
    OBVIOUS
  <1>1. CASE Serve
    BY <1>1, GreetInv, ArmInv, FillInv, ReadFailsInv, PlainCommandInv,
       BareLineFeedInv, HandleEHLOInv, HandleSTARTTLSInv, HandshakeInv,
       HandleMAILInv, DecidedInv, HandleRCPTInv, HandleDATAInv, BodyTooLongInv,
       DiscardLineInv, BodyLineInv, BodyDotInv, DispatchedInv DEF Serve
  <1>2. CASE Client
    BY <1>2, SendCommandInv, SendBodyInv, SendHelloInv, HangUpInv DEF Client
  <1>3. CASE Pass
    BY <1>3, PassInv
  <1>4. CASE UNCHANGED vars
    BY <1>4, StutterInv
  <1> QED BY <1>1, <1>2, <1>3, <1>4 DEF Next

\* What the session keeps of a transaction is consistent whatever the client
\* sends, and client and session are in step as long as the framing is not
\* broken.
THEOREM Invariance == Spec => []Inv
  BY InitInv, NextInv, PTL DEF Spec

\* Every variable of the session keeps its type; from and rcpt are accepted
\* addresses, and the body in memory never exceeds the limit.
THEOREM TypeCorrect == Spec => []TypeOK
  <1>1. Inv => TypeOK
    BY DEF Inv, SInv
  <1> QED BY <1>1, Invariance, PTL

\* readBody's dot dispatches the sender and the recipient of one transaction,
\* accepted under one TLS state, also when the client broke the framing and
\* readBody took some other line for the dot.
THEOREM TransactionIsOne == Spec => []OneTransaction
  <1>1. Inv => OneTransaction
    BY DEF Inv, SInv
  <1> QED BY <1>1, Invariance, PTL

\* handleSTARTTLS leaves no line in s.r that came in plain text.
THEOREM PlaintextIsDropped == Spec => []NoPlaintextAfterTLS
  <1>1. Inv => NoPlaintextAfterTLS
    BY DEF Inv, SInv, Marked, NoPlaintextAfterTLS
  <1> QED BY <1>1, Invariance, PTL

\* Every line up to the client's dot is body for readBody, and every line after
\* it a command for loop, also when the client pipelines after the dot; no
\* reply comes unasked, and the answer to the dot is 250. This is for a client
\* that sends no period it does not mean as the end and no dot directly after
\* a line over the limit.
THEOREM BothInStep == Spec => []InStep
  <1>1. ASSUME Inv, framing # "broken", conn # "closed",
               NEW i \in 1..Len(Flight)
        PROVE  Flight[i].body <=>
                  /\ conn \in BodyStates
                  /\ \A j \in 1..(i - 1) : Flight[j].verb # "dot"
    <2>1. /\ FInv /\ AtAccept
          /\ conn \in {"accepted", "dispatch", "handshake"} \cup CommandStates
                         \cup BodyStates
      BY <1>1 DEF Inv, SInv, TypeOK, Operating, Reading, CommandStates, BodyStates
    <2>2. PICK n \in Nat : n = Len(Flight)
      BY <1>1, FlightOf DEF Inv, SInv, TypeOK
    <2>3. CASE conn = "accepted"
      <3>1. rbuf = <<>> /\ wire \in Seq(Line)
        BY <2>1, <2>3, <1>1 DEF AtAccept, Inv, SInv, TypeOK
      <3>2. Flight = wire
        BY <3>1 DEF Flight
      <3>3. ~Flight[i].body
        BY <1>1, <2>1, <2>3, <3>2 DEF AtAccept
      <3> QED BY <2>3, <3>3 DEF BodyStates
    <2>4. CASE conn \in {"dispatch", "handshake"} \cup CommandStates
      BY <1>1, <2>1, <2>4 DEF FInv, AtDispatch, AtHandshake, AtCommands, Commanded,
                              IsCommand, BodyStates, CommandStates
    <2>5. CASE conn \in BodyStates /\ Composing
      <3>1. \A j \in 1..n : Flight[j].body /\ Flight[j].verb # "dot"
        BY <2>2, <2>5 DEF Composing, IsText, Dots
      <3>2. \A j \in 1..(i - 1) : j \in 1..n
        BY <1>1, <2>2
      <3> QED BY <1>1, <2>2, <2>5, <3>1, <3>2
    <2>6. ASSUME conn \in BodyStates, NEW k \in 1..n, Ended(k)
          PROVE  Flight[i].body <=> \A j \in 1..(i - 1) : Flight[j].verb # "dot"
      <3>1. /\ \A j \in 1..(k - 1) : Flight[j].body /\ Flight[j].verb # "dot"
            /\ Flight[k].body /\ Flight[k].verb = "dot"
            /\ \A j \in (k + 1)..n : ~Flight[j].body
        BY <2>2, <2>6 DEF Ended, IsText, IsDot, IsCommand, Dots
      <3>2. CASE i <= k
        <4>1. \A j \in 1..(i - 1) : j \in 1..(k - 1)
          BY <1>1, <2>2, <3>2
        <4>2. i \in 1..(k - 1) \/ i = k
          BY <1>1, <2>2, <3>2
        <4> QED BY <3>1, <4>1, <4>2
      <3>3. CASE ~(i <= k)
        <4>1. i \in (k + 1)..n /\ k \in 1..(i - 1)
          BY <1>1, <2>2, <3>3
        <4> QED BY <3>1, <4>1
      <3> QED BY <3>2, <3>3
    <2>7. CASE conn \in BodyStates
      BY <2>1, <2>2, <2>5, <2>6, <2>7 DEF FInv, AtBody
    <2> QED BY <2>1, <2>3, <2>4, <2>7
  <1>2. Inv /\ framing # "broken" => client # "fault"
    BY DEF Inv, FInv
  <1>3. Inv => InStep
    BY <1>1, <1>2 DEF InStep, Flight
  <1> QED BY <1>3, Invariance, PTL

\* What readBody hands to the dispatcher is within limits.max_message_bytes,
\* and as long as the text the client composed with a CRLF after each line,
\* whichever of CRLF, bare LF and CR CR LF ended the lines on the wire, unless
\* the client broke the framing.
THEOREM MessageIsIntact == Spec => []MessageIntact
  <1>1. Inv => MessageIntact
    BY DEF Inv, SInv, Fits, FInv, Complete, MessageIntact
  <1> QED BY <1>1, Invariance, PTL
=============================================================================
