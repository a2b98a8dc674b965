--------------------------- MODULE DeliveryProofs ---------------------------
(***************************************************************************)
(* Proofs about Delivery, for all files, bodies, replies and codes: what   *)
(* Load accepts and LookupRoute finds, and what the result of an attempt   *)
(* says of the endpoint.                                                   *)
(***************************************************************************)
EXTENDS Delivery, ConfigProofs, SequenceTheorems

Kind     == TheRoute.type
Begun    == {"send", "expect", "respond", "run", "output", "done"}
Commands == {"banner", "EHLO", "HELO", "MAIL", "RCPT", "DATA", "body", "QUIT"}

Types ==
    /\ at \in InFlight \cup {"file", "rejected", "ready", "refused", "done"}
    /\ late \in BOOLEAN /\ up \in BOOLEAN /\ killed \in BOOLEAN
    /\ held \in BOOLEAN /\ taken \in BOOLEAN /\ heard \in BOOLEAN
    /\ body \in Seq(BodyLine) /\ pipe \in Seq(ReplyLine)
    /\ child \in ExitCodes \cup {Running, Killed}
    /\ at = "done" <=> result # None

\* cfg is what Load made of the file, from LoadFile on, and the route is one
\* of its routes.
Configured ==
    /\ file \in Files
    /\ at \in {"file", "rejected"} => cfg = Rejected
    /\ at \notin {"file", "rejected"} => cfg # Rejected /\ cfg = Load(file)
    /\ at \in InFlight \cup {"done"} => route \in DOMAIN cfg.routes

\* Each disposition runs for routes of its type.
Placed ==
    /\ at \in {"dial", "send", "expect"} => Kind = "forward"
    /\ at \in {"post", "respond"} => Kind = "webhook"
    /\ at \in {"start", "run", "output"} => Kind = "command"

\* Nothing has happened at the endpoint before the attempt reaches it.
Fresh ==
    at \notin Begun => /\ pipe = <<>> /\ asked = None /\ said = {}
                       /\ taken = FALSE /\ heard = FALSE
                       /\ child = Running /\ killed = FALSE

\* The last line of a reply with code c is on its way.
Coming(i, c) == pipe[i].more = FALSE /\ pipe[i].code = c

\* A target never answers out of turn, so the line that lets the body go is
\* the last in the pipe: whatever a garbled reply has left behind, the reply
\* that is read for the body is the reply to the body.
Conversing ==
    at \in {"send", "expect"} =>
        /\ cmd \in Commands
        /\ at = "expect" => asked \in {None, cmd}
        /\ at = "send" => asked \notin {"DATA", "body"}
        /\ \A i \in 1..Len(pipe) : Coming(i, 354) =>
              at = "expect" /\ cmd = "DATA" /\ asked = None /\ i = Len(pipe)
        /\ at = "send" /\ cmd = "body" => pipe = <<>> /\ asked = None
        /\ at = "expect" /\ cmd = "body" /\ asked # None => pipe = <<>>
        /\ at = "expect" /\ cmd = "body" =>
              \A i \in 1..Len(pipe) : Coming(i, 250) => taken = TRUE
        /\ cmd = "QUIT" => taken = TRUE
        /\ heard = TRUE => cmd = "QUIT"

\* What the target has of the body when it is asked to accept it.
Relayed == asked = "body" \/ (taken = TRUE /\ Kind = "forward") =>
               got = Append(body, Empty)

Responding ==
    at = "respond" =>
        /\ heard = FALSE
        /\ pipe # <<>> => /\ Head(pipe).code \in 200..599
                          /\ Head(pipe).code < 300 => taken = TRUE

Waiting ==
    /\ at \in {"run", "output"} =>
          /\ child = 0 => taken = TRUE
          /\ killed = TRUE => late = TRUE
          /\ child # Running /\ killed = FALSE => said = {child} \ {Killed}
    /\ at = "run" => heard = FALSE
    /\ at = "output" => child # Running
                        /\ (heard = TRUE <=> child = 0 /\ killed = FALSE)

DInv == /\ Types /\ Configured /\ Placed /\ Fresh /\ Conversing /\ Relayed
        /\ Responding /\ Waiting
        /\ OkMeansTaken /\ HeardIsFinal /\ PermJustified

-----------------------------------------------------------------------------
(* Operators *)

\* Which command a reply code belongs to.
LEMMA WantFacts ==
    /\ Want("banner") = 220 /\ Want("DATA") = 354 /\ Want("QUIT") = 221
    /\ \A c : c \notin {"banner", "DATA", "QUIT"} => Want(c) = 250
  BY DEF Want

\* The order of the commands of Forward.
LEMMA AfterFacts ==
    /\ After("banner") = "EHLO" /\ After("EHLO") = "MAIL" /\ After("HELO") = "MAIL"
    /\ After("MAIL") = "RCPT" /\ After("RCPT") = "DATA"
    /\ After("DATA") = "body" /\ After("body") = "QUIT"
  BY DEF After

\* The results of an HTTP status.
LEMMA StatusFacts ==
    ASSUME NEW s \in 200..599
    PROVE  /\ StatusResult(s) \in {"OK", "Temp", "Perm"}
           /\ StatusResult(s) = "OK" <=> s < 300
           /\ StatusResult(s) = "Perm" => s \in (300..499) \ {429}
  <1>1. CASE s \in 200..299
    <2>1. StatusResult(s) = "OK"
      BY <1>1 DEF StatusResult
    <2> QED BY <1>1, <2>1
  <1>2. CASE s \notin 200..299 /\ (s >= 500 \/ s = 429)
    <2>1. StatusResult(s) = "Temp"
      BY <1>2 DEF StatusResult
    <2> QED BY <1>2, <2>1
  <1>3. CASE s \notin 200..299 /\ ~(s >= 500 \/ s = 429)
    <2>1. StatusResult(s) = "Perm"
      BY <1>3 DEF StatusResult
    <2> QED BY <1>3, <2>1
  <1> QED BY <1>1, <1>2, <1>3

\* Stuffing is undone by the target, and no stuffed line is the single dot
\* that ends the body.
LEMMA StuffFacts ==
    ASSUME NEW l \in BodyLine
    PROVE  /\ Stuff(l) \in BodyLine
           /\ Stuff(l) # [dots |-> 1, text |-> FALSE]
           /\ (IF Stuff(l).dots > 0 THEN [Stuff(l) EXCEPT !.dots = @ - 1]
                                    ELSE Stuff(l)) = l
  <1>1. PICK d \in Nat, t \in BOOLEAN : l = [dots |-> d, text |-> t]
    BY DEF BodyLine
  <1>2. CASE d > 0
    <2>1. Stuff(l) = [dots |-> d + 1, text |-> t]
      BY <1>1, <1>2 DEF Stuff
    <2>2. Stuff(l).dots = d + 1 /\ d + 1 > 0 /\ d + 1 # 1 /\ (d + 1) - 1 = d
      BY <1>2, <2>1
    <2>3. Stuff(l) \in BodyLine /\ Stuff(l) # [dots |-> 1, text |-> FALSE]
      BY <2>1, <2>2 DEF BodyLine
    <2>4. [Stuff(l) EXCEPT !.dots = @ - 1] = l
      BY <1>1, <2>1, <2>2
    <2> QED BY <2>2, <2>3, <2>4
  <1>3. CASE ~(d > 0)
    <2>1. Stuff(l) = l /\ l.dots = 0
      BY <1>1, <1>3 DEF Stuff
    <2>2. l # [dots |-> 1, text |-> FALSE]
      BY <2>1
    <2> QED BY <2>1, <2>2
  <1> QED BY <1>2, <1>3

\* The body arrives as it is, with one line more.
LEMMA BodyArrives ==
    ASSUME NEW b \in Seq(BodyLine)
    PROVE  Unstuffed(OnTheWire(b)) = Append(b, Empty)
  <1> DEFINE dot == [dots |-> 1, text |-> FALSE]
             line(i) == IF i > Len(b) THEN Empty ELSE b[i]
             w == OnTheWire(b)
  <1>1. PICK n \in Nat : n = Len(b)
    OBVIOUS
  <1>2. \A i \in 1..n + 1 : line(i) \in BodyLine /\ line(i) = Append(b, Empty)[i]
    <2>1. Empty \in BodyLine
      BY DEF Empty, BodyLine
    <2>2. ASSUME NEW i \in 1..n + 1, i > n
          PROVE  line(i) \in BodyLine /\ line(i) = Append(b, Empty)[i]
      <3> HIDE DEF Empty
      <3> QED BY <1>1, <2>1, <2>2
    <2>3. ASSUME NEW i \in 1..n + 1, ~(i > n)
          PROVE  line(i) \in BodyLine /\ line(i) = Append(b, Empty)[i]
      <3> QED BY <1>1, <2>3
    <2> QED BY <2>2, <2>3
  <1>3. PICK v : v = [i \in 1..n + 1 |-> Stuff(line(i))]
    OBVIOUS
  <1>4. v \in Seq(BodyLine) /\ Len(v) = n + 1
    <2>1. \A i \in 1..n + 1 : Stuff(line(i)) \in BodyLine
      BY <1>2, StuffFacts
    <2> HIDE DEF line
    <2> QED BY <1>3, <2>1
  <1>5. w = v \o <<dot>>
    BY <1>1, <1>3 DEF OnTheWire
  <1>6. dot \in BodyLine
    BY DEF BodyLine
  <1>7. /\ DOMAIN w = 1..n + 2 /\ w[n + 2] = dot
        /\ \A i \in 1..n + 1 : w[i] = Stuff(line(i))
    <2> HIDE DEF dot, line, w
    <2>1. DOMAIN w = 1..n + 2 /\ w[n + 2] = dot /\ \A i \in 1..n + 1 : w[i] = v[i]
      BY <1>4, <1>5, <1>6
    <2> QED BY <1>3, <2>1
  <1>8. {i \in DOMAIN w : w[i] = dot} = {n + 2}
    <2>1. \A i \in 1..n + 1 : w[i] # dot
      BY <1>2, <1>7, StuffFacts
    <2>2. \A i \in 1..n + 2 : i \in 1..n + 1 \/ i = n + 2
      OBVIOUS
    <2> HIDE DEF dot, w
    <2> QED BY <1>7, <2>1, <2>2
  <1>9. Min({n + 2}) = n + 2
    BY DEF Min
  <1>10. Unstuffed(w) = [i \in 1..(n + 2) - 1 |-> IF w[i].dots > 0
                             THEN [w[i] EXCEPT !.dots = @ - 1] ELSE w[i]]
    <2> HIDE DEF w
    <2> QED BY <1>8, <1>9 DEF Unstuffed
  <1>11. (n + 2) - 1 = n + 1
    OBVIOUS
  <1>12. ASSUME NEW i \in 1..n + 1
         PROVE  (IF w[i].dots > 0 THEN [w[i] EXCEPT !.dots = @ - 1] ELSE w[i])
                    = Append(b, Empty)[i]
    <2>1. PICK l \in BodyLine : l = line(i) /\ l = Append(b, Empty)[i]
      BY <1>2
    <2>2. w[i] = Stuff(l)
      BY <1>7, <2>1
    <2>3. (IF Stuff(l).dots > 0 THEN [Stuff(l) EXCEPT !.dots = @ - 1]
                                ELSE Stuff(l)) = l
      BY StuffFacts
    <2> HIDE DEF w, line
    <2> QED BY <2>1, <2>2, <2>3, Zenon
  <1>13. Append(b, Empty) = [i \in 1..n + 1 |-> Append(b, Empty)[i]]
    <2>1. Append(b, Empty) \in Seq(BodyLine) /\ Len(Append(b, Empty)) = n + 1
      <3>1. Empty \in BodyLine
        BY DEF Empty, BodyLine
      <3> QED BY <1>1, <3>1
    <2>2. PICK a \in Seq(BodyLine) : a = Append(b, Empty) /\ Len(a) = n + 1
      BY <2>1
    <2>3. a = [i \in 1..n + 1 |-> a[i]]
      <3>1. \A f \in Seq(BodyLine) : f = [i \in 1..Len(f) |-> f[i]]
        OBVIOUS
      <3> QED BY <2>2, <3>1, Zenon
    <2> QED BY <2>2, <2>3
  <1> HIDE DEF w
  <1>14. Unstuffed(w) = [i \in 1..n + 1 |-> IF w[i].dots > 0
                             THEN [w[i] EXCEPT !.dots = @ - 1] ELSE w[i]]
    BY <1>10, <1>11, Zenon
  <1>15. Unstuffed(w) = [i \in 1..n + 1 |-> Append(b, Empty)[i]]
    BY <1>12, <1>14, Zenon
  <1>16. Unstuffed(w) = Append(b, Empty)
    BY <1>13, <1>15, Zenon
  <1> QED BY <1>16 DEF w

-----------------------------------------------------------------------------
(* Configuration *)

\* What is known of cfg after LoadFile.
LEMMA LoadedFacts ==
    ASSUME Configured, Loaded
    PROVE  /\ file \in File /\ cfg = Prepare(file)
           /\ Decodes(file) /\ Validate(Prepare(file))
  <1>1. file \in File
    BY DeliveryAssumption DEF DeliveryAssumption, Configured
  <1>2. cfg = Load(file) /\ cfg # Rejected
    BY DEF Configured, Loaded
  <1> QED BY <1>1, <1>2, LoadedIs

\* LookupIs, for the configuration in use.
LEMMA LookupHolds ==
    ASSUME Configured
    PROVE  LookupSpecified
  <1> SUFFICES ASSUME Loaded PROVE LookupSpecified
    BY DEF LookupSpecified
  <1>1. /\ file \in File /\ cfg = Prepare(file)
    BY LoadedFacts
  <1>2. ASSUME NEW a \in Recipients, NEW found, found = LookupRoute(cfg, a)
        PROVE  /\ found = NoRoute =>
                     \A i \in DOMAIN file.routes :
                         ~ExactFor(file, a, i) /\ ~DomainFor(file, a, i)
               /\ found # NoRoute =>
                     \/ ExactFor(file, a, found)
                     \/ /\ DomainFor(file, a, found)
                        /\ \A i \in DOMAIN file.routes : ~ExactFor(file, a, i)
    <2>1. a \in Strings
      BY DeliveryAssumption DEF DeliveryAssumption
    <2>2. found = LookupRoute(Prepare(file), a)
      BY <1>1, <1>2
    <2> QED BY <1>1, <2>1, <2>2, LookupIs
  <1>3. ASSUME NEW a \in Recipients, NEW found, found = LookupRoute(cfg, a)
        PROVE  IF found = NoRoute
               THEN \A i \in DOMAIN file.routes :
                        ~ExactFor(file, a, i) /\ ~DomainFor(file, a, i)
               ELSE \/ ExactFor(file, a, found)
                    \/ /\ DomainFor(file, a, found)
                       /\ \A i \in DOMAIN file.routes : ~ExactFor(file, a, i)
    <2>1. CASE found = NoRoute
      BY <1>2, <1>3, <2>1
    <2>2. CASE found # NoRoute
      BY <1>2, <1>3, <2>2
    <2> QED BY <2>1, <2>2
  <1>4. ASSUME NEW a \in Recipients
        PROVE  IF LookupRoute(cfg, a) = NoRoute
               THEN \A i \in DOMAIN file.routes :
                        ~ExactFor(file, a, i) /\ ~DomainFor(file, a, i)
               ELSE \/ ExactFor(file, a, LookupRoute(cfg, a))
                    \/ /\ DomainFor(file, a, LookupRoute(cfg, a))
                       /\ \A i \in DOMAIN file.routes : ~ExactFor(file, a, i)
    <2>1. PICK found : found = LookupRoute(cfg, a)
      OBVIOUS
    <2> QED BY <1>3, <2>1, Zenon
  <1> QED BY <1>4 DEF LookupSpecified, ExactFor, DomainFor

\* NoneShadowed, for the configuration in use.
LEMMA ShadowHolds ==
    ASSUME Configured
    PROVE  NoRouteShadowed
  BY LoadedFacts, NoneShadowed DEF NoRouteShadowed

\* The facts about Validate, for the configuration in use.
LEMMA FitHolds ==
    ASSUME Configured
    PROVE  FitForUse
  <1> SUFFICES ASSUME Loaded PROVE FitForUse
    BY DEF FitForUse
  <1>1. /\ file \in File /\ cfg = Prepare(file)
        /\ Decodes(file) /\ Validate(cfg)
    BY LoadedFacts
  <1>2. PICK c : \E f \in File : /\ c = cfg /\ c = Prepare(f)
                                 /\ Decodes(f) /\ Validate(c)
    BY <1>1
  <1>3. /\ c.limits.conns > 0
        /\ \A l \in Range(c.listeners) :
              l.tls \in TLSModes /\ (l.tls # "plain" => c.cert # None)
        /\ c.retry.enabled =>
              /\ c.retry.interval \in Int /\ c.retry.expire \in Int
              /\ c.retry.interval > 0 /\ c.retry.expire > c.retry.interval
    BY <1>2, ValidNumbers
  <1>4. c.retry.enabled /\ Fits(c.retry.interval) => Duration(c.retry.interval) > 0
    <2>1. PICK s : s = c.retry.interval
      OBVIOUS
    <2>2. ASSUME c.retry.enabled, Fits(s) PROVE Duration(s) > 0
      <3>1. s \in Int /\ s > 0
        BY <1>3, <2>1, <2>2
      <3>2. s * Second <= MaxInt
        BY <2>2 DEF Fits
      <3> QED BY <3>1, <3>2, DurationPositive
    <2> QED BY <2>1, <2>2
  <1>5. c.retry.enabled /\ Fits(c.retry.expire) =>
            Duration(c.retry.expire) > Duration(c.retry.interval)
    <2>1. PICK s, t : s = c.retry.interval /\ t = c.retry.expire
      OBVIOUS
    <2>2. ASSUME c.retry.enabled, Fits(t) PROVE Duration(t) > Duration(s)
      <3>1. s \in Int /\ t \in Int /\ s > 0 /\ t > s
        BY <1>3, <2>1, <2>2
      <3>2. t * Second <= MaxInt
        BY <2>2 DEF Fits
      <3> QED BY <3>1, <3>2, DurationGrows
    <2> QED BY <2>1, <2>2
  <1>6. ASSUME NEW r \in Range(c.routes)
        PROVE  (Fits(r.timeout) => Duration(r.timeout) > 0) /\ r.type \in RouteTypes
    <2>1. PICK i \in DOMAIN c.routes : r = c.routes[i]
      BY DEF Range
    <2>2. r.type \in RouteTypes /\ r.timeout \in Int /\ r.timeout > 0
      BY <1>2, <2>1, ValidRoutes
    <2>3. Fits(r.timeout) => Duration(r.timeout) > 0
      BY <2>2, DurationPositive DEF Fits
    <2> QED BY <2>2, <2>3
  <1>7. /\ \A e \in Range(c.nets) : LowerAll(e.domains) = e.domains
        /\ \A e \in Range(c.providers) : LowerAll(e.domains) = e.domains
        /\ \A w \in Range(c.whitelist) : Lower[w.value] = w.value
    BY <1>2, PreparedRules
  <1> QED BY <1>2, <1>3, <1>4, <1>5, <1>6, <1>7, Zenon DEF FitForUse

\* Types and Configured are more than the type invariant of Delivery.
LEMMA TypeHolds ==
    ASSUME Types, Configured
    PROVE  TypeOK
  <1>1. cfg = Rejected \/ cfg.ok
    <2>1. CASE Loaded
      BY <2>1, LoadedFacts, PrepareFields
    <2> QED BY <2>1 DEF Loaded
  <1>2. {late, up, killed, held, taken, heard} \subseteq BOOLEAN
    BY Zenon DEF Types
  <1>3. \A i \in DOMAIN pipe : pipe[i].code \in 200..599 \cup {Bad}
    <2>1. \A i \in DOMAIN pipe : pipe[i] \in ReplyLine
      BY DEF Types
    <2> QED BY <2>1 DEF ReplyLine
  <1>4. at \in InFlight \cup {"done"} => route \in DOMAIN cfg.routes
    BY DEF Configured
  <1>5. /\ at \in InFlight \cup {"file", "rejected", "ready", "refused", "done"}
        /\ child \in ExitCodes \cup {Running, Killed}
        /\ at = "done" <=> result # None
    BY DEF Types
  <1> QED BY <1>1, <1>2, <1>3, <1>4, <1>5, Zenon DEF TypeOK

\* The routes in use have a type that Router knows.
LEMMA KindKnown ==
    ASSUME Configured, at \in InFlight \cup {"done"}
    PROVE  Kind \in RouteTypes
  <1>1. Loaded
    BY DEF Configured, Loaded, InFlight
  <1>2. /\ file \in File /\ cfg = Prepare(file) /\ Decodes(file) /\ Validate(cfg)
    BY <1>1, LoadedFacts
  <1>3. route \in DOMAIN cfg.routes
    BY DEF Configured
  <1> QED BY <1>2, <1>3, ValidRoutes DEF Kind, TheRoute

-----------------------------------------------------------------------------
(* The invariant holds at first *)

\* No file is loaded and no attempt has begun.
LEMMA InitDInv == Init => DInv
  <1> SUFFICES ASSUME Init PROVE DInv
    OBVIOUS
  <1>1. Types
    <2>1. body \in Seq(BodyLine) /\ pipe \in Seq(ReplyLine)
      BY DEF Init
    <2>2. at \in InFlight \cup {"file", "rejected", "ready", "refused", "done"}
          /\ child \in ExitCodes \cup {Running, Killed}
          /\ (at = "done" <=> result # None)
      BY DEF Init
    <2> QED BY <2>1, <2>2, Zenon DEF Init, Types
  <1>2. Configured /\ Placed /\ Conversing /\ Responding /\ Waiting
    BY DEF Init, Configured, Placed, Conversing, Responding, Waiting, InFlight
  <1>3. Fresh
    BY Zenon DEF Init, Fresh
  <1>4. Relayed
    BY DEF Init, Relayed, None
  <1>5. OkMeansTaken /\ HeardIsFinal /\ PermJustified
    BY DEF Init, OkMeansTaken, HeardIsFinal, PermJustified, None
  <1> QED BY <1>1, <1>2, <1>3, <1>4, <1>5 DEF DInv

-----------------------------------------------------------------------------
(* Every step keeps the invariant: before the endpoint is reached *)

\* Until then there is little to keep.
LEMMA StillFresh ==
    ASSUME Types', Configured', Placed', Fresh', (at \notin Begun)'
    PROVE  DInv'
  <1>1. Conversing' /\ Responding' /\ Waiting'
    BY DEF Conversing, Responding, Waiting, Begun
  <1>2. Relayed'
    BY DEF Fresh, Relayed, None
  <1>3. result' = None
    BY DEF Types, Begun
  <1>4. OkMeansTaken' /\ HeardIsFinal' /\ PermJustified'
    BY <1>3 DEF OkMeansTaken, HeardIsFinal, PermJustified, None, Begun
  <1> QED BY <1>1, <1>2, <1>4 DEF DInv

\* Load accepts the file or it does not.
LEMMA LoadFileStep == DInv /\ LoadFile => DInv'
  <1> SUFFICES ASSUME DInv, LoadFile PROVE DInv'
    OBVIOUS
  <1>1. /\ at = "file" /\ at' \in {"rejected", "ready"} /\ cfg' = Load(file)
        /\ at' = "rejected" <=> cfg' = Rejected
    BY DEF LoadFile
  <1>2. /\ file' = file /\ body' = body /\ pipe' = pipe /\ late' = late /\ up' = up
        /\ asked' = asked /\ taken' = taken /\ child' = child /\ killed' = killed
        /\ held' = held /\ said' = said /\ heard' = heard /\ result' = result
    BY DEF LoadFile, endpoint, proc
  <1>3. Types'
    BY <1>1, <1>2 DEF DInv, Types
  <1>4. Configured'
    BY <1>1, <1>2 DEF DInv, Configured, InFlight
  <1>5. Placed' /\ Fresh' /\ (at \notin Begun)'
    BY <1>1, <1>2 DEF DInv, Placed, Fresh, Begun
  <1> QED BY <1>3, <1>4, <1>5, StillFresh

\* A recipient that is not refused has a route of the configuration.
LEMMA MessageStep == DInv /\ Message => DInv'
  <1> SUFFICES ASSUME DInv, Message PROVE DInv'
    OBVIOUS
  <1>1. /\ at = "ready" /\ at' \in {"refused", "route"} /\ to' \in Recipients
        /\ body' \in Bodies /\ route' = LookupRoute(cfg, to')
        /\ at' = "route" => route' # NoRoute
    BY DEF Message
  <1>2. /\ file' = file /\ cfg' = cfg /\ pipe' = pipe /\ late' = late /\ up' = up
        /\ asked' = asked /\ taken' = taken /\ child' = child /\ killed' = killed
        /\ held' = held /\ said' = said /\ heard' = heard /\ result' = result
    BY DEF Message, endpoint, proc
  <1>3. Types'
    <2>1. body' \in Seq(BodyLine)
      BY <1>1, DeliveryAssumption DEF DeliveryAssumption
    <2> QED BY <1>1, <1>2, <2>1 DEF DInv, Types, InFlight
  <1>4. Configured'
    <2>1. cfg # Rejected /\ cfg = Load(file) /\ file \in Files
      BY <1>1 DEF DInv, Configured
    <2>2. /\ file \in File /\ cfg = Prepare(file)
      BY <2>1, LoadedFacts DEF DInv, Loaded
    <2>3. PICK a \in Strings : a = to'
      BY <1>1, DeliveryAssumption DEF DeliveryAssumption
    <2>4. PICK r : r = route' /\ r = LookupRoute(Prepare(file), a)
      BY <1>1, <2>2, <2>3
    <2>5. r # NoRoute => r \in DOMAIN file.routes
      BY <2>2, <2>4, LookupIs
    <2>6. DOMAIN cfg.routes = DOMAIN file.routes
      BY <2>2, PreparedRoutes
    <2> QED BY <1>1, <1>2, <2>1, <2>4, <2>5, <2>6 DEF Configured, InFlight
  <1>5. Placed' /\ Fresh' /\ (at \notin Begun)'
    BY <1>1, <1>2 DEF DInv, Placed, Fresh, Begun
  <1> QED BY <1>3, <1>4, <1>5, StillFresh

\* Router sends the message to the disposition of its type.
LEMMA RouterStep == DInv /\ Router => DInv'
  <1> SUFFICES ASSUME DInv, Router PROVE DInv'
    OBVIOUS
  <1>1. /\ file' = file /\ cfg' = cfg /\ route' = route /\ body' = body
        /\ pipe' = pipe /\ late' = late /\ up' = up
        /\ asked' = asked /\ taken' = taken /\ child' = child /\ killed' = killed
        /\ held' = held /\ said' = said /\ heard' = heard /\ result' = result
    BY DEF Router, setup, endpoint, proc
  <1>2. at = "route"
    BY DEF Router
  <1>3. Kind \in RouteTypes
    BY <1>2, KindKnown DEF DInv, InFlight
  <1>4. \/ Kind = "command" /\ at' = "start"
        \/ Kind = "webhook" /\ at' = "post"
        \/ Kind = "forward" /\ at' = "dial"
    BY <1>3 DEF Router, Kind, RouteTypes
  <1>5. Kind' = Kind
    BY <1>1 DEF Kind, TheRoute
  <1>6. Types'
    BY <1>1, <1>2, <1>4 DEF DInv, Types, InFlight
  <1>7. Configured'
    BY <1>1, <1>2, <1>4 DEF DInv, Configured, InFlight
  <1>8. Placed' /\ (at \notin Begun)'
    BY <1>4, <1>5 DEF Placed, Begun
  <1>9. Fresh'
    BY <1>1, <1>2 DEF DInv, Fresh, Begun
  <1> QED BY <1>6, <1>7, <1>8, <1>9, StillFresh

-----------------------------------------------------------------------------
(* The clock and the connection *)

\* The deadline changes late only, and no attempt has returned yet.
LEMMA DeadlineStep == DInv /\ Deadline => DInv'
  <1> SUFFICES ASSUME DInv, Deadline PROVE DInv'
    OBVIOUS
  <1>1. /\ file' = file /\ cfg' = cfg /\ route' = route /\ body' = body
        /\ at' = at /\ cmd' = cmd /\ result' = result /\ pipe' = pipe /\ up' = up
        /\ asked' = asked /\ taken' = taken /\ got' = got
        /\ child' = child /\ killed' = killed /\ held' = held
        /\ said' = said /\ heard' = heard
    BY DEF Deadline, setup, step, endpoint, proc
  <1>2. at \in InFlight /\ late' = TRUE
    BY DEF Deadline
  <1>3. TheRoute' = TheRoute /\ Kind' = Kind
    BY <1>1 DEF Kind, TheRoute
  <1>4. Types'
    BY <1>1, <1>2 DEF DInv, Types
  <1>5. Configured' /\ Placed'
    BY <1>1, <1>3 DEF DInv, Configured, Placed
  <1>6. Fresh' /\ Conversing'
    BY <1>1 DEF DInv, Fresh, Conversing, Coming
  <1>7. Relayed' /\ Responding'
    BY <1>1, <1>3 DEF DInv, Relayed, Responding
  <1>8. Waiting'
    BY <1>1, <1>2 DEF DInv, Waiting
  <1>9. OkMeansTaken' /\ HeardIsFinal'
    BY <1>1 DEF DInv, OkMeansTaken, HeardIsFinal
  <1>10. PermJustified'
    <2>1. result = None
      BY <1>2 DEF DInv, Types, InFlight
    <2> QED BY <1>1, <2>1 DEF PermJustified, None
  <1> QED BY <1>4, <1>5, <1>6, <1>7, <1>8, <1>9, <1>10 DEF DInv

\* A break changes nothing that has been said or done.
LEMMA BreakStep == DInv /\ Break => DInv'
  <1> SUFFICES ASSUME DInv, Break PROVE DInv'
    OBVIOUS
  <1>1. /\ file' = file /\ cfg' = cfg /\ route' = route /\ body' = body
        /\ at' = at /\ cmd' = cmd /\ result' = result /\ pipe' = pipe /\ late' = late
        /\ asked' = asked /\ taken' = taken /\ got' = got
        /\ child' = child /\ killed' = killed /\ held' = held
        /\ said' = said /\ heard' = heard
    BY DEF Break, setup, step, endpoint, proc
  <1>2. up' = FALSE
    BY DEF Break
  <1>3. TheRoute' = TheRoute /\ Kind' = Kind
    BY <1>1 DEF Kind, TheRoute
  <1>4. Types'
    BY <1>1, <1>2 DEF DInv, Types
  <1>5. Configured' /\ Placed'
    BY <1>1, <1>3 DEF DInv, Configured, Placed
  <1>6. Fresh' /\ Conversing'
    BY <1>1 DEF DInv, Fresh, Conversing, Coming
  <1>7. Relayed' /\ Responding'
    BY <1>1, <1>3 DEF DInv, Relayed, Responding
  <1>8. Waiting'
    BY <1>1 DEF DInv, Waiting
  <1>9. OkMeansTaken' /\ HeardIsFinal' /\ PermJustified'
    BY <1>1, <1>3 DEF DInv, OkMeansTaken, HeardIsFinal, PermJustified
  <1> QED BY <1>4, <1>5, <1>6, <1>7, <1>8, <1>9 DEF DInv

\* A descendant that ends changes nothing that has been said or done.
LEMMA ReleaseStep == DInv /\ Release => DInv'
  <1> SUFFICES ASSUME DInv, Release PROVE DInv'
    OBVIOUS
  <1>1. /\ file' = file /\ cfg' = cfg /\ route' = route /\ body' = body
        /\ at' = at /\ cmd' = cmd /\ result' = result /\ pipe' = pipe /\ late' = late
        /\ asked' = asked /\ taken' = taken /\ got' = got
        /\ child' = child /\ killed' = killed /\ up' = up
        /\ said' = said /\ heard' = heard
    BY DEF Release, setup, step, endpoint
  <1>2. held' = FALSE
    BY DEF Release
  <1>3. TheRoute' = TheRoute /\ Kind' = Kind
    BY <1>1 DEF Kind, TheRoute
  <1>4. Types'
    BY <1>1, <1>2 DEF DInv, Types
  <1>5. Configured' /\ Placed'
    BY <1>1, <1>3 DEF DInv, Configured, Placed
  <1>6. Fresh' /\ Conversing'
    BY <1>1 DEF DInv, Fresh, Conversing, Coming
  <1>7. Relayed' /\ Responding'
    BY <1>1, <1>3 DEF DInv, Relayed, Responding
  <1>8. Waiting'
    BY <1>1 DEF DInv, Waiting
  <1>9. OkMeansTaken' /\ HeardIsFinal' /\ PermJustified'
    BY <1>1, <1>3 DEF DInv, OkMeansTaken, HeardIsFinal, PermJustified
  <1> QED BY <1>4, <1>5, <1>6, <1>7, <1>8, <1>9 DEF DInv

-----------------------------------------------------------------------------
(* Forward *)

\* The attempt returns a result.
LEMMA Ended ==
    ASSUME DInv, at \in InFlight, UNCHANGED <<setup, late, up, proc>>,
           UNCHANGED <<asked, taken, got>>,
           pipe' \in Seq(ReplyLine), heard' \in BOOLEAN,
           at' = "done", result' \in {"OK", "Temp", "Perm"},
           OkMeansTaken', HeardIsFinal', PermJustified'
    PROVE  DInv'
  <1>1. /\ file' = file /\ cfg' = cfg /\ route' = route /\ body' = body
        /\ late' = late /\ up' = up /\ asked' = asked /\ taken' = taken /\ got' = got
        /\ child' = child /\ killed' = killed /\ held' = held
    BY DEF setup, proc
  <1>2. Kind' = Kind
    BY <1>1 DEF Kind, TheRoute
  <1>3. Types'
    <2>1. (at = "done" <=> result # None)'
      BY DEF None
    <2>2. at' \in InFlight \cup {"file", "rejected", "ready", "refused", "done"}
      OBVIOUS
    <2> QED BY <1>1, <2>1, <2>2 DEF DInv, Types
  <1>4. Configured'
    BY <1>1 DEF DInv, Configured, InFlight
  <1>5. Placed' /\ Fresh' /\ Conversing' /\ Responding' /\ Waiting'
    BY DEF Placed, Fresh, Conversing, Responding, Waiting, Begun
  <1>6. Relayed'
    BY <1>1, <1>2 DEF DInv, Relayed
  <1> QED BY <1>3, <1>4, <1>5, <1>6 DEF DInv

\* It returns a temporary failure without having heard of an acceptance.
LEMMA EndedTemp ==
    ASSUME DInv, at \in InFlight, UNCHANGED <<setup, late, up, proc>>,
           UNCHANGED <<asked, taken, got>>,
           pipe' \in Seq(ReplyLine), heard' = FALSE,
           at' = "done", result' = "Temp"
    PROVE  DInv'
  <1>1. OkMeansTaken' /\ HeardIsFinal' /\ PermJustified'
    BY DEF OkMeansTaken, HeardIsFinal, PermJustified
  <1>2. heard' \in BOOLEAN /\ result' \in {"OK", "Temp", "Perm"}
    OBVIOUS
  <1> QED BY <1>1, <1>2, Ended

\* On a new connection only the banner is due.
LEMMA DialStep == DInv /\ Dial => DInv'
  <1> SUFFICES ASSUME DInv, Dial PROVE DInv'
    OBVIOUS
  <1>1. /\ file' = file /\ cfg' = cfg /\ route' = route /\ body' = body
        /\ late' = late /\ pipe' = pipe /\ taken' = taken /\ got' = got
        /\ child' = child /\ killed' = killed /\ held' = held
        /\ said' = said /\ heard' = heard
    BY DEF Dial, setup, proc
  <1>2. at = "dial" /\ pipe = <<>> /\ taken = FALSE /\ heard = FALSE /\ result = None
    BY DEF Dial, DInv, Fresh, Begun, Types
  <1>3. CASE End("Temp") /\ UNCHANGED <<up, asked>>
    <2>1. at' = "done" /\ result' = "Temp" /\ UNCHANGED <<setup, late, up, proc>>
          /\ UNCHANGED <<asked, taken, got>>
      BY <1>3 DEF Dial, End
    <2>2. pipe' \in Seq(ReplyLine) /\ heard' = FALSE /\ at \in InFlight
      BY <1>1, <1>2 DEF DInv, Types, InFlight
    <2> QED BY <2>1, <2>2, EndedTemp
  <1>4. CASE Goto("expect", "banner") /\ up' = TRUE /\ asked' = "banner"
    <2>1. at' = "expect" /\ cmd' = "banner" /\ result' = result
          /\ up' = TRUE /\ asked' = "banner"
      BY <1>4 DEF Goto
    <2>2. Kind' = Kind
      BY <1>1 DEF Kind, TheRoute
    <2>3. Types'
      BY <1>1, <1>2, <2>1 DEF DInv, Types, InFlight
    <2>4. Configured' /\ Placed'
      BY <1>1, <1>2, <2>1, <2>2 DEF DInv, Configured, Placed, InFlight
    <2>5. Fresh' /\ Responding' /\ Waiting' /\ HeardIsFinal'
      BY <2>1 DEF Fresh, Begun, Responding, Waiting, HeardIsFinal
    <2>6. Conversing'
      BY <1>1, <1>2, <2>1 DEF Conversing, Commands
    <2>7. Relayed'
      BY <1>1, <1>2, <2>1 DEF Relayed
    <2>8. OkMeansTaken' /\ PermJustified'
      BY <1>2, <2>1 DEF OkMeansTaken, PermJustified, None
    <2> QED BY <2>3, <2>4, <2>5, <2>6, <2>7, <2>8 DEF DInv
  <1> QED BY <1>3, <1>4 DEF Dial

\* What Fails does, command by command.
LEMMA FailsFacts ==
    ASSUME NEW r, Fails(r)
    PROVE  /\ cmd = "EHLO" => at' = "send" /\ cmd' = "HELO" /\ result' = result
           /\ cmd = "QUIT" => at' = "done" /\ cmd' = cmd /\ result' = "OK"
           /\ cmd \notin {"EHLO", "QUIT"} => at' = "done" /\ cmd' = cmd /\ result' = r
  <1>1. CASE cmd = "EHLO"
    <2>1. Goto("send", "HELO")
      BY <1>1, Zenon DEF Fails
    <2> QED BY <1>1, <2>1 DEF Goto
  <1>2. CASE cmd = "QUIT"
    <2>1. End("OK")
      BY <1>2, Zenon DEF Fails
    <2> QED BY <1>2, <2>1 DEF End
  <1>3. CASE cmd \notin {"EHLO", "QUIT"}
    <2>1. End(r)
      BY <1>3, Zenon DEF Fails
    <2> QED BY <1>3, <2>1 DEF End
  <1> QED BY <1>1, <1>2, <1>3

\* A line is read.
LEMMA TailLines ==
    ASSUME NEW p \in Seq(ReplyLine), p # <<>>
    PROVE  /\ Tail(p) \in Seq(ReplyLine) /\ Len(Tail(p)) = Len(p) - 1
           /\ \A i \in 1..Len(Tail(p)) : i + 1 \in 1..Len(p) /\ Tail(p)[i] = p[i + 1]
           /\ 1 \in 1..Len(p) /\ Head(p) = p[1] /\ Head(p) \in ReplyLine
           /\ Len(p) = 1 => Tail(p) = <<>>
  <1>1. Tail(p) \in Seq(ReplyLine) /\ Len(Tail(p)) = Len(p) - 1
    OBVIOUS
  <1>2. Len(p) \in Nat /\ Len(p) > 0
    OBVIOUS
  <1>3. \A i \in 1..Len(Tail(p)) : i + 1 \in 1..Len(p) /\ Tail(p)[i] = p[i + 1]
    BY <1>1, <1>2
  <1>4. 1 \in 1..Len(p) /\ Head(p) = p[1]
    BY <1>2
  <1>5. Head(p) \in ReplyLine
    BY <1>4
  <1>6. Len(p) = 1 => Tail(p) = <<>>
    <2>1. \A q \in Seq(ReplyLine) : q # <<>> => Len(q) \in Nat \ {0}
      BY EmptySeq
    <2>2. Len(p) = 1 => Len(Tail(p)) = 0
      BY <1>1
    <2>3. PICK q \in Seq(ReplyLine) : q = Tail(p)
      BY <1>1
    <2> QED BY <2>1, <2>2, <2>3
  <1> QED BY <1>1, <1>3, <1>4, <1>5, <1>6

\* Forward gives up a command, with or without having read a line.
LEMMA FailStep ==
    ASSUME DInv, NEW r \in {"Temp", "Perm"}, Fails(r), at \in {"send", "expect"},
           UNCHANGED <<setup, late, up, proc>>, UNCHANGED <<asked, taken, got>>,
           heard' = heard, pipe' \in Seq(ReplyLine),
           \/ pipe' = pipe
           \/ pipe # <<>> /\ pipe' = Tail(pipe),
           r = "Perm" => \E c \in said' : c >= 500
    PROVE  DInv'
  <1>1. /\ file' = file /\ cfg' = cfg /\ route' = route /\ body' = body
        /\ late' = late /\ up' = up /\ asked' = asked /\ taken' = taken /\ got' = got
        /\ child' = child /\ killed' = killed /\ held' = held
    BY DEF setup, proc
  <1>2. Kind = "forward" /\ Kind' = Kind /\ TheRoute'.type = "forward"
    BY <1>1 DEF DInv, Placed, Kind, TheRoute
  <1>3. at \in InFlight /\ heard' \in BOOLEAN /\ result = None /\ cmd \in Commands
    BY DEF InFlight, DInv, Types, Conversing
  <1>4. CASE cmd \notin {"EHLO", "QUIT"}
    <2>1. at' = "done" /\ result' = r
      BY <1>4, FailsFacts
    <2>2. OkMeansTaken' /\ PermJustified'
      BY <1>2, <2>1 DEF OkMeansTaken, PermJustified
    <2>3. heard # TRUE
      BY <1>4 DEF DInv, Conversing
    <2>4. HeardIsFinal'
      BY <2>3 DEF HeardIsFinal
    <2> QED BY <1>3, <2>1, <2>2, <2>4, Ended
  <1>5. CASE cmd = "QUIT"
    <2>1. at' = "done" /\ result' = "OK" /\ taken' = TRUE
      BY <1>1, <1>5, FailsFacts DEF DInv, Conversing
    <2>2. OkMeansTaken' /\ PermJustified' /\ HeardIsFinal'
      BY <2>1 DEF OkMeansTaken, PermJustified, HeardIsFinal
    <2> QED BY <1>3, <2>1, <2>2, Ended
  <1>6. CASE cmd = "EHLO"
    <2>1. at' = "send" /\ cmd' = "HELO" /\ result' = result
      BY <1>6, FailsFacts
    <2>2. heard # TRUE /\ asked \notin {"DATA", "body"}
      BY <1>6 DEF DInv, Conversing, None
    <2>3. \A i \in 1..Len(pipe) : ~Coming(i, 354)
      BY <1>6 DEF DInv, Conversing
    <2>4. \A i \in 1..Len(pipe') : ~(pipe'[i].more = FALSE /\ pipe'[i].code = 354)
      <3>1. CASE pipe' = pipe
        BY <2>3, <3>1 DEF Coming
      <3>2. CASE pipe # <<>> /\ pipe' = Tail(pipe)
        <4>1. \A i \in 1..Len(pipe') : i + 1 \in 1..Len(pipe) /\ pipe'[i] = pipe[i + 1]
          BY <3>2, TailLines DEF DInv, Types
        <4> QED BY <2>3, <4>1 DEF Coming
      <3> QED BY <3>1, <3>2
    <2>5. Types'
      BY <1>1, <1>3, <2>1 DEF DInv, Types, InFlight
    <2>6. Configured' /\ Placed'
      BY <1>1, <1>2, <1>3, <2>1 DEF DInv, Configured, Placed, InFlight
    <2>7. Fresh' /\ Responding' /\ Waiting' /\ HeardIsFinal'
      BY <2>1 DEF Fresh, Begun, Responding, Waiting, HeardIsFinal
    <2>8. Conversing'
      <3>1. heard' # TRUE /\ asked' \notin {"DATA", "body"} /\ cmd' \in Commands
        BY <1>1, <2>1, <2>2 DEF Commands
      <3>2. \A i \in 1..Len(pipe') : ~Coming(i, 354)'
        BY <2>4 DEF Coming
      <3> QED BY <2>1, <3>1, <3>2 DEF Conversing
    <2>9. Relayed'
      BY <1>1, <1>2 DEF DInv, Relayed
    <2>10. OkMeansTaken' /\ PermJustified'
      BY <1>3, <2>1 DEF OkMeansTaken, PermJustified, None
    <2> QED BY <2>5, <2>6, <2>7, <2>8, <2>9, <2>10 DEF DInv
  <1> QED BY <1>4, <1>5, <1>6

\* Nothing is read, so nothing is heard.
LEMMA ReadFailsStep == DInv /\ ReadFails => DInv'
  <1> SUFFICES ASSUME DInv, ReadFails PROVE DInv'
    OBVIOUS
  <1>1. /\ at = "expect" /\ Fails("Temp") /\ UNCHANGED <<setup, late, up, proc>>
        /\ UNCHANGED <<asked, taken, got>> /\ heard' = heard /\ pipe' = pipe
    BY DEF ReadFails, endpoint
  <1>2. pipe' \in Seq(ReplyLine) /\ at \in {"send", "expect"}
    BY <1>1 DEF DInv, Types
  <1> QED BY <1>1, <1>2, FailStep

\* The body goes out with nothing else on its way.
LEMMA SendStep == DInv /\ Send => DInv'
  <1> SUFFICES ASSUME DInv, Send PROVE DInv'
    OBVIOUS
  <1>1. /\ file' = file /\ cfg' = cfg /\ route' = route /\ body' = body
        /\ late' = late /\ up' = up /\ pipe' = pipe /\ taken' = taken
        /\ child' = child /\ killed' = killed /\ held' = held
        /\ said' = said /\ heard' = heard /\ at = "send"
    BY DEF Send, setup, proc
  <1>2. CASE Fails("Temp") /\ UNCHANGED <<asked, got>>
    <2>1. pipe' \in Seq(ReplyLine) /\ at \in {"send", "expect"}
      BY <1>1 DEF DInv, Types
    <2>2. UNCHANGED <<setup, late, up, proc>> /\ UNCHANGED <<asked, taken, got>>
      BY <1>2 DEF Send
    <2> QED BY <1>1, <1>2, <2>1, <2>2, FailStep
  <1>3. CASE /\ Goto("expect", cmd) /\ asked' = cmd
             /\ got' = IF cmd = "body" THEN Unstuffed(OnTheWire(body)) ELSE got
    <2>1. at' = "expect" /\ cmd' = cmd /\ result' = result /\ asked' = cmd
      BY <1>3 DEF Goto
    <2>2. Kind' = Kind /\ Kind = "forward"
      BY <1>1 DEF DInv, Placed, Kind, TheRoute
    <2>3. result = None /\ cmd \in Commands
      BY <1>1 DEF DInv, Types, Conversing
    <2>4. Types'
      BY <1>1, <2>1, <2>3 DEF DInv, Types, InFlight
    <2>5. Configured' /\ Placed'
      BY <1>1, <2>1, <2>2 DEF DInv, Configured, Placed, InFlight
    <2>6. Fresh' /\ Responding' /\ Waiting' /\ HeardIsFinal'
      BY <2>1 DEF Fresh, Begun, Responding, Waiting, HeardIsFinal
    <2>7. Conversing'
      <3>1. cmd = "body" => pipe = <<>>
        BY <1>1 DEF DInv, Conversing
      <3>2. \A i \in 1..Len(pipe) : ~Coming(i, 354)
        BY <1>1 DEF DInv, Conversing
      <3>3. (cmd = "QUIT" => taken = TRUE) /\ (heard = TRUE => cmd = "QUIT")
        BY <1>1 DEF DInv, Conversing
      <3>4. \A i \in 1..Len(pipe') : ~Coming(i, 354)'
        BY <1>1, <3>2 DEF Coming
      <3>5. cmd = "body" => \A i \in 1..Len(pipe') : FALSE
        BY <1>1, <3>1
      <3> QED BY <1>1, <2>1, <2>3, <3>1, <3>3, <3>4, <3>5 DEF Conversing
    <2>8. Relayed'
      <3>1. CASE cmd = "body"
        <4>1. got' = Unstuffed(OnTheWire(body))
          BY <1>3, <3>1
        <4>2. got' = Append(body', Empty)
          BY <1>1, <4>1, BodyArrives DEF DInv, Types
        <4> QED BY <4>2 DEF Relayed
      <3>2. CASE cmd # "body"
        <4>1. got' = got /\ asked' # "body"
          BY <1>3, <2>1, <3>2
        <4> QED BY <1>1, <2>2, <4>1 DEF DInv, Relayed
      <3> QED BY <3>1, <3>2
    <2>9. OkMeansTaken' /\ PermJustified'
      BY <2>1, <2>3 DEF OkMeansTaken, PermJustified, None
    <2> QED BY <2>4, <2>5, <2>6, <2>7, <2>8, <2>9 DEF DInv
  <1> QED BY <1>2, <1>3 DEF Send

\* A reply is put behind the lines that are on their way: only its last line
\* is the last of a reply.
LEMMA ReplyArrives ==
    ASSUME NEW p \in Seq(ReplyLine), NEW r \in Replies, NEW q, q = p \o r
    PROVE  /\ q \in Seq(ReplyLine)
           /\ \A i \in 1..Len(q) : \/ i \in 1..Len(p) /\ q[i] = p[i]
                                   \/ i = Len(q) /\ q[i] = Last(r)
                                   \/ q[i].more = TRUE
  <1>1. r \in Seq(ReplyLine) /\ r # <<>>
    BY DeliveryAssumption DEF DeliveryAssumption
  <1>2. PICK m, n \in Nat : m = Len(p) /\ n = Len(r) /\ n > 0
    BY <1>1
  <1>3. q \in Seq(ReplyLine) /\ Len(q) = m + n
    BY <1>1, <1>2
  <1>4. ASSUME NEW i \in 1..m + n, ~(i <= m)
        PROVE  (i = m + n /\ q[i] = Last(r)) \/ q[i].more = TRUE
    <2>1. PICK k \in 1..n : i = m + k /\ k = i - m
      BY <1>4
    <2>2. q[i] = r[k]
      BY <1>1, <1>2, <1>4, <2>1
    <2>3. r[k] \in ReplyLine
      BY <1>1, <1>2
    <2>4. r[k].more \in BOOLEAN
      BY <2>3 DEF ReplyLine
    <2>5. CASE k < n
      <3>1. r[k].more
        BY <1>2, <2>5, DeliveryAssumption DEF DeliveryAssumption
      <3> QED BY <2>2, <2>4, <3>1, Zenon
    <2>6. CASE ~(k < n)
      <3>1. k = n /\ i = m + n
        BY <2>1, <2>6
      <3>2. q[i] = Last(r)
        BY <1>2, <2>2, <3>1 DEF Last
      <3> QED BY <3>1, <3>2
    <2> QED BY <2>5, <2>6
  <1>5. ASSUME NEW i \in 1..m + n, i <= m PROVE i \in 1..m /\ q[i] = p[i]
    BY <1>1, <1>2, <1>5
  <1> QED BY <1>2, <1>3, <1>4, <1>5

\* The target answers what it was asked last, and a 250 to the body is its
\* acceptance.
LEMMA AnswerStep == DInv /\ Answer => DInv'
  <1> SUFFICES ASSUME DInv, Answer PROVE DInv'
    OBVIOUS
  <1>1. /\ file' = file /\ cfg' = cfg /\ route' = route /\ body' = body
        /\ at' = at /\ cmd' = cmd /\ result' = result
        /\ late' = late /\ up' = up /\ got' = got
        /\ child' = child /\ killed' = killed /\ held' = held
        /\ said' = said /\ heard' = heard
        /\ at \in {"send", "expect"} /\ asked # None /\ asked' = None
    BY DEF Answer, setup, step, proc
  <1>2. PICK r \in Replies :
           /\ Last(r).code \in {220, 221, 250, 354} => Last(r).code = Want(asked)
           /\ taken' = (taken \/ (asked = "body" /\ Last(r).code = 250))
           /\ pipe' = pipe \o r
    BY DEF Answer
  <1>3. pipe \in Seq(ReplyLine) /\ result = None
    BY <1>1 DEF DInv, Types
  <1>4. /\ pipe' \in Seq(ReplyLine)
        /\ \A i \in 1..Len(pipe') : \/ i \in 1..Len(pipe) /\ pipe'[i] = pipe[i]
                                    \/ i = Len(pipe') /\ pipe'[i] = Last(r)
                                    \/ pipe'[i].more = TRUE
    BY <1>2, <1>3, ReplyArrives
  <1>5. /\ taken' \in BOOLEAN
        /\ taken = TRUE => taken' = TRUE
        /\ asked = "body" /\ Last(r).code = 250 => taken' = TRUE
        /\ taken' = TRUE => taken = TRUE \/ asked = "body"
    <2>1. taken \in BOOLEAN
      BY DEF DInv, Types
    <2>2. PICK b \in BOOLEAN : b <=> (asked = "body" /\ Last(r).code = 250)
      OBVIOUS
    <2>3. taken' = (taken \/ b)
      BY <1>2, <2>2, Zenon
    <2> QED BY <2>1, <2>2, <2>3
  <1>6. Kind' = Kind
    BY <1>1 DEF Kind, TheRoute
  <1>7. Types'
    BY <1>1, <1>4, <1>5 DEF DInv, Types
  <1>8. Configured' /\ Placed'
    BY <1>1, <1>6 DEF DInv, Configured, Placed
  <1>9. Fresh' /\ Responding' /\ Waiting' /\ HeardIsFinal'
    BY <1>1 DEF Fresh, Begun, Responding, Waiting, HeardIsFinal
  <1>10. Conversing'
    <2>1. /\ cmd \in Commands
          /\ at = "expect" => asked = cmd
          /\ at = "send" => asked \notin {"DATA", "body"} /\ cmd # "body"
          /\ \A i \in 1..Len(pipe) : ~Coming(i, 354)
          /\ at = "expect" /\ cmd = "body" => pipe = <<>>
          /\ cmd = "QUIT" => taken = TRUE
          /\ heard = TRUE => cmd = "QUIT"
      BY <1>1 DEF DInv, Conversing
    <2>2. ASSUME NEW i \in 1..Len(pipe'), Coming(i, 354)'
          PROVE  at = "expect" /\ cmd = "DATA" /\ i = Len(pipe')
      <3>1. pipe'[i].more = FALSE /\ pipe'[i].code = 354
        BY <2>2 DEF Coming
      <3>2. i = Len(pipe') /\ Last(r).code = 354
        BY <1>4, <2>1, <3>1 DEF Coming
      <3>3. Want(asked) = 354
        BY <1>2, <3>2
      <3>4. asked = "DATA"
        BY <3>3, WantFacts
      <3> QED BY <1>1, <2>1, <3>2, <3>4
    <2>3. ASSUME NEW i \in 1..Len(pipe'), Coming(i, 250)', at = "expect", cmd = "body"
          PROVE  taken' = TRUE
      <3>1. pipe'[i].more = FALSE /\ pipe'[i].code = 250
        BY <2>3 DEF Coming
      <3>2. asked = "body" /\ Len(pipe) = 0
        BY <2>1, <2>3
      <3>3. Last(r).code = 250
        BY <1>4, <3>1, <3>2
      <3> QED BY <1>5, <3>2, <3>3
    <2>4. cmd' \in Commands /\ asked' \in {None, cmd'}
          /\ (at' = "send" => asked' \notin {"DATA", "body"} /\ cmd' # "body")
      BY <1>1, <2>1 DEF None
    <2>5. (cmd' = "QUIT" => taken' = TRUE) /\ (heard' = TRUE => cmd' = "QUIT")
      BY <1>1, <1>5, <2>1
    <2>6. \A i \in 1..Len(pipe') : Coming(i, 354)' =>
              at' = "expect" /\ cmd' = "DATA" /\ asked' = None /\ i = Len(pipe')
      BY <1>1, <2>2
    <2>7. at' = "expect" /\ cmd' = "body" =>
              \A i \in 1..Len(pipe') : Coming(i, 250)' => taken' = TRUE
      BY <1>1, <2>3
    <2> QED BY <1>1, <2>4, <2>5, <2>6, <2>7 DEF Conversing
  <1>11. Relayed'
    <2>1. asked' # "body"
      BY <1>1 DEF None
    <2>2. taken' = TRUE /\ Kind' = "forward" => got' = Append(body', Empty)
      BY <1>1, <1>5, <1>6 DEF DInv, Relayed
    <2> QED BY <2>1, <2>2, Zenon DEF Relayed
  <1>12. OkMeansTaken' /\ PermJustified'
    BY <1>1, <1>3 DEF OkMeansTaken, PermJustified, None
  <1> QED BY <1>7, <1>8, <1>9, <1>10, <1>11, <1>12 DEF DInv

\* A line is garbled, continued, accepted or refused.
LEMMA ExpectStep == DInv /\ Expect => DInv'
  <1> SUFFICES ASSUME DInv, Expect PROVE DInv'
    OBVIOUS
  <1>1. /\ file' = file /\ cfg' = cfg /\ route' = route /\ body' = body
        /\ late' = late /\ up' = up /\ asked' = asked /\ taken' = taken /\ got' = got
        /\ child' = child /\ killed' = killed /\ held' = held
        /\ at = "expect" /\ pipe # <<>> /\ pipe' = Tail(pipe)
    BY DEF Expect, setup, endpoint, proc
  <1>2. UNCHANGED <<setup, late, up, proc>> /\ UNCHANGED <<asked, taken, got>>
    BY DEF Expect, endpoint
  <1> DEFINE l == Head(pipe)
  <1>3. /\ \/ l.code = Bad /\ Fails("Temp")
           \/ l.code # Bad /\ l.more /\ UNCHANGED step
           \/ /\ l.code # Bad /\ ~l.more /\ Accepts(cmd, l.code)
              /\ IF cmd = "QUIT" THEN End("OK") ELSE Goto("send", After(cmd))
           \/ /\ l.code # Bad /\ ~l.more /\ ~Accepts(cmd, l.code)
              /\ Fails(IF l.code >= 500 THEN "Perm" ELSE "Temp")
        /\ said' = IF l.more THEN said ELSE said \cup {l.code}
        /\ heard' = (heard \/ (cmd = "body" /\ ~l.more /\ l.code = 250))
    BY DEF Expect
  <1>4. /\ pipe' \in Seq(ReplyLine) /\ Len(pipe') = Len(pipe) - 1
        /\ \A i \in 1..Len(pipe') : i + 1 \in 1..Len(pipe) /\ pipe'[i] = pipe[i + 1]
        /\ 1 \in 1..Len(pipe) /\ l = pipe[1] /\ l \in ReplyLine
        /\ Len(pipe) = 1 => pipe' = <<>>
    BY <1>1, <1>3, TailLines DEF DInv, Types
  <1>5. Len(pipe) \in Nat /\ l.more \in BOOLEAN /\ l.code \in Nat
    <2>1. Len(pipe) \in Nat
      BY DEF DInv, Types
    <2>2. PICK k \in ReplyLine : k = l
      BY <1>4
    <2>3. k.more \in BOOLEAN /\ k.code \in Nat
      BY DEF ReplyLine, Bad
    <2> QED BY <2>1, <2>2, <2>3
  <1> HIDE DEF l
  <1>6. /\ heard' \in BOOLEAN
        /\ ~(cmd = "body" /\ ~l.more /\ l.code = 250) => heard' = heard
        /\ heard' = TRUE => heard = TRUE \/ cmd = "body"
    <2>1. heard \in BOOLEAN
      BY DEF DInv, Types
    <2>2. PICK b \in BOOLEAN : b <=> (cmd = "body" /\ ~l.more /\ l.code = 250)
      OBVIOUS
    <2>3. heard' = (heard \/ b)
      BY <1>3, <2>2, Zenon
    <2> QED BY <2>1, <2>2, <2>3
  <1>7. /\ cmd \in Commands /\ asked \in {None, cmd} /\ result = None
        /\ \A i \in 1..Len(pipe) : Coming(i, 354) =>
              cmd = "DATA" /\ asked = None /\ i = Len(pipe)
        /\ cmd = "body" => asked = None
        /\ cmd = "body" => \A i \in 1..Len(pipe) : Coming(i, 250) => taken = TRUE
        /\ cmd = "QUIT" => taken = TRUE
        /\ heard = TRUE => cmd = "QUIT"
    BY <1>1 DEF DInv, Conversing, Types
  <1>8. at \in InFlight /\ at \in {"send", "expect"}
    BY <1>1 DEF InFlight
  <1>9. Kind' = Kind /\ Kind = "forward"
    BY <1>1 DEF DInv, Placed, Kind, TheRoute
  <1>10. CASE l.code = Bad /\ Fails("Temp")
    <2>1. heard' = heard
      BY <1>6, <1>10 DEF Bad
    <2> QED BY <1>1, <1>2, <1>4, <1>8, <1>10, <2>1, FailStep
  <1>11. CASE /\ l.code # Bad /\ ~l.more /\ ~Accepts(cmd, l.code)
              /\ Fails(IF l.code >= 500 THEN "Perm" ELSE "Temp")
    <2>1. heard' = heard
      <3>1. cmd = "body" => Want(cmd) = 250
        BY WantFacts
      <3>2. cmd = "body" => l.code # 250
        BY <1>11, <3>1 DEF Accepts
      <3> QED BY <1>6, <3>2
    <2>2. PICK r \in {"Temp", "Perm"} :
              Fails(r) /\ (r = "Perm" => l.code >= 500)
      <3>1. CASE l.code >= 500
        BY <1>11, <3>1
      <3>2. CASE ~(l.code >= 500)
        BY <1>11, <3>2
      <3> QED BY <3>1, <3>2
    <2>3. r = "Perm" => \E c \in said' : c >= 500
      BY <1>3, <1>11, <2>2
    <2> QED BY <1>1, <1>2, <1>4, <1>8, <2>1, <2>2, <2>3, FailStep
  <1>12. CASE l.code # Bad /\ l.more /\ UNCHANGED step
    <2>1. at' = "expect" /\ cmd' = cmd /\ result' = result
      BY <1>1, <1>12 DEF step
    <2>2. heard' = heard
      BY <1>6, <1>12
    <2>3. Types'
      BY <1>1, <1>4, <1>6, <1>7, <2>1 DEF DInv, Types, InFlight
    <2>4. Configured' /\ Placed'
      BY <1>1, <1>9, <2>1 DEF DInv, Configured, Placed, InFlight
    <2>5. Fresh' /\ Responding' /\ Waiting' /\ HeardIsFinal'
      BY <2>1 DEF Fresh, Begun, Responding, Waiting, HeardIsFinal
    <2>6. Conversing'
      <3>1. \A i \in 1..Len(pipe') : Coming(i, 354)' =>
                cmd' = "DATA" /\ asked' = None /\ i = Len(pipe')
        <4> SUFFICES ASSUME NEW i \in 1..Len(pipe'), Coming(i, 354)'
                     PROVE  cmd' = "DATA" /\ asked' = None /\ i = Len(pipe')
          OBVIOUS
        <4>1. i + 1 \in 1..Len(pipe) /\ Coming(i + 1, 354)
          BY <1>4 DEF Coming
        <4>2. cmd = "DATA" /\ asked = None /\ i + 1 = Len(pipe)
          BY <1>7, <4>1
        <4>3. Len(pipe') = Len(pipe) - 1 /\ Len(pipe) \in Nat
          BY <1>4, <1>5
        <4>4. i = Len(pipe')
          BY <4>2, <4>3
        <4> QED BY <1>1, <2>1, <4>2, <4>4
      <3>2. cmd' = "body" => \A i \in 1..Len(pipe') : Coming(i, 250)' => taken' = TRUE
        <4> SUFFICES ASSUME cmd' = "body", NEW i \in 1..Len(pipe'), Coming(i, 250)'
                     PROVE  taken' = TRUE
          OBVIOUS
        <4>1. i + 1 \in 1..Len(pipe) /\ Coming(i + 1, 250)
          BY <1>4 DEF Coming
        <4> QED BY <1>1, <1>7, <2>1, <4>1
      <3>3. /\ cmd' \in Commands /\ asked' \in {None, cmd'}
            /\ cmd' = "body" => asked' = None
        BY <1>1, <1>7, <2>1
      <3>4. (cmd' = "QUIT" => taken' = TRUE) /\ (heard' = TRUE => cmd' = "QUIT")
        BY <1>1, <1>7, <2>1, <2>2
      <3> QED BY <2>1, <3>1, <3>2, <3>3, <3>4 DEF Conversing
    <2>7. Relayed'
      BY <1>1, <1>9 DEF DInv, Relayed
    <2>8. OkMeansTaken' /\ PermJustified'
      BY <1>7, <2>1 DEF OkMeansTaken, PermJustified, None
    <2> QED BY <2>3, <2>4, <2>5, <2>6, <2>7, <2>8 DEF DInv
  <1>13. CASE cmd = "QUIT" /\ End("OK")
    <2>1. at' = "done" /\ result' = "OK" /\ taken' = TRUE
      BY <1>1, <1>7, <1>13 DEF End
    <2>2. OkMeansTaken' /\ PermJustified' /\ HeardIsFinal'
      BY <2>1 DEF OkMeansTaken, PermJustified, HeardIsFinal
    <2> QED BY <1>2, <1>4, <1>6, <1>8, <2>1, <2>2, Ended
  <1>14. CASE /\ cmd # "QUIT" /\ ~l.more /\ Accepts(cmd, l.code)
              /\ Goto("send", After(cmd))
    <2>1. at' = "send" /\ cmd' = After(cmd) /\ result' = result /\ l.code = Want(cmd)
          /\ l.more = FALSE
      BY <1>5, <1>14 DEF Goto, Accepts
    <2>2. /\ cmd' \in Commands /\ cmd' # "banner"
          /\ cmd' = "body" <=> cmd = "DATA"
          /\ cmd' = "QUIT" <=> cmd = "body"
      BY <1>7, <1>14, <2>1, AfterFacts DEF Commands
    <2>3. cmd = "DATA" => pipe' = <<>> /\ asked = None
      <3>1. cmd = "DATA" => Coming(1, 354)
        BY <1>4, <2>1, WantFacts DEF Coming
      <3> QED BY <1>4, <1>7, <3>1
    <2>4. cmd = "body" => taken = TRUE
      <3>1. cmd = "body" => Coming(1, 250)
        BY <1>4, <2>1, WantFacts DEF Coming
      <3> QED BY <1>4, <1>7, <3>1
    <2>5. Types'
      BY <1>1, <1>4, <1>6, <1>7, <2>1 DEF DInv, Types, InFlight
    <2>6. Configured' /\ Placed'
      BY <1>1, <1>9, <2>1 DEF DInv, Configured, Placed, InFlight
    <2>7. Fresh' /\ Responding' /\ Waiting' /\ HeardIsFinal'
      BY <2>1 DEF Fresh, Begun, Responding, Waiting, HeardIsFinal
    <2>8. Conversing'
      <3>1. \A i \in 1..Len(pipe') : ~Coming(i, 354)'
        <4> SUFFICES ASSUME NEW i \in 1..Len(pipe'), Coming(i, 354)' PROVE FALSE
          OBVIOUS
        <4>1. i + 1 \in 1..Len(pipe) /\ Coming(i + 1, 354)
          BY <1>4 DEF Coming
        <4>2. pipe' = <<>>
          BY <1>7, <2>3, <4>1
        <4> QED BY <4>2
      <3>2. asked' \notin {"DATA", "body"}
        BY <1>1, <1>7, <2>3 DEF None
      <3>3. cmd' = "body" => pipe' = <<>> /\ asked' = None
        BY <1>1, <2>2, <2>3
      <3>4. (cmd' = "QUIT" => taken' = TRUE) /\ (heard' = TRUE => cmd' = "QUIT")
        BY <1>1, <1>6, <1>7, <1>14, <2>2, <2>4
      <3> QED BY <2>1, <2>2, <3>1, <3>2, <3>3, <3>4 DEF Conversing
    <2>9. Relayed'
      BY <1>1, <1>9 DEF DInv, Relayed
    <2>10. OkMeansTaken' /\ PermJustified'
      BY <1>7, <2>1 DEF OkMeansTaken, PermJustified, None
    <2> QED BY <2>5, <2>6, <2>7, <2>8, <2>9, <2>10 DEF DInv
  <1> QED BY <1>3, <1>10, <1>11, <1>12, <1>13, <1>14

-----------------------------------------------------------------------------
(* Webhook *)

\* A request is built and sent, or it is not.
LEMMA PostStep == DInv /\ Post => DInv'
  <1> SUFFICES ASSUME DInv, Post PROVE DInv'
    OBVIOUS
  <1>1. /\ file' = file /\ cfg' = cfg /\ route' = route /\ body' = body
        /\ late' = late /\ pipe' = pipe /\ taken' = taken /\ got' = got
        /\ child' = child /\ killed' = killed /\ held' = held
        /\ said' = said /\ heard' = heard
    BY DEF Post, setup, proc
  <1>2. at = "post" /\ pipe = <<>> /\ taken = FALSE /\ heard = FALSE /\ result = None
    BY DEF Post, DInv, Fresh, Begun, Types
  <1>3. Kind = "webhook" /\ TheRoute' = TheRoute /\ Kind' = Kind
    BY <1>1, <1>2 DEF DInv, Placed, Kind, TheRoute
  <1>4. pipe' \in Seq(ReplyLine) /\ heard' = FALSE /\ heard' \in BOOLEAN
        /\ at \in InFlight
    BY <1>1, <1>2 DEF DInv, Types, InFlight
  <1>5. CASE End("Temp") /\ UNCHANGED <<up, asked>>
    <2>1. at' = "done" /\ result' = "Temp" /\ UNCHANGED <<setup, late, up, proc>>
          /\ UNCHANGED <<asked, taken, got>>
      BY <1>5 DEF Post, End
    <2> QED BY <1>4, <2>1, EndedTemp
  <1>6. CASE TheRoute.url = "unparsable" /\ End("Perm") /\ UNCHANGED <<up, asked>>
    <2>1. at' = "done" /\ result' = "Perm" /\ UNCHANGED <<setup, late, up, proc>>
          /\ UNCHANGED <<asked, taken, got>>
      BY <1>6 DEF Post, End
    <2>2. TheRoute'.type = "webhook" /\ TheRoute'.url = "unparsable"
      BY <1>3, <1>6 DEF Kind
    <2>3. PermJustified'
      BY <2>2 DEF PermJustified
    <2>4. OkMeansTaken' /\ HeardIsFinal'
      BY <1>4, <2>1 DEF OkMeansTaken, HeardIsFinal
    <2> QED BY <1>4, <2>1, <2>3, <2>4, Ended
  <1>7. CASE Goto("respond", "POST") /\ up' = TRUE /\ asked' = "POST"
    <2>1. at' = "respond" /\ result' = result /\ up' = TRUE /\ asked' = "POST"
      BY <1>7 DEF Goto
    <2>2. Types'
      BY <1>1, <1>2, <2>1 DEF DInv, Types, InFlight
    <2>3. Configured' /\ Placed'
      BY <1>1, <1>2, <1>3, <2>1 DEF DInv, Configured, Placed, InFlight
    <2>4. Fresh' /\ Conversing' /\ Waiting' /\ HeardIsFinal'
      BY <2>1 DEF Fresh, Begun, Conversing, Waiting, HeardIsFinal
    <2>5. Responding'
      BY <1>1, <1>2 DEF Responding
    <2>6. Relayed'
      BY <1>3, <2>1 DEF Relayed
    <2>7. OkMeansTaken' /\ PermJustified'
      BY <1>2, <2>1 DEF OkMeansTaken, PermJustified, None
    <2> QED BY <2>2, <2>3, <2>4, <2>5, <2>6, <2>7 DEF DInv
  <1> QED BY <1>5, <1>6, <1>7 DEF Post

\* A status below 300 is an acceptance.
LEMMA RespondStep == DInv /\ Respond => DInv'
  <1> SUFFICES ASSUME DInv, Respond PROVE DInv'
    OBVIOUS
  <1>1. /\ file' = file /\ cfg' = cfg /\ route' = route /\ body' = body
        /\ at' = at /\ cmd' = cmd /\ result' = result
        /\ late' = late /\ up' = up /\ got' = got
        /\ child' = child /\ killed' = killed /\ held' = held
        /\ said' = said /\ heard' = heard
        /\ at = "respond" /\ asked' = None
    BY DEF Respond, setup, step, proc
  <1>2. PICK s \in Statuses, b \in BOOLEAN :
           (s < 300 => b) /\ taken' = b /\ pipe' = <<[code |-> s, more |-> FALSE]>>
    BY DEF Respond
  <1>3. s \in 200..599
    BY DeliveryAssumption DEF DeliveryAssumption
  <1>4. PICK l \in ReplyLine : l.code = s /\ pipe' = <<l>>
    BY <1>2, <1>3 DEF ReplyLine
  <1>5. pipe' \in Seq(ReplyLine) /\ Head(pipe') = l
    BY <1>4
  <1>6. Kind = "webhook" /\ Kind' = Kind /\ result = None
    BY <1>1 DEF DInv, Placed, Types, Kind, TheRoute
  <1>7. Types'
    BY <1>1, <1>2, <1>5 DEF DInv, Types
  <1>8. Configured' /\ Placed'
    BY <1>1, <1>6 DEF DInv, Configured, Placed
  <1>9. Fresh' /\ Conversing' /\ Waiting' /\ HeardIsFinal'
    BY <1>1 DEF Fresh, Begun, Conversing, Waiting, HeardIsFinal
  <1>10. Responding'
    <2>1. Head(pipe').code = s /\ s \in 200..599
      BY <1>3, <1>4, <1>5
    <2>2. s < 300 => taken' = TRUE
      BY <1>2
    <2>3. heard' = FALSE
      BY <1>1 DEF DInv, Responding
    <2> QED BY <2>1, <2>2, <2>3 DEF Responding
  <1>11. Relayed'
    BY <1>1, <1>6 DEF Relayed, None
  <1>12. OkMeansTaken' /\ PermJustified'
    BY <1>1, <1>6 DEF OkMeansTaken, PermJustified, None
  <1> QED BY <1>7, <1>8, <1>9, <1>10, <1>11, <1>12 DEF DInv

\* The status that was read decides.
LEMMA DoneStep == DInv /\ Done => DInv'
  <1> SUFFICES ASSUME DInv, Done PROVE DInv'
    OBVIOUS
  <1>1. /\ at = "respond" /\ UNCHANGED <<setup, late, up, proc>>
        /\ UNCHANGED <<asked, taken, got>> /\ at \in InFlight
    BY DEF Done, endpoint, InFlight
  <1>2. heard = FALSE /\ pipe \in Seq(ReplyLine)
    BY <1>1 DEF DInv, Responding, Types
  <1>3. CASE End("Temp") /\ UNCHANGED <<pipe, said, heard>>
    <2>1. at' = "done" /\ result' = "Temp" /\ heard' = FALSE
          /\ pipe' \in Seq(ReplyLine)
      BY <1>2, <1>3 DEF End
    <2> QED BY <1>1, <2>1, EndedTemp
  <1>4. CASE /\ pipe # <<>> /\ pipe' = <<>>
             /\ End(StatusResult(Head(pipe).code))
             /\ said' = {Head(pipe).code} /\ heard' = (Head(pipe).code < 300)
    <2>1. PICK s \in 200..599 : s = Head(pipe).code /\ (s < 300 => taken = TRUE)
      BY <1>1, <1>4 DEF DInv, Responding
    <2>2. at' = "done" /\ result' = StatusResult(s) /\ said' = {s}
      BY <1>4, <2>1 DEF End
    <2>3. heard' \in BOOLEAN /\ (heard' = TRUE => s < 300)
      <3>1. heard' = (s < 300)
        BY <1>4, <2>1
      <3>2. PICK b \in BOOLEAN : b = (s < 300) /\ (b = TRUE => s < 300)
        <4>1. CASE s < 300
          <5>1. TRUE = (s < 300)
            BY <4>1
          <5> QED BY <4>1, <5>1
        <4>2. CASE ~(s < 300)
          <5>1. FALSE = (s < 300)
            BY <4>2
          <5> QED BY <4>2, <5>1
        <4> QED BY <4>1, <4>2
      <3>3. heard' = b
        BY <3>1, <3>2, Zenon
      <3> QED BY <3>2, <3>3
    <2>4. /\ StatusResult(s) \in {"OK", "Temp", "Perm"}
          /\ StatusResult(s) = "OK" <=> s < 300
          /\ StatusResult(s) = "Perm" => s \in (300..499) \ {429}
      BY StatusFacts
    <2>5. TheRoute' = TheRoute /\ TheRoute.type = "webhook" /\ taken' = taken
      BY <1>1 DEF DInv, Placed, Kind, TheRoute, setup
    <2>6. OkMeansTaken'
      BY <2>1, <2>2, <2>4, <2>5 DEF OkMeansTaken
    <2>7. HeardIsFinal'
      BY <2>2, <2>3, <2>4 DEF HeardIsFinal
    <2>8. PermJustified'
      <3>1. result' = "Perm" => said' # {} /\ said' \subseteq (300..499) \ {429}
        BY <2>2, <2>4
      <3>2. TheRoute'.type = "webhook"
        BY <2>5
      <3> QED BY <3>1, <3>2 DEF PermJustified
    <2>9. pipe' \in Seq(ReplyLine) /\ result' \in {"OK", "Temp", "Perm"}
      BY <1>4, <2>2, <2>4
    <2> QED BY <1>1, <2>2, <2>3, <2>6, <2>7, <2>8, <2>9, Ended
  <1> QED BY <1>3, <1>4 DEF Done

-----------------------------------------------------------------------------
(* Command *)

\* A child that runs has done nothing yet.
LEMMA StartStep == DInv /\ Start => DInv'
  <1> SUFFICES ASSUME DInv, Start PROVE DInv'
    OBVIOUS
  <1>1. /\ file' = file /\ cfg' = cfg /\ route' = route /\ body' = body
        /\ late' = late /\ up' = up /\ pipe' = pipe /\ asked' = asked
        /\ taken' = taken /\ got' = got /\ killed' = killed /\ held' = held
        /\ said' = said /\ heard' = heard
    BY DEF Start, setup, endpoint
  <1>2. at = "start" /\ taken = FALSE /\ heard = FALSE /\ result = None
        /\ killed = FALSE
    BY DEF Start, DInv, Fresh, Begun, Types
  <1>3. CASE End("Temp") /\ UNCHANGED child
    <2>1. at' = "done" /\ result' = "Temp" /\ UNCHANGED <<setup, late, up, proc>>
          /\ UNCHANGED <<asked, taken, got>>
      BY <1>1, <1>3 DEF Start, End, proc
    <2>2. pipe' \in Seq(ReplyLine) /\ heard' = FALSE /\ at \in InFlight
      BY <1>1, <1>2 DEF DInv, Types, InFlight
    <2> QED BY <2>1, <2>2, EndedTemp
  <1>4. CASE Goto("run", "child") /\ child' = Running
    <2>1. at' = "run" /\ result' = result /\ child' = Running
      BY <1>4 DEF Goto
    <2>2. Kind' = Kind /\ Kind = "command"
      BY <1>1, <1>2 DEF DInv, Placed, Kind, TheRoute
    <2>3. Types'
      BY <1>1, <1>2, <2>1 DEF DInv, Types, InFlight
    <2>4. Configured' /\ Placed'
      BY <1>1, <1>2, <2>1, <2>2 DEF DInv, Configured, Placed, InFlight
    <2>5. Fresh' /\ Conversing' /\ Responding' /\ HeardIsFinal'
      BY <2>1 DEF Fresh, Begun, Conversing, Responding, HeardIsFinal
    <2>6. Waiting'
      BY <1>1, <1>2, <2>1 DEF Waiting, Running
    <2>7. Relayed'
      BY <1>1, <2>2 DEF DInv, Relayed
    <2>8. OkMeansTaken' /\ PermJustified'
      BY <1>2, <2>1 DEF OkMeansTaken, PermJustified, None
    <2> QED BY <2>3, <2>4, <2>5, <2>6, <2>7, <2>8 DEF DInv
  <1> QED BY <1>3, <1>4 DEF Start

\* The steps of a child that runs or has run, with its code, the signal, and
\* what it has done with the message.
LEMMA ChildStep ==
    ASSUME DInv, at = "run", at' \in {"run", "output"},
           UNCHANGED <<setup, late, up, pipe, asked, got>>, result' = result,
           child' \in ExitCodes \cup {Running, Killed}, killed' \in BOOLEAN,
           taken' \in BOOLEAN, held' \in BOOLEAN, heard' \in BOOLEAN, Waiting'
    PROVE  DInv'
  <1>1. /\ file' = file /\ cfg' = cfg /\ route' = route /\ body' = body
        /\ late' = late /\ up' = up /\ pipe' = pipe /\ asked' = asked /\ got' = got
    BY DEF setup
  <1>2. Kind' = Kind /\ Kind = "command" /\ result = None
    BY <1>1 DEF DInv, Types, Placed, Kind, TheRoute
  <1>3. Types'
    <2>1. at' # "done" /\ at' \in InFlight
      BY DEF InFlight
    <2> QED BY <1>1, <1>2, <2>1 DEF DInv, Types
  <1>4. Configured' /\ Placed'
    BY <1>1, <1>2 DEF DInv, Configured, Placed, InFlight
  <1>5. Fresh' /\ Conversing' /\ Responding' /\ HeardIsFinal'
    BY DEF Fresh, Begun, Conversing, Responding, HeardIsFinal
  <1>6. Relayed'
    BY <1>1, <1>2 DEF DInv, Relayed
  <1>7. OkMeansTaken' /\ PermJustified'
    BY <1>2 DEF OkMeansTaken, PermJustified, None
  <1> QED BY <1>3, <1>4, <1>5, <1>6, <1>7 DEF DInv

\* A child that ends with code 0 has taken the message.
LEMMA ExitStep == DInv /\ Exit => DInv'
  <1> SUFFICES ASSUME DInv, Exit PROVE DInv'
    OBVIOUS
  <1>1. /\ at = "run" /\ at' = "run" /\ result' = result
        /\ UNCHANGED <<setup, late, up, pipe, asked, got>>
        /\ child' \in ExitCodes \cup {Killed} /\ said' = {child'} \ {Killed}
        /\ held' \in BOOLEAN /\ killed' = killed /\ heard' = heard /\ late' = late
    BY DEF Exit, step
  <1>2. taken' \in BOOLEAN /\ (child' = 0 => taken' = TRUE)
    <2>1. taken' \in BOOLEAN
      BY DEF Exit
    <2>2. CASE child' = 0
      <3>1. child' # Killed
        BY <2>2 DEF Killed
      <3>2. taken' = (child' = 0)
        BY <3>1 DEF Exit
      <3> QED BY <2>1, <2>2, <3>2
    <2>3. CASE child' # 0
      BY <2>1, <2>3
    <2> QED BY <2>2, <2>3
  <1>3. killed' \in BOOLEAN /\ heard' \in BOOLEAN
        /\ child' \in ExitCodes \cup {Running, Killed}
    BY <1>1 DEF DInv, Types
  <1>4. Waiting'
    <2>1. (killed' = TRUE => late' = TRUE) /\ heard' = FALSE
      BY <1>1 DEF DInv, Waiting
    <2> QED BY <1>1, <1>2, <2>1 DEF Waiting
  <1> QED BY <1>1, <1>2, <1>3, <1>4, ChildStep

\* The signal is sent after the deadline only.
LEMMA KillStep == DInv /\ Kill => DInv'
  <1> SUFFICES ASSUME DInv, Kill PROVE DInv'
    OBVIOUS
  <1>1. /\ at = "run" /\ at' = "run" /\ result' = result
        /\ UNCHANGED <<setup, late, up, pipe, asked, got>>
        /\ killed' = TRUE /\ heard' = heard /\ late' = late /\ late
    BY DEF Kill, step
  <1>2. late' = TRUE /\ heard' = FALSE
    BY <1>1 DEF DInv, Types, Waiting
  <1>3. /\ child' \in ExitCodes \cup {Running, Killed} /\ taken' \in BOOLEAN
        /\ held' \in BOOLEAN /\ (child' = 0 => taken' = TRUE)
    <2>1. CASE child' = Killed /\ taken' \in BOOLEAN /\ held' \in BOOLEAN
      <3>1. child' # 0
        BY <2>1 DEF Killed
      <3> QED BY <2>1, <3>1
    <2>2. CASE UNCHANGED <<child, taken, held>>
      BY <1>1, <2>2 DEF DInv, Types, Waiting
    <2> QED BY <2>1, <2>2 DEF Kill
  <1>4. Waiting'
    BY <1>1, <1>2, <1>3 DEF Waiting
  <1>5. killed' \in BOOLEAN /\ heard' \in BOOLEAN
    BY <1>1, <1>2
  <1> QED BY <1>1, <1>3, <1>4, <1>5, ChildStep

\* The success of a child is heard unless the signal came first.
LEMMA ReapStep == DInv /\ Reap => DInv'
  <1> SUFFICES ASSUME DInv, Reap PROVE DInv'
    OBVIOUS
  <1>1. /\ at = "run" /\ at' = "output" /\ result' = result /\ child # Running
        /\ UNCHANGED <<setup, late, up, pipe, asked, got>>
        /\ child' = child /\ killed' = killed /\ held' = held
        /\ taken' = taken /\ late' = late /\ said' = said
    BY DEF Reap, Goto, endpoint, proc
  <1>2. heard' \in BOOLEAN /\ (heard' = TRUE <=> child = 0 /\ killed = FALSE)
    <2>1. killed \in BOOLEAN
      BY DEF DInv, Types
    <2>2. PICK b \in BOOLEAN : b <=> (child = 0 /\ ~killed)
      OBVIOUS
    <2>3. heard' = (child = 0 /\ ~killed)
      BY DEF Reap
    <2>4. heard' = b
      BY <2>2, <2>3, Zenon
    <2> QED BY <2>1, <2>2, <2>4
  <1>3. /\ child' \in ExitCodes \cup {Running, Killed} /\ taken' \in BOOLEAN
        /\ held' \in BOOLEAN /\ killed' \in BOOLEAN
    BY <1>1 DEF DInv, Types
  <1>4. Waiting'
    BY <1>1, <1>2 DEF DInv, Waiting
  <1> QED BY <1>1, <1>2, <1>3, <1>4, ChildStep

\* The result of the child that Reap has waited for.
LEMMA ExitFacts ==
    ASSUME DInv, at = "output"
    PROVE  /\ ExitResult(child) \in {"OK", "Temp", "Perm"}
           /\ ExitResult(child) = "OK" <=> child = 0 /\ killed = FALSE
           /\ ExitResult(child) = "Perm" =>
                 late = FALSE /\ ~(child = 0 /\ killed = FALSE)
  <1>1. late \in BOOLEAN /\ killed \in BOOLEAN
    BY DEF DInv, Types
  <1>2. CASE child = 0 /\ ~killed
    <2>1. ExitResult(child) = "OK"
      BY <1>2 DEF ExitResult
    <2> QED BY <1>1, <1>2, <2>1
  <1>3. CASE ~(child = 0 /\ ~killed)
             /\ (late \/ (TheRoute.tempFail # 0 /\ child = TheRoute.tempFail))
    <2>1. ExitResult(child) = "Temp"
      BY <1>3 DEF ExitResult
    <2> QED BY <1>1, <1>3, <2>1
  <1>4. CASE ~(child = 0 /\ ~killed)
             /\ ~(late \/ (TheRoute.tempFail # 0 /\ child = TheRoute.tempFail))
    <2>1. ExitResult(child) = "Perm"
      BY <1>4 DEF ExitResult
    <2> QED BY <1>1, <1>4, <2>1
  <1> QED BY <1>2, <1>3, <1>4

\* The result is that of the child that was waited for.
LEMMA RunReturnsStep == DInv /\ RunReturns => DInv'
  <1> SUFFICES ASSUME DInv, RunReturns PROVE DInv'
    OBVIOUS
  <1>1. /\ at = "output" /\ UNCHANGED <<setup, late, up, proc>>
        /\ UNCHANGED <<asked, taken, got>> /\ at \in InFlight
        /\ at' = "done" /\ result' = ExitResult(child)
        /\ pipe' = pipe /\ said' = said /\ heard' = heard /\ late' = late
    BY DEF RunReturns, End, endpoint, InFlight
  <1>2. /\ pipe' \in Seq(ReplyLine) /\ heard' \in BOOLEAN
        /\ killed \in BOOLEAN /\ late \in BOOLEAN
    BY <1>1 DEF DInv, Types
  <1>3. /\ child = 0 => taken = TRUE
        /\ killed = TRUE => late = TRUE
        /\ killed = FALSE => said = {child} \ {Killed}
        /\ heard = TRUE <=> child = 0 /\ killed = FALSE
    BY <1>1 DEF DInv, Waiting
  <1>4. /\ result' \in {"OK", "Temp", "Perm"}
        /\ result' = "OK" <=> child = 0 /\ killed = FALSE
        /\ result' = "Perm" => late = FALSE /\ ~(child = 0 /\ killed = FALSE)
    BY <1>1, ExitFacts
  <1>5. OkMeansTaken'
    BY <1>1, <1>3, <1>4 DEF OkMeansTaken
  <1>6. HeardIsFinal'
    BY <1>1, <1>2, <1>3, <1>4 DEF HeardIsFinal
  <1>7. PermJustified'
    <2>1. result' = "Perm" => /\ late' = FALSE /\ 0 \notin said'
                              /\ said' # {} \/ child' = Killed
      <3> SUFFICES ASSUME result' = "Perm"
                   PROVE  /\ late' = FALSE /\ 0 \notin said'
                          /\ said' # {} \/ child' = Killed
        OBVIOUS
      <3>1. late = FALSE /\ killed = FALSE /\ child # 0
        BY <1>2, <1>3, <1>4
      <3>2. said' = {child} \ {Killed} /\ child' = child
        BY <1>1, <1>3, <3>1 DEF proc
      <3> QED BY <1>1, <3>1, <3>2
    <2>2. TheRoute'.type = "command"
      BY <1>1 DEF DInv, Placed, Kind, TheRoute, setup
    <2> QED BY <2>1, <2>2 DEF PermJustified
  <1> QED BY <1>1, <1>2, <1>4, <1>5, <1>6, <1>7, Ended

-----------------------------------------------------------------------------
(* The theorems *)

\* A step that changes none of the variables.
LEMMA StutterDInv == DInv /\ UNCHANGED vars => DInv'
  <1> SUFFICES ASSUME DInv, UNCHANGED vars PROVE DInv'
    OBVIOUS
  <1>1. /\ file' = file /\ cfg' = cfg /\ route' = route /\ body' = body
        /\ at' = at /\ cmd' = cmd /\ result' = result /\ pipe' = pipe /\ late' = late
        /\ asked' = asked /\ taken' = taken /\ got' = got
        /\ child' = child /\ killed' = killed /\ held' = held /\ up' = up
        /\ said' = said /\ heard' = heard
    BY DEF vars
  <1>2. TheRoute' = TheRoute /\ Kind' = Kind
    BY <1>1 DEF Kind, TheRoute
  <1>3. Types' /\ Configured' /\ Placed' /\ Fresh'
    BY <1>1, <1>2 DEF DInv, Types, Configured, Placed, Fresh
  <1>4. Conversing' /\ Relayed' /\ Responding' /\ Waiting'
    BY <1>1, <1>2 DEF DInv, Conversing, Coming, Relayed, Responding, Waiting
  <1>5. OkMeansTaken' /\ HeardIsFinal' /\ PermJustified'
    BY <1>1, <1>2 DEF DInv, OkMeansTaken, HeardIsFinal, PermJustified
  <1> QED BY <1>3, <1>4, <1>5 DEF DInv

\* One case for each action.
LEMMA NextDInv == DInv /\ [Next]_vars => DInv'
  <1> SUFFICES ASSUME DInv, [Next]_vars PROVE DInv'
    OBVIOUS
  <1>1. CASE Dispatch
    BY <1>1, RouterStep, DialStep, SendStep, ExpectStep, ReadFailsStep, PostStep,
       DoneStep, StartStep, KillStep, ReapStep, RunReturnsStep DEF Dispatch
  <1>2. CASE External
    BY <1>2, AnswerStep, RespondStep, ExitStep, ReleaseStep, BreakStep DEF External
  <1>3. CASE LoadFile \/ Message \/ Deadline
    BY <1>3, LoadFileStep, MessageStep, DeadlineStep
  <1>4. CASE UNCHANGED vars
    BY <1>4, StutterDInv
  <1> QED BY <1>1, <1>2, <1>3, <1>4 DEF Next

\* The inductive invariant of Delivery holds in every state.
THEOREM Invariance == Spec => []DInv
  BY InitDInv, NextDInv, PTL DEF Spec

\* Every variable has its type, and an attempt in flight has a route.
THEOREM TypeCorrect == Spec => []TypeOK
  <1>1. DInv => TypeOK
    BY TypeHolds DEF DInv
  <1> QED BY <1>1, Invariance, PTL

\* LookupRoute does for every file that Load accepts, and every recipient,
\* what section 9 of docs/tech_spec.md says.
THEOREM LookupIsSpecified == Spec => []LookupSpecified
  <1>1. DInv => LookupSpecified
    BY LookupHolds DEF DInv
  <1> QED BY <1>1, Invariance, PTL

\* A file whose routes would shadow one another is not accepted.
THEOREM NoneIsShadowed == Spec => []NoRouteShadowed
  <1>1. DInv => NoRouteShadowed
    BY ShadowHolds DEF DInv
  <1> QED BY <1>1, Invariance, PTL

\* What Validate accepts is fit for the code that relies on it.
THEOREM ConfigIsFit == Spec => []FitForUse
  <1>1. DInv => FitForUse
    BY FitHolds DEF DInv
  <1> QED BY <1>1, Invariance, PTL

\* No disposition reports a delivery that the endpoint did not accept,
\* whatever replies, breaks and deadlines it meets.
THEOREM SuccessIsReal == Spec => []OkMeansTaken
  <1>1. DInv => OkMeansTaken
    BY DEF DInv
  <1> QED BY <1>1, Invariance, PTL

\* An acceptance that was read is never reported as a failure.
THEOREM AcceptanceIsFinal == Spec => []HeardIsFinal
  <1>1. DInv => HeardIsFinal
    BY DEF DInv
  <1> QED BY <1>1, Invariance, PTL

\* A permanent failure is the endpoint's word, never a deadline or a transport
\* fault, but for a URL from which no request can be built and a child that
\* another process ended.
THEOREM PermIsJustified == Spec => []PermJustified
  <1>1. DInv => PermJustified
    BY DEF DInv
  <1> QED BY <1>1, Invariance, PTL

\* Dot stuffing and unstuffing give the target the body, for every body.
THEOREM BodyIsRelayed == Spec => []RelayedIntact
  <1>1. DInv => RelayedIntact
    <2> SUFFICES ASSUME DInv, taken, Kind = "forward"
                 PROVE  got = Append(body, Empty)
      BY DEF RelayedIntact, Kind
    <2>1. taken = TRUE
      BY DEF DInv, Types
    <2> QED BY <2>1 DEF DInv, Relayed
  <1> QED BY <1>1, Invariance, PTL
=============================================================================
