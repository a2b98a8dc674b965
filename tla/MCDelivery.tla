----------------------------- MODULE MCDelivery -----------------------------
(* Instances of Delivery for TLC. *)
EXTENDS Delivery

\* Addresses of one domain, the domain, and a host suffix, in two cases.
Names == {None, Blank, "u@d", "U@D", "v@d", "V@D", "w@d", "d", "D",
          ".p", ".P", "p", "P"}

MCLower == [s \in Names |->
    CASE s = "U@D" -> "u@d" [] s = "V@D" -> "v@d" [] s = "D" -> "d"
      [] s = ".P" -> ".p"   [] s = "P" -> "p"     [] OTHER -> s]

MCUndotted == [s \in Names |->
    CASE s = ".p" -> "p" [] s = ".P" -> "P" [] OTHER -> s]

MCDomainOf == [s \in Names |->
    CASE s \in {"u@d", "v@d", "w@d"} -> "d" [] s \in {"U@D", "V@D"} -> "D"
      [] OTHER -> NoDomain]

NoParams == [recipient |-> "u@d", match |-> "address", type |-> None,
             timeout |-> 1, path |-> None, tempFail |-> 0, url |-> None,
             secret |-> None, host |-> None, port |-> 0]

CommandTo(r, m) == [NoParams EXCEPT !.recipient = r, !.match = m,
                       !.type = "command", !.path = "prog", !.tempFail = 75]
Webhook == [NoParams EXCEPT !.recipient = "V@D", !.type = "webhook",
                            !.url = "http", !.secret = "s"]
Forward == [NoParams EXCEPT !.recipient = "D", !.match = "domain",
                            !.type = "forward", !.host = "h", !.port = 25]

Base == [ok |-> TRUE, unknownField |-> FALSE, hostname |-> "D",
         listeners |-> <<[addr |-> "host:port", tls |-> "starttls"],
                         [addr |-> "host:port", tls |-> "plain"]>>,
         cert |-> "c", key |-> "k",
         limits |-> [bytes |-> 1, conns |-> 1, command |-> 1, session |-> 1],
         dns |-> 1,
         retry |-> [enabled |-> TRUE, interval |-> 1, expire |-> 2,
                    entries |-> 1, bytes |-> 1],
         nets |-> <<[net |-> "n", domains |-> {"D"}]>>,
         providers |->
             <<[name |-> "P", suffixes |-> {".P"}, domains |-> {"D"}]>>,
         whitelist |-> <<[match |-> "address", value |-> "U@D"]>>,
         routes |-> <<CommandTo("U@D", None), Webhook, Forward>>,
         exact |-> <<>>, domain |-> <<>>]

Route1(r) == [Base EXCEPT !.routes[1] = r]

\* One file for every rule of Validate and of the decoder that is not about
\* the keys of routes. 9 seconds do not fit a Duration of this size.
OneFault ==
    {[Base EXCEPT !.unknownField = TRUE], [Base EXCEPT !.hostname = Blank],
     [Base EXCEPT !.listeners = <<>>], [Base EXCEPT !.listeners[1].addr = "?"],
     [Base EXCEPT !.listeners[1].tls = None], [Base EXCEPT !.cert = None],
     [Base EXCEPT !.listeners[1].tls = "ssl"], [Base EXCEPT !.key = None],
     [Base EXCEPT !.dns = 0], [Base EXCEPT !.retry.interval = 0],
     [Base EXCEPT !.retry.interval = 2], [Base EXCEPT !.retry.entries = 0],
     [Base EXCEPT !.retry.bytes = 0], [Base EXCEPT !.retry.enabled = FALSE,
                                                   !.retry.interval = 0],
     [Base EXCEPT !.retry.interval = 9, !.retry.expire = 10],
     [Base EXCEPT !.listeners[1].tls = "implicit"],
     [Base EXCEPT !.nets[1].net = None],
     [Base EXCEPT !.providers[1].name = None],
     [Base EXCEPT !.providers[1].suffixes = {}],
     [Base EXCEPT !.providers[1].domains = {}],
     [Base EXCEPT !.whitelist[1].match = None],
     [Base EXCEPT !.whitelist[1].match = "host"],
     [Base EXCEPT !.whitelist[1].value = None],
     [Base EXCEPT !.whitelist[1].value = "D"], [Base EXCEPT !.routes = <<>>],
     Route1([Base.routes[1] EXCEPT !.path = None]),
     Route1([Base.routes[1] EXCEPT !.type = None]),
     Route1([Base.routes[1] EXCEPT !.type = "mbox"]),
     Route1([Base.routes[1] EXCEPT !.match = "host"]),
     Route1([Base.routes[1] EXCEPT !.timeout = 0]),
     Route1([Webhook EXCEPT !.recipient = "u@d", !.url = None]),
     Route1([Webhook EXCEPT !.recipient = "u@d", !.url = "unparsable"]),
     Route1([Webhook EXCEPT !.recipient = "u@d", !.secret = None]),
     Route1([Forward EXCEPT !.recipient = "u@d", !.host = None]),
     Route1([Forward EXCEPT !.recipient = "u@d", !.port = 65536])}
    \cup {[Base EXCEPT !.limits[k] = 0] : k \in DOMAIN Base.limits}

\* Every pair of keys, in both cases.
TwoKeys ==
    LET R == {CommandTo(r, m) : r \in {"u@d", "U@D", "d", "D"},
                                m \in {None, "address", "domain"}}
    IN  {[Base EXCEPT !.routes = <<r, q>>] : r \in R, q \in R}

MCFiles    == {Base} \cup OneFault \cup TwoKeys
SmallFiles == {Base}

MCRecipients == Names \ {None, Blank, ".p", ".P", "p", "P"}

Ln(d, t) == [dots |-> d, text |-> t]
MCBodies == {<<>>, <<Ln(1, FALSE), Ln(0, TRUE)>>, <<Ln(2, TRUE), Empty>>}

One(c) == <<[code |-> c, more |-> FALSE]>>
Two(c, d) == <<[code |-> c, more |-> TRUE], [code |-> d, more |-> FALSE]>>
MCReplies == {One(220), One(221), One(250), One(251), One(354), One(450),
              One(550), One(Bad), Two(250, 250), Two(Bad, 250), Two(Bad, 550)}

MCStatuses  == {200, 302, 404, 429, 503}
MCExitCodes == {0, 1, 75}
=============================================================================
