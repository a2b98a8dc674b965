------------------------------- MODULE Config -------------------------------
(***************************************************************************)
(* internal/config: what Load makes of a configuration file. The module    *)
(* has operators only; Delivery and its instances apply them.              *)
(*                                                                         *)
(* A file is a record with the fields of type Config, the two derived      *)
(* tables empty. None stands for a string that is absent or empty; a path, *)
(* an address or a URL is reduced to what the code tells apart. Names keep *)
(* their letter case, so that Prepare has something to normalise.          *)
(***************************************************************************)
EXTENDS Integers, Sequences, FiniteSetsExt, SequencesExt

CONSTANTS
    Lower,     \* Lower[s]: strings.ToLower(s)
    Undotted,  \* Undotted[s]: strings.TrimPrefix(s, ".")
    DomainOf,  \* DomainOf[s]: what follows the last "@" of s, or NoDomain
    Second,    \* time.Second, scaled down
    MaxInt     \* largest time.Duration, scaled down

None     == ""
Blank    == " "        \* white space only
NoDomain == "no at sign"
NoRoute  == 0          \* LookupRoute's nil
Rejected == [ok |-> FALSE]
MaxPort  == 65535

ASSUME ConfigConstants ==
    /\ None \in DOMAIN Lower /\ NoDomain \notin DOMAIN Lower
    /\ Lower \in [DOMAIN Lower -> DOMAIN Lower]
    /\ \A s \in DOMAIN Lower : Lower[Lower[s]] = Lower[s]
    /\ Undotted \in [DOMAIN Lower -> DOMAIN Lower]
    /\ DomainOf \in [DOMAIN Lower -> DOMAIN Lower \cup {NoDomain}]
    /\ \A s \in DOMAIN Lower :    \* an at sign has no letter case
          DomainOf[Lower[s]] = IF DomainOf[s] = NoDomain
                               THEN NoDomain ELSE Lower[DomainOf[s]]
    /\ Second \in Nat \ {0} /\ MaxInt \in Nat \ {0}

TLSModes   == {"plain", "starttls", "implicit"}
MatchTypes == {"address", "domain"}
RouteTypes == {"command", "webhook", "forward"}

\* What the types of config.go let a file say.
Strings == DOMAIN Lower

Route == [recipient : Strings, match : STRING, type : STRING, timeout : Int,
          path : STRING, tempFail : Int, url : STRING, secret : STRING,
          host : STRING, port : Int]

File == [ok : {TRUE}, unknownField : BOOLEAN, hostname : Strings,
         listeners : Seq([addr : STRING, tls : STRING]),
         cert : STRING, key : STRING,
         limits : [bytes : Int, conns : Int, command : Int, session : Int],
         dns : Int,
         retry : [enabled : BOOLEAN, interval : Int, expire : Int,
                  entries : Int, bytes : Int],
         nets : Seq([net : STRING, domains : SUBSET Strings]),
         providers : Seq([name : STRING, suffixes : SUBSET Strings,
                          domains : SUBSET Strings]),
         whitelist : Seq([match : STRING, value : Strings]),
         routes : Seq(Route), exact : {<<>>}, domain : {<<>>}]

-----------------------------------------------------------------------------
(* Derived values *)

\* time.Duration(sec) * time.Second, a product of 64-bit integers.
Duration(sec) ==
    LET half == MaxInt + 1 IN ((sec * Second + half) % (2 * half)) - half

LowerAll(S) == {Lower[s] : s \in S}

-----------------------------------------------------------------------------
(* Decoding and preparation *)

\* The decoder: no unknown field, and UnmarshalJSON of the three enumerations
\* refuses a value that is present and not defined.
Decodes(f) ==
    /\ ~f.unknownField
    /\ \A l \in Range(f.listeners) : l.tls \in TLSModes \cup {None}
    /\ \A w \in Range(f.whitelist) : w.match \in MatchTypes \cup {None}
    /\ \A r \in Range(f.routes) : /\ r.match \in MatchTypes \cup {None}
                                  /\ r.type \in RouteTypes \cup {None}

\* The lookup table of one match type: for a key used twice, the last route.
Table(routes, m) ==
    LET Keyed(k) == {i \in DOMAIN routes :
                         routes[i].match = m /\ routes[i].recipient = k}
    IN  [k \in {r.recipient : r \in {q \in Range(routes) : q.match = m}}
           |-> Max(Keyed(k))]

PrepareRoute(r) ==
    [r EXCEPT !.match     = IF @ = None THEN "address" ELSE @,
              !.recipient = Lower[@]]

Prepare(f) ==
    LET Each(s, Op(_)) == [i \in DOMAIN s |-> Op(s[i])]
        Net(e)      == [e EXCEPT !.domains = LowerAll(@)]
        Provider(p) == [p EXCEPT !.domains  = LowerAll(@),
                                 !.suffixes = {Lower[Undotted[s]] : s \in @}]
        Entry(w)    == [w EXCEPT !.value = Lower[@]]
        routes      == Each(f.routes, PrepareRoute)
    IN  [f EXCEPT !.hostname  = IF @ = Blank THEN None ELSE Lower[@],
                  !.nets      = Each(@, Net),
                  !.providers = Each(@, Provider),
                  !.whitelist = Each(@, Entry),
                  !.routes    = routes,
                  !.exact     = Table(routes, "address"),
                  !.domain    = Table(routes, "domain")]

-----------------------------------------------------------------------------
(* Validation *)

ListenersValid(c) ==
    /\ c.listeners # <<>>
    /\ \A l \in Range(c.listeners) : l.addr = "host:port" /\ l.tls # None
    /\ (\E l \in Range(c.listeners) : l.tls \in {"starttls", "implicit"}) =>
          c.cert # None /\ c.key # None

LimitsValid(c) ==
    /\ \A k \in DOMAIN c.limits : c.limits[k] > 0
    /\ c.dns > 0

\* Fault: the interval may be zero.
RetryValid_ZeroInterval(c) ==
    c.retry.enabled =>
        c.retry.interval >= 0 /\ c.retry.expire > c.retry.interval

RetryValid(c) ==
    c.retry.enabled =>
        /\ c.retry.interval > 0
        /\ c.retry.expire > c.retry.interval
        /\ c.retry.entries > 0
        /\ c.retry.bytes > 0

\* An entry of the CIDR whitelist has a Net when ParseCIDR succeeded.
AdmissionValid(c) ==
    /\ \A e \in Range(c.nets) : e.net # None
    /\ \A p \in Range(c.providers) :
          p.name # None /\ p.suffixes # {} /\ p.domains # {}
    /\ \A w \in Range(c.whitelist) :
          /\ w.match # None /\ w.value # None
          /\ w.match = "address" => DomainOf[w.value] # NoDomain

RouteValid(r) ==
    /\ r.recipient # None
    /\ r.timeout > 0
    /\ \/ r.type = "command" /\ r.path # None
       \/ r.type = "webhook" /\ r.url # None /\ r.secret # None
       \/ r.type = "forward" /\ r.host # None /\ r.port \in 1..MaxPort

RoutesValid(c) ==
    /\ c.routes # <<>>
    /\ \A r \in Range(c.routes) : RouteValid(r)
    /\ \A i, j \in DOMAIN c.routes :
          i < j => \/ c.routes[i].match # c.routes[j].match
                   \/ c.routes[i].recipient # c.routes[j].recipient

Validate(c) ==
    /\ c.hostname # None
    /\ ListenersValid(c)
    /\ LimitsValid(c)
    /\ RetryValid(c)
    /\ AdmissionValid(c)
    /\ RoutesValid(c)

\* Fault: the file is validated as it was written, and then normalised.
Load_ValidateFirst(f) ==
    IF Decodes(f) /\ Validate(f) THEN Prepare(f) ELSE Rejected

Load(f) ==
    IF Decodes(f) /\ Validate(Prepare(f)) THEN Prepare(f) ELSE Rejected

-----------------------------------------------------------------------------
(* Lookup *)

\* Fault: a domain entry is selected before an exact address.
LookupRoute_DomainFirst(c, addr) ==
    LET a == Lower[addr]
    IN  IF DomainOf[a] \in DOMAIN c.domain THEN c.domain[DomainOf[a]]
        ELSE IF a \in DOMAIN c.exact THEN c.exact[a] ELSE NoRoute

LookupRoute(c, addr) ==
    LET a == Lower[addr]
    IN  IF a \in DOMAIN c.exact THEN c.exact[a]
        ELSE IF DomainOf[a] # NoDomain /\ DomainOf[a] \in DOMAIN c.domain
             THEN c.domain[DomainOf[a]]
             ELSE NoRoute
=============================================================================
