---------------------------- MODULE ConfigProofs ----------------------------
(***************************************************************************)
(* What Load and LookupRoute do, for every configuration file: lemmas      *)
(* about the operators of Config on which the proofs about Delivery rest.  *)
(***************************************************************************)
EXTENDS Config, WellFoundedInduction, TLAPS

\* A nonempty set of numbers that is bounded has a greatest element.
LEMMA MaxFacts ==
    ASSUME NEW n \in Nat, NEW T, T \subseteq 1..n, T # {}
    PROVE  Max(T) \in T /\ \A y \in T : Max(T) >= y
  <1> DEFINE R == {ss \in Nat \X Nat : ss[1] < ss[2]}
             U == {n - x : x \in T}
  <1>1. IsWellFoundedOn(R, Nat)
    BY NatLessThanWellFounded DEF OpToRel
  <1>2. U \subseteq Nat /\ U # {}
    <2>1. \A x \in T : x \in 1..n
      OBVIOUS
    <2>2. \A x \in 1..n : n - x \in Nat
      OBVIOUS
    <2>3. \A x \in T : n - x \in Nat
      BY <2>1, <2>2
    <2> QED BY <2>3
  <1>3. PICK u \in U : \A y \in U : ~(<<y, u>> \in R)
    <2> HIDE DEF R, U
    <2> QED BY <1>1, <1>2, WFMin
  <1>4. \A y \in U : ~(y < u)
    BY <1>2, <1>3
  <1>5. PICK x \in T : u = n - x
    BY <1>3
  <1>6. \A y \in T : x >= y
    <2> SUFFICES ASSUME NEW y \in T PROVE x >= y
      OBVIOUS
    <2>1. n - y \in U
      OBVIOUS
    <2>2. ~(n - y < n - x)
      BY <1>4, <1>5, <2>1
    <2>3. x \in Int /\ y \in Int
      OBVIOUS
    <2> QED BY <2>2, <2>3
  <1> QED BY <1>5, <1>6 DEF Max

-----------------------------------------------------------------------------
(* Preparation *)

\* Prepare leaves the entries in their places.
LEMMA PrepareFields ==
    ASSUME NEW f \in File
    PROVE  /\ Prepare(f).ok = TRUE
           /\ Prepare(f).listeners = f.listeners
           /\ Prepare(f).cert = f.cert
           /\ Prepare(f).limits = f.limits
           /\ Prepare(f).retry = f.retry
           /\ Prepare(f).routes = [i \in DOMAIN f.routes |-> PrepareRoute(f.routes[i])]
           /\ Prepare(f).exact = Table(Prepare(f).routes, "address")
           /\ Prepare(f).domain = Table(Prepare(f).routes, "domain")
  BY DEF Prepare, File

\* A prepared route differs from the one in the file in its key only.
LEMMA PreparedRoute ==
    ASSUME NEW r \in Route
    PROVE  /\ PrepareRoute(r).recipient = Lower[r.recipient]
           /\ PrepareRoute(r).match = IF r.match = None THEN "address" ELSE r.match
           /\ PrepareRoute(r).type = r.type
           /\ PrepareRoute(r).timeout = r.timeout
  <1>1. PICK m : m = IF r.match = None THEN "address" ELSE r.match
    OBVIOUS
  <1>2. PrepareRoute(r) = [[r EXCEPT !.match = m] EXCEPT !.recipient = Lower[r.recipient]]
    BY <1>1 DEF PrepareRoute
  <1>3. /\ PrepareRoute(r).recipient = Lower[r.recipient]
        /\ PrepareRoute(r).match = m
        /\ PrepareRoute(r).type = r.type /\ PrepareRoute(r).timeout = r.timeout
    BY <1>2 DEF Route
  <1> QED BY <1>1, <1>3

\* The routes of a prepared file, one by one.
LEMMA PreparedRoutes ==
    ASSUME NEW f \in File
    PROVE  /\ Len(f.routes) \in Nat /\ DOMAIN f.routes = 1..Len(f.routes)
           /\ DOMAIN Prepare(f).routes = DOMAIN f.routes
           /\ \A i \in DOMAIN f.routes :
                 /\ Prepare(f).routes[i].recipient = Lower[f.routes[i].recipient]
                 /\ Prepare(f).routes[i].match =
                       IF f.routes[i].match = None THEN "address"
                                                   ELSE f.routes[i].match
                 /\ Prepare(f).routes[i].type = f.routes[i].type
                 /\ Prepare(f).routes[i].timeout = f.routes[i].timeout
                 /\ f.routes[i].timeout \in Int
                 /\ f.routes[i].recipient \in Strings
  <1>1. f.routes \in Seq(Route)
    BY DEF File
  <1>2. Len(f.routes) \in Nat /\ DOMAIN f.routes = 1..Len(f.routes)
    BY <1>1
  <1>3. \A i \in DOMAIN f.routes : f.routes[i] \in Route
    BY <1>1
  <1>4. Prepare(f).routes = [i \in DOMAIN f.routes |-> PrepareRoute(f.routes[i])]
    BY PrepareFields
  <1>5. ASSUME NEW i \in DOMAIN f.routes
        PROVE  f.routes[i].timeout \in Int /\ f.routes[i].recipient \in Strings
    BY <1>3 DEF Route
  <1>6. \A i \in DOMAIN f.routes : Prepare(f).routes[i] = PrepareRoute(f.routes[i])
    BY <1>4
  <1>7. DOMAIN Prepare(f).routes = DOMAIN f.routes
    BY <1>4
  <1> QED BY <1>2, <1>3, <1>5, <1>6, <1>7, PreparedRoute

\* The table of one match type has the keys of its routes, and gives for each
\* key a route that has it.
LEMMA TableFacts ==
    ASSUME NEW n \in Nat, NEW routes, DOMAIN routes = 1..n, NEW m
    PROVE  /\ \A k \in DOMAIN Table(routes, m) :
                 /\ Table(routes, m)[k] \in 1..n
                 /\ routes[Table(routes, m)[k]].match = m
                 /\ routes[Table(routes, m)[k]].recipient = k
           /\ \A i \in 1..n : routes[i].match = m =>
                 routes[i].recipient \in DOMAIN Table(routes, m)
  <1> DEFINE Keyed(k) == {i \in DOMAIN routes :
                             routes[i].match = m /\ routes[i].recipient = k}
             keys == {r.recipient : r \in {q \in Range(routes) : q.match = m}}
  <1>1. Table(routes, m) = [k \in keys |-> Max(Keyed(k))]
    BY DEF Table
  <1>2. \A i \in 1..n : routes[i].match = m => routes[i].recipient \in keys
    BY DEF Range
  <1>3. ASSUME NEW k \in keys PROVE Max(Keyed(k)) \in Keyed(k)
    <2>1. PICK i \in 1..n : routes[i].match = m /\ routes[i].recipient = k
      BY DEF Range
    <2>2. Keyed(k) # {} /\ Keyed(k) \subseteq 1..n
      BY <2>1
    <2> HIDE DEF Keyed
    <2> QED BY <2>2, MaxFacts
  <1> HIDE DEF keys
  <1> QED BY <1>1, <1>2, <1>3

-----------------------------------------------------------------------------
(* Lookup *)

\* What section 9 of docs/tech_spec.md says of entry i and address a.
ExactFor(f, a, i) ==
    f.routes[i].match \in {None, "address"} /\ Lower[f.routes[i].recipient] = Lower[a]
DomainFor(f, a, i) ==
    /\ f.routes[i].match = "domain" /\ DomainOf[a] # NoDomain
    /\ Lower[f.routes[i].recipient] = Lower[DomainOf[a]]

\* The keys of the two tables, in terms of the file.
LEMMA TablesOf ==
    ASSUME NEW f \in File
    PROVE  /\ \A k \in DOMAIN Prepare(f).exact :
                 /\ Prepare(f).exact[k] \in DOMAIN f.routes
                 /\ f.routes[Prepare(f).exact[k]].match \in {None, "address"}
                 /\ Lower[f.routes[Prepare(f).exact[k]].recipient] = k
           /\ \A k \in DOMAIN Prepare(f).domain :
                 /\ Prepare(f).domain[k] \in DOMAIN f.routes
                 /\ f.routes[Prepare(f).domain[k]].match = "domain"
                 /\ Lower[f.routes[Prepare(f).domain[k]].recipient] = k
           /\ \A i \in DOMAIN f.routes :
                 /\ f.routes[i].match \in {None, "address"} =>
                       Lower[f.routes[i].recipient] \in DOMAIN Prepare(f).exact
                 /\ f.routes[i].match = "domain" =>
                       Lower[f.routes[i].recipient] \in DOMAIN Prepare(f).domain
  <1>1. PICK n \in Nat : n = Len(f.routes) /\ DOMAIN f.routes = 1..n
    BY PreparedRoutes
  <1>2. PICK routes : routes = Prepare(f).routes
    OBVIOUS
  <1>3. /\ DOMAIN routes = 1..n
        /\ \A i \in 1..n :
              /\ routes[i].recipient = Lower[f.routes[i].recipient]
              /\ routes[i].match = IF f.routes[i].match = None THEN "address"
                                                               ELSE f.routes[i].match
    BY <1>1, <1>2, PreparedRoutes
  <1>4. Prepare(f).exact = Table(routes, "address")
        /\ Prepare(f).domain = Table(routes, "domain")
    BY <1>2, PrepareFields
  <1>5. \A i \in 1..n :
           /\ routes[i].match = "address" <=> f.routes[i].match \in {None, "address"}
           /\ routes[i].match = "domain" <=> f.routes[i].match = "domain"
    BY <1>3 DEF None
  <1>6. /\ \A k \in DOMAIN Table(routes, "address") :
              /\ Table(routes, "address")[k] \in 1..n
              /\ routes[Table(routes, "address")[k]].match = "address"
              /\ routes[Table(routes, "address")[k]].recipient = k
        /\ \A i \in 1..n : routes[i].match = "address" =>
              routes[i].recipient \in DOMAIN Table(routes, "address")
    BY <1>3, TableFacts
  <1>7. /\ \A k \in DOMAIN Table(routes, "domain") :
              /\ Table(routes, "domain")[k] \in 1..n
              /\ routes[Table(routes, "domain")[k]].match = "domain"
              /\ routes[Table(routes, "domain")[k]].recipient = k
        /\ \A i \in 1..n : routes[i].match = "domain" =>
              routes[i].recipient \in DOMAIN Table(routes, "domain")
    BY <1>3, TableFacts
  <1>8. ASSUME NEW k \in DOMAIN Prepare(f).exact
        PROVE  /\ Prepare(f).exact[k] \in DOMAIN f.routes
               /\ f.routes[Prepare(f).exact[k]].match \in {None, "address"}
               /\ Lower[f.routes[Prepare(f).exact[k]].recipient] = k
    BY <1>1, <1>3, <1>4, <1>5, <1>6
  <1>9. ASSUME NEW k \in DOMAIN Prepare(f).domain
        PROVE  /\ Prepare(f).domain[k] \in DOMAIN f.routes
               /\ f.routes[Prepare(f).domain[k]].match = "domain"
               /\ Lower[f.routes[Prepare(f).domain[k]].recipient] = k
    BY <1>1, <1>3, <1>4, <1>5, <1>7
  <1>10. ASSUME NEW i \in DOMAIN f.routes
         PROVE  /\ f.routes[i].match \in {None, "address"} =>
                      Lower[f.routes[i].recipient] \in DOMAIN Prepare(f).exact
                /\ f.routes[i].match = "domain" =>
                      Lower[f.routes[i].recipient] \in DOMAIN Prepare(f).domain
    BY <1>1, <1>3, <1>4, <1>5, <1>6, <1>7
  <1> QED BY <1>8, <1>9, <1>10

\* LookupRoute finds what the file says, and nil when it says nothing.
LEMMA LookupIs ==
    ASSUME NEW f \in File, NEW a \in Strings,
           NEW found, found = LookupRoute(Prepare(f), a)
    PROVE  /\ found = NoRoute =>
                 \A i \in DOMAIN f.routes : ~ExactFor(f, a, i) /\ ~DomainFor(f, a, i)
           /\ found # NoRoute =>
                 /\ found \in DOMAIN f.routes
                 /\ \/ ExactFor(f, a, found)
                    \/ /\ DomainFor(f, a, found)
                       /\ \A i \in DOMAIN f.routes : ~ExactFor(f, a, i)
  <1>1. PICK b : b = Lower[a]
    OBVIOUS
  <1>2. DomainOf[b] = IF DomainOf[a] = NoDomain THEN NoDomain ELSE Lower[DomainOf[a]]
    BY <1>1, ConfigConstants DEF ConfigConstants, Strings
  <1>3. DomainOf[a] # NoDomain => Lower[DomainOf[a]] \in Strings
    BY ConfigConstants DEF ConfigConstants, Strings
  <1>4. PICK n \in Nat : DOMAIN f.routes = 1..n
    BY PreparedRoutes
  <1>5. \A i \in DOMAIN f.routes : i # NoRoute
    BY <1>4 DEF NoRoute
  <1>6. found = IF b \in DOMAIN Prepare(f).exact THEN Prepare(f).exact[b]
                ELSE IF DomainOf[b] # NoDomain /\ DomainOf[b] \in DOMAIN Prepare(f).domain
                     THEN Prepare(f).domain[DomainOf[b]] ELSE NoRoute
    BY <1>1 DEF LookupRoute
  <1>7. CASE b \in DOMAIN Prepare(f).exact
    <2>1. found = Prepare(f).exact[b]
      BY <1>6, <1>7
    <2>2. found \in DOMAIN f.routes /\ ExactFor(f, a, found)
      BY <1>1, <1>7, <2>1, TablesOf DEF ExactFor
    <2> QED BY <1>5, <2>2
  <1>8. CASE b \notin DOMAIN Prepare(f).exact
    <2>1. \A i \in DOMAIN f.routes : ~ExactFor(f, a, i)
      BY <1>1, <1>8, TablesOf DEF ExactFor
    <2>2. CASE DomainOf[b] # NoDomain /\ DomainOf[b] \in DOMAIN Prepare(f).domain
      <3>1. found = Prepare(f).domain[DomainOf[b]]
        BY <1>6, <1>8, <2>2
      <3>2. DomainOf[a] # NoDomain /\ DomainOf[b] = Lower[DomainOf[a]]
        BY <1>2, <2>2
      <3>3. found \in DOMAIN f.routes /\ DomainFor(f, a, found)
        BY <2>2, <3>1, <3>2, TablesOf DEF DomainFor
      <3> QED BY <1>5, <2>1, <3>3
    <2>3. CASE ~(DomainOf[b] # NoDomain /\ DomainOf[b] \in DOMAIN Prepare(f).domain)
      <3>1. found = NoRoute
        BY <1>6, <1>8, <2>3
      <3>2. ASSUME NEW i \in DOMAIN f.routes PROVE ~DomainFor(f, a, i)
        <4> SUFFICES ASSUME DomainFor(f, a, i) PROVE FALSE
          OBVIOUS
        <4>1. DomainOf[a] # NoDomain /\ DomainOf[b] = Lower[DomainOf[a]]
              /\ Lower[f.routes[i].recipient] = Lower[DomainOf[a]]
              /\ f.routes[i].match = "domain"
          BY <1>2 DEF DomainFor
        <4>2. DomainOf[b] \in DOMAIN Prepare(f).domain
          BY <4>1, TablesOf
        <4>3. DomainOf[b] = NoDomain
          BY <2>3, <4>2
        <4> QED BY <1>3, <4>1, <4>3, ConfigConstants DEF ConfigConstants, Strings
      <3> QED BY <2>1, <3>1, <3>2
    <2> QED BY <2>2, <2>3
  <1> QED BY <1>7, <1>8

-----------------------------------------------------------------------------
(* Validation *)

\* A configuration that Load returns is the prepared file, found valid.
LEMMA LoadedIs ==
    ASSUME NEW f \in File, Load(f) # Rejected
    PROVE  Load(f) = Prepare(f) /\ Decodes(f) /\ Validate(Prepare(f))
  BY DEF Load

\* Every route of an accepted file is in a table: keys are compared as the
\* tables have them.
LEMMA NoneShadowed ==
    ASSUME NEW f \in File, Decodes(f), Validate(Prepare(f))
    PROVE  DOMAIN Prepare(f).routes =
               Range(Prepare(f).exact) \cup Range(Prepare(f).domain)
  <1>1. PICK n \in Nat : n = Len(f.routes) /\ DOMAIN f.routes = 1..n
    BY PreparedRoutes
  <1>2. PICK routes : routes = Prepare(f).routes
    OBVIOUS
  <1>3. /\ DOMAIN routes = 1..n
        /\ \A i \in 1..n :
              routes[i].match = IF f.routes[i].match = None THEN "address"
                                                            ELSE f.routes[i].match
    BY <1>1, <1>2, PreparedRoutes
  <1>4. PICK e, d : /\ e = Prepare(f).exact /\ e = Table(routes, "address")
                    /\ d = Prepare(f).domain /\ d = Table(routes, "domain")
    BY <1>2, PrepareFields
  <1>5. /\ \A k \in DOMAIN e : /\ e[k] \in 1..n /\ routes[e[k]].match = "address"
                               /\ routes[e[k]].recipient = k
        /\ \A i \in 1..n : routes[i].match = "address" => routes[i].recipient \in DOMAIN e
    BY <1>3, <1>4, TableFacts
  <1>6. /\ \A k \in DOMAIN d : /\ d[k] \in 1..n /\ routes[d[k]].match = "domain"
                               /\ routes[d[k]].recipient = k
        /\ \A i \in 1..n : routes[i].match = "domain" => routes[i].recipient \in DOMAIN d
    BY <1>3, <1>4, TableFacts
  <1>7. \A i, j \in 1..n :
            routes[i].match = routes[j].match /\ routes[i].recipient = routes[j].recipient
                => i = j
    <2>1. \A i, j \in 1..n :
            i < j => \/ routes[i].match # routes[j].match
                     \/ routes[i].recipient # routes[j].recipient
      BY <1>2, <1>3 DEF Validate, RoutesValid
    <2>2. \A i, j \in 1..n : i = j \/ i < j \/ j < i
      OBVIOUS
    <2> QED BY <2>1, <2>2
  <1>8. \A i \in 1..n : routes[i].match \in {"address", "domain"}
    <2>1. \A i \in 1..n : f.routes[i].match \in {"address", "domain", None}
      BY <1>1 DEF Decodes, Range, MatchTypes
    <2> QED BY <1>3, <2>1
  <1>9. ASSUME NEW i \in 1..n PROVE i \in Range(e) \cup Range(d)
    <2>1. CASE routes[i].match = "address"
      <3>1. PICK k \in DOMAIN e : k = routes[i].recipient
        BY <1>5, <2>1
      <3>2. e[k] = i
        BY <1>5, <1>7, <2>1, <3>1
      <3> QED BY <3>2 DEF Range
    <2>2. CASE routes[i].match = "domain"
      <3>1. PICK k \in DOMAIN d : k = routes[i].recipient
        BY <1>6, <2>2
      <3>2. d[k] = i
        BY <1>6, <1>7, <2>2, <3>1
      <3> QED BY <3>2 DEF Range
    <2> QED BY <1>8, <2>1, <2>2
  <1>10. Range(e) \subseteq 1..n /\ Range(d) \subseteq 1..n
    BY <1>5, <1>6 DEF Range
  <1>11. 1..n = Range(e) \cup Range(d)
    BY <1>9, <1>10
  <1> QED BY <1>2, <1>3, <1>4, <1>11

\* Seconds that fit a Duration become a positive one, in their order.
LEMMA DurationIs ==
    ASSUME NEW sec \in Int, sec > 0, sec * Second <= MaxInt
    PROVE  Duration(sec) = sec * Second /\ sec * Second > 0
  <1>1. Second \in Nat /\ Second > 0 /\ MaxInt \in Nat /\ MaxInt > 0
    BY ConfigConstants DEF ConfigConstants
  <1>2. PICK x \in Int : x = sec * Second
    BY <1>1
  <1>3. x > 0 /\ x <= MaxInt
    <2>1. \A a, b \in Nat : a > 0 /\ b > 0 => a * b > 0
      OBVIOUS
    <2> QED BY <1>1, <1>2, <2>1
  <1>4. PICK h \in Nat : h = MaxInt + 1 /\ x + h >= 0 /\ x + h < 2 * h /\ 2 * h > 0
    BY <1>1, <1>3
  <1>5. (x + h) % (2 * h) = x + h
    BY <1>3, <1>4
  <1>6. Duration(sec) = ((x + h) % (2 * h)) - h
    BY <1>2, <1>4 DEF Duration
  <1> QED BY <1>2, <1>3, <1>5, <1>6

\* Timeouts and intervals that fit are positive.
LEMMA DurationPositive ==
    ASSUME NEW sec \in Int, sec > 0, sec * Second <= MaxInt
    PROVE  Duration(sec) > 0
  BY DurationIs

\* A longer time is a longer Duration.
LEMMA DurationGrows ==
    ASSUME NEW s \in Int, NEW t \in Int, s > 0, t > s, t * Second <= MaxInt
    PROVE  Duration(t) > Duration(s)
  <1>1. Second \in Nat /\ Second > 0 /\ MaxInt \in Nat
    BY ConfigConstants DEF ConfigConstants
  <1>2. PICK d \in Nat : d = t - s /\ d > 0
    OBVIOUS
  <1>3. d * Second > 0 /\ d * Second \in Nat
    <2>1. \A a, b \in Nat : a > 0 /\ b > 0 => a * b > 0 /\ a * b \in Nat
      OBVIOUS
    <2> QED BY <1>1, <1>2, <2>1
  <1>4. t * Second = s * Second + d * Second
    BY <1>1, <1>2
  <1>5. s * Second \in Int /\ t * Second \in Int
    BY <1>1
  <1>6. s * Second < t * Second
    BY <1>3, <1>4, <1>5
  <1>7. s * Second <= MaxInt
    BY <1>1, <1>5, <1>6
  <1>8. Duration(t) = t * Second /\ Duration(s) = s * Second
    BY <1>7, DurationIs
  <1> QED BY <1>6, <1>8

\* What is in lower case stays as it is.
LEMMA LowerTwice ==
    ASSUME NEW S, S \subseteq Strings
    PROVE  LowerAll(LowerAll(S)) = LowerAll(S) /\ LowerAll(S) \subseteq Strings
  <1>1. \A s \in S : Lower[Lower[s]] = Lower[s] /\ Lower[s] \in Strings
    BY ConfigConstants DEF ConfigConstants, Strings
  <1> QED BY <1>1 DEF LowerAll

\* The admission rules of a prepared file.
LEMMA PreparedRules ==
    ASSUME NEW f \in File
    PROVE  /\ \A e \in Range(Prepare(f).nets) : LowerAll(e.domains) = e.domains
           /\ \A e \in Range(Prepare(f).providers) : LowerAll(e.domains) = e.domains
           /\ \A w \in Range(Prepare(f).whitelist) : Lower[w.value] = w.value
  <1>1. ASSUME NEW e \in Range(Prepare(f).nets) PROVE LowerAll(e.domains) = e.domains
    <2>1. Prepare(f).nets =
              [i \in DOMAIN f.nets |-> [f.nets[i] EXCEPT !.domains = LowerAll(@)]]
      BY DEF Prepare, File
    <2>2. PICK i \in DOMAIN f.nets : e = [f.nets[i] EXCEPT !.domains = LowerAll(@)]
      BY <2>1 DEF Range
    <2> DEFINE N == [net : STRING, domains : SUBSET Strings]
    <2>3. f.nets[i] \in N
      <3>1. f.nets \in Seq(N)
        BY DEF File
      <3> HIDE DEF N
      <3> QED BY <3>1
    <2>4. f.nets[i].domains \subseteq Strings /\ e.domains = LowerAll(f.nets[i].domains)
      BY <2>2, <2>3
    <2> QED BY <2>4, LowerTwice
  <1>2. ASSUME NEW e \in Range(Prepare(f).providers) PROVE LowerAll(e.domains) = e.domains
    <2> DEFINE P == [name : STRING, suffixes : SUBSET Strings, domains : SUBSET Strings]
    <2>1. Prepare(f).providers =
              [i \in DOMAIN f.providers |->
                  [f.providers[i] EXCEPT !.domains = LowerAll(@),
                                         !.suffixes = {Lower[Undotted[s]] : s \in @}]]
      BY DEF Prepare, File
    <2>2. PICK i \in DOMAIN f.providers :
              e = [f.providers[i] EXCEPT !.domains = LowerAll(@),
                                         !.suffixes = {Lower[Undotted[s]] : s \in @}]
      BY <2>1 DEF Range
    <2>3. f.providers[i] \in P
      <3>1. f.providers \in Seq(P)
        BY DEF File
      <3> HIDE DEF P
      <3> QED BY <3>1
    <2>4. f.providers[i].domains \subseteq Strings
          /\ e.domains = LowerAll(f.providers[i].domains)
      BY <2>2, <2>3
    <2> QED BY <2>4, LowerTwice
  <1>3. ASSUME NEW w \in Range(Prepare(f).whitelist) PROVE Lower[w.value] = w.value
    <2>1. Prepare(f).whitelist =
              [i \in DOMAIN f.whitelist |-> [f.whitelist[i] EXCEPT !.value = Lower[@]]]
      BY DEF Prepare, File
    <2>2. PICK i \in DOMAIN f.whitelist : w = [f.whitelist[i] EXCEPT !.value = Lower[@]]
      BY <2>1 DEF Range
    <2> DEFINE W == [match : STRING, value : Strings]
    <2>3. f.whitelist[i] \in W
      <3>1. f.whitelist \in Seq(W)
        BY DEF File
      <3> HIDE DEF W
      <3> QED BY <3>1
    <2>4. f.whitelist[i].value \in Strings /\ w.value = Lower[f.whitelist[i].value]
      BY <2>2, <2>3
    <2> QED BY <2>4, ConfigConstants DEF ConfigConstants, Strings
  <1> QED BY <1>1, <1>2, <1>3

\* What Validate accepts of the listeners and the numbers.
LEMMA ValidNumbers ==
    ASSUME NEW f \in File, NEW c, c = Prepare(f), Decodes(f), Validate(c)
    PROVE  /\ c.limits.conns > 0
           /\ \A l \in Range(c.listeners) :
                 l.tls \in TLSModes /\ (l.tls # "plain" => c.cert # None)
           /\ c.retry.enabled =>
                 /\ c.retry.interval \in Int /\ c.retry.expire \in Int
                 /\ c.retry.interval > 0 /\ c.retry.expire > c.retry.interval
  <1>1. c.limits.conns > 0
    <2>1. \A k \in DOMAIN f.limits : f.limits[k] > 0
      BY PrepareFields DEF Validate, LimitsValid
    <2>2. f.limits \in [bytes : Int, conns : Int, command : Int, session : Int]
      BY DEF File
    <2>3. "conns" \in DOMAIN f.limits
      BY <2>2
    <2>4. f.limits["conns"] = f.limits.conns
      BY <2>2
    <2> QED BY <2>1, <2>3, <2>4, PrepareFields
  <1>2. ASSUME NEW l \in Range(c.listeners)
        PROVE  l.tls \in TLSModes /\ (l.tls # "plain" => c.cert # None)
    <2>1. l.tls # None
      BY DEF Validate, ListenersValid
    <2>2. l \in Range(f.listeners)
      BY PrepareFields
    <2>3. l.tls \in TLSModes
      BY <2>1, <2>2 DEF Decodes
    <2>4. l.tls \in {"starttls", "implicit"} => c.cert # None
      BY DEF Validate, ListenersValid
    <2> QED BY <2>3, <2>4 DEF TLSModes
  <1>3. c.retry.enabled =>
           /\ c.retry.interval > 0 /\ c.retry.expire > c.retry.interval
    BY DEF Validate, RetryValid
  <1>4. c.retry.interval \in Int /\ c.retry.expire \in Int
    <2>1. f.retry \in [enabled : BOOLEAN, interval : Int, expire : Int,
                       entries : Int, bytes : Int]
      BY DEF File
    <2> QED BY <2>1, PrepareFields
  <1> QED BY <1>1, <1>2, <1>3, <1>4

\* What Validate accepts of a route.
LEMMA ValidRoutes ==
    ASSUME NEW f \in File, NEW c, c = Prepare(f), Decodes(f), Validate(c),
           NEW i \in DOMAIN c.routes
    PROVE  /\ c.routes[i].type \in RouteTypes
           /\ c.routes[i].timeout \in Int /\ c.routes[i].timeout > 0
  <1>1. PICK r : r = c.routes[i]
    OBVIOUS
  <1>2. RouteValid(r)
    BY <1>1 DEF Validate, RoutesValid, Range
  <1>3. r.type \in RouteTypes
    BY <1>2, Zenon DEF RouteValid, RouteTypes
  <1>4. r.timeout > 0
    BY <1>2, Zenon DEF RouteValid
  <1>5. r.timeout \in Int
    BY <1>1, PreparedRoutes
  <1> QED BY <1>1, <1>3, <1>4, <1>5
=============================================================================
