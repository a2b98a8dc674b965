---------------------------- MODULE PolicyProofs -----------------------------
(***************************************************************************)
(* Proofs about Policy, for every configuration, sender, answer of the DNS *)
(* and of the SPF library, and for every pair of timeouts. The inductive   *)
(* invariant PInv says at each point of Decide what the queries so far     *)
(* have established; AdmitJustified needs it whatever failed,              *)
(* FirstRuleDecides only while nothing has failed.                         *)
(***************************************************************************)
EXTENDS Policy, WellFoundedInduction, TLAPS

reverse == world.reverse

\* The first k names of the host are not confirmed.
Unconfirmed(k) == \A j \in 1..k : reverse[j] \notin world.confirmed

\* FCrDNS works through the names in their order.
NamesLeft ==
    /\ names \in Seq(Range(reverse)) /\ Len(names) <= Len(reverse)
    /\ at = "forward" =>
          \E k \in 0..(Len(reverse) - 1) :
              /\ Len(names) = Len(reverse) - k
              /\ \A j \in 1..Len(names) : names[j] = reverse[k + j]
              /\ failed = {} => Unconfirmed(k)

\* Rule B is reached with a confirmed name, the first of them if no query
\* failed.
NameFound ==
    at = "B" =>
        \E k \in 1..Len(reverse) :
            /\ ptr = <<reverse[k]>> /\ reverse[k] \in world.confirmed
            /\ failed = {} => Unconfirmed(k - 1)

\* The channel carries the answer of the library.
ChannelAnswer == ch = <<>> \/ ch = <<convertSPF(world.spf)>>

NoNet      == \A i \in DOMAIN cfg.nets : ~NetMatch(cfg.nets[i])
NoProvider == \A i \in DOMAIN cfg.providers : ~ProviderApplies(cfg.providers[i])

\* Rule A is behind Decide, and at rule C rule B is as well.
RulesPassed ==
    /\ at \notin {"A", "returned"} => NoNet
    /\ at = "C" /\ failed = {} => NoProvider

\* A provider for whose name and domain there is evidence.
Evidence(p) ==
    /\ \E n \in world.confirmed : suffixMatch(n, p.suffixes)
    /\ sender.domain \in p.domains

\* SPF is asked for an entry that matched, the first applicable one if no
\* query failed.
SPFAsked ==
    at = "SPF" =>
        \/ \E i \in 1..Len(cfg.providers) :
              /\ cfg.providers[i].spf /\ Evidence(cfg.providers[i])
              /\ failed = {} =>
                    /\ ProviderApplies(cfg.providers[i])
                    /\ \A j \in 1..(i - 1) : ~ProviderApplies(cfg.providers[j])
        \/ \E i \in 1..Len(cfg.whitelist) :
              /\ cfg.whitelist[i].spf /\ ListMatch(cfg.whitelist[i])
              /\ failed = {} =>
                    /\ NoProvider
                    /\ \A j \in 1..(i - 1) : ~ListMatch(cfg.whitelist[j])

Undecided == at # "returned" => outcome = "none"

\* What the first applicable rule decides.
Verdict(asksSPF) ==
    IF ~asksSPF \/ world.spf = "PASS" THEN "Admit"
    ELSE IF world.spf = "TEMPERROR" THEN "RejectTemporary"
    ELSE "RejectPermanent"

Hits == {i \in 1..Len(Rules) : Rules[i].applies}

PInv ==
    /\ TypeOK
    /\ NamesLeft /\ NameFound /\ ChannelAnswer
    /\ RulesPassed /\ SPFAsked /\ Undecided
    /\ AdmitJustified /\ FirstRuleDecides

-----------------------------------------------------------------------------
(* Lists and their first elements *)

\* A nonempty set of numbers has a least element, which is its Min.
LEMMA MinFacts ==
    ASSUME NEW T, T \subseteq Nat, T # {}
    PROVE  Min(T) \in T /\ \A y \in T : Min(T) <= y
  <1> DEFINE R == {ss \in Nat \X Nat : ss[1] < ss[2]}
  <1>1. IsWellFoundedOn(R, Nat)
    BY NatLessThanWellFounded DEF OpToRel
  <1>2. PICK x \in T : \A y \in T : ~(<<y, x>> \in R)
    <2> HIDE DEF R
    <2> QED BY <1>1, WFMin
  <1>3. \A y \in T : ~(y < x)
    BY <1>2
  <1>4. \A y \in T : x <= y
    BY <1>3
  <1> QED BY <1>4 DEF Min

\* The lists of a configuration and of a world are sequences.
LEMMA Lists ==
    ASSUME TypeOK
    PROVE  /\ cfg.nets \in Seq(Range(cfg.nets))
           /\ cfg.providers \in Seq(Range(cfg.providers))
           /\ cfg.whitelist \in Seq(Range(cfg.whitelist))
           /\ reverse \in Seq(Range(reverse))
           /\ Len(cfg.nets) \in Nat /\ DOMAIN cfg.nets = 1..Len(cfg.nets)
           /\ Len(cfg.providers) \in Nat
           /\ DOMAIN cfg.providers = 1..Len(cfg.providers)
           /\ Len(cfg.whitelist) \in Nat
           /\ DOMAIN cfg.whitelist = 1..Len(cfg.whitelist)
           /\ Len(reverse) \in Nat /\ DOMAIN reverse = 1..Len(reverse)
  <1>1. /\ cfg.nets \in Seq(Range(cfg.nets))
        /\ cfg.providers \in Seq(Range(cfg.providers))
        /\ cfg.whitelist \in Seq(Range(cfg.whitelist))
        /\ reverse \in Seq(Range(reverse))
    BY PolicyAssumption DEF PolicyAssumption, IsList, TypeOK, reverse
  <1> QED BY <1>1

\* What FirstMatch finds in the networks: nothing, or the first match.
LEMMA NetHit ==
    ASSUME TypeOK
    PROVE  LET e == FirstMatch(cfg.nets, NetMatch) IN
           \/ e = <<>> /\ NoNet
           \/ \E i \in 1..Len(cfg.nets) :
                 /\ e = <<cfg.nets[i]>> /\ NetMatch(cfg.nets[i])
                 /\ \A j \in 1..(i - 1) : ~NetMatch(cfg.nets[j])
  <1> DEFINE T == {i \in DOMAIN cfg.nets : NetMatch(cfg.nets[i])}
  <1>1. T \subseteq Nat /\ DOMAIN cfg.nets = 1..Len(cfg.nets)
        /\ Len(cfg.nets) \in Nat
    BY Lists
  <1>2. FirstMatch(cfg.nets, NetMatch)
          = IF T = {} THEN <<>> ELSE <<cfg.nets[Min(T)]>>
    BY DEF FirstMatch
  <1>3. CASE T = {}
    BY <1>2, <1>3 DEF NoNet
  <1>4. CASE T # {}
    <2>1. Min(T) \in T /\ \A y \in T : Min(T) <= y
      <3> HIDE DEF T
      <3> QED BY <1>1, <1>4, MinFacts
    <2>2. Min(T) \in 1..Len(cfg.nets) /\ NetMatch(cfg.nets[Min(T)])
      BY <2>1, <1>1
    <2>3. \A j \in 1..(Min(T) - 1) : ~NetMatch(cfg.nets[j])
      <3> SUFFICES ASSUME NEW j \in 1..(Min(T) - 1), NetMatch(cfg.nets[j])
                   PROVE  FALSE
        OBVIOUS
      <3>1. j \in T
        BY <2>2, <1>1
      <3> HIDE DEF T
      <3> QED BY <3>1, <2>1, <2>2, <1>1
    <2> HIDE DEF T
    <2> QED BY <1>2, <1>4, <2>2, <2>3
  <1> QED BY <1>3, <1>4

\* The same for the providers.
LEMMA ProviderHit ==
    ASSUME TypeOK
    PROVE  LET e == FirstMatch(cfg.providers, ProviderMatch) IN
           \/ /\ e = <<>>
              /\ \A i \in 1..Len(cfg.providers) : ~ProviderMatch(cfg.providers[i])
           \/ \E i \in 1..Len(cfg.providers) :
                 /\ e = <<cfg.providers[i]>> /\ ProviderMatch(cfg.providers[i])
                 /\ \A j \in 1..(i - 1) : ~ProviderMatch(cfg.providers[j])
  <1> DEFINE T == {i \in DOMAIN cfg.providers : ProviderMatch(cfg.providers[i])}
  <1>1. T \subseteq Nat /\ DOMAIN cfg.providers = 1..Len(cfg.providers)
        /\ Len(cfg.providers) \in Nat
    BY Lists
  <1>2. FirstMatch(cfg.providers, ProviderMatch)
          = IF T = {} THEN <<>> ELSE <<cfg.providers[Min(T)]>>
    BY DEF FirstMatch
  <1>3. CASE T = {}
    BY <1>1, <1>2, <1>3
  <1>4. CASE T # {}
    <2>1. Min(T) \in T /\ \A y \in T : Min(T) <= y
      <3> HIDE DEF T
      <3> QED BY <1>1, <1>4, MinFacts
    <2>2. Min(T) \in 1..Len(cfg.providers)
          /\ ProviderMatch(cfg.providers[Min(T)])
      BY <2>1, <1>1
    <2>3. \A j \in 1..(Min(T) - 1) : ~ProviderMatch(cfg.providers[j])
      <3> SUFFICES ASSUME NEW j \in 1..(Min(T) - 1),
                          ProviderMatch(cfg.providers[j])
                   PROVE  FALSE
        OBVIOUS
      <3>1. j \in T
        BY <2>2, <1>1
      <3> HIDE DEF T
      <3> QED BY <3>1, <2>1, <2>2, <1>1
    <2> HIDE DEF T
    <2> QED BY <1>2, <1>4, <2>2, <2>3
  <1> QED BY <1>3, <1>4

\* The same for the whitelist.
LEMMA ListHit ==
    ASSUME TypeOK
    PROVE  LET e == FirstMatch(cfg.whitelist, ListMatch) IN
           \/ /\ e = <<>>
              /\ \A i \in 1..Len(cfg.whitelist) : ~ListMatch(cfg.whitelist[i])
           \/ \E i \in 1..Len(cfg.whitelist) :
                 /\ e = <<cfg.whitelist[i]>> /\ ListMatch(cfg.whitelist[i])
                 /\ \A j \in 1..(i - 1) : ~ListMatch(cfg.whitelist[j])
  <1> DEFINE T == {i \in DOMAIN cfg.whitelist : ListMatch(cfg.whitelist[i])}
  <1>1. T \subseteq Nat /\ DOMAIN cfg.whitelist = 1..Len(cfg.whitelist)
        /\ Len(cfg.whitelist) \in Nat
    BY Lists
  <1>2. FirstMatch(cfg.whitelist, ListMatch)
          = IF T = {} THEN <<>> ELSE <<cfg.whitelist[Min(T)]>>
    BY DEF FirstMatch
  <1>3. CASE T = {}
    BY <1>1, <1>2, <1>3
  <1>4. CASE T # {}
    <2>1. Min(T) \in T /\ \A y \in T : Min(T) <= y
      <3> HIDE DEF T
      <3> QED BY <1>1, <1>4, MinFacts
    <2>2. Min(T) \in 1..Len(cfg.whitelist) /\ ListMatch(cfg.whitelist[Min(T)])
      BY <2>1, <1>1
    <2>3. \A j \in 1..(Min(T) - 1) : ~ListMatch(cfg.whitelist[j])
      <3> SUFFICES ASSUME NEW j \in 1..(Min(T) - 1), ListMatch(cfg.whitelist[j])
                   PROVE  FALSE
        OBVIOUS
      <3>1. j \in T
        BY <2>2, <1>1
      <3> HIDE DEF T
      <3> QED BY <3>1, <2>1, <2>2, <1>1
    <2> HIDE DEF T
    <2> QED BY <1>2, <1>4, <2>2, <2>3
  <1> QED BY <1>3, <1>4

\* The elements of a concatenation of two and of three lists.
LEMMA TwoLists ==
    ASSUME NEW S, NEW s \in Seq(S), NEW t \in Seq(S)
    PROVE  /\ s \o t \in Seq(S) /\ Len(s \o t) = Len(s) + Len(t)
           /\ \A i \in 1..Len(s) : (s \o t)[i] = s[i]
           /\ \A i \in 1..Len(t) : (s \o t)[Len(s) + i] = t[i]
  OBVIOUS

LEMMA ThreeLists ==
    ASSUME NEW S, NEW s \in Seq(S), NEW t \in Seq(S), NEW u \in Seq(S)
    PROVE  /\ Len(s \o t \o u) = Len(s) + Len(t) + Len(u)
           /\ \A i \in 1..Len(s) : (s \o t \o u)[i] = s[i]
           /\ \A i \in 1..Len(t) : (s \o t \o u)[Len(s) + i] = t[i]
           /\ \A i \in 1..Len(u) : (s \o t \o u)[Len(s) + Len(t) + i] = u[i]
  <1>1. s \o t \in Seq(S)
    BY TwoLists
  <1>2. Len(s \o t) = Len(s) + Len(t)
    BY TwoLists
  <1>3. Len((s \o t) \o u) = Len(s \o t) + Len(u)
    BY <1>1, TwoLists
  <1>4. \A i \in 1..Len(s \o t) : ((s \o t) \o u)[i] = (s \o t)[i]
    BY <1>1, TwoLists
  <1>5. \A i \in 1..Len(u) : ((s \o t) \o u)[Len(s \o t) + i] = u[i]
    BY <1>1, TwoLists
  <1>6. /\ \A i \in 1..Len(s) : (s \o t)[i] = s[i]
        /\ \A i \in 1..Len(t) : (s \o t)[Len(s) + i] = t[i]
    BY TwoLists
  <1>7. \A i \in 1..Len(s) : i \in 1..Len(s \o t)
    BY <1>2
  <1>8. \A i \in 1..Len(t) : Len(s) + i \in 1..Len(s \o t)
    BY <1>2
  <1>9. /\ \A i \in 1..Len(s) : (s \o t \o u)[i] = s[i]
        /\ \A i \in 1..Len(t) : (s \o t \o u)[Len(s) + i] = t[i]
    BY <1>4, <1>6, <1>7, <1>8, Zenon
  <1>10. \A i \in 1..Len(u) : (s \o t \o u)[Len(s) + Len(t) + i] = u[i]
    BY <1>2, <1>5, Zenon
  <1>11. Len(s \o t \o u) = Len(s) + Len(t) + Len(u)
    BY <1>2, <1>3, Zenon
  <1> QED BY <1>9, <1>10, <1>11, Zenon

\* The rules are the networks, then the providers, then the whitelist.
LEMMA RuleIndex ==
    ASSUME TypeOK
    PROVE  LET a == Len(cfg.nets)
               b == Len(cfg.providers)
               c == Len(cfg.whitelist) IN
           /\ a \in Nat /\ b \in Nat /\ c \in Nat
           /\ Len(Rules) = a + b + c
           /\ \A i \in 1..a :
                 Rules[i] = [applies |-> NetMatch(cfg.nets[i]), spf |-> FALSE]
           /\ \A i \in 1..b :
                 Rules[a + i] = [applies |-> ProviderApplies(cfg.providers[i]),
                                 spf     |-> cfg.providers[i].spf]
           /\ \A i \in 1..c :
                 Rules[a + b + i] = [applies |-> ListMatch(cfg.whitelist[i]),
                                     spf     |-> cfg.whitelist[i].spf]
  <1> DEFINE a == Len(cfg.nets)
             b == Len(cfg.providers)
             c == Len(cfg.whitelist)
             A == [i \in 1..a |->
                     [applies |-> NetMatch(cfg.nets[i]), spf |-> FALSE]]
             B == [i \in 1..b |->
                     [applies |-> ProviderApplies(cfg.providers[i]),
                      spf     |-> cfg.providers[i].spf]]
             C == [i \in 1..c |->
                     [applies |-> ListMatch(cfg.whitelist[i]),
                      spf     |-> cfg.whitelist[i].spf]]
             S == {A[i] : i \in 1..a} \cup {B[i] : i \in 1..b}
                    \cup {C[i] : i \in 1..c}
  <1>1. a \in Nat /\ b \in Nat /\ c \in Nat
    BY Lists
  <1>2. Rules = A \o B \o C
    BY DEF Rules
  <1>3. DOMAIN A = 1..a /\ DOMAIN B = 1..b /\ DOMAIN C = 1..c
    OBVIOUS
  <1>4. /\ \A i \in 1..a : A[i] = [applies |-> NetMatch(cfg.nets[i]), spf |-> FALSE]
        /\ \A i \in 1..b : B[i] = [applies |-> ProviderApplies(cfg.providers[i]),
                                   spf     |-> cfg.providers[i].spf]
        /\ \A i \in 1..c : C[i] = [applies |-> ListMatch(cfg.whitelist[i]),
                                   spf     |-> cfg.whitelist[i].spf]
    OBVIOUS
  <1>5. A \in [1..a -> S] /\ B \in [1..b -> S] /\ C \in [1..c -> S]
    <2>1. A = [i \in 1..a |-> A[i]] /\ B = [i \in 1..b |-> B[i]]
          /\ C = [i \in 1..c |-> C[i]]
      OBVIOUS
    <2> HIDE DEF A, B, C
    <2> QED BY <2>1
  <1>6. /\ A \in Seq(S) /\ B \in Seq(S) /\ C \in Seq(S)
        /\ Len(A) = a /\ Len(B) = b /\ Len(C) = c
    <2> HIDE DEF A, B, C, S, a, b, c
    <2> QED BY <1>1, <1>5
  <1>7. /\ Len(A \o B \o C) = a + b + c
        /\ \A i \in 1..a : (A \o B \o C)[i] = A[i]
        /\ \A i \in 1..b : (A \o B \o C)[a + i] = B[i]
        /\ \A i \in 1..c : (A \o B \o C)[a + b + i] = C[i]
    <2> HIDE DEF A, B, C, S, a, b, c
    <2>0. A \in Seq(S) /\ B \in Seq(S) /\ C \in Seq(S)
      BY <1>6
    <2>1. Len(A \o B \o C) = Len(A) + Len(B) + Len(C)
      BY <2>0, ThreeLists
    <2>2. \A i \in 1..Len(A) : (A \o B \o C)[i] = A[i]
      BY <2>0, ThreeLists
    <2>3. \A i \in 1..Len(B) : (A \o B \o C)[Len(A) + i] = B[i]
      BY <2>0, ThreeLists
    <2>4. \A i \in 1..Len(C) : (A \o B \o C)[Len(A) + Len(B) + i] = C[i]
      BY <2>0, ThreeLists
    <2> QED BY <1>6, <2>1, <2>2, <2>3, <2>4, Zenon
  <1> HIDE DEF A, B, C, S
  <1> QED BY <1>1, <1>2, <1>4, <1>7

\* How many rules there are, and where the providers and the whitelist start.
LEMMA RuleOrder ==
    ASSUME TypeOK
    PROVE  LET a == Len(cfg.nets)
               b == Len(cfg.providers)
               c == Len(cfg.whitelist) IN
           /\ a \in Nat /\ b \in Nat /\ c \in Nat /\ Len(Rules) \in Nat
           /\ \A i \in 1..a : i \in 1..Len(Rules)
           /\ \A i \in 1..b : a + i \in 1..Len(Rules)
           /\ \A i \in 1..c : a + b + i \in 1..Len(Rules)
           /\ Len(Rules) = a + b + c
  <1> DEFINE a == Len(cfg.nets)
             b == Len(cfg.providers)
             c == Len(cfg.whitelist)
             n == Len(Rules)
  <1>1. a \in Nat /\ b \in Nat /\ c \in Nat /\ n = a + b + c
    BY RuleIndex, Zenon
  <1> HIDE DEF a, b, c, n
  <1>2. /\ \A i \in 1..a : i \in 1..n
        /\ \A i \in 1..b : a + i \in 1..n
        /\ \A i \in 1..c : a + b + i \in 1..n
        /\ n \in Nat
    BY <1>1
  <1> QED BY <1>1, <1>2 DEF a, b, c, n

-----------------------------------------------------------------------------
(* Decisions *)

\* Nothing that is said about the inputs changes while Decide runs.
LEMMA Frame ==
    ASSUME UNCHANGED inputs
    PROVE  /\ Rules' = Rules
           /\ Hits' = Hits
           /\ reverse' = reverse
           /\ NoNet' <=> NoNet
           /\ NoProvider' <=> NoProvider
           /\ \A k : Unconfirmed(k)' <=> Unconfirmed(k)
           /\ \A p : ProviderApplies(p)' <=> ProviderApplies(p)
           /\ \A p : Evidence(p)' <=> Evidence(p)
           /\ \A w : ListMatch(w)' <=> ListMatch(w)
           /\ \A e : NetMatch(e)' <=> NetMatch(e)
  <1> USE DEF inputs
  <1>1. Confirmed' = Confirmed /\ reverse' = reverse
    BY DEF Confirmed, reverse
  <1>2. \A p : ProviderApplies(p)' <=> ProviderApplies(p)
    BY <1>1 DEF ProviderApplies
  <1>3. /\ \A w : ListMatch(w)' <=> ListMatch(w)
        /\ \A e : NetMatch(e)' <=> NetMatch(e)
    BY DEF ListMatch, NetMatch
  <1>4. Rules' = Rules
    BY Zenon DEF Rules, NetMatch, ListMatch, ProviderApplies, Confirmed
  <1>5. Hits' = Hits
    BY <1>4 DEF Hits
  <1>6. (NoNet' <=> NoNet) /\ (NoProvider' <=> NoProvider)
    BY <1>2, <1>3 DEF NoNet, NoProvider
  <1>7. \A k : Unconfirmed(k)' <=> Unconfirmed(k)
    BY <1>1 DEF Unconfirmed
  <1>8. \A p : Evidence(p)' <=> Evidence(p)
    BY DEF Evidence
  <1> QED BY <1>1, <1>2, <1>3, <1>4, <1>5, <1>6, <1>7, <1>8

\* The decision is that of the first rule that applies.
LEMMA FirstDecides ==
    ASSUME TypeOK, UNCHANGED inputs, NEW i \in 1..Len(Rules), Rules[i].applies,
           \A j \in 1..(i - 1) : ~Rules[j].applies,
           outcome' = Verdict(Rules[i].spf)
    PROVE  FirstRuleDecides'
  <1>1. Len(Rules) \in Nat
    BY RuleIndex
  <1>2. Hits \subseteq Nat /\ i \in Hits
    BY <1>1 DEF Hits
  <1>3. Min(Hits) \in Hits /\ \A y \in Hits : Min(Hits) <= y
    BY <1>2, MinFacts
  <1>4. Min(Hits) \in 1..Len(Rules) /\ Rules[Min(Hits)].applies
    BY <1>3 DEF Hits
  <1>5. Min(Hits) <= i
    BY <1>2, <1>3
  <1>6. Min(Hits) = i
    BY <1>1, <1>4, <1>5
  <1>7. Rules' = Rules /\ Hits' = Hits /\ world' = world
    BY Frame DEF inputs
  <1>8. FirstRuleDecides' <=>
            (at' = "returned" /\ failed' = {} =>
                outcome' = IF Hits' = {} THEN "RejectPermanent"
                           ELSE Verdict(Rules[Min(Hits)].spf)')
    BY DEF FirstRuleDecides, Hits, Verdict
  <1>9. Verdict(Rules[Min(Hits)].spf)' = Verdict(Rules[i].spf)
    BY <1>6, <1>7 DEF Verdict
  <1>10. Hits' # {}
    BY <1>2, <1>7
  <1> QED BY <1>8, <1>9, <1>10

\* Without an applicable rule the decision is to refuse.
LEMMA NoneDecides ==
    ASSUME TypeOK, UNCHANGED inputs,
           \A j \in 1..Len(Rules) : ~Rules[j].applies,
           outcome' = "RejectPermanent"
    PROVE  FirstRuleDecides'
  <1>1. Hits = {}
    BY DEF Hits
  <1>2. Hits' = {}
    BY <1>1, Frame
  <1>3. FirstRuleDecides' <=>
            (at' = "returned" /\ failed' = {} =>
                outcome' = IF Hits' = {} THEN "RejectPermanent"
                           ELSE Verdict(Rules[Min(Hits)].spf)')
    BY DEF FirstRuleDecides, Hits, Verdict
  <1> QED BY <1>2, <1>3

\* A network decides when none before it matched.
LEMMA NetDecides ==
    ASSUME TypeOK, UNCHANGED inputs, NEW i \in 1..Len(cfg.nets),
           NetMatch(cfg.nets[i]),
           \A j \in 1..(i - 1) : ~NetMatch(cfg.nets[j]),
           outcome' = "Admit"
    PROVE  FirstRuleDecides'
  <1>1. i \in 1..Len(Rules) /\ (\A j \in 1..(i - 1) : j \in 1..Len(cfg.nets))
    <2>1. i \in 1..Len(Rules) /\ Len(cfg.nets) \in Nat
      BY RuleOrder, Zenon
    <2> QED BY <2>1
  <1>2. Rules[i] = [applies |-> NetMatch(cfg.nets[i]), spf |-> FALSE]
    BY RuleIndex
  <1>3. \A j \in 1..(i - 1) :
            Rules[j] = [applies |-> NetMatch(cfg.nets[j]), spf |-> FALSE]
    BY <1>1, RuleIndex
  <1>4. Rules[i].applies /\ ~Rules[i].spf
    BY <1>2
  <1>5. ASSUME NEW j \in 1..(i - 1) PROVE ~Rules[j].applies
    <2>1. Rules[j] = [applies |-> NetMatch(cfg.nets[j]), spf |-> FALSE]
      BY <1>3
    <2> QED BY <2>1
  <1>6. outcome' = Verdict(Rules[i].spf)
    BY <1>4 DEF Verdict
  <1> QED BY <1>1, <1>4, <1>5, <1>6, FirstDecides

\* Before the providers come the networks.
LEMMA ProviderDecides ==
    ASSUME TypeOK, UNCHANGED inputs, NoNet, NEW i \in 1..Len(cfg.providers),
           ProviderApplies(cfg.providers[i]),
           \A j \in 1..(i - 1) : ~ProviderApplies(cfg.providers[j]),
           outcome' = Verdict(cfg.providers[i].spf)
    PROVE  FirstRuleDecides'
  <1> DEFINE a == Len(cfg.nets)
             b == Len(cfg.providers)
  <1>1. a \in Nat /\ b \in Nat /\ a + i \in 1..Len(Rules)
        /\ DOMAIN cfg.nets = 1..a
    BY RuleOrder, Lists, Zenon
  <1>2. Rules[a + i] = [applies |-> ProviderApplies(cfg.providers[i]),
                        spf     |-> cfg.providers[i].spf]
    BY RuleIndex
  <1>3. Rules[a + i].applies /\ Rules[a + i].spf = cfg.providers[i].spf
    BY <1>2
  <1>4. ASSUME NEW j \in 1..(a + i - 1) PROVE ~Rules[j].applies
    <2>1. CASE j \in 1..a
      <3>1. Rules[j] = [applies |-> NetMatch(cfg.nets[j]), spf |-> FALSE]
        BY <2>1, RuleIndex
      <3>2. ~NetMatch(cfg.nets[j])
        BY <2>1, <1>1 DEF NoNet
      <3> QED BY <3>1, <3>2
    <2>2. CASE j \notin 1..a
      <3>1. PICK k \in 1..(i - 1) : j = a + k /\ k \in 1..b
        <4> HIDE DEF a, b
        <4>1. j - a \in 1..(i - 1) /\ j = a + (j - a)
          BY <2>2, <1>1
        <4> QED BY <4>1, <1>1 DEF b
      <3>2. Rules[a + k] = [applies |-> ProviderApplies(cfg.providers[k]),
                            spf     |-> cfg.providers[k].spf]
        BY <3>1, RuleIndex
      <3> QED BY <3>1, <3>2
    <2> QED BY <2>1, <2>2
  <1> HIDE DEF a, b
  <1> QED BY <1>1, <1>3, <1>4, FirstDecides

\* What an entry of the whitelist has to wait for.
LEMMA BeforeList ==
    ASSUME TypeOK, NoNet, NoProvider, NEW i \in 1..(Len(cfg.whitelist) + 1),
           \A j \in 1..(i - 1) : ~ListMatch(cfg.whitelist[j])
    PROVE  \A j \in 1..(Len(cfg.nets) + Len(cfg.providers) + i - 1) :
               ~Rules[j].applies
  <1> DEFINE a == Len(cfg.nets)
             b == Len(cfg.providers)
             c == Len(cfg.whitelist)
  <1>1. /\ a \in Nat /\ b \in Nat /\ c \in Nat
        /\ DOMAIN cfg.nets = 1..a /\ DOMAIN cfg.providers = 1..b
    BY RuleIndex, Lists
  <1> SUFFICES ASSUME NEW j \in 1..(a + b + i - 1) PROVE ~Rules[j].applies
    OBVIOUS
  <1>2. \/ j \in 1..a
        \/ \E k \in 1..b : j = a + k
        \/ \E k \in 1..(i - 1) : j = a + b + k /\ k \in 1..c
    <2> i \in 1..(c + 1)
      OBVIOUS
    <2> HIDE DEF a, b, c
    <2>1. CASE j <= a
      BY <2>1, <1>1
    <2>2. CASE j > a /\ j <= a + b
      <3>1. j - a \in 1..b /\ j = a + (j - a)
        BY <2>2, <1>1
      <3> QED BY <3>1
    <2>3. CASE j > a + b
      <3>1. j - (a + b) \in 1..(i - 1) /\ j = a + b + (j - (a + b))
            /\ j - (a + b) \in 1..c
        BY <2>3, <1>1
      <3> QED BY <3>1
    <2> QED BY <1>1, <2>1, <2>2, <2>3
  <1>3. CASE j \in 1..a
    <2>1. Rules[j] = [applies |-> NetMatch(cfg.nets[j]), spf |-> FALSE]
      BY <1>3, RuleIndex
    <2>2. ~NetMatch(cfg.nets[j])
      BY <1>3, <1>1 DEF NoNet
    <2> QED BY <2>1, <2>2
  <1>4. CASE \E k \in 1..b : j = a + k
    <2>1. PICK k \in 1..b : j = a + k
      BY <1>4
    <2>2. Rules[a + k] = [applies |-> ProviderApplies(cfg.providers[k]),
                          spf     |-> cfg.providers[k].spf]
      BY RuleIndex
    <2>3. ~ProviderApplies(cfg.providers[k])
      BY <1>1 DEF NoProvider
    <2> QED BY <2>1, <2>2, <2>3
  <1>5. CASE \E k \in 1..(i - 1) : j = a + b + k /\ k \in 1..c
    <2>1. PICK k \in 1..(i - 1) : j = a + b + k /\ k \in 1..c
      BY <1>5
    <2>2. Rules[a + b + k] = [applies |-> ListMatch(cfg.whitelist[k]),
                              spf     |-> cfg.whitelist[k].spf]
      BY <2>1, RuleIndex
    <2>3. ~ListMatch(cfg.whitelist[k])
      OBVIOUS
    <2> QED BY <2>1, <2>2, <2>3
  <1> QED BY <1>2, <1>3, <1>4, <1>5

\* Before the whitelist come the networks and the providers.
LEMMA ListDecides ==
    ASSUME TypeOK, UNCHANGED inputs, NoNet, NoProvider,
           NEW i \in 1..Len(cfg.whitelist),
           ListMatch(cfg.whitelist[i]),
           \A j \in 1..(i - 1) : ~ListMatch(cfg.whitelist[j]),
           outcome' = Verdict(cfg.whitelist[i].spf)
    PROVE  FirstRuleDecides'
  <1> DEFINE a == Len(cfg.nets)
             b == Len(cfg.providers)
             c == Len(cfg.whitelist)
             n == a + b
  <1>1. n \in Nat /\ n + i \in 1..Len(Rules) /\ i \in 1..(c + 1)
    <2>1. a \in Nat /\ b \in Nat /\ c \in Nat /\ i \in 1..c
          /\ n + i \in 1..Len(Rules)
      BY RuleOrder, Zenon
    <2> HIDE DEF a, b, c
    <2> QED BY <2>1
  <1>2. Rules[n + i] = [applies |-> ListMatch(cfg.whitelist[i]),
                        spf     |-> cfg.whitelist[i].spf]
    BY RuleIndex
  <1>3. Rules[n + i].applies /\ Rules[n + i].spf = cfg.whitelist[i].spf
    BY <1>2
  <1>4. \A j \in 1..(n + i - 1) : ~Rules[j].applies
    BY <1>1, BeforeList
  <1> HIDE DEF n
  <1> QED BY <1>1, <1>3, <1>4, FirstDecides

-----------------------------------------------------------------------------
(* The host name *)

\* The first confirmed name is what the specification of rule B looks at.
LEMMA FirstName ==
    ASSUME TypeOK, NEW k \in 1..Len(reverse), reverse[k] \in world.confirmed,
           Unconfirmed(k - 1)
    PROVE  Confirmed # {} /\ Min(Confirmed) = k
  <1>1. Len(reverse) \in Nat /\ DOMAIN reverse = 1..Len(reverse)
    BY Lists
  <1>2. Confirmed \subseteq 1..Len(reverse) /\ k \in Confirmed
    BY <1>1 DEF Confirmed, reverse
  <1>3. Confirmed \subseteq Nat
    BY <1>1, <1>2
  <1>4. Min(Confirmed) \in Confirmed /\ \A y \in Confirmed : Min(Confirmed) <= y
    BY <1>2, <1>3, MinFacts
  <1>5. reverse[Min(Confirmed)] \in world.confirmed
    BY <1>4 DEF Confirmed, reverse
  <1>6. Min(Confirmed) \in 1..Len(reverse) /\ Min(Confirmed) <= k
    BY <1>2, <1>4
  <1>7. Min(Confirmed) \notin 1..(k - 1)
    BY <1>5 DEF Unconfirmed
  <1> QED BY <1>1, <1>2, <1>6, <1>7

\* Without a confirmed name no provider applies.
LEMMA NoName ==
    ASSUME TypeOK, Unconfirmed(Len(reverse))
    PROVE  NoProvider
  <1>1. DOMAIN reverse = 1..Len(reverse)
    BY Lists
  <1>2. Confirmed = {}
    BY <1>1 DEF Confirmed, Unconfirmed, reverse
  <1> QED BY <1>2 DEF NoProvider, ProviderApplies

\* At rule B, ProviderMatch is evidence, and agrees with the specification
\* when no query failed.
LEMMA MatchAtB ==
    ASSUME PInv, at = "B", NEW p
    PROVE  /\ ProviderMatch(p) => Evidence(p)
           /\ failed = {} => (ProviderMatch(p) <=> ProviderApplies(p))
  <1>1. PICK k \in 1..Len(reverse) :
            /\ ptr = <<reverse[k]>> /\ reverse[k] \in world.confirmed
            /\ failed = {} => Unconfirmed(k - 1)
    BY DEF PInv, NameFound
  <1>2. ptr[1] = reverse[k]
    BY <1>1
  <1>3. ProviderMatch(p) => Evidence(p)
    BY <1>1, <1>2 DEF ProviderMatch, Evidence, suffixMatch
  <1>4. ASSUME failed = {} PROVE ProviderMatch(p) <=> ProviderApplies(p)
    <2>1. Confirmed # {} /\ Min(Confirmed) = k
      BY <1>1, <1>4, FirstName DEF PInv
    <2> QED BY <1>2, <2>1 DEF ProviderMatch, ProviderApplies, reverse
  <1> QED BY <1>3, <1>4

-----------------------------------------------------------------------------
(* The steps of Decide *)

\* Decide starts with nothing known.
LEMMA InitPInv == Init => PInv
  <1> SUFFICES ASSUME Init PROVE PInv
    OBVIOUS
  <1>1. TypeOK
    <2>1. Len(names) = 0 /\ Len(ptr) = 0 /\ Len(ch) = 0
      BY DEF Init
    <2>2. world.reverse \in Seq(Range(world.reverse))
      BY PolicyAssumption DEF PolicyAssumption, IsList, Init
    <2>3. Len(names) <= Len(world.reverse)
      BY <2>1, <2>2
    <2>4. left \in 0..CommandTimeout /\ wait \in 0..left
      BY PolicyAssumption DEF PolicyAssumption, Init
    <2> QED BY <2>1, <2>3, <2>4 DEF Init, TypeOK
  <1>2. NamesLeft
    <2>1. Len(reverse) \in Nat
      BY <1>1, Lists
    <2> QED BY <2>1 DEF Init, NamesLeft
  <1>3. NameFound /\ ChannelAnswer /\ RulesPassed /\ SPFAsked /\ Undecided
    BY DEF Init, NameFound, ChannelAnswer, RulesPassed, SPFAsked, Undecided
  <1>4. AdmitJustified /\ FirstRuleDecides
    BY DEF Init, AdmitJustified, FirstRuleDecides
  <1> QED BY <1>1, <1>2, <1>3, <1>4 DEF PInv

\* While Decide goes on nothing is decided.
LEMMA GoesOn ==
    ASSUME PInv, at # "returned", at' # "returned", UNCHANGED outcome
    PROVE  Undecided' /\ AdmitJustified' /\ FirstRuleDecides'
  <1>1. outcome' = "none"
    BY DEF PInv, Undecided
  <1> QED BY <1>1 DEF Undecided, AdmitJustified, FirstRuleDecides

\* After the decision only the decision matters.
LEMMA Returned ==
    ASSUME at' = "returned"
    PROVE  NameFound' /\ RulesPassed' /\ SPFAsked' /\ Undecided'
  BY DEF NameFound, RulesPassed, SPFAsked, Undecided

\* A query starts with a deadline within ctx.
LEMMA QueryWait ==
    ASSUME PInv, NEW q, Query(q), UNCHANGED left
    PROVE  wait' \in 0..left'
  BY PolicyAssumption DEF PolicyAssumption, PInv, TypeOK, Query

\* The names are left alone by every step that is not of FCrDNS.
LEMMA SameNames ==
    ASSUME PInv, UNCHANGED <<names, world>>, at' # "forward"
    PROVE  NamesLeft' /\ Len(names)' <= Len(world.reverse)'
  BY DEF PInv, NamesLeft, reverse

LEMMA RuleAPInv ==
    ASSUME PInv, RuleA
    PROVE  PInv'
  <1> USE DEF inputs, spf
  <1>1. at = "A" /\ UNCHANGED <<inputs, left, names, ptr, spf, failed>>
    BY DEF RuleA
  <1>2. ChannelAnswer'
    BY <1>1 DEF PInv, ChannelAnswer
  <1>3. \/ /\ FirstMatch(cfg.nets, NetMatch) # <<>>
           /\ at' = "returned" /\ outcome' = "Admit" /\ wait' = wait
        \/ /\ FirstMatch(cfg.nets, NetMatch) = <<>> /\ cfg.providers # <<>>
           /\ at' = "PTR" /\ Query("PTR") /\ outcome' = outcome
        \/ /\ FirstMatch(cfg.nets, NetMatch) = <<>> /\ cfg.providers = <<>>
           /\ at' = "C" /\ wait' = wait /\ outcome' = outcome
    BY DEF RuleA, Return, Query
  <1>4. at' # "forward"
    BY <1>3
  <1>5. NamesLeft' /\ Len(names)' <= Len(world.reverse)'
    BY <1>1, <1>4, SameNames
  <1>6. TypeOK'
    <2>1. wait' \in 0..left'
      BY <1>1, <1>3, QueryWait DEF PInv, TypeOK
    <2> QED BY <1>1, <1>3, <1>5, <2>1 DEF PInv, TypeOK, Queries
  <1>7. CASE FirstMatch(cfg.nets, NetMatch) # <<>>
    <2>1. at' = "returned" /\ outcome' = "Admit"
      BY <1>3, <1>7
    <2>2. PICK i \in 1..Len(cfg.nets) :
              /\ NetMatch(cfg.nets[i])
              /\ \A j \in 1..(i - 1) : ~NetMatch(cfg.nets[j])
      BY <1>7, NetHit DEF PInv
    <2>3. FirstRuleDecides'
      BY <1>1, <2>1, <2>2, NetDecides DEF PInv
    <2>4. AdmitJustified'
      BY <1>1, <2>2 DEF AdmitJustified, NetMatch
    <2> QED BY <1>2, <1>5, <1>6, <2>1, <2>3, <2>4, Returned DEF PInv
  <1>8. CASE FirstMatch(cfg.nets, NetMatch) = <<>>
    <2>1. NoNet
      BY <1>8, NetHit DEF PInv
    <2>2. NoNet'
      BY <1>1, <2>1, Frame
    <2>3. at' # "returned" /\ outcome' = outcome /\ at' \in {"PTR", "C"}
      BY <1>3, <1>8
    <2>4. at' = "C" => NoProvider'
      <3>1. at' = "C" => DOMAIN cfg.providers = {}
        BY <1>3, <1>8
      <3>2. at' = "C" => NoProvider
        BY <3>1 DEF NoProvider
      <3> QED BY <1>1, <3>2, Frame
    <2>5. NameFound' /\ RulesPassed' /\ SPFAsked'
      BY <2>2, <2>3, <2>4 DEF NameFound, RulesPassed, SPFAsked
    <2>6. Undecided' /\ AdmitJustified' /\ FirstRuleDecides'
      BY <1>1, <2>3, GoesOn
    <2> QED BY <1>2, <1>5, <1>6, <2>5, <2>6 DEF PInv
  <1> QED BY <1>7, <1>8

LEMMA LookupAddrPInv ==
    ASSUME PInv, LookupAddr
    PROVE  PInv'
  <1> USE DEF inputs, spf
  <1>1. at = "PTR" /\ UNCHANGED <<inputs, left, ptr, spf, outcome>>
    BY DEF LookupAddr
  <1>2. \/ /\ at' = "forward" /\ names' = reverse /\ reverse # <<>>
           /\ failed' = failed /\ Query("forward")
        \/ /\ at' = "C" /\ names' = names /\ wait' = wait
           /\ reverse = <<>> /\ failed' = failed
        \/ /\ at' = "C" /\ names' = names /\ wait' = wait
           /\ failed' # {} /\ failed' \subseteq {"error", "deadline"}
    BY DEF LookupAddr, Answered, Failed, Query, reverse, PInv, TypeOK
  <1>3. /\ Len(reverse) \in Nat /\ reverse \in Seq(Range(reverse))
        /\ reverse # <<>> => Len(reverse) > 0
    BY Lists DEF PInv
  <1>4. ChannelAnswer'
    BY <1>1 DEF PInv, ChannelAnswer
  <1>5. NamesLeft' /\ Len(names)' <= Len(world.reverse)'
    <2>1. CASE at' = "C"
      BY <1>1, <1>2, <2>1, SameNames
    <2>2. CASE at' = "forward"
      <3>1. names' = reverse /\ reverse # <<>> /\ reverse' = reverse
        BY <1>1, <1>2, <2>2 DEF reverse
      <3>2. Unconfirmed(0)'
        BY DEF Unconfirmed
      <3>3. /\ 0 \in 0..(Len(reverse) - 1) /\ Len(names') = Len(reverse) - 0
            /\ \A j \in 1..Len(names') : names'[j] = reverse[0 + j]
        BY <1>3, <3>1
      <3>4. Len(names)' <= Len(reverse)'
        BY <1>3, <3>1
      <3> QED BY <1>3, <3>1, <3>2, <3>3, <3>4 DEF NamesLeft, reverse
    <2> QED BY <1>2, <2>1, <2>2
  <1>6. TypeOK'
    <2>1. wait' \in 0..left'
      BY <1>1, <1>2, QueryWait DEF PInv, TypeOK
    <2> QED BY <1>1, <1>2, <1>5, <2>1 DEF PInv, TypeOK, Queries
  <1>7. RulesPassed'
    <2>1. NoNet'
      BY <1>1, Frame DEF PInv, RulesPassed
    <2>2. at' = "C" /\ failed' = {} => NoProvider'
      <3>1. reverse = <<>> => Unconfirmed(Len(reverse))
        BY DEF Unconfirmed
      <3>2. reverse = <<>> => NoProvider
        BY <3>1, NoName DEF PInv
      <3> QED BY <1>1, <1>2, <3>2, Frame
    <2> QED BY <2>1, <2>2 DEF RulesPassed
  <1>8. NameFound' /\ SPFAsked'
    BY <1>2 DEF NameFound, SPFAsked
  <1>9. Undecided' /\ AdmitJustified' /\ FirstRuleDecides'
    BY <1>1, <1>2, GoesOn
  <1> QED BY <1>4, <1>5, <1>6, <1>7, <1>8, <1>9 DEF PInv

LEMMA LookupIPAddrPInv ==
    ASSUME PInv, LookupIPAddr
    PROVE  PInv'
  <1> USE DEF inputs, spf
  <1>1. at = "forward" /\ UNCHANGED <<inputs, left, spf, outcome>>
        /\ names' = Tail(names)
    BY DEF LookupIPAddr
  <1>2. \/ /\ at' = "B" /\ ptr' = <<Head(names)>> /\ wait' = wait
           /\ Head(names) \in world.confirmed /\ failed' = failed
        \/ /\ ptr' = ptr
           /\ \/ Head(names) \notin world.confirmed /\ failed' = failed
              \/ failed' # {} /\ failed' \subseteq {"error", "deadline"}
           /\ \/ names' = <<>> /\ at' = "C" /\ wait' = wait
              \/ names' # <<>> /\ at' = "forward" /\ Query("forward")
    BY DEF LookupIPAddr, Answered, Failed, Query, PInv, TypeOK
  <1>3. Len(reverse) \in Nat /\ reverse' = reverse
    BY <1>1, Lists DEF PInv, reverse
  <1>4. PICK k \in 0..(Len(reverse) - 1) :
            /\ Len(names) = Len(reverse) - k
            /\ \A j \in 1..Len(names) : names[j] = reverse[k + j]
            /\ failed = {} => Unconfirmed(k)
    BY <1>1 DEF PInv, NamesLeft
  <1>5. names \in Seq(Range(reverse)) /\ Len(names) > 0 /\ k \in Nat
    BY <1>3, <1>4 DEF PInv, NamesLeft
  <1>6. /\ names' \in Seq(Range(reverse)) /\ Len(names') = Len(names) - 1
        /\ \A j \in 1..Len(names') : names'[j] = names[j + 1]
        /\ names' # <<>> => Len(names') > 0
        /\ names' = <<>> => Len(names') = 0
    <2>1. PICK ns : ns = names
      OBVIOUS
    <2>2. PICK S : S = Range(reverse)
      OBVIOUS
    <2>3. ns \in Seq(S) /\ Len(ns) > 0 /\ names' = Tail(ns)
      BY <1>1, <1>5, <2>1, <2>2
    <2>4. Tail(ns) \in Seq(S) /\ Len(Tail(ns)) = Len(ns) - 1
      BY <2>3
    <2>5. \A j \in 1..Len(Tail(ns)) : Tail(ns)[j] = ns[j + 1]
      BY <2>3
    <2>6. ASSUME NEW t \in Seq(S)
          PROVE  (t # <<>> => Len(t) > 0) /\ (t = <<>> => Len(t) = 0)
      OBVIOUS
    <2> QED BY <2>1, <2>2, <2>3, <2>4, <2>5, <2>6, Zenon
  <1>7. Head(names) = reverse[k + 1] /\ k + 1 \in 1..Len(reverse)
    BY <1>3, <1>4, <1>5
  <1>8. failed' = {} => failed = {}
    BY <1>2
  <1>9. failed' = {} /\ Head(names) \notin world.confirmed => Unconfirmed(k + 1)
    <2> SUFFICES ASSUME failed' = {}, Head(names) \notin world.confirmed,
                        NEW j \in 1..(k + 1)
                 PROVE  reverse[j] \notin world.confirmed
      BY DEF Unconfirmed
    <2>1. CASE j = k + 1
      BY <1>7, <2>1
    <2>2. CASE j # k + 1
      <3>1. j \in 1..k
        BY <1>5, <2>2
      <3> QED BY <1>4, <1>8, <3>1 DEF Unconfirmed
    <2> QED BY <2>1, <2>2
  <1>10. NamesLeft' /\ Len(names)' <= Len(world.reverse)'
    <2>1. Len(names') <= Len(reverse)
      BY <1>3, <1>4, <1>5, <1>6
    <2>2. ASSUME at' = "forward"
          PROVE  \E m \in 0..(Len(reverse) - 1) :
                    /\ Len(names') = Len(reverse) - m
                    /\ \A j \in 1..Len(names') : names'[j] = reverse[m + j]
                    /\ failed' = {} => Unconfirmed(m)
      <3>1. Len(names') > 0
        BY <1>2, <1>6, <2>2
      <3>2. k + 1 \in 0..(Len(reverse) - 1) /\ Len(names') = Len(reverse) - (k + 1)
        BY <1>3, <1>4, <1>5, <1>6, <3>1
      <3>3. ASSUME NEW j \in 1..Len(names') PROVE names'[j] = reverse[(k + 1) + j]
        <4>1. names'[j] = names[j + 1] /\ j + 1 \in 1..Len(names)
          BY <1>5, <1>6
        <4>2. names[j + 1] = reverse[k + (j + 1)]
          BY <1>4, <4>1
        <4>3. k + (j + 1) = (k + 1) + j
          BY <1>5, <1>6
        <4> QED BY <4>1, <4>2, <4>3
      <3>4. failed' = {} => Unconfirmed(k + 1)
        BY <1>2, <1>9, <2>2
      <3> QED BY <3>2, <3>3, <3>4
    <2>3. \A m : Unconfirmed(m)' <=> Unconfirmed(m)
      BY <1>1, Frame
    <2>4. names' \in Seq(Range(reverse'))
      BY <1>3, <1>6
    <2> QED BY <1>3, <2>1, <2>2, <2>3, <2>4 DEF NamesLeft, reverse
  <1>11. TypeOK'
    <2>1. wait' \in 0..left'
      BY <1>1, <1>2, QueryWait DEF PInv, TypeOK
    <2>2. Len(ptr') <= 1
      <3>1. Len(<<Head(names)>>) = 1
        OBVIOUS
      <3>2. Len(ptr') = 1 \/ ptr' = ptr
        BY <1>2, <3>1
      <3>3. Len(ptr) <= 1
        BY DEF PInv, TypeOK
      <3>4. 1 <= 1
        OBVIOUS
      <3> QED BY <3>2, <3>3, <3>4, Zenon
    <2> QED BY <1>1, <1>2, <1>10, <2>1, <2>2 DEF PInv, TypeOK, Queries
  <1>12. ChannelAnswer'
    BY <1>1 DEF PInv, ChannelAnswer
  <1>13. NameFound'
    <2> SUFFICES ASSUME at' = "B" PROVE NameFound'
      BY DEF NameFound
    <2>1. ptr' = <<reverse[k + 1]>> /\ reverse[k + 1] \in world.confirmed
          /\ failed' = failed
      BY <1>2, <1>7
    <2>2. failed' = {} => Unconfirmed((k + 1) - 1)
      BY <1>4, <1>5, <2>1
    <2>3. failed' = {} => Unconfirmed((k + 1) - 1)'
      BY <1>1, <2>2, Frame
    <2> QED BY <1>1, <1>3, <1>7, <2>1, <2>3 DEF NameFound
  <1>14. RulesPassed'
    <2>1. NoNet'
      BY <1>1, Frame DEF PInv, RulesPassed
    <2>2. ASSUME at' = "C", failed' = {} PROVE NoProvider'
      <3>1. k + 1 = Len(reverse)
        BY <1>2, <1>3, <1>4, <1>5, <1>6, <2>2
      <3>2. Unconfirmed(k + 1)
        BY <1>2, <1>9, <2>2
      <3>3. NoProvider
        BY <3>1, <3>2, NoName DEF PInv
      <3> QED BY <1>1, <3>3, Frame
    <2> QED BY <2>1, <2>2 DEF RulesPassed
  <1>15. SPFAsked'
    BY <1>2 DEF SPFAsked
  <1>16. Undecided' /\ AdmitJustified' /\ FirstRuleDecides'
    BY <1>1, <1>2, GoesOn
  <1> QED BY <1>10, <1>11, <1>12, <1>13, <1>14, <1>15, <1>16 DEF PInv

\* An entry that matched: what it does not touch.
LEMMA MatchedPInv ==
    ASSUME PInv, at \in {"B", "C"}, NEW e, Matched(e),
           UNCHANGED <<inputs, left, names, ptr, ch, failed>>
    PROVE  /\ TypeOK' /\ NamesLeft' /\ ChannelAnswer' /\ NameFound'
           /\ RulesPassed' /\ Undecided'
           /\ \/ ~e.spf /\ at' = "returned" /\ outcome' = "Admit"
              \/ e.spf /\ at' = "SPF" /\ outcome' = outcome
  <1> USE DEF inputs
  <1>1. \/ ~e.spf /\ at' = "returned" /\ outcome' = "Admit" /\ wait' = wait
           /\ lib' = lib
        \/ e.spf /\ at' = "SPF" /\ outcome' = outcome /\ Query("SPF")
           /\ lib' = "running"
    BY DEF Matched, Return, Query
  <1>2. NamesLeft' /\ Len(names)' <= Len(world.reverse)'
    BY <1>1, SameNames
  <1>3. wait' \in 0..left'
    BY <1>1, QueryWait DEF PInv, TypeOK
  <1>4. TypeOK'
    BY <1>1, <1>2, <1>3 DEF PInv, TypeOK, Queries
  <1>5. ChannelAnswer' /\ NameFound'
    BY <1>1 DEF PInv, ChannelAnswer, NameFound
  <1>6. NoNet'
    BY Frame DEF PInv, RulesPassed
  <1>7. RulesPassed' /\ Undecided'
    BY <1>1, <1>6 DEF RulesPassed, Undecided, PInv
  <1> QED BY <1>1, <1>2, <1>4, <1>5, <1>7

LEMMA RuleBPInv ==
    ASSUME PInv, RuleB
    PROVE  PInv'
  <1> USE DEF inputs
  <1> DEFINE f == FirstMatch(cfg.providers, ProviderMatch)
  <1>1. at = "B" /\ UNCHANGED <<inputs, left, names, ptr, ch, failed>>
    BY DEF RuleB
  <1>2. CASE f = <<>>
    <2>1. at' = "C" /\ UNCHANGED <<wait, lib, outcome>>
      BY <1>2 DEF RuleB
    <2>2. NamesLeft' /\ Len(names)' <= Len(world.reverse)'
      BY <1>1, <2>1, SameNames
    <2>3. TypeOK' /\ ChannelAnswer' /\ NameFound' /\ SPFAsked'
      BY <1>1, <2>1, <2>2
         DEF PInv, TypeOK, Queries, ChannelAnswer, NameFound, SPFAsked
    <2>4. \A i \in 1..Len(cfg.providers) : ~ProviderMatch(cfg.providers[i])
      BY <1>2, ProviderHit DEF PInv
    <2>5. failed = {} => NoProvider
      BY <1>1, <2>4, MatchAtB, Lists DEF PInv, NoProvider
    <2>6. RulesPassed'
      BY <1>1, <2>1, <2>5, Frame DEF PInv, RulesPassed
    <2>7. Undecided' /\ AdmitJustified' /\ FirstRuleDecides'
      BY <1>1, <2>1, GoesOn
    <2> QED BY <2>2, <2>3, <2>6, <2>7 DEF PInv
  <1>3. CASE f # <<>>
    <2>1. PICK i \in 1..Len(cfg.providers) :
              /\ f = <<cfg.providers[i]>> /\ ProviderMatch(cfg.providers[i])
              /\ \A j \in 1..(i - 1) : ~ProviderMatch(cfg.providers[j])
      BY <1>3, ProviderHit DEF PInv
    <2>2. PICK e : e = cfg.providers[i] /\ f = <<e>>
      BY <2>1
    <2>3. Matched(f[1])
      BY <1>3 DEF RuleB
    <2>4. f[1] = e
      <3> HIDE DEF f
      <3> QED BY <2>2
    <2>5. Matched(e)
      BY <2>3, <2>4 DEF Matched
    <2>6. /\ TypeOK' /\ NamesLeft' /\ ChannelAnswer' /\ NameFound'
          /\ RulesPassed' /\ Undecided'
          /\ \/ ~e.spf /\ at' = "returned" /\ outcome' = "Admit"
             \/ e.spf /\ at' = "SPF" /\ outcome' = outcome
      BY <1>1, <2>5, MatchedPInv
    <2>7. /\ Evidence(e)
          /\ failed = {} =>
                /\ ProviderApplies(e)
                /\ \A j \in 1..(i - 1) : ~ProviderApplies(cfg.providers[j])
      BY <1>1, <2>1, <2>2, MatchAtB
    <2>8. CASE ~e.spf /\ at' = "returned" /\ outcome' = "Admit"
      <3>1. SPFAsked'
        BY <2>8 DEF SPFAsked
      <3>2. AdmitJustified'
        BY <1>1, <2>2, <2>7, <2>8
           DEF AdmitJustified, Evidence, suffixMatch, Under, Passes
      <3>3. failed = {} => FirstRuleDecides'
        <4>1. outcome' = Verdict(cfg.providers[i].spf)
          BY <2>2, <2>8 DEF Verdict
        <4>2. NoNet
          BY <1>1 DEF PInv, RulesPassed
        <4> QED BY <1>1, <2>2, <2>7, <4>1, <4>2, ProviderDecides DEF PInv
      <3>4. failed # {} => FirstRuleDecides'
        BY <1>1 DEF FirstRuleDecides
      <3> QED BY <2>6, <3>1, <3>2, <3>3, <3>4 DEF PInv
    <2>9. CASE e.spf /\ at' = "SPF" /\ outcome' = outcome
      <3>1. /\ cfg'.providers[i].spf /\ Evidence(cfg.providers[i])'
            /\ failed' = {} =>
                  /\ ProviderApplies(cfg.providers[i])'
                  /\ \A j \in 1..(i - 1) : ~ProviderApplies(cfg.providers[j])'
        BY <1>1, <2>2, <2>7, <2>9 DEF Evidence, ProviderApplies, Confirmed
      <3>2. SPFAsked'
        BY <1>1, <3>1 DEF SPFAsked
      <3>3. AdmitJustified' /\ FirstRuleDecides'
        BY <1>1, <2>9, GoesOn
      <3> QED BY <2>6, <3>2, <3>3 DEF PInv
    <2> QED BY <2>6, <2>8, <2>9
  <1> QED BY <1>2, <1>3

LEMMA RuleCPInv ==
    ASSUME PInv, RuleC
    PROVE  PInv'
  <1> USE DEF inputs
  <1> DEFINE f == FirstMatch(cfg.whitelist, ListMatch)
  <1>1. at = "C" /\ UNCHANGED <<inputs, left, names, ptr, ch, failed>>
    BY DEF RuleC
  <1>2. NoNet /\ (failed = {} => NoProvider)
    BY <1>1 DEF PInv, RulesPassed
  <1>3. CASE f = <<>>
    <2>1. at' = "returned" /\ outcome' = "RejectPermanent"
          /\ UNCHANGED <<wait, lib>>
      BY <1>3 DEF RuleC, Return
    <2>2. NamesLeft' /\ Len(names)' <= Len(world.reverse)'
      BY <1>1, <2>1, SameNames
    <2>3. TypeOK' /\ ChannelAnswer' /\ AdmitJustified'
      BY <1>1, <2>1, <2>2 DEF PInv, TypeOK, ChannelAnswer, AdmitJustified
    <2>4. \A i \in 1..Len(cfg.whitelist) : ~ListMatch(cfg.whitelist[i])
      BY <1>3, ListHit DEF PInv
    <2>5. failed = {} => FirstRuleDecides'
      <3>1. PICK n : n = Len(cfg.whitelist) + 1
        OBVIOUS
      <3>2. n \in 1..(Len(cfg.whitelist) + 1) /\ n - 1 = Len(cfg.whitelist)
        BY <3>1, Lists DEF PInv
      <3>3. failed = {} =>
              \A j \in 1..(Len(cfg.nets) + Len(cfg.providers) + n - 1) :
                  ~Rules[j].applies
        BY <1>2, <2>4, <3>2, BeforeList DEF PInv
      <3>4. Len(Rules) = Len(cfg.nets) + Len(cfg.providers) + n - 1
        <4> DEFINE a == Len(cfg.nets)
                   b == Len(cfg.providers)
                   c == Len(cfg.whitelist)
        <4>1. a \in Nat /\ b \in Nat /\ c \in Nat /\ Len(Rules) = a + b + c
          BY RuleOrder, Zenon DEF PInv
        <4>2. n = c + 1
          BY <3>1
        <4> HIDE DEF a, b, c
        <4>3. a + b + c = a + b + n - 1
          BY <4>1, <4>2
        <4> QED BY <4>1, <4>3 DEF a, b, c
      <3>5. failed = {} => \A j \in 1..Len(Rules) : ~Rules[j].applies
        BY <3>3, <3>4, Zenon
      <3> QED BY <1>1, <2>1, <3>5, NoneDecides DEF PInv
    <2>6. failed # {} => FirstRuleDecides'
      BY <1>1 DEF FirstRuleDecides
    <2> QED BY <2>1, <2>2, <2>3, <2>5, <2>6, Returned DEF PInv
  <1>4. CASE f # <<>>
    <2>1. PICK i \in 1..Len(cfg.whitelist) :
              /\ f = <<cfg.whitelist[i]>> /\ ListMatch(cfg.whitelist[i])
              /\ \A j \in 1..(i - 1) : ~ListMatch(cfg.whitelist[j])
      BY <1>4, ListHit DEF PInv
    <2>2. PICK e : e = cfg.whitelist[i] /\ f = <<e>>
      BY <2>1
    <2>3. Matched(f[1])
      BY <1>4 DEF RuleC
    <2>4. f[1] = e
      <3> HIDE DEF f
      <3> QED BY <2>2
    <2>5. Matched(e)
      BY <2>3, <2>4 DEF Matched
    <2>6. /\ TypeOK' /\ NamesLeft' /\ ChannelAnswer' /\ NameFound'
          /\ RulesPassed' /\ Undecided'
          /\ \/ ~e.spf /\ at' = "returned" /\ outcome' = "Admit"
             \/ e.spf /\ at' = "SPF" /\ outcome' = outcome
      BY <1>1, <2>5, MatchedPInv
    <2>7. CASE ~e.spf /\ at' = "returned" /\ outcome' = "Admit"
      <3>1. SPFAsked'
        BY <2>7 DEF SPFAsked
      <3>2. ListMatch(cfg.whitelist[i])' /\ Passes(cfg.whitelist[i])'
        BY <1>1, <2>1, <2>2, <2>7 DEF ListMatch, Passes
      <3>3. AdmitJustified'
        BY <1>1, <3>2 DEF AdmitJustified
      <3>4. failed = {} => FirstRuleDecides'
        <4>1. outcome' = Verdict(cfg.whitelist[i].spf)
          BY <2>2, <2>7 DEF Verdict
        <4> QED BY <1>1, <1>2, <2>1, <4>1, ListDecides DEF PInv
      <3>5. failed # {} => FirstRuleDecides'
        BY <1>1 DEF FirstRuleDecides
      <3> QED BY <2>6, <3>1, <3>3, <3>4, <3>5 DEF PInv
    <2>8. CASE e.spf /\ at' = "SPF" /\ outcome' = outcome
      <3>1. /\ cfg'.whitelist[i].spf /\ ListMatch(cfg.whitelist[i])'
            /\ \A j \in 1..(i - 1) : ~ListMatch(cfg.whitelist[j])'
        BY <1>1, <2>1, <2>2, <2>8 DEF ListMatch
      <3>2. failed' = {} => NoProvider'
        BY <1>1, <1>2, Frame
      <3>3. SPFAsked'
        BY <1>1, <3>1, <3>2 DEF SPFAsked
      <3>4. AdmitJustified' /\ FirstRuleDecides'
        BY <1>1, <2>8, GoesOn
      <3> QED BY <2>6, <3>3, <3>4 DEF PInv
    <2> QED BY <2>6, <2>7, <2>8
  <1> QED BY <1>3, <1>4

-----------------------------------------------------------------------------
(* CheckSPF and time *)

\* A step that leaves all but the channel and the clock alone.
LEMMA Elsewhere ==
    ASSUME PInv, UNCHANGED <<inputs, at, names, ptr, outcome, failed>>
    PROVE  /\ NamesLeft' /\ NameFound' /\ RulesPassed' /\ SPFAsked'
           /\ Undecided' /\ AdmitJustified' /\ FirstRuleDecides'
  <1> USE DEF inputs
  <1>1. NamesLeft' /\ NameFound' /\ Undecided'
    BY DEF PInv, NamesLeft, NameFound, Undecided, Unconfirmed, reverse
  <1>2. RulesPassed'
    BY Frame DEF PInv, RulesPassed
  <1>3. SPFAsked'
    BY Frame DEF PInv, SPFAsked
  <1>4. AdmitJustified'
    BY DEF PInv, AdmitJustified, NetMatch, ListMatch, Passes
  <1>5. FirstRuleDecides'
    BY Frame DEF PInv, FirstRuleDecides
  <1> QED BY <1>1, <1>2, <1>3, <1>4, <1>5

LEMMA LibraryReturnsPInv ==
    ASSUME PInv, LibraryReturns
    PROVE  PInv'
  <1> USE DEF inputs
  <1>1. lib' = "ended" /\ UNCHANGED <<inputs, at, left, wait, names, ptr,
                                      outcome, failed>>
    BY DEF LibraryReturns
  <1>2. ch = <<>>
    <2>1. Len(<<convertSPF(world.spf)>>) = 1
      OBVIOUS
    <2> QED BY <2>1 DEF PInv, ChannelAnswer, LibraryReturns
  <1>3. ch' = <<convertSPF(world.spf)>> /\ Len(ch') <= 1
    BY <1>2 DEF LibraryReturns
  <1>4. ChannelAnswer'
    BY <1>1, <1>3 DEF ChannelAnswer
  <1>5. TypeOK'
    BY <1>1, <1>3 DEF PInv, TypeOK
  <1> QED BY <1>1, <1>4, <1>5, Elsewhere DEF PInv

LEMMA PassPInv ==
    ASSUME PInv, Pass
    PROVE  PInv'
  <1> USE DEF inputs, spf
  <1>1. TypeOK'
    BY PolicyAssumption DEF PolicyAssumption, Pass, PInv, TypeOK
  <1>2. ChannelAnswer'
    BY DEF Pass, PInv, ChannelAnswer
  <1>3. UNCHANGED <<inputs, at, names, ptr, outcome, failed>>
    BY DEF Pass
  <1> QED BY <1>1, <1>2, <1>3, Elsewhere DEF PInv

LEMMA StutterPInv ==
    ASSUME PInv, UNCHANGED vars
    PROVE  PInv'
  <1> USE DEF inputs, vars
  <1>1. TypeOK' /\ ChannelAnswer'
    BY DEF PInv, TypeOK, ChannelAnswer
  <1> QED BY <1>1, Elsewhere DEF PInv

\* What mapSPF answers.
LEMMA MapSPF ==
    /\ mapSPF("TEMPERROR") = "RejectTemporary"
    /\ \A r : mapSPF(r) = IF r = "PASS" THEN "Admit"
                          ELSE IF r = "TEMPERROR" THEN "RejectTemporary"
                          ELSE "RejectPermanent"
  <1>1. "TEMPERROR" # "PASS"
    OBVIOUS
  <1>2. ASSUME NEW r
        PROVE  mapSPF(r) = IF r = "PASS" THEN "Admit"
                           ELSE IF r = "TEMPERROR" THEN "RejectTemporary"
                           ELSE "RejectPermanent"
    <2>1. CASE r = "PASS"
      BY <1>1, <2>1, Zenon DEF mapSPF
    <2>2. CASE r = "TEMPERROR"
      BY <1>1, <2>2, Zenon DEF mapSPF
    <2>3. CASE r # "PASS" /\ r # "TEMPERROR"
      BY <2>3, Zenon DEF mapSPF
    <2> QED BY <2>1, <2>2, <2>3
  <1> QED BY <1>1, <1>2

\* An answer on the channel decides, and admits only on a pass.
LEMMA SPFAnswers ==
    ASSUME PInv, at = "SPF", UNCHANGED <<inputs, failed>>, at' = "returned",
           outcome' = mapSPF(convertSPF(world.spf))
    PROVE  AdmitJustified' /\ FirstRuleDecides'
  <1> USE DEF inputs
  <1>1. outcome' = Verdict(TRUE)
    <2>1. convertSPF(world.spf) = "PASS" <=> world.spf = "PASS"
      BY DEF convertSPF, SPFResults
    <2>2. convertSPF(world.spf) = "TEMPERROR" <=> world.spf = "TEMPERROR"
      BY DEF convertSPF, SPFResults
    <2> QED BY <2>1, <2>2, MapSPF DEF Verdict
  <1>2. outcome' = "Admit" => convertSPF(world.spf) = "PASS"
    BY MapSPF
  <1>3. NoNet
    BY DEF PInv, RulesPassed
  <1>4. failed # {} => FirstRuleDecides'
    BY DEF FirstRuleDecides
  <1>5. CASE \E i \in 1..Len(cfg.providers) :
               /\ cfg.providers[i].spf /\ Evidence(cfg.providers[i])
               /\ failed = {} =>
                     /\ ProviderApplies(cfg.providers[i])
                     /\ \A j \in 1..(i - 1) : ~ProviderApplies(cfg.providers[j])
    <2>1. PICK i \in 1..Len(cfg.providers) :
               /\ cfg.providers[i].spf /\ Evidence(cfg.providers[i])
               /\ failed = {} =>
                     /\ ProviderApplies(cfg.providers[i])
                     /\ \A j \in 1..(i - 1) : ~ProviderApplies(cfg.providers[j])
      BY <1>5
    <2>2. AdmitJustified'
      BY <1>2, <2>1 DEF AdmitJustified, Evidence, Passes
    <2>3. outcome' = Verdict(cfg.providers[i].spf)
      BY <1>1, <2>1 DEF Verdict
    <2>4. failed = {} => FirstRuleDecides'
      BY <1>3, <2>1, <2>3, ProviderDecides DEF PInv
    <2> QED BY <1>4, <2>2, <2>4
  <1>6. CASE \E i \in 1..Len(cfg.whitelist) :
               /\ cfg.whitelist[i].spf /\ ListMatch(cfg.whitelist[i])
               /\ failed = {} =>
                     /\ NoProvider
                     /\ \A j \in 1..(i - 1) : ~ListMatch(cfg.whitelist[j])
    <2>1. PICK i \in 1..Len(cfg.whitelist) :
               /\ cfg.whitelist[i].spf /\ ListMatch(cfg.whitelist[i])
               /\ failed = {} =>
                     /\ NoProvider
                     /\ \A j \in 1..(i - 1) : ~ListMatch(cfg.whitelist[j])
      BY <1>6
    <2>2. AdmitJustified'
      <3>1. outcome' = "Admit" =>
                ListMatch(cfg.whitelist[i])' /\ Passes(cfg.whitelist[i])'
        BY <1>2, <2>1 DEF ListMatch, Passes
      <3> QED BY <3>1 DEF AdmitJustified
    <2>3. outcome' = Verdict(cfg.whitelist[i].spf)
      BY <1>1, <2>1 DEF Verdict
    <2>4. failed = {} => FirstRuleDecides'
      BY <1>3, <2>1, <2>3, ListDecides DEF PInv
    <2> QED BY <1>4, <2>2, <2>4
  <1> QED BY <1>5, <1>6 DEF PInv, SPFAsked

LEMMA CheckSPFPInv ==
    ASSUME PInv, CheckSPF
    PROVE  PInv'
  <1> USE DEF inputs
  <1>1. at = "SPF" /\ at' = "returned"
        /\ UNCHANGED <<inputs, left, wait, names, ptr, lib>>
    BY DEF CheckSPF, Return
  <1>2. NamesLeft' /\ Len(names)' <= Len(world.reverse)'
    BY <1>1, SameNames
  <1>3. NameFound' /\ RulesPassed' /\ SPFAsked' /\ Undecided'
    BY <1>1, Returned
  <1>4. CASE ch # <<>> /\ Return(mapSPF(ch[1])) /\ ch' = <<>> /\ failed' = failed
    <2>1. ch[1] = convertSPF(world.spf)
      BY <1>4 DEF PInv, ChannelAnswer
    <2>2. outcome' = mapSPF(convertSPF(world.spf))
      BY <1>4, <2>1 DEF Return
    <2>3. outcome' \in {"Admit", "RejectTemporary", "RejectPermanent"}
      BY <2>2, MapSPF
    <2>4. Len(ch') <= 1
      BY <1>4
    <2>5. TypeOK' /\ ChannelAnswer'
      BY <1>1, <1>2, <1>4, <2>3, <2>4 DEF PInv, TypeOK, ChannelAnswer
    <2>6. AdmitJustified' /\ FirstRuleDecides'
      BY <1>1, <1>4, <2>2, SPFAnswers
    <2> QED BY <1>2, <1>3, <2>5, <2>6 DEF PInv
  <1>5. CASE wait = 0 /\ Return(mapSPF("TEMPERROR")) /\ Failed /\ ch' = ch
    <2>1. outcome' = "RejectTemporary"
      BY <1>5, MapSPF DEF Return
    <2>2. failed' # {} /\ failed' \subseteq {"error", "deadline"}
      BY <1>5 DEF Failed, PInv, TypeOK
    <2>3. TypeOK' /\ ChannelAnswer'
      BY <1>1, <1>2, <1>5, <2>1, <2>2 DEF PInv, TypeOK, ChannelAnswer
    <2>4. AdmitJustified' /\ FirstRuleDecides'
      BY <2>1, <2>2 DEF AdmitJustified, FirstRuleDecides
    <2> QED BY <1>2, <1>3, <2>3, <2>4 DEF PInv
  <1> QED BY <1>4, <1>5 DEF CheckSPF

-----------------------------------------------------------------------------
(* The theorems *)

LEMMA NextPInv == PInv /\ [Next]_vars => PInv'
  <1> SUFFICES ASSUME PInv, [Next]_vars PROVE PInv'
    OBVIOUS
  <1>1. CASE Decide
    BY <1>1, RuleAPInv, LookupAddrPInv, LookupIPAddrPInv, RuleBPInv,
       RuleCPInv, CheckSPFPInv DEF Decide
  <1>2. CASE LibraryReturns
    BY <1>2, LibraryReturnsPInv
  <1>3. CASE Pass
    BY <1>3, PassPInv
  <1>4. CASE UNCHANGED vars
    BY <1>4, StutterPInv
  <1> QED BY <1>1, <1>2, <1>3, <1>4 DEF Next

\* PInv is an inductive invariant of a decision.
THEOREM Invariance == Spec => []PInv
  BY InitPInv, NextPInv, PTL DEF Spec

\* The variables of Decide, of its queries and of the goroutine of CheckSPF
\* keep their types: no query has more time than ctx, the channel never holds
\* more than one answer.
THEOREM TypeCorrect == Spec => []TypeOK
  <1>1. PInv => TypeOK
    BY DEF PInv
  <1> QED BY <1>1, Invariance, PTL

\* Whichever queries fail or run late, Decide admits a sender only with the
\* evidence that some rule asks for.
THEOREM AdmissionJustified == Spec => []AdmitJustified
  <1>1. PInv => AdmitJustified
    BY DEF PInv
  <1> QED BY <1>1, Invariance, PTL

\* When no query fails, Decide returns what the first applicable entry of the
\* configuration says.
THEOREM FirstRuleIsDecisive == Spec => []FirstRuleDecides
  <1>1. PInv => FirstRuleDecides
    BY DEF PInv
  <1> QED BY <1>1, Invariance, PTL
=============================================================================
