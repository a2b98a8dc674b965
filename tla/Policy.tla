------------------------------- MODULE Policy --------------------------------
(***************************************************************************)
(* One admission decision: Decide of internal/policy/policy.go with the    *)
(* queries of NetResolver (resolver.go). Every query is answered, refused, *)
(* or cut off by its deadline; the SPF library runs in a goroutine that    *)
(* the deadline does not stop.                                             *)
(*                                                                         *)
(* Host and domain names are sequences of labels, so that the comparison   *)
(* with "."+suffix of suffixMatch and whitelistMatch is a suffix of labels.*)
(* External: the DNS and the library answer with the facts in world.       *)
(***************************************************************************)
EXTENDS Integers, Sequences, SequencesExt

CONSTANTS
    Configs,        \* configurations [nets, providers, whitelist]
    Senders,        \* reverse-paths [addr, domain]
    Worlds,         \* facts about the peer [reverse, confirmed, spf]
    QueryTimeout,   \* dns.timeout_sec
    CommandTimeout  \* limits.command_timeout_sec, the lifetime of ctx

\* The entries of a configuration and the names of a host come as lists.
IsList(l) == l \in Seq(Range(l))

ASSUME PolicyAssumption ==
    /\ \A c \in Configs : IsList(c.nets) /\ IsList(c.providers)
                            /\ IsList(c.whitelist)
    /\ \A w \in Worlds : IsList(w.reverse)
    /\ QueryTimeout \in Nat \ {0}
    /\ CommandTimeout \in Nat \ {0}

VARIABLES
    cfg, sender, world,   \* the inputs of the decision
    at,        \* the rule or query Decide is at
    left,      \* time to the end of ctx
    wait,      \* time to the end of the query in progress
    names,     \* FCrDNS: the PTR names still to confirm
    ptr,       \* FCrDNS: the confirmed name, as a sequence of at most one
    lib, ch,   \* CheckSPF: its goroutine, and the channel of capacity one
    outcome,   \* Decision.Outcome
    failed     \* history: how queries of this decision failed

inputs == <<cfg, sender, world>>
spf    == <<lib, ch>>
vars == <<cfg, sender, world, at, left, wait, names, ptr, lib, ch, outcome,
          failed>>

SPFResults == {"PASS", "FAIL", "SOFTFAIL", "NEUTRAL", "NONE", "TEMPERROR",
               "PERMERROR"}

-----------------------------------------------------------------------------
(* The pure parts of the code *)

\* name equals s or is a subdomain of it
Under(name, s) == IsSuffix(s, name)

suffixMatch(name, suffixes) == \E s \in suffixes : Under(name, s)

whitelistMatch(w, snd) ==
    \/ w.match = "address" /\ snd.addr = w.value
    \/ w.match = "domain" /\ Under(snd.domain, w.value)

\* The library's answer, by its string value.
convertSPF(r) == IF r \in SPFResults THEN r ELSE "PERMERROR"

mapSPF(r) == CASE r = "PASS" -> "Admit"
               [] r = "TEMPERROR" -> "RejectTemporary"
               [] OTHER -> "RejectPermanent"

\* The first element of list that satisfies test, as a sequence.
FirstMatch(list, test(_)) ==
    LET hits == {i \in DOMAIN list : test(list[i])}
    IN  IF hits = {} THEN <<>> ELSE <<list[Min(hits)]>>

NetMatch(e)      == /\ e.contains
                    /\ e.domains = {} \/ sender.domain \in e.domains
ProviderMatch(p) == /\ suffixMatch(ptr[1], p.suffixes)
                    /\ sender.domain \in p.domains
ListMatch(w)     == whitelistMatch(w, sender)

-----------------------------------------------------------------------------
(* Decide *)

Return(o) == at' = "returned" /\ outcome' = o

\* Fault: the query does not inherit the deadline of ctx.
Query_Background(q) == at' = q /\ wait' = QueryTimeout

\* A query starts; its deadline is bounded by ctx.
Query(q) ==
    /\ at' = q
    /\ wait' = IF QueryTimeout < left THEN QueryTimeout ELSE left

\* A query is answered, or it fails, with an error or at its deadline.
Answered == wait > 0 /\ UNCHANGED failed
Failed   == failed' = failed \cup {IF wait > 0 THEN "error" ELSE "deadline"}

\* Rule A: a configured network, without DNS.
RuleA ==
    /\ at = "A"
    /\ LET e == FirstMatch(cfg.nets, NetMatch) IN
       \/ e # <<>> /\ Return("Admit") /\ UNCHANGED wait
       \/ /\ e = <<>> /\ cfg.providers # <<>>
          /\ Query("PTR") /\ UNCHANGED outcome
       \/ /\ e = <<>> /\ cfg.providers = <<>>
          /\ at' = "C" /\ UNCHANGED <<wait, outcome>>
    /\ UNCHANGED <<inputs, left, names, ptr, spf, failed>>

\* Fault: the reverse lookup has no deadline.
LookupAddr_NoDeadline ==
    /\ at = "PTR" /\ wait > 0
    /\ UNCHANGED failed
    /\ \/ world.reverse # <<>> /\ names' = world.reverse /\ Query("forward")
       \/ world.reverse = <<>> /\ at' = "C" /\ UNCHANGED <<names, wait>>
    /\ UNCHANGED <<inputs, left, ptr, spf, outcome>>

\* FCrDNS: the reverse lookup.
LookupAddr ==
    /\ at = "PTR"
    /\ \/ /\ Answered /\ world.reverse # <<>>
          /\ names' = world.reverse
          /\ Query("forward")
       \/ /\ (Answered /\ world.reverse = <<>>) \/ Failed
          /\ at' = "C"
          /\ UNCHANGED <<names, wait>>
    /\ UNCHANGED <<inputs, left, ptr, spf, outcome>>

\* Fault: a name that resolves at all is taken as confirmed.
LookupIPAddr_AnyAnswer ==
    /\ at = "forward" /\ Answered
    /\ names' = Tail(names)
    /\ ptr' = <<Head(names)>>
    /\ at' = "B"
    /\ UNCHANGED <<inputs, left, wait, spf, outcome>>

\* FCrDNS: the forward lookup of one name. A failure moves on to the next.
LookupIPAddr ==
    /\ at = "forward"
    /\ names' = Tail(names)
    /\ \/ /\ Answered /\ Head(names) \in world.confirmed
          /\ ptr' = <<Head(names)>>
          /\ at' = "B"
          /\ UNCHANGED wait
       \/ /\ (Answered /\ Head(names) \notin world.confirmed) \/ Failed
          /\ IF names' = <<>> THEN at' = "C" /\ UNCHANGED wait
                              ELSE Query("forward")
          /\ UNCHANGED ptr
    /\ UNCHANGED <<inputs, left, spf, outcome>>

\* An entry matched: admit, or ask for the SPF record first.
Matched(e) ==
    \/ /\ ~e.spf
       /\ Return("Admit")
       /\ UNCHANGED <<wait, lib>>
    \/ /\ e.spf
       /\ Query("SPF") /\ lib' = "running"
       /\ UNCHANGED outcome

\* Fault: only the first provider with the name of the host is looked at.
RuleB_FirstSuffix ==
    /\ at = "B"
    /\ LET named(p) == suffixMatch(ptr[1], p.suffixes)
           p == FirstMatch(cfg.providers, named)
       IN
       IF p # <<>> /\ sender.domain \in p[1].domains
       THEN Matched(p[1])
       ELSE at' = "C" /\ UNCHANGED <<wait, lib, outcome>>
    /\ UNCHANGED <<inputs, left, names, ptr, ch, failed>>

\* Rule B: a provider with a confirmed name and the domain of the sender.
RuleB ==
    /\ at = "B"
    /\ LET p == FirstMatch(cfg.providers, ProviderMatch) IN
       \/ p # <<>> /\ Matched(p[1])
       \/ p = <<>> /\ at' = "C" /\ UNCHANGED <<wait, lib, outcome>>
    /\ UNCHANGED <<inputs, left, names, ptr, ch, failed>>

\* Rule C: the whitelist; rule D: nothing matched.
RuleC ==
    /\ at = "C"
    /\ LET w == FirstMatch(cfg.whitelist, ListMatch) IN
       \/ w # <<>> /\ Matched(w[1])
       \/ w = <<>> /\ Return("RejectPermanent") /\ UNCHANGED <<wait, lib>>
    /\ UNCHANGED <<inputs, left, names, ptr, ch, failed>>

-----------------------------------------------------------------------------
(* CheckSPF *)

\* Fault: the channel has no buffer, so the send waits for the select.
LibraryReturns_Unbuffered ==
    /\ lib = "running" /\ at = "SPF" /\ ch = <<>>
    /\ ch' = Append(ch, convertSPF(world.spf))
    /\ lib' = "ended"
    /\ UNCHANGED <<inputs, at, left, wait, names, ptr, outcome, failed>>

\* The library returns, at any time; the goroutine sends into the buffer.
LibraryReturns ==
    /\ lib = "running"
    /\ Len(ch) < 1
    /\ ch' = Append(ch, convertSPF(world.spf))
    /\ lib' = "ended"
    /\ UNCHANGED <<inputs, at, left, wait, names, ptr, outcome, failed>>

\* The select of CheckSPF.
CheckSPF ==
    /\ at = "SPF"
    /\ \/ /\ ch # <<>>
          /\ Return(mapSPF(ch[1]))
          /\ ch' = <<>>
          /\ UNCHANGED failed
       \/ /\ wait = 0
          /\ Return(mapSPF("TEMPERROR"))
          /\ Failed
          /\ UNCHANGED ch
    /\ UNCHANGED <<inputs, left, wait, names, ptr, lib>>

-----------------------------------------------------------------------------

Queries == {"PTR", "forward", "SPF"}

\* Time passes, but not past the deadline of a query in progress.
Pass ==
    /\ at \in Queries /\ wait > 0
    /\ left' = left - 1 /\ wait' = wait - 1
    /\ UNCHANGED <<inputs, at, names, ptr, spf, outcome, failed>>

Init ==
    /\ cfg \in Configs /\ sender \in Senders /\ world \in Worlds
    /\ at = "A"
    /\ left = CommandTimeout /\ wait = 0
    /\ names = <<>> /\ ptr = <<>>
    /\ lib = "idle" /\ ch = <<>>
    /\ outcome = "none"
    /\ failed = {}

Decide == RuleA \/ LookupAddr \/ LookupIPAddr \/ RuleB \/ RuleC \/ CheckSPF

Next == Decide \/ LibraryReturns \/ Pass

Spec == Init /\ [][Next]_vars

\* The session goroutine runs, time passes, and the library returns in the
\* end, possibly long after the deadline.
FairSpec == Spec /\ WF_vars(Decide) /\ WF_vars(Pass) /\ WF_vars(LibraryReturns)

-----------------------------------------------------------------------------
(* Properties *)

\* Every variable has its type.
TypeOK ==
    /\ cfg \in Configs /\ sender \in Senders /\ world \in Worlds
    /\ at \in {"A", "B", "C", "returned"} \cup Queries
    /\ left \in 0..CommandTimeout
    /\ wait \in 0..left
    /\ Len(names) <= Len(world.reverse)
    /\ Len(ptr) <= 1
    /\ lib \in {"idle", "running", "ended"}
    /\ Len(ch) <= 1
    /\ outcome \in {"none", "Admit", "RejectTemporary", "RejectPermanent"}
    /\ failed \subseteq {"error", "deadline"}

\* What an entry that asks for SPF admits.
Passes(e) == e.spf => convertSPF(world.spf) = "PASS"

\* An admitted sender has the evidence some rule asks for, whichever queries
\* failed or ran late: a network, a confirmed name of a provider that may
\* send for the domain, or a whitelist entry, and SPF where it is required.
AdmitJustified ==
    outcome = "Admit" =>
        \/ \E i \in 1..Len(cfg.nets) : NetMatch(cfg.nets[i])
        \/ \E i \in 1..Len(cfg.providers) :
              LET p == cfg.providers[i] IN
              /\ \E n \in world.confirmed : suffixMatch(n, p.suffixes)
              /\ sender.domain \in p.domains
              /\ Passes(p)
        \/ \E i \in 1..Len(cfg.whitelist) :
              ListMatch(cfg.whitelist[i]) /\ Passes(cfg.whitelist[i])

\* The places of the names that the host of the peer really has.
Confirmed ==
    {i \in DOMAIN world.reverse : world.reverse[i] \in world.confirmed}

\* The provider's entry applies to the first of these names.
ProviderApplies(p) ==
    /\ Confirmed # {}
    /\ suffixMatch(world.reverse[Min(Confirmed)], p.suffixes)
    /\ sender.domain \in p.domains

\* The rules of the specification, as one list.
Rules ==
    [i \in 1..Len(cfg.nets) |->
        [applies |-> NetMatch(cfg.nets[i]), spf |-> FALSE]]
    \o [i \in 1..Len(cfg.providers) |->
        [applies |-> ProviderApplies(cfg.providers[i]),
         spf     |-> cfg.providers[i].spf]]
    \o [i \in 1..Len(cfg.whitelist) |->
        [applies |-> ListMatch(cfg.whitelist[i]),
         spf     |-> cfg.whitelist[i].spf]]

\* When no query failed, the decision is that of the first applicable
\* entry, although Decide discovers the entries one query after the other.
FirstRuleDecides ==
    at = "returned" /\ failed = {} =>
        LET hits == {i \in 1..Len(Rules) : Rules[i].applies} IN
        outcome =
            IF hits = {} THEN "RejectPermanent"
            ELSE IF ~Rules[Min(hits)].spf \/ world.spf = "PASS" THEN "Admit"
            ELSE IF world.spf = "TEMPERROR" THEN "RejectTemporary"
            ELSE "RejectPermanent"

\* Decide returns, whatever the DNS and the library do: no query outlives the
\* command timeout.
DecideReturns == <>(at = "returned")

\* The goroutine of CheckSPF does not stay behind blocked on its channel when
\* the session has gone on at the deadline.
NoLeak == lib = "running" ~> lib = "ended"

\* docs/user_manual.md says of dns.timeout_sec: "The time limit on every DNS
\* query. A query that exceeds it is treated as a temporary failure." A
\* decision in which every query it made ran into the limit is never a
\* permanent refusal.
TimeoutIsTemporary == failed = {"deadline"} => outcome # "RejectPermanent"
=============================================================================
