------------------------------ MODULE MCPolicy ------------------------------
(* Instances of Policy for TLC. *)
EXTENDS Policy

\* Host names: two of the provider, one with the provider's name further to
\* the left; the domain of the senders and a subdomain of it.
Mx    == <<"mx", "p", "com">>
Out   == <<"out", "p", "com">>
Other == <<"p", "com", "net">>
P     == <<"p", "com">>
D     == <<"d", "org">>
SubD  == <<"s", "d", "org">>

MCSenders == {[addr |-> "u@d", domain |-> D], [addr |-> "u@s.d", domain |-> SubD],
              [addr |-> "", domain |-> <<>>]}

Nets == {<<>>, <<[contains |-> FALSE, domains |-> {}]>>,
         <<[contains |-> TRUE, domains |-> {SubD}]>>,
         <<[contains |-> TRUE, domains |-> {}]>>}

Provider(ds, b) == [suffixes |-> {P}, domains |-> ds, spf |-> b]

ProviderLists == {<<>>, <<Provider({D}, TRUE)>>,
                  <<Provider({SubD}, FALSE), Provider({D, SubD}, TRUE)>>}

Entry(m, v, b) == [match |-> m, value |-> v, spf |-> b]

WhiteLists == {<<>>, <<Entry("domain", D, TRUE)>>,
               <<Entry("address", "u@d", FALSE), Entry("domain", D, TRUE)>>}

MCConfigs == [nets : Nets, providers : ProviderLists, whitelist : WhiteLists]

MCWorlds == [reverse : {<<>>, <<Mx>>, <<Mx, Out>>, <<Other, Mx>>},
             confirmed : {{}, {Mx}, {Out}, {Other, Mx}},
             spf : {"PASS", "FAIL", "TEMPERROR", "unheard of"}]
=============================================================================
