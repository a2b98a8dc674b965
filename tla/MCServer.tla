------------------------------ MODULE MCServer ------------------------------
(* Instances of Server for TLC. *)
EXTENDS Server

Config(ls, c, n, r) ==
    [listeners |-> ls, cert |-> c, conns |-> n, retry |-> r]

MCConfigs == {Config(<<"starttls", "plain">>, TRUE, 1, TRUE),
              Config(<<"plain">>, FALSE, 2, FALSE),
              Config(<<"plain", "implicit">>, TRUE, 2, TRUE)}
=============================================================================
