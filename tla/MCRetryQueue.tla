---------------------------- MODULE MCRetryQueue ----------------------------
(* Instances of RetryQueue for TLC. *)
EXTENDS RetryQueue, TLC

CONSTANTS m1, m2, m3

ThreeMessages == {m1, m2, m3}
TwoMessages   == {m1, m2}

\* One small body and two larger ones, of which the byte budget holds one.
MCSize    == [m \in Messages |-> IF m = m1 THEN 1 ELSE 2]
MCTimeout == [m \in Messages |-> 1]

\* The two larger messages are interchangeable.
LargeSymmetry == Permutations({m2, m3})
=============================================================================
