------------------------------ MODULE Custody -------------------------------
(***************************************************************************)
(* What the queue promises about each message, without its slice, its      *)
(* mutex, its clock or its goroutines: who is responsible for a message    *)
(* at any moment, and how that responsibility may change. RetryQueue is    *)
(* shown to implement this specification.                                  *)
(***************************************************************************)
CONSTANT Messages

VARIABLE fate

\* With the sender; in the session's inline attempt; held between attempts;
\* in a retry; handed to the endpoint; discarded.
Fates == {"sender", "trying", "held", "retrying", "delivered", "lost"}

Init == fate = [m \in Messages |-> "sender"]

Becomes(m, f) == fate' = [fate EXCEPT ![m] = f]

\* The message reaches the dot.
Begin(m) == fate[m] = "sender" /\ Becomes(m, "trying")

\* The inline attempt is over: a final result, a place in the queue, or no
\* place in the queue.
TryEnds(m) ==
    /\ fate[m] = "trying"
    /\ \E f \in {"delivered", "lost", "held"} : Becomes(m, f)

\* A held message is attempted again, one message at a time.
Retry(m) ==
    /\ fate[m] = "held"
    /\ \A n \in Messages : fate[n] # "retrying"
    /\ Becomes(m, "retrying")

\* The result of the retry takes effect exactly once.
RetryEnds(m) ==
    /\ fate[m] = "retrying"
    /\ \E f \in {"delivered", "lost", "held"} : Becomes(m, f)

\* A held message expires, but never while it is being retried.
Discard(m) == fate[m] = "held" /\ Becomes(m, "lost")

\* The process ends: what is held is lost, and nothing is being retried.
Abandon ==
    /\ \A m \in Messages : fate[m] # "retrying"
    /\ fate' = [m \in Messages |->
                    IF fate[m] = "held" THEN "lost" ELSE fate[m]]

\* A step changes the fate of some message.
Next ==
    /\ fate' # fate
    /\ \/ \E m \in Messages : Begin(m) \/ TryEnds(m) \/ Retry(m)
                                \/ RetryEnds(m) \/ Discard(m)
       \/ Abandon

Spec == Init /\ [][Next]_fate
=============================================================================
