----------------------------- MODULE AtMostOnce -----------------------------
(***************************************************************************)
(* What a one-shot token promises, whatever it is a token for: each one    *)
(* does its job once, or never.                                            *)
(***************************************************************************)
EXTENDS Naturals

CONSTANT Things
VARIABLE times  \* how often each thing has been done

Init == times = [x \in Things |-> 0]

Do(x) == times[x] = 0 /\ times' = [times EXCEPT ![x] = 1]

Next == \E x \in Things : Do(x)

Spec == Init /\ [][Next]_times
=============================================================================
