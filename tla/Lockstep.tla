------------------------------- MODULE Lockstep -------------------------------
(***************************************************************************)
(* What a bulk-synchronous computation promises: no worker begins an       *)
(* iteration before every worker has begun the one before it, and all get  *)
(* to the last.                                                            *)
(***************************************************************************)
EXTENDS Naturals

CONSTANTS Worker, Iterations

VARIABLE begun   \* begun[w]: the iterations that w has begun

Init == begun = [w \in Worker |-> 0]

Begin(w) ==
  /\ begun[w] < Iterations
  /\ \A v \in Worker : begun[w] <= begun[v]
  /\ begun' = [begun EXCEPT ![w] = @ + 1]

Next == \E w \in Worker : Begin(w)

Spec == Init /\ [][Next]_begun /\ WF_begun(Next)
=============================================================================
