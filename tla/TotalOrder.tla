------------------------------ MODULE TotalOrder ------------------------------
(***************************************************************************)
(* What a totally ordered broadcast promises its members: each receives a  *)
(* broadcast at most once, and what one member has received is always a    *)
(* prefix of what another has, or the other way round.                     *)
(***************************************************************************)
EXTENDS SequencesExt

CONSTANTS Members, Broadcasts

VARIABLE received   \* what each member has received, in order

Comparable(s, t) == IsPrefix(s, t) \/ IsPrefix(t, s)

Init == received = [m \in Members |-> << >>]

Receive(m, b) ==
  /\ b \notin Range(received[m])
  /\ received' = [received EXCEPT ![m] = Append(@, b)]
  /\ \A n, k \in Members : Comparable(received'[n], received'[k])

Next == \E m \in Members, b \in Broadcasts : Receive(m, b)

Spec == Init /\ [][Next]_received
=============================================================================
