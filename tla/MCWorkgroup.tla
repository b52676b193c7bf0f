----------------------------- MODULE MCWorkgroup -----------------------------
(***************************************************************************)
(* An instance of Workgroup: `it' happens to start with the same value at  *)
(* all workers.                                                            *)
(***************************************************************************)
EXTENDS Workgroup

SameIt == [w \in Worker |-> 0]

\* Different values, as an uninitialized `it' may have.
OwnIt == [w \in Worker |-> w]
===============================================================================
