---------------------------- MODULE MCDynamicTree ----------------------------
(***************************************************************************)
(* An instance of DynamicTree: a chain of four, and an element that joins. *)
(***************************************************************************)
EXTENDS DynamicTree, TLC

CONSTANTS r, x, y, u, j   \* elements

TreeParent == (r :> None) @@ (x :> r) @@ (y :> x) @@ (u :> y) @@ (j :> None)
===============================================================================
