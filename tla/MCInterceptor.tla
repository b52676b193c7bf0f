---------------------------- MODULE MCInterceptor ----------------------------
(***************************************************************************)
(* An instance of Interceptor: a chain of three elements on two PEs.       *)
(***************************************************************************)
EXTENDS Interceptor, TLC

CONSTANTS a, b,      \* PEs
          r, x, y,   \* indices
          m1, m2     \* messages

ChainHome == (r :> a) @@ (x :> b) @@ (y :> a)
ChainTarget == (m1 :> x) @@ (m2 :> y)
===============================================================================
