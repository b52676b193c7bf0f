------------------------------ MODULE MCFutures ------------------------------
(***************************************************************************)
(* An instance of Futures: one thread waits for the first of a local and   *)
(* two remote futures, another for a remote one, a third for its own.      *)
(***************************************************************************)
EXTENDS Futures, TLC

CONSTANTS a, b, c,            \* elements
          f1, f2, f3, f4, f5  \* futures

MixedSource == (f1 :> a) @@ (f2 :> b) @@ (f3 :> a) @@ (f4 :> c) @@ (f5 :> c)
MixedWants == (a :> <<f1, f2, f4>>) @@ (b :> <<f3>>) @@ (c :> <<f5>>)
===============================================================================
