----------------------------- MODULE MCZeroCopy -----------------------------
(***************************************************************************)
(* An instance of ZeroCopy: values, buffers and their sizes.               *)
(***************************************************************************)
EXTENDS ZeroCopy

CONSTANTS v1, v2, v3, b1, b2, b3, b4, p, q

\* At p, blocks and buffers of two sizes, which may be paired so that one block
\* is left without a buffer; at q, a buffer for each block, and a value without
\* blocks.
MixedEpOf == (v1 :> p) @@ (v2 :> q) @@ (v3 :> q)
             @@ (b1 :> p) @@ (b2 :> p) @@ (b3 :> q) @@ (b4 :> q)
MixedBlocks == (v1 :> <<2, 1>>) @@ (v2 :> <<1, 1>>) @@ (v3 :> <<>>)
MixedSize == (b1 :> 1) @@ (b2 :> 2) @@ (b3 :> 1) @@ (b4 :> 1)
=============================================================================
