---------------------------- MODULE MCTreeBuilder ----------------------------
(***************************************************************************)
(* Instances of TreeBuilder for model checking: where the elements of the  *)
(* array are created, and in which insertion phase.                        *)
(***************************************************************************)
EXTENDS TreeBuilder

CONSTANTS a, b, c, d, f

\* The first phase inserts a and b on the root node, the second one the rest:
\* node 3 asks node 1, which may be empty or hold c by then.
RootedElements == {a, b, c, d, f}
RootedPlace == [e \in RootedElements |->
                  CASE e \in {a, b} -> 0 [] e = c -> 1 [] OTHER -> 3]
RootedBatch == [e \in RootedElements |-> IF e \in {a, b} THEN 0 ELSE 1]

\* Every element is created on node 3: the endpoint is remote to the root.
RemoteElements == {d, f}
RemotePlace == [e \in RemoteElements |-> 3]

\* Elements on both children of an empty root node and, later, on the root.
RivalElements == {a, c, d, f}
RivalPlace == [e \in RivalElements |->
                 CASE e = a -> 0 [] e = c -> 1 [] OTHER -> 2]
RivalInitial == {c, d}

\* One element, on the root node before the array is registered.
InitialElements == {a}
InitialPlace == [e \in InitialElements |-> 0]

Empty == {}
FirstBatch == [e \in Elements |-> 0]
=============================================================================
