------------------------------ MODULE MCSerdes ------------------------------
EXTENDS Serdes

\* A tuple of three pointers, a polymorph that may point to itself or to what
\* the tuple points to, a plain object, two large buffers and a small one.
MCKind == <<"plain", "poly", "plain", "buffer", "buffer", "bytes">>

\* A plain object is on no cycle: it is entered in the receiver's table when
\* its members are complete, and a pointer back to it would become null.
Acyclic(g) ==
    g[3][1] # 3 /\ ~(g[3][1] = 2 /\ g[2][1] = 3)

Pointers == {0, 2, 3, 4, 5, 6}
MCGraphs == { g \in { << top, <<p>>, <<q>>, <<>>, <<>>, <<>> >> :
                        top \in [1 .. 3 -> Pointers], p \in Pointers, q \in Pointers } :
              Acyclic(g) }
MCRoots == {1, 4}

\* These values are supported.
ASSUME MCSupported == Supported
=============================================================================
