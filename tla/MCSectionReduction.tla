------------------------- MODULE MCSectionReduction -------------------------
(***************************************************************************)
(* Instances of SectionReduction: the sections in use.                     *)
(***************************************************************************)
EXTENDS SectionReduction

\* Two sections that share members, in different roles.
Overlapping == {<<0, 1, 2, 3>>, <<2, 0>>}

\* Two sections with the same hash that share the root and one of its
\* children: 64 * 5 + 1 + 64 * 6 + 1 = 64 * 4 + 1 + 64 * 7 + 1.
Colliding == {<<0, 9, 5, 6>>, <<0, 9, 4, 7>>}
=============================================================================
