------------------------------- MODULE Section -------------------------------
(***************************************************************************)
(* A section: a list of distinct indices, each list member the node of a   *)
(* binary tree by its position.  Reductions go down this tree, from the    *)
(* members "upstream" to the root at position 0; broadcasts go up it.      *)
(***************************************************************************)
EXTENDS Integers, Sequences, Functions

IsSection(s) == s \in Seq(Nat) /\ Len(s) > 0 /\ IsInjective(s)

Member(s) == Range(s)

\* ordinals count from 0
OrdinalFor(s, m) == (CHOOSE i \in DOMAIN s : s[i] = m) - 1

IsValidOrdinal(s, o) == o >= 0 /\ o < Len(s)

\* the members at the given ordinals that are valid
IndicesAt(s, ords) == {s[o + 1] : o \in {p \in ords : IsValidOrdinal(s, p)}}

Upstream_LeftOnly(s, m) == IndicesAt(s, {2 * OrdinalFor(s, m) + 1})

\* the children: section_identity::upstream
Upstream(s, m) ==
  IndicesAt(s, {2 * OrdinalFor(s, m) + 1, 2 * OrdinalFor(s, m) + 2})

\* the parent, if any: section_identity::downstream
Downstream(s, m) ==
  IndicesAt(s, IF OrdinalFor(s, m) > 0 THEN {(OrdinalFor(s, m) - 1) \div 2} ELSE {-1})

\* section::pick_root
PickRoot(s) == s[1]
=============================================================================
