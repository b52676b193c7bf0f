------------------------ MODULE MCSectionBroadcast ------------------------
(***************************************************************************)
(* Instances of SectionBroadcast: the sections in use.                     *)
(***************************************************************************)
EXTENDS SectionBroadcast

\* A root with two children, one of them with a child of its own; indices
\* and positions differ.
FourMembers == <<2, 0, 3, 1>>
=============================================================================
