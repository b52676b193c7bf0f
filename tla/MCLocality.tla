------------------------------ MODULE MCLocality ------------------------------
(***************************************************************************)
(* Instances of Locality: programs of several statements.                  *)
(***************************************************************************)
EXTENDS Locality

CONSTANTS foo, bar, baz,              \* mailboxes
          p1, p2, p3,                 \* ports
          x1, a1, b1, a2, b2, d1, e1  \* components

\* Statements whose components are activated in the order in which they are
\* named to the sentinel, or the other way round.
OneOf(coms) == [wait |-> "any", coms |-> coms, activated |-> coms]
OneOf_LastFirst(coms) == [wait |-> "any", coms |-> coms, activated |-> Reverse(coms)]
AllOf(coms) == [wait |-> "all", coms |-> coms, activated |-> coms]
Unwatched(coms) == [wait |-> "none", coms |-> coms, activated |-> coms]

\* A case statement, executed twice: when baz ..., or when foo and bar ...,
\* whose second branch outputs to x1 the first time; a component on a port; and
\* a persistent one on two ports.
CaseStatements == <<Unwatched(<<x1>>), OneOf(<<a1, b1>>), OneOf(<<a2, b2>>),
                    Unwatched(<<e1>>), AllOf(<<d1>>)>>
CaseComs == {x1, a1, b1, a2, b2, d1, e1}
CaseInputs == (x1 :> <<b1>>) @@ (a1 :> <<baz>>) @@ (b1 :> <<foo, bar>>)
              @@ (a2 :> <<baz>>) @@ (b2 :> <<foo, bar>>) @@ (d1 :> <<p1>>) @@ (e1 :> <<p2, p3>>)
CaseOut == [c \in CaseComs |-> IF c = b1 THEN <<x1, 1>> ELSE None]
CaseCount == (foo :> 1) @@ (bar :> 1) @@ (baz :> 2) @@ (p1 :> 1) @@ (p2 :> 2) @@ (p3 :> 2)

\* The same with the branches activated as in sdag_demo, com1 before com0.
SdagStatements == <<Unwatched(<<x1>>), OneOf_LastFirst(<<a1, b1>>), OneOf_LastFirst(<<a2, b2>>),
                    Unwatched(<<e1>>), AllOf(<<d1>>)>>
SdagCount == [CaseCount EXCEPT ![baz] = 1]

\* A case statement of three branches.
ThreeStatements == <<OneOf(<<a1, b1, a2>>), AllOf(<<d1>>)>>
ThreeComs == {a1, b1, a2, d1}
ThreeInputs == (a1 :> <<foo>>) @@ (b1 :> <<bar>>) @@ (a2 :> <<baz>>) @@ (d1 :> <<p1>>)
ThreeOut == [c \in ThreeComs |-> None]
ThreeCount == (foo :> 1) @@ (bar :> 1) @@ (baz :> 1) @@ (p1 :> 1)

\* A component on two ports, one of which gets a value more than it uses.
SurplusStatements == <<AllOf(<<d1>>)>>
SurplusInputs == d1 :> <<p1, p2>>
SurplusOut == d1 :> None
SurplusCount == (p1 :> 2) @@ (p2 :> 1)
===============================================================================
