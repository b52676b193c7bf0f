------------------------- MODULE TreeBuilderProofs -------------------------
(***************************************************************************)
(* Proofs about TreeBuilder, for any number of nodes, any set of elements, *)
(* any placement and either build.  The counts and the places of the       *)
(* elements need nothing else (Spec); the links and the tree need moves to *)
(* be quiet (QuietSpec); that nothing aborts needs, besides, a program     *)
(* that inserts in a certain order (RootFirst).                            *)
(***************************************************************************)
EXTENDS TreeBuilder, FiniteSetTheorems, WellFoundedInduction, TLAPS

\* The parent of every node but the root is a node (binary_tree::parent).
LEMMA ParentType == \A n \in Node : n # Root => Parent(n) \in Node
BY TreeBuilderAssumption DEF Node, Root, Parent

\* The leaves of a node are nodes (the bounds check of binary_tree::leaves).
LEMMA LeavesType == \A n \in Node : Leaves(n) \subseteq Node
BY DEF Leaves

\* The count changes of reg_endpoint are integers.
LEMMA EndpointQdType == \A n \in Node : EndpointQd(n) \in Int
<1> SUFFICES ASSUME NEW n \in Node PROVE EndpointQd(n) \in Int
  OBVIOUS
<1>1. IsFiniteSet({2 * n + 1, 2 * n + 2})
  <2>1. IsFiniteSet({2 * n + 1})
    BY FS_Singleton
  <2>2. IsFiniteSet({2 * n + 1} \cup {2 * n + 2})
    BY <2>1, FS_AddElement
  <2>3. {2 * n + 1, 2 * n + 2} = {2 * n + 1} \cup {2 * n + 2}
    OBVIOUS
  <2> QED BY <2>2, <2>3
<1>2. IsFiniteSet(Leaves(n))
  BY <1>1, FS_Subset DEF Leaves
<1>3. Cardinality(Leaves(n)) \in Nat
  BY <1>2, FS_CardinalityType
<1> QED BY <1>3 DEF EndpointQd

\* What the handlers send is a set of well-typed messages.
LEMMA MessageTypes ==
  /\ \A dst, src \in Node, e \in Elements : DownstreamMsg(dst, src, e) \in Message
  /\ \A dst, src \in Node, t, e \in Elements : UpstreamMsg(dst, src, t, e) \in Message
  /\ \A n \in Node, e \in Elements : EndpointMsgs(n, e) \subseteq Message
BY LeavesType DEF DownstreamMsg, UpstreamMsg, EndpointMsgs, Message

-----------------------------------------------------------------------------
\* Registering an element preserves the types.
LEMMA RegElementType ==
  ASSUME TypeOK, NEW n \in Node, NEW e \in Elements, RegElement(n, e)
  PROVE  TypeOK'
<1>1. CASE /\ inserting[n] /\ AdoptLocally(n, e)
           /\ UNCHANGED <<registered, inserting, loc, countVars, moves>>
  BY <1>1 DEF TypeOK, AdoptLocally, FewestTargets, ElementsAt, countVars, Statuses
<1>2. CASE /\ inserting[n] /\ SeekRemotely(n, e)
           /\ UNCHANGED <<registered, inserting, loc, countVars, moves>>
  <2>1. DownstreamMsg(Parent(n), n, e) \in Message
    BY <1>2, ParentType, MessageTypes DEF SeekRemotely
  <2> QED BY <1>2, <2>1 DEF TypeOK, SeekRemotely, countVars, Statuses
<1>3. CASE /\ inserting[n] /\ BecomeEndpoint(n, e)
           /\ UNCHANGED <<registered, inserting, loc, countVars, moves>>
  <2>1. EndpointMsgs(n, e) \subseteq Message /\ EndpointQd(n) \in Int
    BY MessageTypes, EndpointQdType
  <2> QED BY <1>3, <2>1 DEF TypeOK, BecomeEndpoint, countVars, Statuses
<1>4. CASE \E why \in Aborts : Abort(why)
  BY <1>4 DEF TypeOK, Abort, nodeVars, treeVars, countVars
<1> QED BY <1>1, <1>2, <1>3, <1>4 DEF RegElement, Aborts

\* Delivering a construction message preserves the types.
LEMMA DeliverType == TypeOK /\ Deliver => TypeOK'
<1> SUFFICES ASSUME TypeOK, NEW m \in msgs,
                    RegEndpoint(m) \/ ReceiveDownstream(m) \/ ReceiveUpstream(m)
             PROVE  TypeOK'
  BY DEF Deliver
<1>m. m \in Message /\ m.dst \in Node /\ m.src \in Node /\ m.idx \in Elements
  BY DEF TypeOK, Message
<1>a. CASE \E why \in Aborts : Abort(why)
  BY <1>a DEF TypeOK, Abort, nodeVars, treeVars, countVars
<1>e. EndpointMsgs(m.dst, m.idx) \subseteq Message /\ EndpointQd(m.dst) \in Int
  BY <1>m, MessageTypes, EndpointQdType
<1>1. CASE RegEndpoint(m)
  <2>1. CASE endpoints[m.dst] = NoIndex
    <3>1. valid' \in [Elements -> BOOLEAN]
      BY <1>1, <2>1, <1>m DEF TypeOK, RegEndpoint, Abort, treeVars
    <3> QED BY <1>1, <2>1, <3>1, <1>m, <1>e DEF TypeOK, RegEndpoint, countVars
  <2>2. CASE endpoints[m.dst] # NoIndex
    BY <1>1, <2>2, <1>a DEF RegEndpoint, Aborts
  <2> QED BY <2>1, <2>2
<1>2. CASE ReceiveDownstream(m)
  <2>1. CASE /\ AdoptRemote(m)
             /\ UNCHANGED <<registered, inserting, status, loc, valid, upstream,
                            countVars, moves, aborted>>
    <3> PICK t \in FewestTargets(m.dst) :
             /\ downstream' = [downstream EXCEPT ![t] = @ \cup {m.idx}]
             /\ msgs' = (msgs \ {m}) \cup {UpstreamMsg(m.src, m.dst, t, m.idx)}
      BY <2>1 DEF AdoptRemote
    <3>1. t \in Elements
      BY DEF FewestTargets, ElementsAt
    <3>2. UpstreamMsg(m.src, m.dst, t, m.idx) \in Message
      BY <3>1, <1>m, MessageTypes
    <3> QED BY <2>1, <3>1, <3>2, <1>m DEF TypeOK, AdoptRemote, countVars
  <2>2. CASE /\ PassUp(m)
             /\ UNCHANGED <<registered, inserting, status, loc, valid, upstream,
                            countVars, moves, aborted>>
    <3>1. DownstreamMsg(Parent(m.dst), m.src, m.idx) \in Message
      BY <2>2, <1>m, ParentType, MessageTypes DEF PassUp
    <3> QED BY <2>2, <3>1, <1>m DEF TypeOK, PassUp, countVars
  <2>3. CASE /\ CrownRemote(m)
             /\ UNCHANGED <<registered, inserting, status, loc, valid, upstream,
                            countVars, moves, aborted>>
    BY <2>3, <1>m, <1>e DEF TypeOK, CrownRemote, countVars
  <2> QED BY <1>2, <2>1, <2>2, <2>3, <1>a DEF ReceiveDownstream, Aborts
<1>3. CASE ReceiveUpstream(m)
  <2>1. CASE OrphanTargets(m.dst) = {}
    BY <1>3, <2>1, <1>a DEF ReceiveUpstream, Aborts
  <2>2. CASE OrphanTargets(m.dst) # {}
    <3> PICK e \in OrphanTargets(m.dst) :
               /\ upstream' = [upstream EXCEPT ![e] = @ \cup {m.idx}]
               /\ valid' = [valid EXCEPT ![e] = TRUE]
      BY <1>3, <2>2 DEF ReceiveUpstream
    <3>1. e \in Elements
      BY DEF OrphanTargets, ElementsAt
    <3>2. /\ msgs' = msgs \ {m}
          /\ arrays' = [arrays EXCEPT ![m.dst] = @ - 1]
          /\ present' = present \cup {m.dst}
          /\ UNCHANGED <<registered, inserting, endpoints, status, loc, downstream,
                         countVars, moves, aborted>>
      BY <1>3, <2>2 DEF ReceiveUpstream
    <3>3. valid' \in [Elements -> BOOLEAN]
      BY <3>1 DEF TypeOK
    <3> QED BY <3>1, <3>2, <3>3, <1>m DEF TypeOK, countVars
  <2> QED BY <2>1, <2>2
<1> QED BY <1>1, <1>2, <1>3

\* Every other step preserves the types.
LEMMA OtherStepType ==
  ASSUME TypeOK, [Next]_vars, ~Deliver
  PROVE  TypeOK'
<1>1. CASE Startup
  <2>1. ASSUME NEW n \in Node, RegArray(n) PROVE TypeOK'
    <3>1. CASE n \in present
      BY <2>1, <3>1 DEF TypeOK, RegArray, Abort, Aborts, nodeVars, treeVars, countVars
    <3>2. CASE n \notin present
      <4>1. /\ registered' = registered \cup {n}
            /\ present' = present \cup {n}
            /\ arrays' = [arrays EXCEPT ![n] = 0]
            /\ inserting' = [inserting EXCEPT ![n] = TRUE]
            /\ UNCHANGED <<endpoints, treeVars, countVars, msgs, moves, aborted>>
        BY <2>1, <3>2 DEF RegArray
      <4>2. inserting' \in [Node -> BOOLEAN]
        BY <4>1 DEF TypeOK
      <4> QED BY <4>1, <4>2 DEF TypeOK, treeVars, countVars
    <3> QED BY <3>1, <3>2
  <2>2. ASSUME NEW n \in Node, StartupProcess(n) PROVE TypeOK'
    BY <2>2, RegElementType DEF StartupProcess
  <2> QED BY <1>1, <2>1, <2>2 DEF Startup
<1>2. CASE Counting
  <2>1. CASE Reduce
    BY <2>1 DEF TypeOK, Reduce, Results, nodeVars, treeVars
  <2>2. ASSUME NEW n \in Node, DoneInserting(n) PROVE TypeOK'
    BY <2>2 DEF TypeOK, DoneInserting, Contribute, Stages, nodeVars, treeVars
  <2>3. ASSUME NEW n \in Node, RecvCount(n) PROVE TypeOK'
    BY <2>3 DEF TypeOK, RecvCount, Contribute, Stages, Results, treeVars
  <2> QED BY <1>2, <2>1, <2>2, <2>3 DEF Counting
<1>3. ASSUME NEW e \in Elements, ElementCreated(e) PROVE TypeOK'
  <2>1. loc[e] \in Node
    BY DEF TypeOK
  <2> QED BY <1>3, <2>1, RegElementType DEF ElementCreated
<1>4. CASE CallDone
  BY <1>4 DEF TypeOK, CallDone, nodeVars, treeVars
<1>5. ASSUME NEW n \in Node, BeginInserting(n) PROVE TypeOK'
  BY <1>5 DEF TypeOK, BeginInserting, Stages, treeVars
<1>6. CASE BeginCallback
  BY <1>6 DEF TypeOK, BeginCallback, Stages, nodeVars, treeVars
<1>7. ASSUME NEW e \in Elements, ElementLeaving(e) PROVE TypeOK'
  BY <1>7 DEF TypeOK, ElementLeaving, Statuses, nodeVars, countVars
<1>8. ASSUME NEW e \in Elements, NEW n \in Node, ElementArriving(e, n) PROVE TypeOK'
  BY <1>8 DEF TypeOK, ElementArriving, Statuses, nodeVars, countVars
<1>9. CASE UNCHANGED vars
  BY <1>9 DEF TypeOK, vars, nodeVars, treeVars, countVars
<1> QED BY <1>1, <1>2, <1>3, <1>4, <1>5, <1>6, <1>7, <1>8, <1>9 DEF Next, Stay

\* Every reachable state is well typed, so no construction message is ever
\* addressed to a node that does not exist.
THEOREM TypeCorrect == Spec => []TypeOK
<1>1. Init => TypeOK
  <2> SUFFICES ASSUME Init PROVE TypeOK
    OBVIOUS
  <2>1. status \in [Elements -> Statuses]
    BY DEF Init, Statuses
  <2>2. /\ valid \in [Elements -> BOOLEAN]
        /\ inserting \in [Node -> BOOLEAN]
        /\ called \in BOOLEAN
    BY DEF Init
  <2>3. /\ registered \subseteq Node /\ present \subseteq Node
        /\ arrays \in [Node -> Int]
        /\ endpoints \in [Node -> Elements \cup {NoIndex}]
        /\ upstream \in [Elements -> SUBSET Elements]
        /\ downstream \in [Elements -> SUBSET Elements]
        /\ contrib \in [Node -> Int] /\ contributed \subseteq Node
        /\ msgs \subseteq Message
    BY DEF Init
  <2>4. loc \in [Elements -> Node]
    BY TreeBuilderAssumption DEF Init
  <2>5. /\ phase \in Nat /\ moves \in Nat /\ aborted \in Aborts
        /\ stage \in [Node -> Stages] /\ result \in [Node -> Results]
    BY DEF Init, Stages, Results, Aborts
  <2> QED BY <2>1, <2>2, <2>3, <2>4, <2>5 DEF TypeOK
<1>2. TypeOK /\ [Next]_vars => TypeOK'
  BY DeliverType, OtherStepType
<1> QED BY <1>1, <1>2, PTL DEF Spec

-----------------------------------------------------------------------------
(***************************************************************************)
(* The links between elements.                                             *)
(***************************************************************************)
linkVars == <<status, loc, valid, upstream, downstream, msgs>>

\* Steps that touch neither the elements nor the messages preserve the links.
LEMMA LinksUnchanged == ConstructionInv /\ UNCHANGED linkVars => ConstructionInv'
BY DEF ConstructionInv, SeekersWait, SoleMessage, OneOrphanPerNode,
       ValidityFollowsLife, LinksMirrored, Orphan, linkVars

\* A fresh element is in nobody's association and no message is about it.
LEMMA FreshElement ==
  ASSUME TypeOK, ConstructionInv, NEW e \in Elements,
         status[e] \in {"absent", "unlisted"}
  PROVE  /\ ~valid[e] /\ upstream[e] = {} /\ ~Orphan(e)
         /\ \A m \in msgs : m.child # e
         /\ \A t \in Elements : e \notin downstream[t]
<1>1. ~valid[e] /\ upstream[e] = {} /\ ~Orphan(e)
  BY DEF ConstructionInv, ValidityFollowsLife, Orphan
<1>2. \A m \in msgs : m.child # e
  BY DEF ConstructionInv, SeekersWait
<1> QED BY <1>1, <1>2 DEF ConstructionInv, LinksMirrored

\* A new element adopted by an element of its own node.
LEMMA AdoptLocallyLinks ==
  ASSUME TypeOK, ConstructionInv, NEW n \in Node, NEW e \in Elements,
         status[e] \in {"absent", "unlisted"},
         AdoptLocally(n, e), UNCHANGED loc
  PROVE  ConstructionInv'
<1> PICK t \in FewestTargets(n) :
         /\ downstream' = [downstream EXCEPT ![t] = @ \cup {e}]
         /\ upstream' = [upstream EXCEPT ![e] = @ \cup {t}]
  BY DEF AdoptLocally
<1>t. t \in Elements
  BY DEF FewestTargets, ElementsAt
<1>f. /\ ~valid[e] /\ upstream[e] = {} /\ ~Orphan(e)
      /\ \A m \in msgs : m.child # e
      /\ \A u \in Elements : e \notin downstream[u]
  BY FreshElement
<1>s. /\ status' = [status EXCEPT ![e] = "registered"]
      /\ valid' = [valid EXCEPT ![e] = TRUE]
      /\ UNCHANGED <<msgs, loc>>
  BY DEF AdoptLocally
<1>c. \A m \in msgs : m.child \in Elements
  BY DEF TypeOK, Message
<1>o. \A g \in Elements : Orphan(g)' <=> Orphan(g)
  BY <1>s, <1>f DEF TypeOK, Orphan
<1>1. SeekersWait'
  BY <1>s, <1>f, <1>c, <1>o, <1>t DEF ConstructionInv, SeekersWait, TypeOK
<1>2. SoleMessage'
  BY <1>s DEF ConstructionInv, SoleMessage
<1>3. OneOrphanPerNode'
  BY <1>s, <1>o DEF ConstructionInv, OneOrphanPerNode
<1>4. ValidityFollowsLife'
  BY <1>s, <1>f DEF ConstructionInv, ValidityFollowsLife, TypeOK
<1>5. LinksMirrored'
  BY <1>s, <1>f, <1>t DEF ConstructionInv, LinksMirrored, TypeOK
<1> QED BY <1>1, <1>2, <1>3, <1>4, <1>5 DEF ConstructionInv

\* A new element of an empty node that seeks its parent on other nodes.
LEMMA SeekRemotelyLinks ==
  ASSUME TypeOK, ConstructionInv, NEW n \in Node, NEW e \in Elements,
         status[e] \in {"absent", "unlisted"}, loc[e] = n, ElementsAt(n) = {},
         SeekRemotely(n, e), UNCHANGED loc
  PROVE  ConstructionInv'
<1> DEFINE req == DownstreamMsg(Parent(n), n, e)
<1>f. /\ ~valid[e] /\ upstream[e] = {} /\ ~Orphan(e)
      /\ \A m \in msgs : m.child # e
      /\ \A u \in Elements : e \notin downstream[u]
  BY FreshElement
<1>s. /\ status' = [status EXCEPT ![e] = "registered"]
      /\ msgs' = msgs \cup {req}
      /\ UNCHANGED <<valid, upstream, downstream, loc>>
  BY DEF SeekRemotely
<1>r. req.type = "receive_downstream" /\ req.child = e /\ req.idx = e /\ req.src = n
  BY DEF DownstreamMsg
<1> HIDE DEF req
<1>c. \A m \in msgs : m.child \in Elements
  BY DEF TypeOK, Message
<1>o. \A g \in Elements : Orphan(g)' <=> (Orphan(g) \/ g = e)
  BY <1>s, <1>f DEF TypeOK, Orphan
<1>1. SeekersWait'
  BY <1>s, <1>f, <1>c, <1>o, <1>r DEF ConstructionInv, SeekersWait, TypeOK
<1>2. SoleMessage'
  BY <1>s, <1>f, <1>r DEF ConstructionInv, SoleMessage
<1>3. OneOrphanPerNode'
  <2>1. \A g \in Elements : Orphan(g) => loc[g] # n
    BY DEF ElementsAt, Orphan
  <2> QED BY <1>s, <1>o, <2>1 DEF ConstructionInv, OneOrphanPerNode
<1>4. ValidityFollowsLife'
  BY <1>s, <1>f DEF ConstructionInv, ValidityFollowsLife, TypeOK
<1>5. LinksMirrored'
  BY <1>s, <1>r DEF ConstructionInv, LinksMirrored
<1> QED BY <1>1, <1>2, <1>3, <1>4, <1>5 DEF ConstructionInv

\* The messages of reg_endpoint are about the endpoint and nothing else.
LEMMA EndpointMsgsFacts ==
  \A n \in Node, e \in Elements : \A k \in EndpointMsgs(n, e) :
     k.type = "reg_endpoint" /\ k.child = e /\ k.idx = e
BY DEF EndpointMsgs

\* A new element of the empty root node that becomes the endpoint.
LEMMA BecomeEndpointLinks ==
  ASSUME TypeOK, ConstructionInv, NEW n \in Node, NEW e \in Elements,
         status[e] \in {"absent", "unlisted"},
         BecomeEndpoint(n, e), UNCHANGED loc
  PROVE  ConstructionInv'
<1> DEFINE new == EndpointMsgs(n, e)
<1>f. /\ ~valid[e] /\ upstream[e] = {} /\ ~Orphan(e)
      /\ \A m \in msgs : m.child # e
      /\ \A u \in Elements : e \notin downstream[u]
  BY FreshElement
<1>s. /\ status' = [status EXCEPT ![e] = "registered"]
      /\ valid' = [valid EXCEPT ![e] = TRUE]
      /\ msgs' = msgs \cup new
      /\ UNCHANGED <<upstream, downstream, loc>>
  BY DEF BecomeEndpoint
<1>r. \A k \in new : k.type = "reg_endpoint" /\ k.child = e /\ k.idx = e
  BY EndpointMsgsFacts
<1> HIDE DEF new
<1>c. \A m \in msgs : m.child \in Elements
  BY DEF TypeOK, Message
<1>o. \A g \in Elements : Orphan(g)' <=> Orphan(g)
  BY <1>s, <1>f DEF TypeOK, Orphan
<1>1. SeekersWait'
  BY <1>s, <1>f, <1>c, <1>o, <1>r DEF ConstructionInv, SeekersWait, TypeOK
<1>2. SoleMessage'
  BY <1>s, <1>f, <1>r DEF ConstructionInv, SoleMessage
<1>3. OneOrphanPerNode'
  BY <1>s, <1>o DEF ConstructionInv, OneOrphanPerNode
<1>4. ValidityFollowsLife'
  BY <1>s, <1>f DEF ConstructionInv, ValidityFollowsLife, TypeOK
<1>5. LinksMirrored'
  BY <1>s, <1>r DEF ConstructionInv, LinksMirrored
<1> QED BY <1>1, <1>2, <1>3, <1>4, <1>5 DEF ConstructionInv

\* receive_downstream replaces the request by its answer, a further request or
\* the news that the element is the endpoint: the only message about it.
LEMMA ReceiveDownstreamLinks ==
  ASSUME TypeOK, ConstructionInv, NEW m \in msgs, m.type = "receive_downstream",
         AdoptRemote(m) \/ PassUp(m) \/ CrownRemote(m),
         UNCHANGED <<status, loc, valid, upstream>>
  PROVE  ConstructionInv'
<1>m. m.dst \in Node /\ m.src \in Node /\ m.idx \in Elements /\ m.child \in Elements
  BY DEF TypeOK, Message
<1>w. /\ m.child = m.idx /\ Orphan(m.idx) /\ loc[m.idx] = m.src
      /\ upstream[m.idx] = {}
      /\ \A t \in Elements : m.idx \notin downstream[t]
      /\ status[m.idx] \in {"registered", "moving"}
  BY <1>m DEF ConstructionInv, SeekersWait, ValidityFollowsLife, Orphan
<1>u. \A k \in msgs \ {m} : k.child # m.idx
  BY <1>w DEF ConstructionInv, SoleMessage
<1>o. \A g \in Elements : Orphan(g)' <=> Orphan(g)
  BY DEF Orphan
<1>3. OneOrphanPerNode'
  BY <1>o DEF ConstructionInv, OneOrphanPerNode
<1>4. ValidityFollowsLife'
  BY DEF ConstructionInv, ValidityFollowsLife
<1>5. CASE AdoptRemote(m)
  <2> PICK t \in FewestTargets(m.dst) :
           /\ downstream' = [downstream EXCEPT ![t] = @ \cup {m.idx}]
           /\ msgs' = (msgs \ {m}) \cup {UpstreamMsg(m.src, m.dst, t, m.idx)}
    BY <1>5 DEF AdoptRemote
  <2> DEFINE ans == UpstreamMsg(m.src, m.dst, t, m.idx)
  <2>t. t \in Elements
    BY DEF FewestTargets, ElementsAt
  <2>r. ans.type = "receive_upstream" /\ ans.child = m.idx /\ ans.idx = t /\ ans.dst = m.src
    BY DEF UpstreamMsg
  <2>s. msgs' = (msgs \ {m}) \cup {ans}
    OBVIOUS
  <2> HIDE DEF ans
  <2>c. \A k \in msgs : k.child \in Elements
    BY DEF TypeOK, Message
  <2>1. SeekersWait'
    BY <1>w, <1>u, <1>o, <1>m, <2>t, <2>r, <2>s, <2>c
       DEF ConstructionInv, SeekersWait, TypeOK
  <2>2. SoleMessage'
    BY <1>u, <2>r, <2>s DEF ConstructionInv, SoleMessage
  <2>3. LinksMirrored'
    <3>1. \A e, v, w \in Elements :
             v \in upstream'[e] /\ w \in upstream'[e] => v = w
      BY DEF ConstructionInv, LinksMirrored
    <3>2. ASSUME NEW e \in Elements, NEW v \in Elements
          PROVE  e \in downstream'[v] <=>
                   \/ v \in upstream'[e]
                   \/ \E k \in msgs' :
                        k.type = "receive_upstream" /\ k.idx = v /\ k.child = e
      <4>1. CASE e = m.idx
        BY <4>1, <1>w, <1>u, <2>r, <2>s, <2>t, <1>m DEF TypeOK
      <4>2. CASE e # m.idx
        <5>1. e \in downstream'[v] <=> e \in downstream[v]
          BY <4>2, <2>t DEF TypeOK
        <5>2. (\E k \in msgs' : k.type = "receive_upstream" /\ k.idx = v /\ k.child = e)
                <=> (\E k \in msgs : k.type = "receive_upstream" /\ k.idx = v /\ k.child = e)
          BY <4>2, <2>r, <2>s
        <5> QED BY <5>1, <5>2 DEF ConstructionInv, LinksMirrored
      <4> QED BY <4>1, <4>2
    <3> QED BY <3>1, <3>2 DEF LinksMirrored
  <2> QED BY <2>1, <2>2, <2>3, <1>3, <1>4 DEF ConstructionInv
<1>6. CASE PassUp(m)
  <2> DEFINE req == DownstreamMsg(Parent(m.dst), m.src, m.idx)
  <2>r. req.type = "receive_downstream" /\ req.child = m.idx /\ req.idx = m.idx /\ req.src = m.src
    BY DEF DownstreamMsg
  <2>s. msgs' = (msgs \ {m}) \cup {req} /\ UNCHANGED downstream
    BY <1>6 DEF PassUp
  <2> HIDE DEF req
  <2>1. SeekersWait'
    BY <1>w, <1>o, <1>m, <2>r, <2>s DEF ConstructionInv, SeekersWait, TypeOK, Orphan
  <2>2. SoleMessage'
    BY <1>u, <2>r, <2>s DEF ConstructionInv, SoleMessage
  <2>3. LinksMirrored'
    BY <2>r, <2>s DEF ConstructionInv, LinksMirrored
  <2> QED BY <2>1, <2>2, <2>3, <1>3, <1>4 DEF ConstructionInv
<1>7. CASE CrownRemote(m)
  <2> DEFINE new == EndpointMsgs(m.dst, m.idx)
  <2>r. \A k \in new : k.type = "reg_endpoint" /\ k.child = m.idx /\ k.idx = m.idx
    BY <1>m, EndpointMsgsFacts
  <2>s. msgs' = (msgs \ {m}) \cup new /\ UNCHANGED downstream
    BY <1>7 DEF CrownRemote
  <2> HIDE DEF new
  <2>1. SeekersWait'
    BY <1>w, <1>o, <1>m, <2>r, <2>s DEF ConstructionInv, SeekersWait, TypeOK, Orphan
  <2>2. SoleMessage'
    BY <1>u, <2>r, <2>s DEF ConstructionInv, SoleMessage
  <2>3. LinksMirrored'
    BY <2>r, <2>s DEF ConstructionInv, LinksMirrored
  <2> QED BY <2>1, <2>2, <2>3, <1>3, <1>4 DEF ConstructionInv
<1> QED BY <1>5, <1>6, <1>7

\* receive_upstream gives the parent to the element that asked for it.
LEMMA UpstreamTarget ==
  ASSUME TypeOK, ConstructionInv, NEW m \in msgs, m.type = "receive_upstream"
  PROVE  OrphanTargets(m.dst) = {m.child}
<1>1. m.child \in Elements /\ Orphan(m.child) /\ loc[m.child] = m.dst
  BY DEF TypeOK, Message, ConstructionInv, SeekersWait
<1> QED BY <1>1 DEF ConstructionInv, OneOrphanPerNode, OrphanTargets, ElementsAt, Orphan

LEMMA ReceiveUpstreamLinks ==
  ASSUME TypeOK, ConstructionInv, NEW m \in msgs, m.type = "receive_upstream",
         ReceiveUpstream(m)
  PROVE  ConstructionInv'
<1> DEFINE e == m.child
<1>m. m.idx \in Elements /\ e \in Elements
  BY DEF TypeOK, Message
<1>s. /\ upstream' = [upstream EXCEPT ![e] = @ \cup {m.idx}]
      /\ valid' = [valid EXCEPT ![e] = TRUE]
      /\ msgs' = msgs \ {m}
      /\ UNCHANGED <<status, loc, downstream>>
  <2>1. OrphanTargets(m.dst) = {e}
    BY UpstreamTarget
  <2>2. OrphanTargets(m.dst) # {}
    BY <2>1
  <2>3. /\ \E g \in OrphanTargets(m.dst) :
             /\ upstream' = [upstream EXCEPT ![g] = @ \cup {m.idx}]
             /\ valid' = [valid EXCEPT ![g] = TRUE]
        /\ msgs' = msgs \ {m}
        /\ UNCHANGED <<status, loc, downstream>>
    BY <2>2 DEF ReceiveUpstream
  <2> QED BY <2>1, <2>3
<1>w. /\ Orphan(e) /\ upstream[e] = {} /\ ~valid[e]
      /\ status[e] = "registered" /\ e \in downstream[m.idx]
  BY <1>m DEF ConstructionInv, SeekersWait, ValidityFollowsLife, LinksMirrored, Orphan
<1>u. \A k \in msgs \ {m} : k.child # e
  BY DEF ConstructionInv, SoleMessage
<1> HIDE DEF e
<1>o. \A g \in Elements : Orphan(g)' <=> (Orphan(g) /\ g # e)
  BY <1>s, <1>m DEF Orphan, TypeOK
<1>c. \A k \in msgs : k.child \in Elements
  BY DEF TypeOK, Message
<1>1. SeekersWait'
  BY <1>s, <1>u, <1>o, <1>c DEF ConstructionInv, SeekersWait
<1>2. SoleMessage'
  BY <1>s DEF ConstructionInv, SoleMessage
<1>3. OneOrphanPerNode'
  BY <1>s, <1>o DEF ConstructionInv, OneOrphanPerNode
<1>4. ValidityFollowsLife'
  BY <1>s, <1>w, <1>m DEF ConstructionInv, ValidityFollowsLife, TypeOK
<1>5. LinksMirrored'
  <2>1. ASSUME NEW g \in Elements, NEW v \in Elements
        PROVE  g \in downstream'[v] <=>
                 \/ v \in upstream'[g]
                 \/ \E k \in msgs' :
                      k.type = "receive_upstream" /\ k.idx = v /\ k.child = g
    <3>1. g \in downstream[v] <=>
                 \/ v \in upstream[g]
                 \/ \E k \in msgs :
                      k.type = "receive_upstream" /\ k.idx = v /\ k.child = g
      BY DEF ConstructionInv, LinksMirrored
    <3>2. CASE g = e
      BY <3>1, <3>2, <1>s, <1>u, <1>w, <1>m DEF TypeOK, e
    <3>3. CASE g # e
      BY <3>1, <3>3, <1>s, <1>m DEF TypeOK, e
    <3> QED BY <3>2, <3>3
  <2>2. \A g, v, w \in Elements : v \in upstream'[g] /\ w \in upstream'[g] => v = w
    BY <1>s, <1>w, <1>m DEF ConstructionInv, LinksMirrored, TypeOK
  <2> QED BY <2>1, <2>2 DEF LinksMirrored
<1> QED BY <1>1, <1>2, <1>3, <1>4, <1>5 DEF ConstructionInv

\* reg_endpoint validates an element that no other message is about.
LEMMA RegEndpointLinks ==
  ASSUME TypeOK, ConstructionInv, NEW m \in msgs, RegEndpoint(m),
         endpoints[m.dst] = NoIndex
  PROVE  ConstructionInv'
<1> DEFINE e == m.idx
           new == EndpointMsgs(m.dst, e)
<1>m. e \in Elements /\ m.dst \in Node /\ m.child = e /\ m.type = "reg_endpoint"
  BY DEF TypeOK, Message, RegEndpoint, ConstructionInv, SeekersWait
<1>s. /\ valid' = [valid EXCEPT ![e] = @ \/ e \in ElementsAt(m.dst)]
      /\ msgs' = (msgs \ {m}) \cup new
      /\ UNCHANGED <<status, loc, upstream, downstream>>
  BY DEF RegEndpoint
<1>r. \A k \in new : k.type = "reg_endpoint" /\ k.child = e /\ k.idx = e
  BY <1>m, EndpointMsgsFacts
<1>u. \A k \in msgs : k.type # "reg_endpoint" => k.child # e
  BY <1>m DEF ConstructionInv, SoleMessage
<1>t. status[e] \in {"registered", "moving"}
  BY <1>m DEF ConstructionInv, SeekersWait
<1> HIDE DEF e, new
<1>v. \A g \in Elements : g # e => (valid'[g] <=> valid[g])
  BY <1>s, <1>m DEF TypeOK
<1>x. valid[e] => valid'[e]
  <2>1. valid'[e] = (valid[e] \/ e \in ElementsAt(m.dst))
    BY <1>s, <1>m, Zenon DEF TypeOK
  <2> QED BY <2>1
<1>o. \A g \in Elements : (Orphan(g)' => Orphan(g)) /\ (g # e => (Orphan(g)' <=> Orphan(g)))
  BY <1>s, <1>v, <1>x DEF Orphan
<1>c. \A k \in msgs : k.child \in Elements
  BY DEF TypeOK, Message
<1>1. SeekersWait'
  BY <1>s, <1>r, <1>u, <1>o, <1>t, <1>c DEF ConstructionInv, SeekersWait
<1>2. SoleMessage'
  BY <1>s, <1>r, <1>u DEF ConstructionInv, SoleMessage
<1>3. OneOrphanPerNode'
  BY <1>s, <1>o DEF ConstructionInv, OneOrphanPerNode
<1>4. ValidityFollowsLife'
  BY <1>s, <1>v, <1>x, <1>t DEF ConstructionInv, ValidityFollowsLife
<1>5. LinksMirrored'
  BY <1>s, <1>r, <1>m DEF ConstructionInv, LinksMirrored
<1> QED BY <1>1, <1>2, <1>3, <1>4, <1>5 DEF ConstructionInv

\* Registering an element preserves the links.
LEMMA RegElementLinks ==
  ASSUME TypeOK, ConstructionInv, NEW e \in Elements, NEW n \in Node, n = loc[e],
         status[e] \in {"absent", "unlisted"}, RegElement(n, e)
  PROVE  ConstructionInv'
<1>1. CASE ElementsAt(n) # {} /\ AdoptLocally(n, e) /\ UNCHANGED loc
  BY <1>1, AdoptLocallyLinks
<1>2. CASE ElementsAt(n) = {} /\ SeekRemotely(n, e) /\ UNCHANGED loc
  BY <1>2, SeekRemotelyLinks
<1>3. CASE BecomeEndpoint(n, e) /\ UNCHANGED loc
  BY <1>3, BecomeEndpointLinks
<1>4. CASE UNCHANGED linkVars
  BY <1>4, LinksUnchanged
<1> QED BY <1>1, <1>2, <1>3, <1>4 DEF RegElement, Abort, linkVars, treeVars

\* Every step preserves the links, if none but associated elements leave, and
\* these when no message is in flight.
LEMMA StepLinks ==
  ASSUME TypeOK, ConstructionInv, [Next]_vars,
         \A e \in Elements : ElementLeaving(e) => msgs = {} /\ ~Orphan(e)
  PROVE  ConstructionInv'
<1>0. CASE UNCHANGED linkVars
  BY <1>0, LinksUnchanged
<1>1. CASE Deliver
  <2> PICK m \in msgs : RegEndpoint(m) \/ ReceiveDownstream(m) \/ ReceiveUpstream(m)
    BY <1>1 DEF Deliver
  <2>1. CASE RegEndpoint(m)
    <3>1. CASE endpoints[m.dst] = NoIndex
      BY <2>1, <3>1, RegEndpointLinks
    <3>2. CASE endpoints[m.dst] # NoIndex
      BY <2>1, <3>2, <1>0 DEF RegEndpoint, Abort, linkVars, treeVars
    <3> QED BY <3>1, <3>2
  <2>2. CASE ReceiveDownstream(m)
    <3>1. m.type = "receive_downstream"
      BY <2>2 DEF ReceiveDownstream
    <3>2. CASE /\ AdoptRemote(m) \/ PassUp(m) \/ CrownRemote(m)
               /\ UNCHANGED <<registered, inserting, status, loc, valid, upstream,
                              countVars, moves, aborted>>
      BY <3>1, <3>2, ReceiveDownstreamLinks
    <3>3. CASE UNCHANGED linkVars
      BY <3>3, <1>0
    <3> QED BY <2>2, <3>2, <3>3 DEF ReceiveDownstream, Abort, linkVars, treeVars
  <2>3. CASE ReceiveUpstream(m)
    BY <2>3, ReceiveUpstreamLinks DEF ReceiveUpstream
  <2> QED BY <2>1, <2>2, <2>3
<1>2. CASE Startup
  <2>1. ASSUME NEW n \in Node, RegArray(n) PROVE ConstructionInv'
    BY <2>1, <1>0 DEF RegArray, Abort, linkVars, treeVars
  <2>2. ASSUME NEW n \in Node, StartupProcess(n) PROVE ConstructionInv'
    BY <2>2, RegElementLinks DEF StartupProcess
  <2> QED BY <1>2, <2>1, <2>2 DEF Startup
<1>3. CASE Counting
  BY <1>3, <1>0 DEF Counting, Reduce, DoneInserting, RecvCount, linkVars, treeVars
<1>4. ASSUME NEW e \in Elements, ElementCreated(e) PROVE ConstructionInv'
  <2>1. loc[e] \in Node
    BY DEF TypeOK
  <2> QED BY <1>4, <2>1, RegElementLinks DEF ElementCreated
<1>5. CASE CallDone \/ BeginCallback
  BY <1>5, <1>0 DEF CallDone, BeginCallback, linkVars, treeVars
<1>6. ASSUME NEW n \in Node, BeginInserting(n) PROVE ConstructionInv'
  BY <1>6, <1>0 DEF BeginInserting, linkVars, treeVars
<1>7. ASSUME NEW e \in Elements, ElementLeaving(e) PROVE ConstructionInv'
  <2>s. /\ msgs = {} /\ msgs' = {} /\ valid[e]
        /\ status' = [status EXCEPT ![e] = "moving"]
        /\ UNCHANGED <<loc, valid, upstream, downstream>>
    BY <1>7 DEF ElementLeaving, Orphan
  <2>1. SeekersWait' /\ SoleMessage'
    BY <2>s DEF SeekersWait, SoleMessage
  <2>2. OneOrphanPerNode' /\ ValidityFollowsLife'
    BY <2>s DEF ConstructionInv, OneOrphanPerNode, ValidityFollowsLife, Orphan, TypeOK
  <2>3. LinksMirrored'
    BY <2>s DEF ConstructionInv, LinksMirrored
  <2> QED BY <2>1, <2>2, <2>3 DEF ConstructionInv
<1>8. ASSUME NEW e \in Elements, NEW n \in Node, ElementArriving(e, n)
      PROVE  ConstructionInv'
  <2>s. /\ status[e] = "moving" /\ valid[e] /\ ~Orphan(e)
        /\ status' = [status EXCEPT ![e] = "registered"]
        /\ loc' = [loc EXCEPT ![e] = n]
        /\ UNCHANGED <<valid, upstream, downstream, msgs>>
    BY <1>8 DEF ElementArriving, ConstructionInv, ValidityFollowsLife, Orphan
  <2>o. \A g \in Elements : (Orphan(g)' <=> Orphan(g)) /\ (Orphan(g) => loc'[g] = loc[g])
    BY <2>s DEF Orphan, TypeOK
  <2>c. \A k \in msgs : k.child \in Elements
    BY DEF TypeOK, Message
  <2>1. SeekersWait'
    BY <2>s, <2>o, <2>c DEF ConstructionInv, SeekersWait, TypeOK
  <2>2. SoleMessage'
    BY <2>s DEF ConstructionInv, SoleMessage
  <2>3. OneOrphanPerNode'
    BY <2>s, <2>o DEF ConstructionInv, OneOrphanPerNode
  <2>4. ValidityFollowsLife'
    BY <2>s DEF ConstructionInv, ValidityFollowsLife, TypeOK
  <2>5. LinksMirrored'
    BY <2>s DEF ConstructionInv, LinksMirrored
  <2> QED BY <2>1, <2>2, <2>3, <2>4, <2>5 DEF ConstructionInv
<1>9. CASE UNCHANGED vars
  BY <1>9, <1>0 DEF vars, linkVars, treeVars
<1> QED BY <1>1, <1>2, <1>3, <1>4, <1>5, <1>6, <1>7, <1>8, <1>9 DEF Next, Stay

-----------------------------------------------------------------------------
(***************************************************************************)
(* The messages about an element.                                          *)
(***************************************************************************)
\* What holds whenever elements migrate: messages are about elements that have
\* been created, and one that seeks or brings a parent is the only one.
MessageInv ==
  /\ \A m \in msgs : /\ m.type # "receive_upstream" => m.child = m.idx
                     /\ status[m.child] \in {"registered", "moving"}
  /\ SoleMessage
  /\ \A e \in Elements : status[e] \in {"absent", "unlisted"} => ~valid[e]

messageVars == <<status, valid, msgs>>

LEMMA MessagesUnchanged == MessageInv /\ UNCHANGED messageVars => MessageInv'
BY DEF MessageInv, SoleMessage, messageVars

\* No message is about an element that is being registered.
LEMMA FreshMessage ==
  ASSUME TypeOK, MessageInv, NEW e \in Elements, status[e] \in {"absent", "unlisted"}
  PROVE  ~valid[e] /\ \A m \in msgs : m.child # e
BY DEF MessageInv

\* Registering an element sends messages about it alone.
LEMMA RegElementMessages ==
  ASSUME TypeOK, MessageInv, NEW e \in Elements, NEW n \in Node,
         status[e] \in {"absent", "unlisted"}, RegElement(n, e)
  PROVE  MessageInv'
<1>f. ~valid[e] /\ \A m \in msgs : m.child # e
  BY FreshMessage
<1>c. \A m \in msgs : m.child \in Elements
  BY DEF TypeOK, Message
<1>1. CASE AdoptLocally(n, e)
  BY <1>1, <1>f, <1>c DEF AdoptLocally, MessageInv, SoleMessage, TypeOK
<1>2. CASE SeekRemotely(n, e)
  <2>. DEFINE req == DownstreamMsg(Parent(n), n, e)
  <2>1. req.child = e /\ req.idx = e
    BY DEF DownstreamMsg
  <2>2. msgs' = msgs \cup {req} /\ status' = [status EXCEPT ![e] = "registered"]
        /\ UNCHANGED valid
    BY <1>2 DEF SeekRemotely
  <2>. HIDE DEF req
  <2>. QED
    BY <2>1, <2>2, <1>f, <1>c DEF MessageInv, SoleMessage, TypeOK
<1>3. CASE BecomeEndpoint(n, e)
  <2>. DEFINE new == EndpointMsgs(n, e)
  <2>1. \A k \in new : k.type = "reg_endpoint" /\ k.child = e /\ k.idx = e
    BY EndpointMsgsFacts
  <2>2. msgs' = msgs \cup new /\ status' = [status EXCEPT ![e] = "registered"]
        /\ valid' = [valid EXCEPT ![e] = TRUE]
    BY <1>3 DEF BecomeEndpoint
  <2>. HIDE DEF new
  <2>. QED
    BY <2>1, <2>2, <1>f, <1>c DEF MessageInv, SoleMessage, TypeOK
<1>4. CASE UNCHANGED messageVars
  BY <1>4, MessagesUnchanged
<1>. QED
  BY <1>1, <1>2, <1>3, <1>4 DEF RegElement, Abort, messageVars, treeVars

\* Delivering a message replaces it by messages about the same element.
LEMMA DeliverMessages ==
  ASSUME TypeOK, MessageInv, Deliver
  PROVE  MessageInv'
<1>. PICK m \in msgs : RegEndpoint(m) \/ ReceiveDownstream(m) \/ ReceiveUpstream(m)
  BY DEF Deliver
<1>m. /\ m.dst \in Node /\ m.src \in Node /\ m.idx \in Elements /\ m.child \in Elements
      /\ \A k \in msgs : k.child \in Elements
  BY DEF TypeOK, Message
<1>0. CASE UNCHANGED messageVars
  BY <1>0, MessagesUnchanged
<1>. DEFINE new == EndpointMsgs(m.dst, m.idx)
<1>r. \A k \in new : k.type = "reg_endpoint" /\ k.child = m.idx /\ k.idx = m.idx
  BY <1>m, EndpointMsgsFacts
<1>. HIDE DEF new
<1>1. CASE RegEndpoint(m)
  <2>1. CASE endpoints[m.dst] = NoIndex
    <3>1. /\ valid' = [valid EXCEPT ![m.idx] = @ \/ m.idx \in ElementsAt(m.dst)]
          /\ msgs' = (msgs \ {m}) \cup new /\ UNCHANGED status
          /\ m.type = "reg_endpoint"
      BY <1>1, <2>1 DEF RegEndpoint, new
    <3>2. m.child = m.idx /\ status[m.idx] \in {"registered", "moving"}
      BY <3>1 DEF MessageInv
    <3>3. \A g \in Elements : g # m.idx => (valid'[g] <=> valid[g])
      BY <3>1, <1>m DEF TypeOK
    <3>. QED
      BY <3>1, <3>2, <3>3, <1>r, <1>m DEF MessageInv, SoleMessage
  <2>2. CASE endpoints[m.dst] # NoIndex
    BY <1>0, <1>1, <2>2 DEF RegEndpoint, Abort, messageVars, treeVars
  <2>. QED
    BY <2>1, <2>2
<1>2. CASE ReceiveDownstream(m)
  <2>m. m.type = "receive_downstream" /\ m.child = m.idx
        /\ status[m.idx] \in {"registered", "moving"}
    BY <1>2 DEF ReceiveDownstream, MessageInv
  <2>u. \A k \in msgs \ {m} : k.child # m.idx
    BY <2>m DEF MessageInv, SoleMessage
  <2>1. CASE AdoptRemote(m) /\ UNCHANGED <<status, valid>>
    <3>1. PICK t \in FewestTargets(m.dst) :
                 msgs' = (msgs \ {m}) \cup {UpstreamMsg(m.src, m.dst, t, m.idx)}
      BY <2>1 DEF AdoptRemote
    <3>. DEFINE ans == UpstreamMsg(m.src, m.dst, t, m.idx)
    <3>2. ans.type = "receive_upstream" /\ ans.child = m.idx
      BY DEF UpstreamMsg
    <3>3. msgs' = (msgs \ {m}) \cup {ans}
      BY <3>1
    <3>. HIDE DEF ans
    <3>. QED
      BY <2>1, <2>m, <2>u, <3>2, <3>3 DEF MessageInv, SoleMessage
  <2>2. CASE PassUp(m) /\ UNCHANGED <<status, valid>>
    <3>. DEFINE req == DownstreamMsg(Parent(m.dst), m.src, m.idx)
    <3>1. req.child = m.idx /\ req.idx = m.idx
      BY DEF DownstreamMsg
    <3>2. msgs' = (msgs \ {m}) \cup {req}
      BY <2>2 DEF PassUp
    <3>. HIDE DEF req
    <3>. QED
      BY <2>2, <2>m, <2>u, <3>1, <3>2 DEF MessageInv, SoleMessage
  <2>3. CASE CrownRemote(m) /\ UNCHANGED <<status, valid>>
    <3>1. msgs' = (msgs \ {m}) \cup new
      BY <2>3 DEF CrownRemote, new
    <3>. QED
      BY <2>3, <2>m, <2>u, <3>1, <1>r DEF MessageInv, SoleMessage
  <2>. QED
    BY <1>0, <1>2, <2>1, <2>2, <2>3 DEF ReceiveDownstream, Abort, messageVars, treeVars
<1>3. CASE ReceiveUpstream(m)
  <2>1. CASE OrphanTargets(m.dst) # {}
    <3>1. PICK e \in OrphanTargets(m.dst) : valid' = [valid EXCEPT ![e] = TRUE]
      BY <1>3, <2>1 DEF ReceiveUpstream
    <3>2. e \in Elements /\ status[e] = "registered"
      BY DEF OrphanTargets, ElementsAt
    <3>3. msgs' = msgs \ {m} /\ UNCHANGED status
      BY <1>3, <2>1 DEF ReceiveUpstream
    <3>. QED
      BY <3>1, <3>2, <3>3 DEF MessageInv, SoleMessage, TypeOK
  <2>2. CASE OrphanTargets(m.dst) = {}
    BY <1>0, <1>3, <2>2 DEF ReceiveUpstream, Abort, messageVars, treeVars
  <2>. QED
    BY <2>1, <2>2
<1>. QED
  BY <1>1, <1>2, <1>3

\* Every step preserves what is known of the messages.
LEMMA StepMessages ==
  ASSUME TypeOK, MessageInv, [Next]_vars
  PROVE  MessageInv'
<1>0. CASE UNCHANGED messageVars
  BY <1>0, MessagesUnchanged
<1>1. CASE Deliver
  BY <1>1, DeliverMessages
<1>2. CASE Startup
  <2>1. ASSUME NEW n \in Node, RegArray(n) PROVE MessageInv'
    BY <1>0, <2>1 DEF RegArray, Abort, messageVars, treeVars
  <2>2. ASSUME NEW n \in Node, StartupProcess(n) PROVE MessageInv'
    BY <2>2, RegElementMessages DEF StartupProcess
  <2>. QED
    BY <1>2, <2>1, <2>2 DEF Startup
<1>3. CASE Counting
  BY <1>0, <1>3 DEF Counting, Reduce, DoneInserting, RecvCount, messageVars, treeVars
<1>4. ASSUME NEW e \in Elements, ElementCreated(e) PROVE MessageInv'
  <2>1. loc[e] \in Node
    BY DEF TypeOK
  <2>. QED
    BY <1>4, <2>1, RegElementMessages DEF ElementCreated
<1>5. CASE CallDone \/ BeginCallback
  BY <1>0, <1>5 DEF CallDone, BeginCallback, messageVars, treeVars
<1>6. ASSUME NEW n \in Node, BeginInserting(n) PROVE MessageInv'
  BY <1>0, <1>6 DEF BeginInserting, messageVars, treeVars
<1>7. ASSUME NEW e \in Elements, ElementLeaving(e) PROVE MessageInv'
  BY <1>7 DEF ElementLeaving, MessageInv, SoleMessage, TypeOK, Message
<1>8. ASSUME NEW e \in Elements, NEW n \in Node, ElementArriving(e, n) PROVE MessageInv'
  BY <1>8 DEF ElementArriving, MessageInv, SoleMessage, TypeOK, Message
<1>9. CASE UNCHANGED vars
  BY <1>0, <1>9 DEF vars, messageVars, treeVars
<1>. QED
  BY <1>1, <1>2, <1>3, <1>4, <1>5, <1>6, <1>7, <1>8, <1>9 DEF Next, Stay

\* However elements migrate, a message is about an element that was created,
\* and the request or the answer about it is the only one.
THEOREM MessagesCorrect == Spec => []MessageInv
<1>1. Init => MessageInv
  BY DEF Init, MessageInv, SoleMessage
<1>2. TypeOK /\ MessageInv /\ [Next]_vars => MessageInv'
  BY StepMessages
<1>. QED
  BY <1>1, <1>2, TypeCorrect, PTL DEF Spec

-----------------------------------------------------------------------------
UpstreamKept ==
  \A e \in Elements : valid[e] => valid'[e] /\ upstream'[e] = upstream[e]

\* Registering an element leaves the upstream of the others alone.
LEMMA RegElementKeeps ==
  ASSUME TypeOK, MessageInv, NEW e \in Elements, NEW n \in Node,
         status[e] \in {"absent", "unlisted"}, RegElement(n, e)
  PROVE  UpstreamKept
<1>f. ~valid[e]
  BY FreshMessage
<1>1. CASE AdoptLocally(n, e)
  BY <1>1, <1>f DEF AdoptLocally, UpstreamKept, TypeOK
<1>2. CASE SeekRemotely(n, e)
  BY <1>2 DEF SeekRemotely, UpstreamKept
<1>3. CASE BecomeEndpoint(n, e)
  BY <1>3, <1>f DEF BecomeEndpoint, UpstreamKept, TypeOK
<1>4. CASE UNCHANGED treeVars
  BY <1>4 DEF UpstreamKept, treeVars
<1> QED BY <1>1, <1>2, <1>3, <1>4 DEF RegElement, Abort

\* No step changes a valid upstream.
LEMMA StepKeeps ==
  ASSUME TypeOK, MessageInv, [Next]_vars
  PROVE  UpstreamKept
<1>0. CASE UNCHANGED <<valid, upstream>>
  BY <1>0 DEF UpstreamKept
<1>1. CASE Deliver
  <2> PICK m \in msgs : RegEndpoint(m) \/ ReceiveDownstream(m) \/ ReceiveUpstream(m)
    BY <1>1 DEF Deliver
  <2>m. m.idx \in Elements
    BY DEF TypeOK, Message
  <2>1. CASE RegEndpoint(m)
    <3>1. CASE endpoints[m.dst] = NoIndex
      <4>1. /\ valid' = [valid EXCEPT ![m.idx] = @ \/ m.idx \in ElementsAt(m.dst)]
            /\ UNCHANGED upstream
        BY <2>1, <3>1 DEF RegEndpoint
      <4>2. valid'[m.idx] = (valid[m.idx] \/ m.idx \in ElementsAt(m.dst))
        BY <4>1, <2>m, Zenon DEF TypeOK
      <4>3. \A e \in Elements : e # m.idx => valid'[e] = valid[e]
        BY <4>1, <2>m DEF TypeOK
      <4> QED BY <4>1, <4>2, <4>3 DEF UpstreamKept
    <3>2. CASE endpoints[m.dst] # NoIndex
      BY <2>1, <3>2, <1>0 DEF RegEndpoint, Abort, treeVars
    <3> QED BY <3>1, <3>2
  <2>2. CASE ReceiveDownstream(m)
    BY <2>2, <1>0 DEF ReceiveDownstream, Abort, treeVars
  <2>3. CASE ReceiveUpstream(m)
    <3>1. CASE OrphanTargets(m.dst) = {}
      BY <2>3, <3>1, <1>0 DEF ReceiveUpstream, Abort, treeVars
    <3>2. CASE OrphanTargets(m.dst) # {}
      <4> PICK g \in OrphanTargets(m.dst) :
             /\ upstream' = [upstream EXCEPT ![g] = @ \cup {m.idx}]
             /\ valid' = [valid EXCEPT ![g] = TRUE]
        BY <2>3, <3>2 DEF ReceiveUpstream
      <4>1. g \in Elements /\ ~valid[g]
        BY DEF OrphanTargets, ElementsAt
      <4> QED BY <4>1 DEF UpstreamKept, TypeOK
    <3> QED BY <3>1, <3>2
  <2> QED BY <2>1, <2>2, <2>3
<1>2. CASE Startup
  <2>1. ASSUME NEW n \in Node, RegArray(n) PROVE UpstreamKept
    BY <2>1, <1>0 DEF RegArray, Abort, treeVars
  <2>2. ASSUME NEW n \in Node, StartupProcess(n) PROVE UpstreamKept
    BY <2>2, RegElementKeeps DEF StartupProcess
  <2> QED BY <1>2, <2>1, <2>2 DEF Startup
<1>3. CASE Counting
  BY <1>3, <1>0 DEF Counting, Reduce, DoneInserting, RecvCount, treeVars
<1>4. ASSUME NEW e \in Elements, ElementCreated(e) PROVE UpstreamKept
  <2>1. loc[e] \in Node
    BY DEF TypeOK
  <2> QED BY <1>4, <2>1, RegElementKeeps DEF ElementCreated
<1>5. CASE CallDone \/ BeginCallback
  BY <1>5, <1>0 DEF CallDone, BeginCallback, treeVars
<1>6. ASSUME NEW n \in Node, BeginInserting(n) PROVE UpstreamKept
  BY <1>6, <1>0 DEF BeginInserting, treeVars
<1>7. ASSUME NEW e \in Elements, ElementLeaving(e) PROVE UpstreamKept
  BY <1>7, <1>0 DEF ElementLeaving
<1>8. ASSUME NEW e \in Elements, NEW n \in Node, ElementArriving(e, n)
      PROVE  UpstreamKept
  BY <1>8, <1>0 DEF ElementArriving
<1>9. CASE UNCHANGED vars
  BY <1>9, <1>0 DEF vars, treeVars
<1> QED BY <1>1, <1>2, <1>3, <1>4, <1>5, <1>6, <1>7, <1>8, <1>9 DEF Next, Stay

\* An element that has found its place in the tree keeps it: construction never
\* re-parents an element and never gives the endpoint a parent.
THEOREM PlacesAreFinal == Spec => UpstreamStable
<1>1. TypeOK /\ MessageInv /\ [Next]_vars =>
        [\A e \in Elements : valid[e] => valid'[e] /\ upstream'[e] = upstream[e]]_vars
  BY StepKeeps DEF UpstreamKept
<1> QED BY <1>1, TypeCorrect, MessagesCorrect, PTL DEF Spec, UpstreamStable

-----------------------------------------------------------------------------
(***************************************************************************)
(* Sums.  The operator SumFunction of the community modules is the last    *)
(* value of a function that is defined by recursion on finite sets: that   *)
(* function exists, and a sum follows each change of one of its terms.     *)
(***************************************************************************)
\* A set of naturals that is not empty has a least member.
LEMMA LeastMember ==
  ASSUME NEW T \in SUBSET Nat, T # {}
  PROVE  \E i \in T : \A j \in T : i <= j
<1>1. PICK i \in T : \A j \in T : ~ (<<j, i>> \in OpToRel(<, Nat))
  BY NatLessThanWellFounded, WFMin
<1>2. OpToRel(<, Nat) = {ss \in Nat \X Nat : ss[1] < ss[2]}
  BY Zenon DEF OpToRel
<1>3. ASSUME NEW j \in T
      PROVE  i <= j
  <2>1. <<j, i>> \in Nat \X Nat /\ <<j, i>>[1] = j /\ <<j, i>>[2] = i
    OBVIOUS
  <2>2. ~ (j < i)
    BY <1>1, <1>2, <2>1
  <2>. QED
    BY <2>2
<1>. QED
  BY <1>3

\* Among subsets of a finite set there is one that none of the others is a
\* proper subset of: taking a member from it leaves their collection.
LEMMA SmallestSubset ==
  ASSUME NEW D, IsFiniteSet(D), NEW B \in SUBSET (SUBSET D), B # {}
  PROVE  \E s \in B : \A x \in s : s \ {x} \notin B
<1>. DEFINE T == {n \in Nat : \E s \in B : Cardinality(s) = n}
<1>1. \A s \in B : IsFiniteSet(s) /\ Cardinality(s) \in Nat
  BY FS_Subset, FS_CardinalityType
<1>2. T # {} /\ T \in SUBSET Nat
  BY <1>1
<1>3. PICK i \in T : \A j \in T : i <= j
  BY <1>2, LeastMember
<1>4. PICK s \in B : Cardinality(s) = i
  OBVIOUS
<1>5. ASSUME NEW x \in s, s \ {x} \in B
      PROVE  FALSE
  <2>1. Cardinality(s \ {x}) = Cardinality(s) - 1
    BY <1>1, FS_RemoveElement
  <2>2. Cardinality(s \ {x}) \in T
    BY <1>1, <1>5
  <2>. HIDE DEF T
  <2>3. i <= Cardinality(s \ {x})
    BY <1>3, <2>2
  <2>. QED
    BY <1>1, <1>4, <2>1, <2>3
<1>. QED
  BY <1>5

\* The sums over the subsets of D, as SumFunction builds them up.
First(s) == CHOOSE x \in s : TRUE

Summing(f, D, g) ==
  g = [s \in SUBSET D |-> IF s = {} THEN 0 ELSE f[First(s)] + g[s \ {First(s)}]]

Sums(f, D) == CHOOSE g : Summing(f, D, g)

LEMMA SumIsLast ==
  ASSUME NEW D, NEW f, DOMAIN f = D
  PROVE  SumFunction(f) = Sums(f, D)[D]
<1>1. SumFunctionOnSet(f, D) = Sums(f, D)[D]
  BY Zenon DEF SumFunctionOnSet, FoldFunctionOnSet, MapThenFoldSet, Sums, Summing, First
<1>. QED
  BY <1>1 DEF SumFunction

\* h sums f over the subsets of D that have at most n members.
SumsTo(f, D, n, h) ==
  /\ h \in [{s \in SUBSET D : Cardinality(s) <= n} -> Int]
  /\ \A s \in SUBSET D : Cardinality(s) <= n =>
       h[s] = IF s = {} THEN 0 ELSE f[First(s)] + h[s \ {First(s)}]

LEMMA FirstSmaller ==
  ASSUME NEW D, IsFiniteSet(D), NEW s \in SUBSET D, s # {}
  PROVE  /\ First(s) \in s /\ First(s) \in D
         /\ s \ {First(s)} \in SUBSET D
         /\ Cardinality(s) \in Nat /\ Cardinality(s) <= Cardinality(D)
         /\ Cardinality(s \ {First(s)}) = Cardinality(s) - 1
<1>1. First(s) \in s
  BY DEF First
<1>2. IsFiniteSet(s)
  BY FS_Subset
<1>. QED
  BY <1>1, <1>2, FS_Subset, FS_CardinalityType, FS_RemoveElement

LEMMA SumsStart ==
  ASSUME NEW D, IsFiniteSet(D), NEW f
  PROVE  \E h : SumsTo(f, D, 0, h)
<1>. DEFINE h == [s \in {s \in SUBSET D : Cardinality(s) <= 0} |-> 0]
<1>1. ASSUME NEW s \in SUBSET D, Cardinality(s) <= 0
      PROVE  s = {}
  <2>1. IsFiniteSet(s) /\ Cardinality(s) \in Nat
    BY FS_Subset, FS_CardinalityType
  <2>. QED
    BY <1>1, <2>1, FS_EmptySet
<1>2. h \in [{s \in SUBSET D : Cardinality(s) <= 0} -> Int]
  OBVIOUS
<1>3. \A s \in SUBSET D : Cardinality(s) <= 0 => h[s] = 0
  OBVIOUS
<1>. HIDE DEF h
<1>4. SumsTo(f, D, 0, h)
  BY <1>1, <1>2, <1>3 DEF SumsTo
<1>. QED
  BY <1>4

LEMMA SumsStep ==
  ASSUME NEW D, IsFiniteSet(D), NEW f \in [D -> Int], NEW n \in Nat,
         NEW h, SumsTo(f, D, n, h)
  PROVE  \E g : SumsTo(f, D, n + 1, g)
<1>. DEFINE Upto(k) == {s \in SUBSET D : Cardinality(s) <= k}
            g == [s \in Upto(n + 1) |->
                    IF s = {} THEN 0 ELSE f[First(s)] + h[s \ {First(s)}]]
<1>1. ASSUME NEW s \in SUBSET D, s # {}, Cardinality(s) <= n + 1
      PROVE  /\ s \ {First(s)} \in Upto(n)
             /\ First(s) \in D
             /\ h[s \ {First(s)}] \in Int
  <2>1. s \ {First(s)} \in Upto(n) /\ First(s) \in D
    BY <1>1, FirstSmaller
  <2>. QED
    BY <2>1 DEF SumsTo
<1>2. g \in [Upto(n + 1) -> Int]
  <2>1. ASSUME NEW s \in Upto(n + 1)
        PROVE  (IF s = {} THEN 0 ELSE f[First(s)] + h[s \ {First(s)}]) \in Int
    BY <1>1
  <2>. QED
    BY <2>1
<1>3. ASSUME NEW s \in Upto(n)
      PROVE  g[s] = h[s]
  <2>1. s \in Upto(n + 1)
    BY FirstSmaller, FS_EmptySet, FS_Subset, FS_CardinalityType
  <2>. QED
    BY <2>1 DEF SumsTo
<1>4. ASSUME NEW s \in SUBSET D, Cardinality(s) <= n + 1
      PROVE  g[s] = IF s = {} THEN 0 ELSE f[First(s)] + g[s \ {First(s)}]
  <2>1. g[s] = IF s = {} THEN 0 ELSE f[First(s)] + h[s \ {First(s)}]
    BY <1>4
  <2>. HIDE DEF g
  <2>. QED
    BY <1>1, <1>3, <1>4, <2>1
<1>. HIDE DEF g
<1>. QED
  BY <1>2, <1>4 DEF SumsTo

\* The sums exist.
LEMMA SumsExist ==
  ASSUME NEW D, IsFiniteSet(D), NEW f \in [D -> Int]
  PROVE  /\ Sums(f, D) \in [SUBSET D -> Int]
         /\ Sums(f, D)[{}] = 0
         /\ \A s \in SUBSET D : s # {} =>
              Sums(f, D)[s] = f[First(s)] + Sums(f, D)[s \ {First(s)}]
<1>. DEFINE T == {n \in Nat : ~ \E h : SumsTo(f, D, n, h)}
<1>1. T = {}
  <2>1. SUFFICES ASSUME T # {} PROVE FALSE
    OBVIOUS
  <2>2. PICK i \in T : \A j \in T : i <= j
    BY <2>1, LeastMember
  <2>3. i # 0
    BY SumsStart
  <2>4. i - 1 \in Nat /\ i - 1 \notin T
    BY <2>2, <2>3
  <2>5. PICK h : SumsTo(f, D, i - 1, h)
    BY <2>4
  <2>6. \E g : SumsTo(f, D, (i - 1) + 1, g)
    BY <2>4, <2>5, SumsStep
  <2>. QED
    BY <2>6
<1>2. Cardinality(D) \in Nat
  BY FS_CardinalityType
<1>3. PICK h : SumsTo(f, D, Cardinality(D), h)
  BY <1>1, <1>2
<1>4. \A s \in SUBSET D : Cardinality(s) <= Cardinality(D)
  BY FS_Subset
<1>5. h \in [SUBSET D -> Int]
  BY <1>3, <1>4 DEF SumsTo
<1>6. Summing(f, D, h)
  BY <1>3, <1>4, <1>5 DEF SumsTo, Summing
<1>7. Summing(f, D, Sums(f, D))
  BY <1>6 DEF Sums
<1>. DEFINE g == Sums(f, D)
<1>. HIDE DEF g
<1>8. g = [s \in SUBSET D |-> IF s = {} THEN 0 ELSE f[First(s)] + g[s \ {First(s)}]]
  BY <1>7 DEF Summing, g
<1>9. /\ g[{}] = 0
      /\ \A s \in SUBSET D : s # {} => g[s] = f[First(s)] + g[s \ {First(s)}]
  <2>1. {} \in SUBSET D
    OBVIOUS
  <2>. QED
    BY <1>8, <2>1
<1>10. \A s \in SUBSET D : g[s] \in Int
  <2>. DEFINE B == {s \in SUBSET D : g[s] \notin Int}
  <2>1. SUFFICES ASSUME B # {} PROVE FALSE
    OBVIOUS
  <2>2. PICK s \in B : \A x \in s : s \ {x} \notin B
    BY <2>1, SmallestSubset
  <2>3. s # {}
    BY <1>9
  <2>4. First(s) \in s /\ First(s) \in D
    BY <2>3, FirstSmaller
  <2>5. g[s \ {First(s)}] \in Int /\ f[First(s)] \in Int
    BY <2>2, <2>4
  <2>6. g[s] = f[First(s)] + g[s \ {First(s)}]
    BY <1>9, <2>3
  <2>. QED
    BY <2>5, <2>6
<1>11. g \in [SUBSET D -> Int]
  BY <1>8, <1>10
<1>. QED
  BY <1>9, <1>11 DEF g

\* Adding k to one of the values adds k to the sum.
LEMMA SumOfExcept ==
  ASSUME NEW D, IsFiniteSet(D), NEW f \in [D -> Int], NEW d \in D, NEW k \in Int
  PROVE  SumFunction([f EXCEPT ![d] = @ + k]) = SumFunction(f) + k
<1>. DEFINE e == [f EXCEPT ![d] = @ + k]
            g == Sums(f, D)
            h == Sums(e, D)
            B == {s \in SUBSET D : h[s] # g[s] + (IF d \in s THEN k ELSE 0)}
<1>1. e \in [D -> Int] /\ \A x \in D : e[x] = IF x = d THEN f[d] + k ELSE f[x]
  OBVIOUS
<1>. HIDE DEF e
<1>2. /\ g \in [SUBSET D -> Int] /\ g[{}] = 0
      /\ \A s \in SUBSET D : s # {} => g[s] = f[First(s)] + g[s \ {First(s)}]
  BY SumsExist
<1>3. /\ h \in [SUBSET D -> Int] /\ h[{}] = 0
      /\ \A s \in SUBSET D : s # {} => h[s] = e[First(s)] + h[s \ {First(s)}]
  BY <1>1, SumsExist
<1>. HIDE DEF g, h
<1>4. B = {}
  <2>1. SUFFICES ASSUME B # {} PROVE FALSE
    OBVIOUS
  <2>2. PICK s \in B : \A x \in s : s \ {x} \notin B
    BY <2>1, SmallestSubset
  <2>3. s # {}
    <3>1. h[{}] = g[{}] + 0
      BY <1>2, <1>3
    <3>. QED
      BY <3>1
  <2>. DEFINE x == First(s)
              t == s \ {x}
  <2>4. x \in s /\ x \in D /\ t \in SUBSET D /\ t \notin B
    BY <2>2, <2>3, FirstSmaller
  <2>5. g[s] = f[x] + g[t] /\ h[s] = e[x] + h[t]
    BY <1>2, <1>3, <2>3
  <2>6. d \in s <=> x = d \/ d \in t
    BY <2>4
  <2>7. x = d => d \notin t
    OBVIOUS
  <2>. HIDE DEF x, t
  <2>8. h[t] = g[t] + (IF d \in t THEN k ELSE 0)
    BY <2>4
  <2>9. g[t] \in Int /\ h[t] \in Int /\ f[x] \in Int /\ e[x] = IF x = d THEN f[d] + k ELSE f[x]
    BY <1>1, <1>2, <1>3, <2>4
  <2>10. h[s] = g[s] + (IF d \in s THEN k ELSE 0)
    BY <2>5, <2>6, <2>7, <2>8, <2>9
  <2>. QED
    BY <2>2, <2>10
<1>5. h[D] = g[D] + k
  BY <1>4
<1>6. SumFunction(f) = g[D] /\ SumFunction(e) = h[D]
  BY <1>1, SumIsLast DEF g, h
<1>. QED
  BY <1>5, <1>6 DEF e

\* The sum of zeros is zero.
LEMMA SumOfZeros ==
  ASSUME NEW D, IsFiniteSet(D), NEW f \in [D -> Int], \A x \in D : f[x] = 0
  PROVE  SumFunction(f) = 0
<1>. DEFINE g == Sums(f, D)
            B == {s \in SUBSET D : g[s] # 0}
<1>1. /\ g \in [SUBSET D -> Int] /\ g[{}] = 0
      /\ \A s \in SUBSET D : s # {} => g[s] = f[First(s)] + g[s \ {First(s)}]
  BY SumsExist
<1>. HIDE DEF g
<1>2. B = {}
  <2>1. SUFFICES ASSUME B # {} PROVE FALSE
    OBVIOUS
  <2>2. PICK s \in B : \A x \in s : s \ {x} \notin B
    BY <2>1, SmallestSubset
  <2>3. s # {}
    BY <1>1
  <2>4. First(s) \in s /\ First(s) \in D /\ s \ {First(s)} \in SUBSET D
    BY <2>3, FirstSmaller
  <2>5. g[s \ {First(s)}] = 0 /\ f[First(s)] = 0
    BY <2>2, <2>4
  <2>6. g[s] = f[First(s)] + g[s \ {First(s)}]
    BY <1>1, <2>3
  <2>. QED
    BY <2>5, <2>6
<1>3. SumFunction(f) = g[D]
  BY SumIsLast DEF g
<1>. QED
  BY <1>2, <1>3

-----------------------------------------------------------------------------
(***************************************************************************)
(* The counts.                                                             *)
(***************************************************************************)

\* What makes CountsBalance inductive: a node without an entry in arrays_ has
\* counted nothing, so that reg_array resets nothing; and a node has announced
\* the endpoint only if it knows it, so that it does not do so again.
BalanceInv ==
  /\ IsFiniteSet(msgs)
  /\ SumFunction(arrays) = Cardinality(msgs)
  /\ \A n \in Node \ present : arrays[n] = 0
  /\ \A m \in msgs : m.type = "reg_endpoint" => endpoints[m.src] # NoIndex

LEMMA NodesFinite == IsFiniteSet(Node)
BY TreeBuilderAssumption, FS_Interval DEF Node

\* reg_endpoint sends one message to each leaf of the node.
LEMMA EndpointMsgsCount ==
  ASSUME NEW n \in Node, NEW e
  PROVE  /\ IsFiniteSet(EndpointMsgs(n, e)) /\ IsFiniteSet(Leaves(n))
         /\ Cardinality(EndpointMsgs(n, e)) = Cardinality(Leaves(n))
         /\ Cardinality(Leaves(n)) \in Nat
<1>1. IsFiniteSet(Leaves(n))
  <2>1. IsFiniteSet({2 * n + 1} \cup {2 * n + 2})
    BY FS_Singleton, FS_AddElement
  <2>2. Leaves(n) \subseteq {2 * n + 1} \cup {2 * n + 2}
    BY DEF Leaves
  <2>. QED
    BY <2>1, <2>2, FS_Subset
<1>. DEFINE f == [l \in Leaves(n) |->
                    [type |-> "reg_endpoint", dst |-> l, src |-> n, idx |-> e, child |-> e]]
<1>2. \A l \in Leaves(n) : f[l].dst = l /\ f[l] \in EndpointMsgs(n, e)
  BY DEF EndpointMsgs
<1>3. \A m \in EndpointMsgs(n, e) : \E l \in Leaves(n) : f[l] = m
  BY DEF EndpointMsgs
<1>. HIDE DEF f
<1>4. f \in [Leaves(n) -> EndpointMsgs(n, e)]
  BY <1>2 DEF f
<1>5. f \in Bijection(Leaves(n), EndpointMsgs(n, e))
  BY <1>2, <1>3, <1>4 DEF Bijection, Injection, IsInjective, Surjection
<1>6. ExistsBijection(Leaves(n), EndpointMsgs(n, e))
  BY <1>5 DEF ExistsBijection
<1>. QED
  BY <1>1, <1>6, FS_Bijection, FS_CardinalityType

LEMMA CountOfFew ==
  /\ IsFiniteSet({}) /\ Cardinality({}) = 0
  /\ \A x : IsFiniteSet({x}) /\ Cardinality({x}) = 1
<1>1. IsFiniteSet({}) /\ Cardinality({}) = 0
  BY FS_EmptySet
<1>2. \A x : IsFiniteSet({x}) /\ Cardinality({x}) = 1
  BY FS_Singleton
<1>. QED
  BY <1>1, <1>2

\* A handler that consumes the messages C, produces the new messages P and
\* changes the count of its node accordingly keeps the balance.
Handled(n, C, P) ==
  /\ C \subseteq msgs /\ P \cap msgs = {}
  /\ msgs' = (msgs \ C) \cup P
  /\ arrays' = [arrays EXCEPT ![n] = @ + (Cardinality(P) - Cardinality(C))]
  /\ present \cup {n} \subseteq present'

LEMMA HandledBalance ==
  ASSUME TypeOK, BalanceInv, NEW n \in Node, NEW C, NEW P, IsFiniteSet(P),
         Handled(n, C, P)
  PROVE  /\ IsFiniteSet(msgs)' /\ SumFunction(arrays)' = Cardinality(msgs)'
         /\ \A k \in Node \ present' : arrays'[k] = 0
<1>1. /\ C \subseteq msgs /\ P \cap msgs = {} /\ msgs' = (msgs \ C) \cup P
      /\ arrays' = [arrays EXCEPT ![n] = @ + (Cardinality(P) - Cardinality(C))]
      /\ present \cup {n} \subseteq present'
      /\ IsFiniteSet(msgs) /\ IsFiniteSet(C)
      /\ arrays \in [Node -> Int]
  BY FS_Subset DEF Handled, BalanceInv, TypeOK
<1>. DEFINE k == Cardinality(P) - Cardinality(C)
<1>2. Cardinality(P) \in Nat /\ Cardinality(C) \in Nat /\ Cardinality(msgs) \in Nat /\ k \in Int
  BY <1>1, FS_CardinalityType
<1>3. IsFiniteSet(msgs \ C) /\ Cardinality(msgs \ C) = Cardinality(msgs) - Cardinality(C)
  <2>1. msgs \cap C = C
    BY <1>1
  <2>. QED
    BY <1>1, <2>1, FS_Difference
<1>4. /\ IsFiniteSet(msgs')
      /\ Cardinality(msgs') = Cardinality(msgs) - Cardinality(C) + Cardinality(P)
  <2>1. (msgs \ C) \cap P = {}
    BY <1>1
  <2>2. /\ IsFiniteSet((msgs \ C) \cup P)
        /\ Cardinality((msgs \ C) \cup P) =
             Cardinality(msgs \ C) + Cardinality(P) - Cardinality((msgs \ C) \cap P)
    BY <1>3, FS_Union
  <2>3. Cardinality((msgs \ C) \cap P) = 0
    BY <2>1, CountOfFew
  <2>. QED
    BY <1>1, <1>2, <1>3, <2>2, <2>3
<1>. HIDE DEF k
<1>5. SumFunction([arrays EXCEPT ![n] = @ + k]) = SumFunction(arrays) + k
  BY <1>1, <1>2, NodesFinite, SumOfExcept
<1>6. SumFunction(arrays') = SumFunction(arrays) + k
  BY <1>1, <1>5 DEF k
<1>7. \A l \in Node \ present' : arrays'[l] = 0
  BY <1>1 DEF BalanceInv
<1>. QED
  BY <1>2, <1>4, <1>6, <1>7 DEF BalanceInv, k

\* The one message an element's seeker has cannot be there already.
LEMMA NewMessage ==
  ASSUME MessageInv, NEW m \in msgs, m.type = "receive_downstream",
         NEW k, k.child = m.child, k # m
  PROVE  k \notin msgs
BY DEF MessageInv, SoleMessage

LEMMA SentByNode == \A n, e : \A m \in EndpointMsgs(n, e) : m.src = n
BY DEF EndpointMsgs

\* Where the node sends out the endpoint, no such message was there before.
LEMMA NewEndpoint ==
  ASSUME BalanceInv, NEW n \in Node, endpoints[n] = NoIndex, NEW e
  PROVE  EndpointMsgs(n, e) \cap msgs = {}
<1>1. \A m \in EndpointMsgs(n, e) : m.type = "reg_endpoint" /\ m.src = n
  BY DEF EndpointMsgs
<1>. QED
  BY <1>1 DEF BalanceInv

\* Steps that leave the counts and the messages alone.
LEMMA BalanceUnchanged ==
  ASSUME BalanceInv, UNCHANGED <<arrays, msgs, present, endpoints>>
  PROVE  BalanceInv'
BY DEF BalanceInv

LEMMA RegElementBalance ==
  ASSUME TypeOK, MessageInv, BalanceInv, NEW e \in Elements, NEW n \in Node,
         status[e] \in {"absent", "unlisted"}, RegElement(n, e)
  PROVE  BalanceInv'
<1>1. CASE SeekRemotely(n, e)
  <2>. DEFINE x == DownstreamMsg(Parent(n), n, e)
  <2>1. x.child = e /\ x.type = "receive_downstream"
    BY DEF DownstreamMsg
  <2>2. /\ msgs' = msgs \cup {x} /\ arrays' = [arrays EXCEPT ![n] = @ + 1]
        /\ present' = present \cup {n} /\ UNCHANGED endpoints
    BY <1>1 DEF SeekRemotely
  <2>. HIDE DEF x
  <2>3. x \notin msgs
    BY <2>1, FreshMessage
  <2>4. Cardinality({x}) - Cardinality({}) = 1 /\ IsFiniteSet({x})
    <3>1. IsFiniteSet({x}) /\ Cardinality({x}) = 1
      BY Zenon, CountOfFew
    <3>2. Cardinality({}) = 0
      BY CountOfFew
    <3>. QED
      BY <3>1, <3>2
  <2>5. Handled(n, {}, {x})
    BY <2>2, <2>3, <2>4 DEF Handled
  <2>6. \A m \in msgs' : m.type = "reg_endpoint" => endpoints'[m.src] # NoIndex
    BY <2>1, <2>2 DEF BalanceInv
  <2>. QED
    BY <2>4, <2>5, <2>6, HandledBalance DEF BalanceInv
<1>2. CASE BecomeEndpoint(n, e)
  <2>. DEFINE P == EndpointMsgs(n, e)
  <2>1. /\ msgs' = msgs \cup P /\ present' = present \cup {n}
        /\ arrays' = [arrays EXCEPT ![n] = @ + EndpointQd(n) + 1]
        /\ endpoints' = [endpoints EXCEPT ![n] = e] /\ endpoints[n] = NoIndex
    BY <1>2 DEF BecomeEndpoint
  <2>2. /\ IsFiniteSet(P) /\ Cardinality(P) = Cardinality(Leaves(n))
        /\ Cardinality(Leaves(n)) \in Nat /\ P \cap msgs = {}
        /\ \A m \in P : m.src = n
    BY <2>1, EndpointMsgsCount, NewEndpoint, SentByNode
  <2>. HIDE DEF P
  <2>3. Cardinality(P) - Cardinality({}) = EndpointQd(n) + 1
    BY <2>2, CountOfFew DEF EndpointQd
  <2>4. arrays[n] + EndpointQd(n) + 1 = arrays[n] + (Cardinality(P) - Cardinality({}))
    BY <2>2, CountOfFew DEF TypeOK, EndpointQd
  <2>5. Handled(n, {}, P)
    BY <2>1, <2>2, <2>4 DEF Handled
  <2>6. \A m \in msgs' : m.type = "reg_endpoint" => endpoints'[m.src] # NoIndex
    BY <2>1, <2>2, TreeBuilderAssumption DEF BalanceInv, TypeOK
  <2>. QED
    BY <2>2, <2>5, <2>6, HandledBalance DEF BalanceInv
<1>3. CASE UNCHANGED <<arrays, msgs, present, endpoints>>
  BY <1>3, BalanceUnchanged
<1>. QED
  BY <1>1, <1>2, <1>3 DEF RegElement, AdoptLocally, Abort, nodeVars

LEMMA RegEndpointBalance ==
  ASSUME TypeOK, BalanceInv, NEW m \in msgs, NEW n, n = m.dst,
         endpoints[n] = NoIndex,
         endpoints' = [endpoints EXCEPT ![n] = m.idx],
         msgs' = (msgs \ {m}) \cup EndpointMsgs(n, m.idx),
         arrays' = [arrays EXCEPT ![n] = @ + EndpointQd(n)],
         present' = present \cup {n}
  PROVE  BalanceInv'
<1>. DEFINE P == EndpointMsgs(n, m.idx)
<1>1. m \in Message /\ n \in Node /\ m.idx \in Elements
  BY DEF TypeOK, Message
<1>2. /\ IsFiniteSet(P) /\ Cardinality(P) = Cardinality(Leaves(n))
      /\ Cardinality(Leaves(n)) \in Nat /\ P \cap msgs = {} /\ \A k \in P : k.src = n
  BY <1>1, EndpointMsgsCount, NewEndpoint, SentByNode
<1>. HIDE DEF P
<1>3. Cardinality(P) - Cardinality({m}) = EndpointQd(n)
  BY <1>2, CountOfFew DEF EndpointQd
<1>4. Handled(n, {m}, P)
  BY <1>2, <1>3 DEF Handled, P
<1>5. \A k \in msgs' : k.type = "reg_endpoint" => endpoints'[k.src] # NoIndex
  BY <1>1, <1>2, TreeBuilderAssumption DEF BalanceInv, TypeOK, P
<1>. QED
  BY <1>1, <1>2, <1>4, <1>5, HandledBalance DEF BalanceInv

\* A request that is replaced by another message about its element.
LEMMA ReplyBalance ==
  ASSUME TypeOK, MessageInv, BalanceInv, NEW m \in msgs, NEW x,
         m.type = "receive_downstream", x.child = m.child, x # m,
         x.type # "reg_endpoint",
         msgs' = (msgs \ {m}) \cup {x}, present \subseteq present',
         UNCHANGED <<arrays, endpoints>>
  PROVE  BalanceInv'
<1>1. x \notin msgs
  BY NewMessage
<1>2. /\ IsFiniteSet(msgs') /\ Cardinality(msgs') = Cardinality(msgs)
  <2>1. IsFiniteSet(msgs \ {m}) /\ Cardinality(msgs \ {m}) = Cardinality(msgs) - 1
    BY FS_RemoveElement DEF BalanceInv
  <2>2. Cardinality(msgs) \in Nat
    BY FS_CardinalityType DEF BalanceInv
  <2>3. /\ IsFiniteSet((msgs \ {m}) \cup {x})
        /\ Cardinality((msgs \ {m}) \cup {x}) =
             IF x \in msgs \ {m} THEN Cardinality(msgs \ {m}) ELSE Cardinality(msgs \ {m}) + 1
    BY <2>1, FS_AddElement
  <2>. QED
    BY <1>1, <2>1, <2>2, <2>3
<1>. QED
  BY <1>2 DEF BalanceInv

LEMMA DeliverBalance ==
  ASSUME TypeOK, MessageInv, BalanceInv, Deliver
  PROVE  BalanceInv'
<1>. PICK m \in msgs : RegEndpoint(m) \/ ReceiveDownstream(m) \/ ReceiveUpstream(m)
  BY DEF Deliver
<1>. DEFINE n == m.dst
<1>m. m \in Message /\ n \in Node /\ m.src \in Node /\ m.idx \in Elements
  BY DEF TypeOK, Message
<1>0. CASE UNCHANGED <<arrays, msgs, present, endpoints>>
  BY <1>0, BalanceUnchanged
<1>1. CASE RegEndpoint(m)
  BY <1>0, <1>1, RegEndpointBalance DEF RegEndpoint, Abort, nodeVars
<1>2. CASE ReceiveDownstream(m)
  <2>1. m.type = "receive_downstream" /\ m.child = m.idx
    BY <1>2 DEF ReceiveDownstream, MessageInv
  <2>2. CASE AdoptRemote(m) /\ UNCHANGED <<registered, inserting, status, loc, valid, upstream,
                                           countVars, moves, aborted>>
    <3>1. PICK t \in FewestTargets(n) : msgs' = (msgs \ {m}) \cup {UpstreamMsg(m.src, n, t, m.idx)}
      BY <2>2 DEF AdoptRemote
    <3>. DEFINE x == UpstreamMsg(m.src, n, t, m.idx)
    <3>2. x.type = "receive_upstream" /\ x.child = m.child
      BY <2>1 DEF UpstreamMsg
    <3>3. UNCHANGED <<present, endpoints, arrays>>
      BY <2>2 DEF AdoptRemote
    <3>. HIDE DEF x
    <3>4. msgs' = (msgs \ {m}) \cup {x} /\ x # m
      BY <2>1, <3>1, <3>2 DEF x
    <3>. QED
      BY <2>1, <3>2, <3>3, <3>4, ReplyBalance
  <2>3. CASE PassUp(m)
    <3>. DEFINE x == DownstreamMsg(Parent(n), m.src, m.idx)
    <3>1. x.type = "receive_downstream" /\ x.child = m.child /\ x.dst = Parent(n)
      BY <2>1 DEF DownstreamMsg
    <3>2. Parent(n) # n
      BY <1>m, <2>3 DEF PassUp, Parent, Node, Root
    <3>3. /\ msgs' = (msgs \ {m}) \cup {x} /\ present \subseteq present'
          /\ UNCHANGED <<arrays, endpoints>>
      BY <2>3 DEF PassUp
    <3>. HIDE DEF x
    <3>4. x # m
      BY <3>1, <3>2
    <3>. QED
      BY <2>1, <3>1, <3>3, <3>4, ReplyBalance
  <2>4. CASE CrownRemote(m)
    BY <2>4, RegEndpointBalance DEF CrownRemote
  <2>. QED
    BY <1>0, <1>2, <2>2, <2>3, <2>4 DEF ReceiveDownstream, Abort, nodeVars
<1>3. CASE ReceiveUpstream(m)
  <2>1. CASE /\ msgs' = msgs \ {m} /\ arrays' = [arrays EXCEPT ![n] = @ - 1]
             /\ present' = present \cup {n} /\ UNCHANGED endpoints
    <3>1. arrays[n] - 1 = arrays[n] + (Cardinality({}) - Cardinality({m}))
      <4>1. Cardinality({}) = 0 /\ Cardinality({m}) = 1
        BY CountOfFew
      <4>2. arrays[n] \in Int
        BY <1>m DEF TypeOK
      <4>. HIDE DEF n
      <4>. QED
        BY <4>1, <4>2
    <3>2. Handled(n, {m}, {})
      BY <2>1, <3>1 DEF Handled
    <3>3. \A k \in msgs' : k.type = "reg_endpoint" => endpoints'[k.src] # NoIndex
      BY <2>1 DEF BalanceInv
    <3>. QED
      BY <1>m, <3>2, <3>3, FS_EmptySet, HandledBalance DEF BalanceInv
  <2>. QED
    BY <1>0, <1>3, <2>1 DEF ReceiveUpstream, Abort, nodeVars
<1>. QED
  BY <1>1, <1>2, <1>3

\* Every step keeps the balance.
LEMMA StepBalance ==
  ASSUME TypeOK, MessageInv, BalanceInv, [Next]_vars
  PROVE  BalanceInv'
<1>0. CASE UNCHANGED <<arrays, msgs, present, endpoints>>
  BY <1>0, BalanceUnchanged
<1>1. CASE Deliver
  BY <1>1, DeliverBalance
<1>2. CASE Startup
  <2>1. ASSUME NEW n \in Node, RegArray(n) PROVE BalanceInv'
    <3>1. CASE n \notin present
      <4>1. /\ arrays' = [arrays EXCEPT ![n] = 0] /\ arrays[n] = 0
            /\ present' = present \cup {n} /\ UNCHANGED <<msgs, endpoints>>
        BY <2>1, <3>1 DEF RegArray, BalanceInv
      <4>2. arrays' = arrays
        BY <4>1 DEF TypeOK
      <4>. QED
        BY <4>1, <4>2 DEF BalanceInv
    <3>. QED
      BY <1>0, <2>1, <3>1 DEF RegArray, Abort, nodeVars
  <2>2. ASSUME NEW n \in Node, StartupProcess(n) PROVE BalanceInv'
    BY <2>2, RegElementBalance DEF StartupProcess
  <2>. QED
    BY <1>2, <2>1, <2>2 DEF Startup
<1>3. CASE Counting
  BY <1>0, <1>3 DEF Counting, Reduce, DoneInserting, RecvCount, nodeVars
<1>4. ASSUME NEW e \in Elements, ElementCreated(e) PROVE BalanceInv'
  <2>1. loc[e] \in Node
    BY DEF TypeOK
  <2>. QED
    BY <1>4, <2>1, RegElementBalance DEF ElementCreated
<1>5. CASE CallDone \/ BeginCallback
  BY <1>0, <1>5 DEF CallDone, BeginCallback, nodeVars
<1>6. ASSUME NEW n \in Node, BeginInserting(n) PROVE BalanceInv'
  BY <1>0, <1>6 DEF BeginInserting
<1>7. ASSUME NEW e \in Elements, ElementLeaving(e) PROVE BalanceInv'
  BY <1>0, <1>7 DEF ElementLeaving, nodeVars
<1>8. ASSUME NEW e \in Elements, NEW n \in Node, ElementArriving(e, n) PROVE BalanceInv'
  BY <1>0, <1>8 DEF ElementArriving, nodeVars
<1>9. CASE UNCHANGED vars
  BY <1>0, <1>9 DEF vars, nodeVars
<1>. QED
  BY <1>1, <1>2, <1>3, <1>4, <1>5, <1>6, <1>7, <1>8, <1>9 DEF Next, Stay

\* The counts of the nodes always add up to the number of messages in flight,
\* whatever the placement, the build, the order of delivery and the migrations:
\* the sum that done_inserting's reduction is after is the right one, and it is
\* only the instants at which the nodes contribute that can make it wrong.
THEOREM CountsCorrect == Spec => []CountsBalance
<1>1. Init => BalanceInv
  <2>. SUFFICES ASSUME Init PROVE BalanceInv
    OBVIOUS
  <2>1. arrays \in [Node -> Int] /\ \A n \in Node : arrays[n] = 0
    BY DEF Init
  <2>2. SumFunction(arrays) = 0
    BY <2>1, NodesFinite, SumOfZeros
  <2>. QED
    BY <2>1, <2>2, CountOfFew DEF Init, BalanceInv
<1>2. TypeOK /\ MessageInv /\ BalanceInv /\ [Next]_vars => BalanceInv'
  BY StepBalance
<1>3. BalanceInv => CountsBalance
  BY DEF BalanceInv, CountsBalance
<1>. QED
  BY <1>1, <1>2, <1>3, TypeCorrect, MessagesCorrect, PTL DEF Spec

-----------------------------------------------------------------------------
(***************************************************************************)
(* The spanning tree.                                                      *)
(***************************************************************************)
\* The endpoint is made known from each node to its leaves, and all nodes that
\* know one know the same.
EndpointsSpread ==
  /\ \A n \in Node : endpoints[n] # NoIndex => endpoints[n] = endpoints[Root]
  /\ \A m \in msgs : m.type = "reg_endpoint" =>
       /\ m.idx = endpoints[Root] /\ m.dst # Root /\ endpoints[m.dst] = NoIndex
       /\ m.src = Parent(m.dst) /\ endpoints[m.src] # NoIndex
  /\ \A n \in Node \ {Root} :
       IF endpoints[Parent(n)] = NoIndex THEN endpoints[n] = NoIndex
       ELSE endpoints[n] # NoIndex \/ \E m \in msgs : m.type = "reg_endpoint" /\ m.dst = n
  /\ endpoints[Root] # NoIndex => status[endpoints[Root]] \in {"registered", "moving"}

\* An orphan is the subject of a message, or is the endpoint and its own node
\* does not know yet; the others have a parent or are the endpoint.
OrphansAwait ==
  /\ \A e \in Elements : Orphan(e) =>
       \/ \E m \in msgs : m.type # "reg_endpoint" /\ m.child = e
       \/ e = endpoints[Root] /\ endpoints[loc[e]] = NoIndex
  /\ \A e \in Elements : valid[e] => upstream[e] # {} \/ e = endpoints[Root]

\* Parents are elements that are there.
ParentsLive ==
  \A e, t \in Elements : e \in downstream[t] => status[t] \in {"registered", "moving"}

\* Requests go to nodes with smaller numbers.
Climbing == \A m \in msgs : m.type = "receive_downstream" => m.dst < m.src

\* No set of elements is only below itself.
Acyclic ==
  \A S \in SUBSET Elements : S # {} => \E e \in S : \A t \in S : e \notin downstream[t]

\* A parent is on the node of its child or on one with a smaller number, apart
\* from the elements of A, which had their places when the last one left.
Anchored(A) ==
  /\ \A e \in A : valid[e]
  /\ \A e \in Elements : status[e] = "moving" => e \in A
  /\ \A e, t \in Elements : e \in downstream[t] =>
       \/ t \in A
       \/ e \notin A /\ loc[t] <= loc[e]

SpanningInv ==
  /\ EndpointsSpread /\ OrphansAwait /\ ParentsLive /\ Climbing /\ Acyclic
  /\ \E A \in SUBSET Elements : Anchored(A)

spanVars == <<linkVars, endpoints>>

LEMMA SpanUnchanged == SpanningInv /\ UNCHANGED spanVars => SpanningInv'
<1>. SUFFICES ASSUME SpanningInv, UNCHANGED spanVars PROVE SpanningInv'
  OBVIOUS
<1>1. EndpointsSpread' /\ OrphansAwait' /\ ParentsLive' /\ Climbing' /\ Acyclic'
  BY DEF SpanningInv, EndpointsSpread, OrphansAwait, ParentsLive, Climbing, Acyclic, Orphan,
         spanVars, linkVars
<1>2. \A A : Anchored(A) => Anchored(A)'
  BY DEF Anchored, spanVars, linkVars
<1>. QED
  BY <1>1, <1>2 DEF SpanningInv

LEMMA RootIsNode == Root \in Node
BY TreeBuilderAssumption DEF Node, Root

LEMMA LeafParent ==
  \A n, l \in Node : l \in Leaves(n) <=> l # Root /\ Parent(l) = n
BY TreeBuilderAssumption DEF Node, Leaves, Parent, Root

LEMMA ParentSmaller ==
  \A n \in Node : n # Root => Parent(n) < n /\ Parent(n) \in Node
BY TreeBuilderAssumption DEF Node, Parent, Root

\* The node n learns of the endpoint e and tells its leaves.
LEMMA EndpointKnown ==
  ASSUME TypeOK, EndpointsSpread, NEW n \in Node, NEW e \in Elements, NEW C,
         endpoints[n] = NoIndex,
         n = Root \/ (e = endpoints[Root] /\ endpoints[Parent(n)] # NoIndex),
         \A m \in msgs : m.type = "reg_endpoint" => (m \in C <=> m.dst = n),
         endpoints' = [endpoints EXCEPT ![n] = e],
         msgs' = (msgs \ C) \cup EndpointMsgs(n, e),
         status'[e] \in {"registered", "moving"}
  PROVE  EndpointsSpread'
<1>1. /\ endpoints \in [Node -> Elements \cup {NoIndex}] /\ NoIndex \notin Elements /\ Root \in Node
      /\ \A m \in msgs : m.dst \in Node
  BY RootIsNode, TreeBuilderAssumption DEF TypeOK, Message
<1>2. endpoints'[Root] = e
  BY <1>1
<1>3. \A k \in Node : k # n => endpoints'[k] = endpoints[k]
  BY <1>1
<1>4. endpoints'[n] = e
  BY <1>1
<1>5. \A k \in Node : endpoints[k] # NoIndex => endpoints[k] = endpoints[Root]
  BY DEF EndpointsSpread
<1>6. \A k \in Node : endpoints'[k] # NoIndex => endpoints'[k] = endpoints'[Root]
  BY <1>1, <1>2, <1>3, <1>4, <1>5
<1>7. ASSUME NEW m \in msgs', m.type = "reg_endpoint"
      PROVE  /\ m.idx = endpoints'[Root] /\ m.dst # Root /\ endpoints'[m.dst] = NoIndex
             /\ m.src = Parent(m.dst) /\ endpoints'[m.src] # NoIndex
  <2>1. CASE m \in msgs \ C
    <3>1. /\ m.dst # n /\ m.idx = endpoints[Root] /\ m.dst # Root /\ endpoints[m.dst] = NoIndex
          /\ m.src = Parent(m.dst) /\ endpoints[m.src] # NoIndex
      BY <1>7, <2>1 DEF EndpointsSpread
    <3>2. n # Root
      <4>1. endpoints[Root] # NoIndex
        BY <1>1, <2>1, <3>1 DEF TypeOK, Message
      <4>. QED
        BY <4>1
    <3>3. m.src \in Node /\ m.src # n
      BY <2>1, <3>1 DEF TypeOK, Message
    <3>. QED
      BY <1>1, <1>2, <1>3, <2>1, <3>1, <3>2, <3>3
  <2>2. CASE m \in EndpointMsgs(n, e)
    <3>1. m.idx = e /\ m.dst \in Leaves(n) /\ m.src = n
      BY <2>2 DEF EndpointMsgs
    <3>2. m.dst \in Node /\ m.dst # Root /\ Parent(m.dst) = n
      BY <3>1, LeafParent DEF Leaves
    <3>3. m.dst # n
      BY <3>2, ParentSmaller DEF Node
    <3>4. endpoints[m.dst] = NoIndex
      BY <3>2 DEF EndpointsSpread
    <3>. QED
      BY <1>1, <1>2, <1>3, <1>4, <3>1, <3>2, <3>3, <3>4
  <2>. QED
    BY <2>1, <2>2
<1>8. ASSUME NEW k \in Node \ {Root}
      PROVE  IF endpoints'[Parent(k)] = NoIndex THEN endpoints'[k] = NoIndex
             ELSE endpoints'[k] # NoIndex \/ \E m \in msgs' : m.type = "reg_endpoint" /\ m.dst = k
  <2>1. Parent(k) \in Node /\ Parent(k) # k
    BY ParentSmaller DEF Node
  <2>2. IF endpoints[Parent(k)] = NoIndex THEN endpoints[k] = NoIndex
             ELSE endpoints[k] # NoIndex \/ \E m \in msgs : m.type = "reg_endpoint" /\ m.dst = k
    BY DEF EndpointsSpread
  <2>3. CASE k = n
    <3>1. endpoints'[k] # NoIndex /\ endpoints'[Parent(k)] # NoIndex
      BY <1>1, <1>3, <1>4, <2>1, <2>3
    <3>. QED
      BY <3>1
  <2>4. CASE Parent(k) = n
    <3>. DEFINE m == [type |-> "reg_endpoint", dst |-> k, src |-> n, idx |-> e, child |-> e]
    <3>1. k \in Leaves(n)
      BY <2>4, LeafParent
    <3>2. m \in EndpointMsgs(n, e)
      BY <3>1 DEF EndpointMsgs
    <3>3. m.type = "reg_endpoint" /\ m.dst = k /\ m \in msgs'
      BY <3>2
    <3>4. endpoints'[Parent(k)] # NoIndex
      BY <1>1, <1>4, <2>4
    <3>. QED
      BY <3>3, <3>4
  <2>5. CASE k # n /\ Parent(k) # n
    <3>1. endpoints'[k] = endpoints[k] /\ endpoints'[Parent(k)] = endpoints[Parent(k)]
      BY <1>3, <2>1, <2>5
    <3>2. \A m \in msgs : m.type = "reg_endpoint" /\ m.dst = k => m \in msgs'
      BY <2>5
    <3>. QED
      BY <2>2, <3>1, <3>2
  <2>. QED
    BY <2>3, <2>4, <2>5
<1>9. endpoints'[Root] # NoIndex => status'[endpoints'[Root]] \in {"registered", "moving"}
  BY <1>2
<1>. QED
  BY <1>6, <1>7, <1>8, <1>9 DEF EndpointsSpread

\* A fresh element that is adopted on its own node.
LEMMA AdoptLocallySpans ==
  ASSUME TypeOK, ConstructionInv, SpanningInv, NEW n \in Node, NEW e \in Elements,
         status[e] \in {"absent", "unlisted"}, loc[e] = n,
         AdoptLocally(n, e), UNCHANGED loc
  PROVE  SpanningInv'
<1>. PICK t \in FewestTargets(n) :
         /\ downstream' = [downstream EXCEPT ![t] = @ \cup {e}]
         /\ upstream' = [upstream EXCEPT ![e] = @ \cup {t}]
  BY DEF AdoptLocally
<1>t. t \in Elements /\ status[t] = "registered" /\ loc[t] = n /\ t # e
  BY DEF FewestTargets, ElementsAt
<1>f. /\ ~valid[e] /\ upstream[e] = {} /\ ~Orphan(e)
      /\ \A m \in msgs : m.child # e
      /\ \A u \in Elements : e \notin downstream[u]
  BY FreshElement
<1>s. /\ status' = [status EXCEPT ![e] = "registered"]
      /\ valid' = [valid EXCEPT ![e] = TRUE]
      /\ UNCHANGED <<msgs, loc, endpoints>>
  BY DEF AdoptLocally
<1>o. \A g \in Elements : Orphan(g)' <=> Orphan(g)
  BY <1>s, <1>f DEF TypeOK, Orphan
<1>d. \A x, y \in Elements : x \in downstream'[y] <=> x \in downstream[y] \/ (x = e /\ y = t)
  BY <1>t DEF TypeOK
<1>l. downstream[e] = {}
  BY DEF SpanningInv, ParentsLive, TypeOK
<1>r. \A g \in Elements : status[g] \in {"registered", "moving"} => g # e /\ status'[g] = status[g]
  BY <1>s DEF TypeOK
<1>1. EndpointsSpread'
  BY <1>s, <1>r, RootIsNode DEF SpanningInv, EndpointsSpread, TypeOK
<1>2. OrphansAwait'
  <2>1. \A g \in Elements : valid'[g] => g = e \/ valid[g]
    BY <1>s DEF TypeOK
  <2>2. upstream'[e] # {} /\ \A g \in Elements : g # e => upstream'[g] = upstream[g]
    BY DEF TypeOK
  <2>. QED
    BY <1>s, <1>o, <2>1, <2>2 DEF SpanningInv, OrphansAwait
<1>3. ParentsLive'
  BY <1>d, <1>r, <1>t DEF SpanningInv, ParentsLive
<1>4. Climbing'
  BY <1>s DEF SpanningInv, Climbing
<1>5. Acyclic'
  <2>. SUFFICES ASSUME NEW S \in SUBSET Elements, \A x \in S : \E y \in S : x \in downstream'[y]
                PROVE  S = {}
    BY DEF Acyclic
  <2>1. \A x \in S \ {e} : \E y \in S \ {e} : x \in downstream[y]
    BY <1>d, <1>l
  <2>2. S \ {e} = {}
    BY <2>1 DEF SpanningInv, Acyclic
  <2>3. e \in S => t \in S
    BY <1>d, <1>f
  <2>. QED
    BY <1>t, <2>2, <2>3
<1>6. PICK A \in SUBSET Elements : Anchored(A)
  BY DEF SpanningInv
<1>7. Anchored(A)'
  <2>1. e \notin A /\ \A x, y \in Elements : x \in downstream[y] =>
          \/ y \in A
          \/ x \notin A /\ loc[y] <= loc[x]
    BY <1>f, <1>6 DEF Anchored
  <2>2. loc[t] <= loc[e]
    BY <1>t DEF Node
  <2>3. /\ \A x \in A : valid'[x]
        /\ \A x \in Elements : status'[x] = "moving" => x \in A
    BY <1>s, <1>6 DEF Anchored, TypeOK
  <2>. QED
    BY <1>d, <1>s, <2>1, <2>2, <2>3 DEF Anchored
<1>. QED
  BY <1>1, <1>2, <1>3, <1>4, <1>5, <1>7 DEF SpanningInv

\* A fresh element that seeks its parent on other nodes.
LEMMA SeekRemotelySpans ==
  ASSUME TypeOK, ConstructionInv, SpanningInv, NEW n \in Node, NEW e \in Elements,
         status[e] \in {"absent", "unlisted"}, SeekRemotely(n, e), UNCHANGED loc
  PROVE  SpanningInv'
<1>. DEFINE req == DownstreamMsg(Parent(n), n, e)
<1>f. /\ ~valid[e] /\ upstream[e] = {} /\ ~Orphan(e)
      /\ \A m \in msgs : m.child # e
      /\ \A u \in Elements : e \notin downstream[u]
  BY FreshElement
<1>s. /\ status' = [status EXCEPT ![e] = "registered"]
      /\ msgs' = msgs \cup {req}
      /\ UNCHANGED <<valid, upstream, downstream, loc, endpoints>>
  BY DEF SeekRemotely
<1>q. req.type = "receive_downstream" /\ req.child = e /\ req.dst < req.src
  BY ParentSmaller DEF DownstreamMsg, SeekRemotely
<1>. HIDE DEF req
<1>o. \A g \in Elements : Orphan(g)' => Orphan(g) \/ g = e
  BY <1>s, <1>f DEF TypeOK, Orphan
<1>r. \A g \in Elements : status[g] \in {"registered", "moving"} => status'[g] = status[g]
  BY <1>s DEF TypeOK
<1>1. EndpointsSpread'
  BY <1>s, <1>r, <1>q, RootIsNode DEF SpanningInv, EndpointsSpread, TypeOK
<1>2. OrphansAwait'
  BY <1>s, <1>o, <1>q DEF SpanningInv, OrphansAwait
<1>3. ParentsLive'
  BY <1>s, <1>r DEF SpanningInv, ParentsLive
<1>4. Climbing'
  BY <1>s, <1>q DEF SpanningInv, Climbing
<1>5. Acyclic'
  BY <1>s DEF SpanningInv, Acyclic
<1>6. \A A : Anchored(A) => Anchored(A)'
  BY <1>s DEF Anchored, TypeOK
<1>. QED
  BY <1>1, <1>2, <1>3, <1>4, <1>5, <1>6 DEF SpanningInv

\* A fresh element that becomes the endpoint.
LEMMA BecomeEndpointSpans ==
  ASSUME TypeOK, ConstructionInv, SpanningInv, NEW n \in Node, NEW e \in Elements,
         status[e] \in {"absent", "unlisted"}, BecomeEndpoint(n, e), UNCHANGED loc
  PROVE  SpanningInv'
<1>f. /\ ~valid[e] /\ upstream[e] = {} /\ ~Orphan(e)
      /\ \A m \in msgs : m.child # e
      /\ \A u \in Elements : e \notin downstream[u]
  BY FreshElement
<1>s. /\ n = Root /\ endpoints[n] = NoIndex
      /\ status' = [status EXCEPT ![e] = "registered"]
      /\ valid' = [valid EXCEPT ![e] = TRUE]
      /\ endpoints' = [endpoints EXCEPT ![n] = e]
      /\ msgs' = msgs \cup EndpointMsgs(n, e)
      /\ UNCHANGED <<upstream, downstream, loc>>
  BY DEF BecomeEndpoint
<1>o. \A g \in Elements : Orphan(g)' => Orphan(g)
  BY <1>s, <1>f DEF TypeOK, Orphan
<1>r. \A g \in Elements : status[g] \in {"registered", "moving"} => status'[g] = status[g]
  BY <1>s DEF TypeOK
<1>1. EndpointsSpread'
  <2>1. \A m \in msgs : m.type = "reg_endpoint" => m.dst # n
    BY <1>s DEF SpanningInv, EndpointsSpread
  <2>. DEFINE C == {}
  <2>2. msgs' = (msgs \ C) \cup EndpointMsgs(n, e)
    BY <1>s
  <2>3. \A m \in msgs : m.type = "reg_endpoint" => (m \in C <=> m.dst = n)
    BY <2>1
  <2>4. status'[e] \in {"registered", "moving"}
    BY <1>s DEF TypeOK
  <2>5. EndpointsSpread
    BY DEF SpanningInv
  <2>. HIDE DEF C
  <2>. QED
    BY <1>s, <2>2, <2>3, <2>4, <2>5, EndpointKnown
<1>2. OrphansAwait'
  <2>1. \A g \in Elements : valid'[g] => g = e \/ valid[g]
    BY <1>s DEF TypeOK
  <2>2. endpoints'[Root] = e
    BY <1>s DEF TypeOK
  <2>3. NoIndex \notin Elements
    BY TreeBuilderAssumption
  <2>4. \A g \in Elements : Orphan(g) => \E m \in msgs' : m.type # "reg_endpoint" /\ m.child = g
    BY <1>s, <2>3 DEF SpanningInv, OrphansAwait
  <2>5. \A g \in Elements : valid[g] => upstream[g] # {}
    BY <1>s, <2>3 DEF SpanningInv, OrphansAwait
  <2>. QED
    BY <1>s, <1>o, <2>1, <2>2, <2>4, <2>5 DEF OrphansAwait
<1>3. ParentsLive'
  BY <1>s, <1>r DEF SpanningInv, ParentsLive
<1>4. Climbing'
  BY <1>s, EndpointMsgsFacts DEF SpanningInv, Climbing
<1>5. Acyclic'
  BY <1>s DEF SpanningInv, Acyclic
<1>6. \A A : Anchored(A) => Anchored(A)'
  BY <1>s DEF Anchored, TypeOK
<1>. QED
  BY <1>1, <1>2, <1>3, <1>4, <1>5, <1>6 DEF SpanningInv

\* An answer or a further request takes the place of a request.
LEMMA ReceiveDownstreamSpans ==
  ASSUME TypeOK, ConstructionInv, SpanningInv, NEW m \in msgs, m.type = "receive_downstream",
         AdoptRemote(m) \/ PassUp(m) \/ CrownRemote(m),
         UNCHANGED <<status, loc, valid, upstream>>
  PROVE  SpanningInv'
<1>. DEFINE e == m.idx
            n == m.dst
<1>m. n \in Node /\ m.src \in Node /\ e \in Elements /\ m.child \in Elements
  BY DEF TypeOK, Message
<1>w. /\ m.child = e /\ Orphan(e) /\ loc[e] = m.src /\ n < m.src
      /\ \A t \in Elements : e \notin downstream[t]
  BY <1>m DEF ConstructionInv, SeekersWait, SpanningInv, Climbing
<1>. HIDE DEF e, n
<1>o. \A g \in Elements : Orphan(g)' <=> Orphan(g)
  BY DEF Orphan
<1>1. CASE AdoptRemote(m)
  <2>. PICK t \in FewestTargets(n) :
           /\ downstream' = [downstream EXCEPT ![t] = @ \cup {e}]
           /\ msgs' = (msgs \ {m}) \cup {UpstreamMsg(m.src, n, t, e)}
    BY <1>1 DEF AdoptRemote, e, n
  <2>. DEFINE ans == UpstreamMsg(m.src, n, t, e)
  <2>t. t \in Elements /\ status[t] = "registered" /\ loc[t] = n
    BY DEF FewestTargets, ElementsAt
  <2>r. ans.type = "receive_upstream" /\ ans.child = e
    BY DEF UpstreamMsg
  <2>s. msgs' = (msgs \ {m}) \cup {ans} /\ UNCHANGED endpoints
    BY <1>1 DEF AdoptRemote
  <2>. HIDE DEF ans
  <2>d. \A x, y \in Elements : x \in downstream'[y] <=> x \in downstream[y] \/ (x = e /\ y = t)
    BY <2>t DEF TypeOK
  <2>1. EndpointsSpread'
    BY <2>s, <2>r DEF SpanningInv, EndpointsSpread
  <2>2. OrphansAwait'
    <3>1. ASSUME NEW g \in Elements, Orphan(g)
          PROVE  \/ \E k \in msgs' : k.type # "reg_endpoint" /\ k.child = g
                 \/ g = endpoints'[Root] /\ endpoints'[loc'[g]] = NoIndex
      <4>1. \/ \E k \in msgs : k.type # "reg_endpoint" /\ k.child = g
            \/ g = endpoints[Root] /\ endpoints[loc[g]] = NoIndex
        BY <3>1 DEF SpanningInv, OrphansAwait
      <4>2. CASE g = e
        BY <2>r, <2>s, <4>2
      <4>3. CASE g # e
        BY <1>w, <2>s, <4>1, <4>3
      <4>. QED
        BY <4>2, <4>3
    <3>2. \A g \in Elements : valid'[g] => upstream'[g] # {} \/ g = endpoints'[Root]
      BY <2>s DEF SpanningInv, OrphansAwait
    <3>. QED
      BY <1>o, <3>1, <3>2 DEF OrphansAwait
  <2>3. ParentsLive'
    BY <2>d, <2>t DEF SpanningInv, ParentsLive
  <2>4. Climbing'
    BY <2>r, <2>s DEF SpanningInv, Climbing
  <2>5. PICK A \in SUBSET Elements : Anchored(A)
    BY DEF SpanningInv
  <2>6. /\ e \notin A
        /\ \A x, y \in Elements : x \in downstream[y] =>
             \/ y \in A
             \/ x \notin A /\ loc[y] <= loc[x]
    BY <1>m, <1>w, <2>5 DEF Anchored, Orphan
  <2>7. \A x \in Elements : loc[x] \in Int
    BY DEF TypeOK, Node
  <2>8. loc[t] < loc[e]
    BY <1>w, <2>t
  <2>9. Acyclic'
    <3>. SUFFICES ASSUME NEW S \in SUBSET Elements, \A x \in S : \E y \in S : x \in downstream'[y],
                         S # {}
                  PROVE  FALSE
      BY DEF Acyclic
    <3>1. e \in S /\ t \in S
      <4>1. ~ \A x \in S : \E y \in S : x \in downstream[y]
        BY DEF SpanningInv, Acyclic
      <4>. QED
        BY <2>d, <4>1
    <3>2. \A x \in S \cap A : \E y \in S \cap A : x \in downstream[y]
      BY <2>d, <2>6
    <3>3. S \cap A = {}
      BY <3>2 DEF SpanningInv, Acyclic
    <3>. DEFINE L == {x \in S : loc[x] <= loc[t]}
    <3>4. ASSUME NEW x \in L
          PROVE  \E y \in L : x \in downstream[y]
      <4>1. x # e /\ x \in S /\ loc[x] <= loc[t]
        BY <1>m, <2>7, <2>8, <2>t
      <4>2. PICK y \in S : x \in downstream[y]
        BY <2>d, <4>1
      <4>3. loc[y] <= loc[x]
        BY <2>6, <3>3, <4>1, <4>2
      <4>4. loc[y] <= loc[t]
        BY <2>7, <2>t, <4>1, <4>3
      <4>. QED
        BY <4>2, <4>4
    <3>5. t \in L
      BY <2>7, <2>t, <3>1
    <3>. HIDE DEF L
    <3>6. L \in SUBSET Elements
      BY DEF L
    <3>. QED
      BY <3>4, <3>5, <3>6 DEF SpanningInv, Acyclic
  <2>10. Anchored(A)'
    <3>1. loc[t] <= loc[e]
      BY <1>m, <2>7, <2>8, <2>t
    <3>2. /\ \A x \in A : valid'[x]
          /\ \A x \in Elements : status'[x] = "moving" => x \in A
      BY <2>5 DEF Anchored
    <3>. QED
      BY <2>d, <2>6, <3>1, <3>2 DEF Anchored
  <2>. QED
    BY <2>1, <2>2, <2>3, <2>4, <2>9, <2>10 DEF SpanningInv
<1>2. CASE PassUp(m)
  <2>. DEFINE req == DownstreamMsg(Parent(n), m.src, e)
  <2>r. req.type = "receive_downstream" /\ req.child = e /\ req.dst < req.src
    <3>1. Parent(n) < n /\ Parent(n) \in Node
      BY <1>2, <1>m, ParentSmaller DEF PassUp, n
    <3>. QED
      BY <1>m, <1>w, <3>1 DEF DownstreamMsg, Node
  <2>s. msgs' = (msgs \ {m}) \cup {req} /\ UNCHANGED <<downstream, endpoints>>
    BY <1>2 DEF PassUp, e, n
  <2>. HIDE DEF req
  <2>1. EndpointsSpread'
    BY <2>s, <2>r DEF SpanningInv, EndpointsSpread
  <2>2. OrphansAwait'
    BY <1>o, <1>w, <2>s, <2>r DEF SpanningInv, OrphansAwait
  <2>3. ParentsLive' /\ Climbing' /\ Acyclic'
    BY <2>s, <2>r DEF SpanningInv, ParentsLive, Climbing, Acyclic
  <2>4. \A A : Anchored(A) => Anchored(A)'
    BY <2>s DEF Anchored
  <2>. QED
    BY <2>1, <2>2, <2>3, <2>4 DEF SpanningInv
<1>3. CASE CrownRemote(m)
  <2>s. /\ n = Root /\ endpoints[n] = NoIndex /\ ElementsAt(n) = {}
        /\ endpoints' = [endpoints EXCEPT ![n] = e]
        /\ msgs' = (msgs \ {m}) \cup EndpointMsgs(n, e)
        /\ UNCHANGED downstream
    BY <1>3 DEF CrownRemote, e, n
  <2>1. EndpointsSpread'
    <3>. DEFINE C == {m}
    <3>1. \A k \in msgs : k.type = "reg_endpoint" => (k \in C <=> k.dst = n)
      BY <2>s DEF SpanningInv, EndpointsSpread
    <3>2. status'[e] \in {"registered", "moving"}
      BY <1>w DEF Orphan
    <3>3. EndpointsSpread
      BY DEF SpanningInv
    <3>4. msgs' = (msgs \ C) \cup EndpointMsgs(n, e)
      BY <2>s
    <3>5. n = Root \/ (e = endpoints[Root] /\ endpoints[Parent(n)] # NoIndex)
      BY <2>s
    <3>6. n \in Node /\ e \in Elements
      BY <1>m
    <3>7. endpoints[n] = NoIndex /\ endpoints' = [endpoints EXCEPT ![n] = e]
      BY <2>s
    <3>. HIDE DEF C
    <3>. QED
      BY <3>1, <3>2, <3>3, <3>4, <3>5, <3>6, <3>7, EndpointKnown
  <2>2. OrphansAwait'
    <3>1. NoIndex \notin Elements /\ endpoints'[Root] = e
      BY TreeBuilderAssumption, <2>s, RootIsNode DEF TypeOK
    <3>2. loc[e] # Root /\ endpoints'[loc[e]] = NoIndex
      <4>1. loc[e] # Root
        BY <1>m, <1>w, <2>s DEF Orphan, ElementsAt
      <4>2. loc[e] \in Node /\ endpoints[loc[e]] = NoIndex
        BY <1>m, <2>s DEF SpanningInv, EndpointsSpread, TypeOK
      <4>. QED
        BY <2>s, <4>1, <4>2 DEF TypeOK
    <3>3. \A g \in Elements : Orphan(g) /\ g # e =>
             \E k \in msgs' : k.type # "reg_endpoint" /\ k.child = g
      BY <1>w, <2>s, <3>1 DEF SpanningInv, OrphansAwait
    <3>4. \A g \in Elements : valid[g] => upstream[g] # {}
      BY <2>s, <3>1 DEF SpanningInv, OrphansAwait
    <3>. QED
      BY <1>o, <3>1, <3>2, <3>3, <3>4 DEF OrphansAwait
  <2>3. ParentsLive' /\ Acyclic'
    BY <2>s DEF SpanningInv, ParentsLive, Acyclic
  <2>4. Climbing'
    BY <1>m, <2>s, EndpointMsgsFacts DEF SpanningInv, Climbing
  <2>5. \A A : Anchored(A) => Anchored(A)'
    BY <2>s DEF Anchored
  <2>. QED
    BY <2>1, <2>2, <2>3, <2>4, <2>5 DEF SpanningInv
<1>. QED
  BY <1>1, <1>2, <1>3

\* The element that asked has its parent.
LEMMA ReceiveUpstreamSpans ==
  ASSUME TypeOK, ConstructionInv, SpanningInv, NEW m \in msgs, m.type = "receive_upstream",
         ReceiveUpstream(m)
  PROVE  SpanningInv'
<1>. DEFINE e == m.child
<1>m. m.idx \in Elements /\ e \in Elements
  BY DEF TypeOK, Message
<1>s. /\ upstream' = [upstream EXCEPT ![e] = @ \cup {m.idx}]
      /\ valid' = [valid EXCEPT ![e] = TRUE]
      /\ msgs' = msgs \ {m}
      /\ UNCHANGED <<status, loc, downstream, endpoints>>
  <2>1. OrphanTargets(m.dst) = {e}
    BY UpstreamTarget
  <2>2. OrphanTargets(m.dst) # {}
    BY <2>1
  <2>3. /\ \E g \in OrphanTargets(m.dst) :
             /\ upstream' = [upstream EXCEPT ![g] = @ \cup {m.idx}]
             /\ valid' = [valid EXCEPT ![g] = TRUE]
        /\ msgs' = msgs \ {m}
        /\ UNCHANGED <<status, loc, downstream, endpoints>>
    BY <2>2 DEF ReceiveUpstream
  <2>. QED
    BY <2>1, <2>3
<1>c. m.child = e
  OBVIOUS
<1>. HIDE DEF e
<1>o. \A g \in Elements : Orphan(g)' => Orphan(g) /\ g # e
  BY <1>s, <1>m DEF Orphan, TypeOK
<1>1. EndpointsSpread'
  BY <1>s DEF SpanningInv, EndpointsSpread
<1>2. OrphansAwait'
  <2>1. \A g \in Elements : valid'[g] => g = e \/ valid[g]
    BY <1>s DEF TypeOK
  <2>2. upstream'[e] # {} /\ \A g \in Elements : g # e => upstream'[g] = upstream[g]
    BY <1>m, <1>s DEF TypeOK
  <2>3. \A g \in Elements : Orphan(g) /\ g # e =>
          \/ \E k \in msgs' : k.type # "reg_endpoint" /\ k.child = g
          \/ g = endpoints[Root] /\ endpoints[loc[g]] = NoIndex
    BY <1>c, <1>s DEF SpanningInv, OrphansAwait
  <2>4. \A g \in Elements : valid[g] => upstream[g] # {} \/ g = endpoints[Root]
    BY DEF SpanningInv, OrphansAwait
  <2>. QED
    BY <1>s, <1>o, <2>1, <2>2, <2>3, <2>4 DEF OrphansAwait
<1>3. ParentsLive' /\ Climbing' /\ Acyclic'
  BY <1>s DEF SpanningInv, ParentsLive, Climbing, Acyclic
<1>4. \A A \in SUBSET Elements : Anchored(A) => Anchored(A)'
  BY <1>s DEF Anchored, TypeOK
<1>. QED
  BY <1>1, <1>2, <1>3, <1>4 DEF SpanningInv

\* A node below the root learns of the endpoint, its own orphan perhaps.
LEMMA RegEndpointSpans ==
  ASSUME TypeOK, ConstructionInv, SpanningInv, NEW m \in msgs, RegEndpoint(m),
         endpoints[m.dst] = NoIndex
  PROVE  SpanningInv'
<1>. DEFINE e == m.idx
            n == m.dst
<1>m. /\ e \in Elements /\ n \in Node /\ m.type = "reg_endpoint"
      /\ e = endpoints[Root] /\ n # Root /\ endpoints[n] = NoIndex
  BY DEF TypeOK, Message, RegEndpoint, SpanningInv, EndpointsSpread
<1>s. /\ endpoints' = [endpoints EXCEPT ![n] = e]
      /\ valid' = [valid EXCEPT ![e] = @ \/ e \in ElementsAt(n)]
      /\ msgs' = (msgs \ {m}) \cup EndpointMsgs(n, e)
      /\ UNCHANGED <<status, loc, upstream, downstream>>
  BY DEF RegEndpoint
<1>c. m.dst = n
  OBVIOUS
<1>. HIDE DEF e, n
<1>r. endpoints[Root] # NoIndex
  BY <1>m, TreeBuilderAssumption
<1>v. \A g \in Elements : g # e => (valid'[g] <=> valid[g])
  BY <1>s, <1>m DEF TypeOK
<1>x. valid'[e] <=> valid[e] \/ e \in ElementsAt(n)
  <2>1. valid'[e] = (valid[e] \/ e \in ElementsAt(n))
    BY <1>s, <1>m, Zenon DEF TypeOK
  <2>. QED
    BY <2>1
<1>o. \A g \in Elements : Orphan(g)' => Orphan(g)
  BY <1>s, <1>v, <1>x DEF Orphan
<1>1. EndpointsSpread'
  <2>. DEFINE C == {m}
  <2>1. ASSUME NEW k \in msgs, k.type = "reg_endpoint"
        PROVE  k \in C <=> k.dst = n
    <3>1. ASSUME k.dst = n
          PROVE  k = m
      <4>1. k.idx = m.idx /\ k.src = m.src
        BY <1>c, <1>m, <2>1, <3>1 DEF SpanningInv, EndpointsSpread
      <4>2. k.child = m.child
        BY <1>m, <2>1, <4>1 DEF ConstructionInv, SeekersWait
      <4>. QED
        BY <1>c, <1>m, <2>1, <3>1, <4>1, <4>2 DEF TypeOK, Message
    <3>. QED
      BY <1>c, <3>1
  <2>2. status'[e] \in {"registered", "moving"}
    BY <1>m, <1>r, <1>s DEF SpanningInv, EndpointsSpread
  <2>3. n = Root \/ (e = endpoints[Root] /\ endpoints[Parent(n)] # NoIndex)
    BY <1>c, <1>m DEF SpanningInv, EndpointsSpread
  <2>4. EndpointsSpread
    BY DEF SpanningInv
  <2>5. msgs' = (msgs \ C) \cup EndpointMsgs(n, e)
    BY <1>s
  <2>6. n \in Node /\ e \in Elements
    BY <1>m
  <2>7. endpoints[n] = NoIndex /\ endpoints' = [endpoints EXCEPT ![n] = e]
    BY <1>m, <1>s
  <2>. HIDE DEF C
  <2>. QED
    BY <2>1, <2>2, <2>3, <2>4, <2>5, <2>6, <2>7, EndpointKnown
<1>2. OrphansAwait'
  <2>1. endpoints'[Root] = e
    BY <1>m, <1>s, RootIsNode DEF TypeOK
  <2>2. ASSUME NEW g \in Elements, Orphan(g)'
        PROVE  \/ \E k \in msgs' : k.type # "reg_endpoint" /\ k.child = g
               \/ g = endpoints'[Root] /\ endpoints'[loc'[g]] = NoIndex
    <3>1. Orphan(g)
      BY <1>o, <2>2
    <3>2. CASE \E k \in msgs : k.type # "reg_endpoint" /\ k.child = g
      BY <1>m, <1>s, <3>2
    <3>3. CASE g = endpoints[Root] /\ endpoints[loc[g]] = NoIndex
      <4>1. loc[g] # n
        <5>1. g = e /\ ~valid'[e]
          BY <1>m, <2>2, <3>3 DEF Orphan
        <5>2. e \notin ElementsAt(n) /\ status[e] = "registered"
          BY <1>x, <3>1, <5>1 DEF Orphan
        <5>. QED
          BY <1>m, <5>1, <5>2 DEF ElementsAt
      <4>2. loc[g] \in Node
        BY DEF TypeOK
      <4>3. endpoints'[loc[g]] = NoIndex
        BY <1>s, <3>3, <4>1, <4>2 DEF TypeOK
      <4>. QED
        BY <1>m, <1>s, <2>1, <3>3, <4>3
    <3>. QED
      BY <3>1, <3>2, <3>3 DEF SpanningInv, OrphansAwait
  <2>3. \A g \in Elements : valid'[g] => upstream'[g] # {} \/ g = endpoints'[Root]
    BY <1>m, <1>s, <1>v, <2>1 DEF SpanningInv, OrphansAwait
  <2>. QED
    BY <2>2, <2>3 DEF OrphansAwait
<1>3. ParentsLive' /\ Acyclic'
  BY <1>s DEF SpanningInv, ParentsLive, Acyclic
<1>4. Climbing'
  BY <1>m, <1>s, EndpointMsgsFacts DEF SpanningInv, Climbing
<1>5. \A A \in SUBSET Elements : Anchored(A) => Anchored(A)'
  BY <1>s, <1>v, <1>x DEF Anchored
<1>. QED
  BY <1>1, <1>2, <1>3, <1>4, <1>5 DEF SpanningInv

LEMMA RegElementSpans ==
  ASSUME TypeOK, ConstructionInv, SpanningInv, NEW e \in Elements, NEW n \in Node, n = loc[e],
         status[e] \in {"absent", "unlisted"}, RegElement(n, e)
  PROVE  SpanningInv'
<1>1. CASE ElementsAt(n) # {} /\ AdoptLocally(n, e) /\ UNCHANGED loc
  BY <1>1, AdoptLocallySpans
<1>2. CASE ElementsAt(n) = {} /\ SeekRemotely(n, e) /\ UNCHANGED loc
  BY <1>2, SeekRemotelySpans
<1>3. CASE BecomeEndpoint(n, e) /\ UNCHANGED loc
  BY <1>3, BecomeEndpointSpans
<1>4. CASE UNCHANGED spanVars
  BY <1>4, SpanUnchanged
<1>. QED
  BY <1>1, <1>2, <1>3, <1>4 DEF RegElement, Abort, spanVars, linkVars, nodeVars, treeVars

\* When no message is in flight every node knows the endpoint: the least that
\* does not would have a parent that does.
LEMMA AllKnow ==
  ASSUME EndpointsSpread, msgs = {}, endpoints[Root] # NoIndex, NEW n \in Node
  PROVE  endpoints[n] # NoIndex
<1>. DEFINE T == {k \in Node : endpoints[k] = NoIndex}
<1>1. SUFFICES ASSUME T # {} PROVE FALSE
  OBVIOUS
<1>2. Node \in SUBSET Nat
  BY TreeBuilderAssumption DEF Node
<1>3. PICK k \in T : \A j \in T : k <= j
  BY <1>1, <1>2, LeastMember
<1>4. k \in Node \ {Root}
  OBVIOUS
<1>5. Parent(k) < k /\ Parent(k) \in Node
  BY <1>4, ParentSmaller
<1>6. Parent(k) \notin T
  <2>. HIDE DEF T
  <2>1. k \in Nat /\ Parent(k) \in Nat
    BY <1>2, <1>4, <1>5
  <2>2. ~ (k <= Parent(k))
    BY <1>5, <2>1
  <2>. QED
    BY <1>3, <2>2
<1>7. endpoints[Parent(k)] # NoIndex
  BY <1>5, <1>6
<1>. QED
  BY <1>4, <1>7 DEF EndpointsSpread

\* Nor is there an element without a parent: it would be the subject of a
\* message, or an endpoint of which its own node does not know.
LEMMA QuietHasNoOrphans ==
  ASSUME TypeOK, SpanningInv, msgs = {}
  PROVE  \A e \in Elements : ~Orphan(e)
<1>. SUFFICES ASSUME NEW e \in Elements, Orphan(e)
              PROVE  FALSE
  OBVIOUS
<1>1. e = endpoints[Root] /\ endpoints[loc[e]] = NoIndex /\ EndpointsSpread
  BY DEF SpanningInv, OrphansAwait
<1>2. endpoints[Root] # NoIndex /\ loc[e] \in Node
  BY <1>1, TreeBuilderAssumption DEF TypeOK
<1>. QED
  BY <1>1, <1>2, AllKnow

\* A quiet leave takes place when all elements have their places, and the one
\* that leaves takes its links along.
LEMMA LeavingSpans ==
  ASSUME TypeOK, ConstructionInv, SpanningInv, NEW e \in Elements, ElementLeaving(e),
         msgs = {}
  PROVE  SpanningInv'
<1>s. /\ msgs = {} /\ msgs' = {} /\ \A g \in Elements : ~Orphan(g)
      /\ status' = [status EXCEPT ![e] = "moving"] /\ status[e] = "registered"
      /\ UNCHANGED <<loc, valid, upstream, downstream, endpoints>>
  BY QuietHasNoOrphans DEF ElementLeaving, nodeVars
<1>r. \A g \in Elements : status[g] \in {"registered", "moving"} =>
         status'[g] \in {"registered", "moving"}
  BY <1>s DEF TypeOK
<1>o. \A g \in Elements : ~Orphan(g)'
  BY <1>s DEF Orphan, TypeOK
<1>1. EndpointsSpread'
  BY <1>s, <1>r, RootIsNode DEF SpanningInv, EndpointsSpread, TypeOK
<1>2. OrphansAwait'
  BY <1>s, <1>o DEF SpanningInv, OrphansAwait
<1>3. ParentsLive' /\ Climbing' /\ Acyclic'
  BY <1>s, <1>r DEF SpanningInv, ParentsLive, Climbing, Acyclic
<1>. PICK A \in SUBSET Elements : A = {g \in Elements : valid[g]}
  OBVIOUS
<1>4. \A g \in Elements : status[g] \in {"registered", "moving"} => g \in A
  BY <1>s DEF Orphan, ConstructionInv, ValidityFollowsLife
<1>5. \A g, t \in Elements : g \in downstream[t] => t \in A
  BY <1>4 DEF SpanningInv, ParentsLive
<1>6. \A g \in Elements : status'[g] = "moving" => g \in A
  BY <1>4, <1>s DEF TypeOK
<1>7. A \in SUBSET Elements /\ \A g \in A : valid[g]
  OBVIOUS
<1>8. Anchored(A)'
  BY <1>s, <1>5, <1>6, <1>7 DEF Anchored
<1>. QED
  BY <1>1, <1>2, <1>3, <1>7, <1>8 DEF SpanningInv

\* ... and arrives on any node: all its links are those of an element of A.
LEMMA ArrivingSpans ==
  ASSUME TypeOK, ConstructionInv, SpanningInv, NEW e \in Elements, NEW n \in Node,
         ElementArriving(e, n)
  PROVE  SpanningInv'
<1>s. /\ status[e] = "moving" /\ valid[e]
      /\ status' = [status EXCEPT ![e] = "registered"]
      /\ loc' = [loc EXCEPT ![e] = n]
      /\ UNCHANGED <<valid, upstream, downstream, msgs, endpoints>>
  BY DEF ElementArriving, nodeVars, ConstructionInv, ValidityFollowsLife
<1>r. \A g \in Elements : status[g] \in {"registered", "moving"} =>
         status'[g] \in {"registered", "moving"}
  BY <1>s DEF TypeOK
<1>o. \A g \in Elements : Orphan(g)' => Orphan(g) /\ loc'[g] = loc[g]
  BY <1>s DEF Orphan, TypeOK
<1>1. EndpointsSpread'
  BY <1>s, <1>r, RootIsNode DEF SpanningInv, EndpointsSpread, TypeOK
<1>2. OrphansAwait'
  BY <1>s, <1>o DEF SpanningInv, OrphansAwait
<1>3. ParentsLive' /\ Climbing' /\ Acyclic'
  BY <1>s, <1>r DEF SpanningInv, ParentsLive, Climbing, Acyclic
<1>4. PICK A \in SUBSET Elements : Anchored(A)
  BY DEF SpanningInv
<1>5. e \in A
  BY <1>4, <1>s DEF Anchored
<1>6. Anchored(A)'
  <2>1. ASSUME NEW x \in Elements, NEW y \in Elements, x \in downstream[y]
        PROVE  y \in A \/ (x \notin A /\ loc'[y] <= loc'[x])
    BY <1>4, <1>5, <1>s, <2>1 DEF Anchored, TypeOK
  <2>2. \A x \in Elements : status'[x] = "moving" => x \in A
    BY <1>4, <1>s DEF Anchored, TypeOK
  <2>. QED
    BY <1>4, <1>s, <2>1, <2>2 DEF Anchored
<1>. QED
  BY <1>1, <1>2, <1>3, <1>6 DEF SpanningInv

\* Every step preserves the spanning tree, if moves are quiet.
LEMMA StepSpans ==
  ASSUME TypeOK, ConstructionInv, SpanningInv, [Next]_vars,
         \A e \in Elements : ElementLeaving(e) => msgs = {}
  PROVE  SpanningInv'
<1>0. CASE UNCHANGED spanVars
  BY <1>0, SpanUnchanged
<1>1. CASE Deliver
  <2>. PICK m \in msgs : RegEndpoint(m) \/ ReceiveDownstream(m) \/ ReceiveUpstream(m)
    BY <1>1 DEF Deliver
  <2>1. CASE RegEndpoint(m)
    <3>1. CASE endpoints[m.dst] = NoIndex
      BY <2>1, <3>1, RegEndpointSpans
    <3>2. CASE endpoints[m.dst] # NoIndex
      BY <2>1, <3>2, <1>0 DEF RegEndpoint, Abort, spanVars, linkVars, treeVars, nodeVars
    <3>. QED
      BY <3>1, <3>2
  <2>2. CASE ReceiveDownstream(m)
    <3>1. m.type = "receive_downstream"
      BY <2>2 DEF ReceiveDownstream
    <3>2. CASE /\ AdoptRemote(m) \/ PassUp(m) \/ CrownRemote(m)
               /\ UNCHANGED <<registered, inserting, status, loc, valid, upstream,
                              countVars, moves, aborted>>
      BY <3>1, <3>2, ReceiveDownstreamSpans
    <3>3. CASE UNCHANGED spanVars
      BY <3>3, <1>0
    <3>. QED
      BY <2>2, <3>2, <3>3 DEF ReceiveDownstream, Abort, spanVars, linkVars, treeVars, nodeVars
  <2>3. CASE ReceiveUpstream(m)
    BY <2>3, ReceiveUpstreamSpans DEF ReceiveUpstream
  <2>. QED
    BY <2>1, <2>2, <2>3
<1>2. CASE Startup
  <2>1. ASSUME NEW n \in Node, RegArray(n) PROVE SpanningInv'
    BY <2>1, <1>0 DEF RegArray, Abort, spanVars, linkVars, treeVars, nodeVars
  <2>2. ASSUME NEW n \in Node, StartupProcess(n) PROVE SpanningInv'
    BY <2>2, RegElementSpans DEF StartupProcess
  <2>. QED
    BY <1>2, <2>1, <2>2 DEF Startup
<1>3. CASE Counting
  BY <1>3, <1>0 DEF Counting, Reduce, DoneInserting, RecvCount,
                    spanVars, linkVars, treeVars, nodeVars
<1>4. ASSUME NEW e \in Elements, ElementCreated(e) PROVE SpanningInv'
  <2>1. loc[e] \in Node
    BY DEF TypeOK
  <2>. QED
    BY <1>4, <2>1, RegElementSpans DEF ElementCreated
<1>5. CASE CallDone \/ BeginCallback
  BY <1>5, <1>0 DEF CallDone, BeginCallback, spanVars, linkVars, treeVars, nodeVars
<1>6. ASSUME NEW n \in Node, BeginInserting(n) PROVE SpanningInv'
  BY <1>6, <1>0 DEF BeginInserting, spanVars, linkVars, treeVars
<1>7. ASSUME NEW e \in Elements, ElementLeaving(e) PROVE SpanningInv'
  <2>1. msgs = {}
    BY <1>7
  <2>. QED
    BY <1>7, <2>1, LeavingSpans
<1>8. ASSUME NEW e \in Elements, NEW n \in Node, ElementArriving(e, n) PROVE SpanningInv'
  BY <1>8, ArrivingSpans
<1>9. CASE UNCHANGED vars
  BY <1>9, <1>0 DEF vars, spanVars, linkVars, treeVars, nodeVars
<1>. QED
  BY <1>1, <1>2, <1>3, <1>4, <1>5, <1>6, <1>7, <1>8, <1>9 DEF Next, Stay

\* Only an element that leaves is counted as a move.
LEMMA StayMovesNothing ==
  ASSUME Stay
  PROVE  UNCHANGED moves
<1>1. CASE Deliver
  BY <1>1 DEF Deliver, RegEndpoint, ReceiveDownstream, ReceiveUpstream, Abort
<1>2. CASE Startup
  BY <1>2 DEF Startup, RegArray, StartupProcess, RegElement, Abort
<1>3. CASE Counting
  BY <1>3 DEF Counting, Reduce, DoneInserting, RecvCount
<1>4. CASE \E e \in Elements : ElementCreated(e)
  BY <1>4 DEF ElementCreated, RegElement, Abort
<1>5. CASE CallDone \/ BeginCallback \/ \E n \in Node : BeginInserting(n)
  BY <1>5 DEF CallDone, BeginCallback, BeginInserting
<1>6. CASE \E e \in Elements, n \in Node : ElementArriving(e, n)
  BY <1>6 DEF ElementArriving
<1>. QED
  BY <1>1, <1>2, <1>3, <1>4, <1>5, <1>6 DEF Stay

\* The step of QuietSpec is one of Spec, in which nothing leaves while messages
\* are in flight.
LEMMA QuietStep ==
  ASSUME TypeOK, [QuietNext]_vars
  PROVE  [Next]_vars /\ \A e \in Elements : ElementLeaving(e) => msgs = {}
<1>1. [Next]_vars
  BY DEF QuietNext, QuietLeaving, Next
<1>2. ASSUME NEW e \in Elements, ElementLeaving(e) PROVE msgs = {}
  <2>1. moves' = moves + 1 /\ moves \in Nat
    BY <1>2 DEF ElementLeaving, TypeOK
  <2>2. moves' # moves
    BY <2>1
  <2>3. ~Stay /\ ~UNCHANGED vars
    BY <2>2, StayMovesNothing DEF vars
  <2>. QED
    BY <2>3 DEF QuietNext, QuietLeaving
<1>. QED
  BY <1>1, <1>2

LEMMA QuietIsSpec == QuietSpec => Spec
<1>1. [QuietNext]_vars => [Next]_vars
  BY DEF QuietNext, QuietLeaving, Next
<1>. QED
  BY <1>1, PTL DEF QuietSpec, Spec

\* The inductive invariant when moves are quiet, for any placement.  Of the
\* links: a seeker waits where its only message will find it, one per node.  Of
\* the tree as a whole: the endpoint spreads, every orphan is spoken for, and no
\* elements are only below themselves.  They need each other: that nothing that
\* leaves is an orphan follows from the second, whose steps use the first.
THEOREM ConstructionCorrect == QuietSpec => [](ConstructionInv /\ SpanningInv)
<1>0. Init => ConstructionInv
  BY DEF Init, ConstructionInv, SeekersWait, SoleMessage, OneOrphanPerNode,
         ValidityFollowsLife, LinksMirrored, Orphan
<1>1. Init => SpanningInv
  <2>. SUFFICES ASSUME Init PROVE SpanningInv
    OBVIOUS
  <2>1. /\ \A n \in Node : endpoints[n] = NoIndex
        /\ \A e \in Elements : downstream[e] = {} /\ ~valid[e] /\ ~Orphan(e) /\ status[e] # "moving"
        /\ msgs = {}
    BY DEF Init, Orphan
  <2>2. EndpointsSpread
    BY <2>1, RootIsNode, ParentSmaller DEF EndpointsSpread
  <2>3. OrphansAwait /\ ParentsLive /\ Climbing
    BY <2>1 DEF OrphansAwait, ParentsLive, Climbing
  <2>4. Acyclic
    BY <2>1 DEF Acyclic
  <2>5. Anchored({})
    BY <2>1 DEF Anchored
  <2>. QED
    BY <2>2, <2>3, <2>4, <2>5 DEF SpanningInv
<1>2. TypeOK /\ (ConstructionInv /\ SpanningInv) /\ [QuietNext]_vars
        => (ConstructionInv /\ SpanningInv)'
  <2>. SUFFICES ASSUME TypeOK, ConstructionInv, SpanningInv, [QuietNext]_vars
                PROVE  ConstructionInv' /\ SpanningInv'
    OBVIOUS
  <2>1. [Next]_vars /\ \A e \in Elements : ElementLeaving(e) => msgs = {}
    BY QuietStep
  <2>2. \A e \in Elements : ElementLeaving(e) => msgs = {} /\ ~Orphan(e)
    BY <2>1, QuietHasNoOrphans
  <2>. QED
    BY <2>1, <2>2, StepLinks, StepSpans
<1>. QED
  BY <1>0, <1>1, <1>2, TypeCorrect, QuietIsSpec, PTL DEF QuietSpec

\* When moves are quiet, both ends of every link of the spanning tree agree, up
\* to an answer that is still on its way, and no element ever has two parents.
THEOREM LinksCorrect == QuietSpec => []LinksMirrored
<1>1. ConstructionInv => LinksMirrored
  BY DEF ConstructionInv
<1>. QED
  BY <1>1, ConstructionCorrect, PTL

\* When moves are quiet, receive_upstream finds the element that asked for a
\* parent, although the message does not name it, and send_downstream, which is
\* NOT_IMPLEMENTED, is not called.  An orphan that leaves after an early end of
\* done_inserting is not found.
THEOREM UpstreamCorrect == QuietSpec => []UpstreamFindsItsChild
<1>1. TypeOK /\ ConstructionInv => UpstreamFindsItsChild
  BY UpstreamTarget DEF UpstreamFindsItsChild, OrphanTargets
<1>. QED
  BY <1>1, TypeCorrect, QuietIsSpec, ConstructionCorrect, PTL


\* When no construction message is in flight, the elements form one tree, and
\* every node knows its root: for any placement, any order of the messages and
\* after any migrations that began in such states.
THEOREM OneTree == QuietSpec => []TreeWhenSettled
<1>1. TypeOK /\ ConstructionInv /\ SpanningInv => TreeWhenSettled
  <2>. SUFFICES ASSUME TypeOK, ConstructionInv, SpanningInv, msgs = {}, NEW g \in Elements, valid[g]
                PROVE  \E root \in Elements :
                         /\ \A n \in Node : endpoints[n] = root
                         /\ \A e \in Elements :
                              status[e] \in {"registered", "moving"} => e \in Below(root)
    BY DEF TreeWhenSettled
  <2>. DEFINE root == endpoints[Root]
              All == {e \in Elements : status[e] \in {"registered", "moving"}}
  <2>1. root # NoIndex
    <3>. SUFFICES ASSUME endpoints[Root] = NoIndex PROVE FALSE
      OBVIOUS
    <3>. DEFINE V == {e \in Elements : valid[e]}
    <3>1. ASSUME NEW e \in V
          PROVE  \E t \in V : e \in downstream[t]
      <4>1. upstream[e] # {} /\ upstream[e] \in SUBSET Elements
        BY TreeBuilderAssumption DEF SpanningInv, OrphansAwait, TypeOK
      <4>2. PICK t \in Elements : t \in upstream[e]
        BY <4>1
      <4>3. e \in downstream[t]
        BY <4>2 DEF ConstructionInv, LinksMirrored
      <4>4. status[t] \in {"registered", "moving"}
        BY <4>3 DEF SpanningInv, ParentsLive
      <4>5. ~Orphan(t)
        BY TreeBuilderAssumption DEF SpanningInv, OrphansAwait
      <4>6. valid[t]
        BY <4>4, <4>5 DEF Orphan, ConstructionInv, ValidityFollowsLife
      <4>. QED
        BY <4>3, <4>6
    <3>2. V # {} /\ V \in SUBSET Elements
      OBVIOUS
    <3>. HIDE DEF V
    <3>. QED
      BY <3>1, <3>2 DEF SpanningInv, Acyclic
  <2>2. root \in Elements
    BY <2>1, RootIsNode DEF TypeOK
  <2>3. \A n \in Node : endpoints[n] = root
    BY <2>1, AllKnow DEF SpanningInv, EndpointsSpread
  <2>4. \A e \in All : valid[e]
    <3>1. \A e \in Elements : ~Orphan(e)
      BY <2>1, <2>3 DEF SpanningInv, OrphansAwait, TypeOK
    <3>. QED
      BY <3>1 DEF Orphan, ConstructionInv, ValidityFollowsLife
  <2>5. ASSUME NEW S \in SUBSET Elements, root \in S,
               \A x \in Elements : upstream[x] \cap S # {} => x \in S
        PROVE  All \ S = {}
    <3>. DEFINE U == All \ S
    <3>1. ASSUME NEW e \in U
          PROVE  \E t \in U : e \in downstream[t]
      <4>1. e # root /\ valid[e] /\ e \in Elements
        BY <2>4, <2>5
      <4>2. upstream[e] # {} /\ upstream[e] \in SUBSET Elements
        BY <4>1 DEF SpanningInv, OrphansAwait, TypeOK
      <4>3. PICK t \in Elements : t \in upstream[e]
        BY <4>2
      <4>4. e \in downstream[t]
        BY <4>1, <4>3 DEF ConstructionInv, LinksMirrored
      <4>5. status[t] \in {"registered", "moving"}
        BY <4>1, <4>4 DEF SpanningInv, ParentsLive
      <4>6. t \notin S
        BY <2>5, <4>1, <4>3
      <4>. QED
        BY <4>4, <4>5, <4>6
    <3>2. U \in SUBSET Elements
      OBVIOUS
    <3>. HIDE DEF U
    <3>3. U = {}
      BY <3>1, <3>2 DEF SpanningInv, Acyclic
    <3>. QED
      BY <3>3 DEF U
  <2>6. \A e \in Elements : status[e] \in {"registered", "moving"} => e \in Below(root)
    BY <2>5 DEF Below
  <2>. QED
    BY <2>2, <2>3, <2>6
<1>. QED
  BY <1>1, TypeCorrect, QuietIsSpec, ConstructionCorrect, PTL

-----------------------------------------------------------------------------
(***************************************************************************)
(* What a program must do for the construction not to abort.               *)
(***************************************************************************)
\* The elements of the first insertion phase.
Earliest == {e \in Elements : Batch[e] = 0}

\* The array is registered before anything is inserted, insertions settle before
\* done_inserting, the first phase inserts on the root node only, and more
\* elements than ever migrate.
RootFirst ==
  /\ Initial = {} /\ SettleFirst
  /\ \A e \in Earliest : Place[e] = Root
  /\ Cardinality(Earliest) > MaxMoves

\* All elements that are due have been inserted.
Inserted == \A e \in Elements : Batch[e] <= phase => status[e] # "absent"

\* Messages and insertions wait for the registration on every node.
Registered ==
  /\ present = registered
  /\ \A e \in Elements : status[e] # "unlisted"
  /\ msgs # {} \/ called => registered = Node

\* The stages of done_inserting and begin_inserting on the nodes, and what has
\* been inserted by then.
StagesInOrder ==
  /\ called \/ (\E n \in Node : stage[n] # "open") => Inserted
  /\ \A n \in Node :
       /\ stage[n] \in {"open", "reopened"} /\ n \in registered => inserting[n]
       /\ n \in contributed \/ result[n] # "none" => stage[n] = "counting"
       /\ n \in contributed => result[n] = "none"
       /\ stage[n] = "reopened" => ~called /\ \A o \in Node : stage[o] \in {"closed", "reopened"}

\* The earliest elements that are not on the root node.
Away == {e \in Earliest : status[e] = "moving" \/ loc[e] # Root}

\* Only earliest elements exist until all of these do, and nothing moves before;
\* afterwards no more of them are away than have moved.
RootHeld ==
  /\ \/ \A e \in Earliest : status[e] # "absent"
     \/ /\ phase = 0 /\ moves = 0
        /\ \A e \in Elements : status[e] # "absent" => e \in Earliest
  /\ \A e \in Elements : status[e] = "absent" => loc[e] = Place[e]
  /\ moves <= MaxMoves /\ Cardinality(Away) <= moves

RootInv == Registered /\ StagesInOrder /\ RootHeld /\ NoAbort

\* There is an element on the root node once anything has been inserted.
LEMMA RootOccupied ==
  ASSUME RootFirst, TypeOK, Registered, RootHeld, NEW e \in Elements, status[e] # "absent"
  PROVE  ElementsAt(Root) # {}
<1>1. IsFiniteSet(Earliest) /\ IsFiniteSet(Away) /\ Away \subseteq Earliest
  BY TreeBuilderAssumption, FS_Subset DEF Earliest, Away
<1>2. Cardinality(Earliest) \in Nat /\ Cardinality(Away) \in Nat
  BY <1>1, FS_CardinalityType
<1>3. Cardinality(Away) < Cardinality(Earliest)
  BY <1>2, TreeBuilderAssumption DEF RootHeld, RootFirst, TypeOK
<1>4. \A g \in Earliest \ Away : loc[g] = Root /\ status[g] # "moving"
  BY DEF Away
<1>5. \A g \in Elements : status[g] \in {"absent", "registered", "moving"}
  BY DEF TypeOK, Statuses, Registered
<1>6. CASE \A g \in Earliest : status[g] # "absent"
  <2>1. Earliest \ Away # {}
    <3>. SUFFICES ASSUME Earliest \ Away = {} PROVE FALSE
      OBVIOUS
    <3>1. Away = Earliest
      BY <1>1
    <3>. QED
      BY <1>2, <1>3, <3>1
  <2>2. PICK g \in Earliest \ Away : TRUE
    BY <2>1
  <2>. QED
    BY <1>4, <1>5, <1>6, <2>2 DEF ElementsAt, Earliest
<1>7. CASE /\ phase = 0 /\ moves = 0
           /\ \A g \in Elements : status[g] # "absent" => g \in Earliest
  <2>1. Away = {}
    BY <1>1, <1>2, <1>7, FS_EmptySet DEF RootHeld
  <2>2. e \in Earliest \ Away
    BY <1>7, <2>1
  <2>. QED
    BY <1>4, <1>5, <2>2 DEF ElementsAt
<1>. QED
  BY <1>6, <1>7 DEF RootHeld

\* The endpoint is an element, so it is never made while the root node is empty.
LEMMA RootEmpty ==
  ASSUME RootFirst, TypeOK, SpanningInv, Registered, RootHeld, ElementsAt(Root) = {}
  PROVE  /\ endpoints[Root] = NoIndex
         /\ \A e \in Elements : status[e] = "absent"
<1>1. \A e \in Elements : status[e] = "absent"
  BY RootOccupied
<1>2. ASSUME endpoints[Root] # NoIndex
      PROVE  FALSE
  <2>1. endpoints[Root] \in Elements
    BY <1>2, RootIsNode DEF TypeOK
  <2>2. status[endpoints[Root]] \in {"registered", "moving"}
    BY <1>2 DEF SpanningInv, EndpointsSpread
  <2>. QED
    BY <1>1, <2>1, <2>2
<1>. QED
  BY <1>1, <1>2

\* No handler aborts.
LEMMA NoneAborts ==
  ASSUME RootFirst, TypeOK, ConstructionInv, SpanningInv, RootInv, [Next]_vars
  PROVE  NoAbort'
<1>0. CASE UNCHANGED aborted
  BY <1>0 DEF RootInv, NoAbort
<1>1. CASE Deliver
  <2>. PICK m \in msgs : RegEndpoint(m) \/ ReceiveDownstream(m) \/ ReceiveUpstream(m)
    BY <1>1 DEF Deliver
  <2>1. CASE RegEndpoint(m)
    <3>1. endpoints[m.dst] = NoIndex
      BY <2>1 DEF RegEndpoint, SpanningInv, EndpointsSpread
    <3>. QED
      BY <1>0, <2>1, <3>1 DEF RegEndpoint
  <2>2. CASE ReceiveDownstream(m)
    <3>1. ~ (ElementsAt(m.dst) = {} /\ m.dst = Root /\ endpoints[m.dst] # NoIndex)
      BY RootEmpty DEF RootInv
    <3>. QED
      BY <1>0, <2>2, <3>1 DEF ReceiveDownstream
  <2>3. CASE ReceiveUpstream(m)
    <3>1. OrphanTargets(m.dst) # {}
      BY <2>3, UpstreamTarget DEF ReceiveUpstream
    <3>. QED
      BY <1>0, <2>3, <3>1 DEF ReceiveUpstream
  <2>. QED
    BY <2>1, <2>2, <2>3
<1>2. CASE Startup
  <2>1. ASSUME NEW n \in Node, RegArray(n) PROVE NoAbort'
    BY <1>0, <2>1 DEF RegArray, RootInv, Registered
  <2>2. ASSUME NEW n \in Node, StartupProcess(n) PROVE NoAbort'
    BY <2>2 DEF StartupProcess, RootInv, Registered
  <2>. QED
    BY <1>2, <2>1, <2>2 DEF Startup
<1>3. CASE Counting
  BY <1>0, <1>3 DEF Counting, Reduce, DoneInserting, RecvCount
<1>4. ASSUME NEW e \in Elements, ElementCreated(e) PROVE NoAbort'
  <2>1. loc[e] \in Node /\ loc[e] \in registered /\ status[e] = "absent" /\ RegElement(loc[e], e)
    BY <1>4 DEF ElementCreated, AllRegistered, TypeOK
  <2>2. ~ Inserted
    BY <1>4 DEF ElementCreated, Inserted
  <2>3. inserting[loc[e]]
    BY <2>1, <2>2 DEF RootInv, StagesInOrder
  <2>4. ~ (ElementsAt(loc[e]) = {} /\ loc[e] = Root /\ endpoints[loc[e]] # NoIndex)
    BY RootEmpty DEF RootInv
  <2>. QED
    BY <1>0, <2>1, <2>3, <2>4 DEF RegElement, AdoptLocally, SeekRemotely, BecomeEndpoint
<1>5. CASE CallDone \/ BeginCallback
  BY <1>0, <1>5 DEF CallDone, BeginCallback
<1>6. ASSUME NEW n \in Node, BeginInserting(n) PROVE NoAbort'
  BY <1>0, <1>6 DEF BeginInserting
<1>7. ASSUME NEW e \in Elements, ElementLeaving(e) PROVE NoAbort'
  BY <1>0, <1>7 DEF ElementLeaving
<1>8. ASSUME NEW e \in Elements, NEW n \in Node, ElementArriving(e, n) PROVE NoAbort'
  BY <1>0, <1>8 DEF ElementArriving
<1>9. CASE UNCHANGED vars
  BY <1>0, <1>9 DEF vars
<1>. QED
  BY <1>1, <1>2, <1>3, <1>4, <1>5, <1>6, <1>7, <1>8, <1>9 DEF Next, Stay

\* The messages are sent, and the elements inserted, by registered nodes.
LEMMA RegisteredStep ==
  ASSUME TypeOK, Registered, [Next]_vars, NoAbort'
  PROVE  Registered'
<1>1. CASE Deliver
  <2>. PICK m \in msgs : RegEndpoint(m) \/ ReceiveDownstream(m) \/ ReceiveUpstream(m)
    BY <1>1 DEF Deliver
  <2>1. m.dst \in Node /\ registered = Node /\ present = Node
    BY DEF Registered, TypeOK, Message
  <2>2. UNCHANGED <<registered, status>>
    BY DEF RegEndpoint, ReceiveDownstream, ReceiveUpstream, Abort, NoAbort
  <2>3. present' = present
    BY <2>1 DEF RegEndpoint, ReceiveDownstream, AdoptRemote, PassUp, CrownRemote, ReceiveUpstream,
                Abort, NoAbort
  <2>. QED
    BY <2>1, <2>2, <2>3 DEF Registered
<1>2. CASE Startup
  <2>1. ASSUME NEW n \in Node, RegArray(n) PROVE Registered'
    <3>1. /\ registered' = registered \cup {n} /\ present' = present \cup {n}
          /\ UNCHANGED <<status, msgs, called>>
      BY <2>1 DEF RegArray, Abort, NoAbort, treeVars, countVars
    <3>. QED
      BY <3>1 DEF Registered, TypeOK
  <2>2. ASSUME NEW n \in Node, StartupProcess(n) PROVE Registered'
    BY <2>2 DEF StartupProcess, Registered
  <2>. QED
    BY <1>2, <2>1, <2>2 DEF Startup
<1>3. CASE Counting
  BY <1>3 DEF Counting, Reduce, DoneInserting, RecvCount, Registered, nodeVars, treeVars
<1>4. ASSUME NEW e \in Elements, ElementCreated(e) PROVE Registered'
  <2>1. loc[e] \in Node /\ registered = Node /\ present = Node /\ RegElement(loc[e], e)
    BY <1>4 DEF ElementCreated, AllRegistered, TypeOK, Registered
  <2>2. UNCHANGED registered /\ status' = [status EXCEPT ![e] = "registered"]
    BY <2>1 DEF RegElement, AdoptLocally, SeekRemotely, BecomeEndpoint, Abort, NoAbort
  <2>3. present' = present \/ present' = present \cup {loc[e]}
    <3>1. AdoptLocally(loc[e], e) \/ SeekRemotely(loc[e], e) \/ BecomeEndpoint(loc[e], e)
      BY <2>1 DEF RegElement, Abort, NoAbort
    <3>. QED
      BY <3>1 DEF AdoptLocally, SeekRemotely, BecomeEndpoint
  <2>4. present' = Node
    BY <2>1, <2>3
  <2>. QED
    BY <2>1, <2>2, <2>4 DEF Registered, TypeOK
<1>5. CASE CallDone \/ BeginCallback
  BY <1>5 DEF CallDone, BeginCallback, AllRegistered, Registered, nodeVars, treeVars
<1>6. ASSUME NEW n \in Node, BeginInserting(n) PROVE Registered'
  BY <1>6 DEF BeginInserting, Registered, treeVars
<1>7. ASSUME NEW e \in Elements, ElementLeaving(e) PROVE Registered'
  BY <1>7 DEF ElementLeaving, Registered, TypeOK, nodeVars, countVars
<1>8. ASSUME NEW e \in Elements, NEW n \in Node, ElementArriving(e, n) PROVE Registered'
  BY <1>8 DEF ElementArriving, Registered, TypeOK, nodeVars, countVars
<1>9. CASE UNCHANGED vars
  BY <1>9 DEF vars, Registered, nodeVars, treeVars, countVars
<1>. QED
  BY <1>1, <1>2, <1>3, <1>4, <1>5, <1>6, <1>7, <1>8, <1>9 DEF Next, Stay

stageVars == <<called, stage, phase, contributed, result, inserting, registered>>

LEMMA StagesUnchanged ==
  ASSUME StagesInOrder, UNCHANGED stageVars,
         \A e \in Elements : status[e] # "absent" => status'[e] # "absent"
  PROVE  StagesInOrder'
BY DEF StagesInOrder, Inserted, stageVars

\* done_inserting and begin_inserting go through their stages in order.
LEMMA StagesStep ==
  ASSUME RootFirst, TypeOK, Registered, StagesInOrder, [Next]_vars, NoAbort'
  PROVE  StagesInOrder'
<1>0. CASE UNCHANGED stageVars /\ \A e \in Elements : status[e] # "absent" => status'[e] # "absent"
  BY <1>0, StagesUnchanged
<1>1. CASE Deliver
  <2>1. UNCHANGED <<stageVars, status>>
    BY <1>1 DEF Deliver, RegEndpoint, ReceiveDownstream, ReceiveUpstream, Abort, NoAbort,
                stageVars, countVars
  <2>. QED
    BY <1>0, <2>1
<1>2. CASE Startup
  <2>1. ASSUME NEW n \in Node, RegArray(n) PROVE StagesInOrder'
    <3>1. /\ registered' = registered \cup {n} /\ inserting' = [inserting EXCEPT ![n] = TRUE]
          /\ UNCHANGED <<called, stage, phase, contributed, result, status>>
      BY <2>1 DEF RegArray, Abort, NoAbort, treeVars, countVars
    <3>2. Inserted' <=> Inserted
      BY <3>1 DEF Inserted
    <3>3. \A k \in Node : k \in registered' =>
             (k \in registered /\ inserting'[k] = inserting[k]) \/ inserting'[k]
      BY <3>1 DEF TypeOK
    <3>. QED
      BY <3>1, <3>2, <3>3 DEF StagesInOrder
  <2>2. ASSUME NEW n \in Node, StartupProcess(n) PROVE StagesInOrder'
    BY <2>2 DEF StartupProcess, Registered
  <2>. QED
    BY <1>2, <2>1, <2>2 DEF Startup
<1>3. CASE Reduce
  <2>1. /\ contributed = Node /\ contributed' = {}
        /\ UNCHANGED <<called, stage, phase, inserting, registered, status>>
    BY <1>3 DEF Reduce, nodeVars, treeVars
  <2>2. Inserted' <=> Inserted
    BY <2>1 DEF Inserted
  <2>3. \A n \in Node : stage[n] = "counting"
    BY <2>1 DEF StagesInOrder
  <2>. QED
    BY <2>1, <2>2, <2>3 DEF StagesInOrder
<1>4. ASSUME NEW n \in Node, DoneInserting(n) PROVE StagesInOrder'
  <2>1. /\ called /\ stage[n] = "open"
        /\ contributed' = contributed \cup {n} /\ stage' = [stage EXCEPT ![n] = "counting"]
        /\ UNCHANGED <<called, phase, result, inserting, registered, status>>
    BY <1>4 DEF DoneInserting, Contribute, nodeVars, treeVars
  <2>2. Inserted' <=> Inserted
    BY <2>1 DEF Inserted
  <2>3. \A k \in Node : stage[k] # "reopened"
    BY <2>1 DEF StagesInOrder
  <2>4. \A k \in Node : stage'[k] = IF k = n THEN "counting" ELSE stage[k]
    BY <2>1 DEF TypeOK
  <2>. QED
    BY <2>1, <2>2, <2>3, <2>4 DEF StagesInOrder
<1>5. ASSUME NEW n \in Node, RecvCount(n) PROVE StagesInOrder'
  <2>1. /\ result[n] # "none" /\ result' = [result EXCEPT ![n] = "none"]
        /\ UNCHANGED <<called, phase, registered, status>>
    BY <1>5 DEF RecvCount, treeVars
  <2>2. Inserted' <=> Inserted
    BY <2>1 DEF Inserted
  <2>3. stage[n] = "counting" /\ n \notin contributed /\ \A k \in Node : stage[k] # "reopened"
    BY <2>1 DEF StagesInOrder
  <2>4. \A k \in Node : result'[k] = IF k = n THEN "none" ELSE result[k]
    BY <2>1 DEF TypeOK
  <2>5. CASE /\ inserting' = [inserting EXCEPT ![n] = FALSE]
             /\ stage' = [stage EXCEPT ![n] = "closed"]
             /\ UNCHANGED contributed
    <3>1. \A k \in Node : stage'[k] = IF k = n THEN "closed" ELSE stage[k]
      BY <2>5 DEF TypeOK
    <3>2. \A k \in Node : k # n => inserting'[k] = inserting[k]
      BY <2>5 DEF TypeOK
    <3>. QED
      BY <2>1, <2>2, <2>3, <2>4, <2>5, <3>1, <3>2 DEF StagesInOrder
  <2>6. CASE contributed' = contributed \cup {n} /\ UNCHANGED <<inserting, stage>>
    BY <2>1, <2>2, <2>3, <2>4, <2>6 DEF StagesInOrder
  <2>. QED
    BY <1>5, <2>5, <2>6 DEF RecvCount, Contribute
<1>6. ASSUME NEW e \in Elements, ElementCreated(e) PROVE StagesInOrder'
  <2>1. UNCHANGED stageVars /\ status' = [status EXCEPT ![e] = "registered"]
    BY <1>6 DEF ElementCreated, RegElement, AdoptLocally, SeekRemotely, BecomeEndpoint, Abort,
                NoAbort, stageVars, countVars
  <2>2. \A g \in Elements : status[g] # "absent" => status'[g] # "absent"
    BY <2>1 DEF TypeOK
  <2>. QED
    BY <1>0, <2>1, <2>2
<1>7. CASE CallDone
  <2>1. /\ \A n \in Node : stage[n] = "open"
        /\ \A e \in Elements : Batch[e] <= phase => status[e] # "absent"
        /\ UNCHANGED <<stage, phase, contributed, result, inserting, registered, status>>
    BY <1>7 DEF CallDone, RootFirst, nodeVars, treeVars
  <2>2. Inserted'
    BY <2>1 DEF Inserted
  <2>. QED
    BY <2>1, <2>2 DEF StagesInOrder
<1>8. ASSUME NEW n \in Node, BeginInserting(n) PROVE StagesInOrder'
  <2>1. /\ stage[n] = "closed" /\ \A o \in Node : stage[o] \in {"closed", "reopened"}
        /\ inserting' = [inserting EXCEPT ![n] = TRUE]
        /\ stage' = [stage EXCEPT ![n] = "reopened"]
        /\ called' = FALSE
        /\ UNCHANGED <<registered, contributed, result, phase, status>>
    BY <1>8 DEF BeginInserting, treeVars
  <2>2. Inserted /\ (Inserted' <=> Inserted)
    BY <2>1 DEF Inserted, StagesInOrder
  <2>3. \A k \in Node : stage'[k] = IF k = n THEN "reopened" ELSE stage[k]
    BY <2>1 DEF TypeOK
  <2>4. \A k \in Node : inserting'[k] = IF k = n THEN TRUE ELSE inserting[k]
    BY <2>1 DEF TypeOK
  <2>. QED
    BY <2>1, <2>2, <2>3, <2>4 DEF StagesInOrder
<1>9. CASE BeginCallback
  <2>1. /\ \A n \in Node : stage[n] = "reopened" /\ stage'[n] = "open"
        /\ UNCHANGED <<called, inserting, registered, contributed, result>>
    BY <1>9 DEF BeginCallback, nodeVars
  <2>2. ~called
    BY <2>1, RootIsNode DEF StagesInOrder
  <2>. QED
    BY <2>1, <2>2 DEF StagesInOrder
<1>10. ASSUME NEW e \in Elements, ElementLeaving(e) PROVE StagesInOrder'
  <2>1. UNCHANGED stageVars /\ \A g \in Elements : status[g] # "absent" => status'[g] # "absent"
    BY <1>10 DEF ElementLeaving, TypeOK, stageVars, nodeVars, countVars
  <2>. QED
    BY <1>0, <2>1
<1>11. ASSUME NEW e \in Elements, NEW n \in Node, ElementArriving(e, n) PROVE StagesInOrder'
  <2>1. UNCHANGED stageVars /\ \A g \in Elements : status[g] # "absent" => status'[g] # "absent"
    BY <1>11 DEF ElementArriving, TypeOK, stageVars, nodeVars, countVars
  <2>. QED
    BY <1>0, <2>1
<1>12. CASE UNCHANGED vars
  BY <1>0, <1>12 DEF vars, stageVars, nodeVars, treeVars, countVars
<1>. QED
  BY <1>1, <1>2, <1>3, <1>4, <1>5, <1>6, <1>7, <1>8, <1>9, <1>10, <1>11, <1>12 DEF Next, Stay, Counting

heldVars == <<status, loc, phase, moves>>

\* Elements are inserted on the root node first, and enough of them stay.
LEMMA HeldStep ==
  ASSUME RootFirst, TypeOK, ConstructionInv, Registered, StagesInOrder, RootHeld, [Next]_vars,
         NoAbort'
  PROVE  RootHeld'
<1>0. CASE UNCHANGED heldVars
  BY <1>0 DEF RootHeld, Away, heldVars
<1>f. IsFiniteSet(Away)
  BY TreeBuilderAssumption, FS_Subset DEF Earliest, Away
<1>1. CASE Deliver
  <2>1. UNCHANGED heldVars
    BY <1>1 DEF Deliver, RegEndpoint, ReceiveDownstream, ReceiveUpstream, Abort, NoAbort,
                heldVars, countVars
  <2>. QED
    BY <1>0, <2>1
<1>2. CASE Startup
  <2>1. ASSUME NEW n \in Node, RegArray(n) PROVE RootHeld'
    BY <1>0, <2>1 DEF RegArray, Abort, NoAbort, heldVars, treeVars, countVars
  <2>2. ASSUME NEW n \in Node, StartupProcess(n) PROVE RootHeld'
    BY <2>2 DEF StartupProcess, Registered
  <2>. QED
    BY <1>2, <2>1, <2>2 DEF Startup
<1>3. CASE Counting
  BY <1>0, <1>3 DEF Counting, Reduce, DoneInserting, RecvCount, heldVars, nodeVars, treeVars
<1>4. ASSUME NEW e \in Elements, ElementCreated(e) PROVE RootHeld'
  <2>1. /\ status[e] = "absent" /\ Batch[e] <= phase
        /\ status' = [status EXCEPT ![e] = "registered"]
        /\ UNCHANGED <<loc, phase, moves>>
    BY <1>4 DEF ElementCreated, RegElement, AdoptLocally, SeekRemotely, BecomeEndpoint, Abort,
                NoAbort, countVars
  <2>2. \A g \in Elements : status'[g] = IF g = e THEN "registered" ELSE status[g]
    BY <2>1 DEF TypeOK
  <2>3. phase = 0 => e \in Earliest
    BY <2>1, TreeBuilderAssumption DEF Earliest
  <2>4. Away' = Away
    BY <2>1, <2>2 DEF Away, Earliest
  <2>. QED
    BY <2>1, <2>2, <2>3, <2>4 DEF RootHeld, Earliest
<1>5. CASE CallDone
  BY <1>0, <1>5 DEF CallDone, heldVars, treeVars
<1>6. ASSUME NEW n \in Node, BeginInserting(n) PROVE RootHeld'
  BY <1>0, <1>6 DEF BeginInserting, heldVars, treeVars
<1>7. CASE BeginCallback
  <2>1. stage[Root] = "reopened" /\ UNCHANGED <<status, loc, moves>>
    BY <1>7, RootIsNode DEF BeginCallback, treeVars
  <2>2. \A e \in Earliest : status[e] # "absent"
    BY <2>1, RootIsNode DEF StagesInOrder, Inserted, Earliest, TypeOK
  <2>. QED
    BY <2>1, <2>2 DEF RootHeld, Away
<1>8. ASSUME NEW e \in Elements, ElementLeaving(e) PROVE RootHeld'
  <2>1. /\ stage[Root] = "closed" /\ moves < MaxMoves /\ moves' = moves + 1
        /\ status' = [status EXCEPT ![e] = "moving"] /\ status[e] = "registered"
        /\ UNCHANGED <<loc, phase>>
    BY <1>8, RootIsNode DEF ElementLeaving, AllClosed, countVars
  <2>2. \A g \in Earliest : status[g] # "absent"
    BY <2>1, RootIsNode DEF StagesInOrder, Inserted, Earliest, TypeOK
  <2>3. \A g \in Elements : status'[g] = IF g = e THEN "moving" ELSE status[g]
    BY <2>1 DEF TypeOK
  <2>4. \A g \in Earliest : status'[g] # "absent"
    BY <2>2, <2>3 DEF Earliest
  <2>5. Away' \subseteq Away \cup {e}
    BY <2>1, <2>3 DEF Away, Earliest
  <2>6. Cardinality(Away') <= moves + 1
    <3>1. IsFiniteSet(Away \cup {e}) /\ Cardinality(Away \cup {e}) <= Cardinality(Away) + 1
      <4>1. IsFiniteSet(Away \cup {e}) /\ (Cardinality(Away \cup {e}) = Cardinality(Away)
                                           \/ Cardinality(Away \cup {e}) = Cardinality(Away) + 1)
        BY <1>f, FS_AddElement
      <4>2. Cardinality(Away) \in Nat
        BY <1>f, FS_CardinalityType
      <4>. QED
        BY <4>1, <4>2
    <3>2. IsFiniteSet(Away') /\ Cardinality(Away') <= Cardinality(Away \cup {e})
      BY <2>5, <3>1, FS_Subset
    <3>3. /\ Cardinality(Away') \in Nat /\ Cardinality(Away) \in Nat
          /\ Cardinality(Away \cup {e}) \in Nat
      BY <1>f, <3>1, <3>2, FS_CardinalityType
    <3>4. moves \in Nat /\ Cardinality(Away) <= moves
      BY DEF TypeOK, RootHeld
    <3>. QED
      BY <3>1, <3>2, <3>3, <3>4
  <2>7. moves' <= MaxMoves
    BY <2>1, TreeBuilderAssumption DEF TypeOK
  <2>8. \A g \in Elements : status'[g] = "absent" => loc'[g] = Place[g]
    BY <2>1, <2>3 DEF RootHeld
  <2>. QED
    BY <2>1, <2>4, <2>6, <2>7, <2>8 DEF RootHeld
<1>9. ASSUME NEW e \in Elements, NEW n \in Node, ElementArriving(e, n) PROVE RootHeld'
  <2>1. /\ status[e] = "moving"
        /\ status' = [status EXCEPT ![e] = "registered"] /\ loc' = [loc EXCEPT ![e] = n]
        /\ UNCHANGED <<phase, moves>>
    BY <1>9 DEF ElementArriving, countVars
  <2>2. \A g \in Elements : status'[g] = (IF g = e THEN "registered" ELSE status[g])
                             /\ loc'[g] = (IF g = e THEN n ELSE loc[g])
    BY <2>1 DEF TypeOK
  <2>3. Away' \subseteq Away
    BY <2>1, <2>2 DEF Away, Earliest
  <2>4. Cardinality(Away') <= moves
    <3>1. IsFiniteSet(Away') /\ Cardinality(Away') <= Cardinality(Away)
      BY <1>f, <2>3, FS_Subset
    <3>2. Cardinality(Away') \in Nat /\ Cardinality(Away) \in Nat
      BY <1>f, <3>1, FS_CardinalityType
    <3>. QED
      BY <3>1, <3>2 DEF TypeOK, RootHeld
  <2>5. \/ \A g \in Earliest : status'[g] # "absent"
        \/ /\ phase' = 0 /\ moves' = 0
           /\ \A g \in Elements : status'[g] # "absent" => g \in Earliest
    BY <2>1, <2>2 DEF RootHeld, Earliest
  <2>6. \A g \in Elements : status'[g] = "absent" => loc'[g] = Place[g]
    BY <2>1, <2>2 DEF RootHeld
  <2>. QED
    BY <2>1, <2>4, <2>5, <2>6 DEF RootHeld
<1>10. CASE UNCHANGED vars
  BY <1>0, <1>10 DEF vars, heldVars, treeVars, countVars
<1>. QED
  BY <1>1, <1>2, <1>3, <1>4, <1>5, <1>6, <1>7, <1>8, <1>9, <1>10 DEF Next, Stay

\* No assertion fails and nothing unimplemented is called, when the root node's
\* elements are inserted in a phase of their own before any other, insertions
\* settle before done_inserting is called, the root node is never emptied, and
\* moves are quiet.
THEOREM NeverAborts ==
  ASSUME RootFirst
  PROVE  QuietSpec => []NoAbort
<1>1. Init => RootInv
  <2>. SUFFICES ASSUME Init PROVE RootInv
    OBVIOUS
  <2>1. /\ \A e \in Elements : status[e] = "absent" /\ loc[e] = Place[e]
        /\ registered = {} /\ present = {} /\ msgs = {} /\ ~called /\ contributed = {}
        /\ \A n \in Node : stage[n] = "open" /\ result[n] = "none"
        /\ phase = 0 /\ moves = 0 /\ aborted = "none"
    BY DEF Init, RootFirst
  <2>2. Away = {}
    BY <2>1 DEF Away, RootFirst, Earliest
  <2>3. Cardinality(Away) <= moves /\ moves <= MaxMoves
    BY <2>1, <2>2, FS_EmptySet, TreeBuilderAssumption
  <2>. QED
    BY <2>1, <2>3 DEF RootInv, Registered, StagesInOrder, RootHeld, NoAbort
<1>2. TypeOK /\ ConstructionInv /\ SpanningInv /\ RootInv /\ [Next]_vars => RootInv'
  <2>. SUFFICES ASSUME TypeOK, ConstructionInv, SpanningInv, RootInv, [Next]_vars PROVE RootInv'
    OBVIOUS
  <2>1. NoAbort'
    BY NoneAborts
  <2>2. Registered /\ StagesInOrder /\ RootHeld
    BY DEF RootInv
  <2>. QED
    BY <2>1, <2>2, RegisteredStep, StagesStep, HeldStep DEF RootInv
<1>3. RootInv => NoAbort
  BY DEF RootInv
<1>. QED
  BY <1>1, <1>2, <1>3, TypeCorrect, QuietIsSpec, ConstructionCorrect, PTL DEF Spec
=============================================================================
