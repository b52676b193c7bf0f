---------------------------- MODULE TreeBuilder ----------------------------
(***************************************************************************)
(* The tree_builder nodegroup: it strings the elements of a chare array    *)
(* into a spanning tree while they are inserted (a "static" insertion      *)
(* phase), and closes the phase with a counting reduction that is meant to *)
(* detect that no construction message is in flight.                       *)
(*                                                                         *)
(* One array is modelled: every map of the class is keyed by the array id. *)
(* The nodes form a binary tree.  An element that is the first of its node *)
(* has no local parent, so it is sent up the node tree until a node that   *)
(* holds elements adopts it, or the root node makes it the endpoint.       *)
(*                                                                         *)
(* Handlers run under lock() and are atomic.  Messages between nodes are   *)
(* neither lost nor duplicated by Charm++, but arrive in any order.        *)
(***************************************************************************)
EXTENDS Integers, FiniteSets, Functions

CONSTANTS
  NumNodes,     \* CkNumNodes()
  Elements,     \* the indices of the array
  Place,        \* the node on which each element is created
  Initial,      \* elements that exist before the array is registered
  Batch,        \* the insertion phase in which each element is inserted
  MaxPhases,    \* bound: number of insertion phases
  MaxMoves,     \* bound: number of migrations
  Smp,          \* CMK_SMP: other handlers may run between two registrations
  SettleFirst,  \* the caller awaits its insertions before done_inserting
  NoIndex       \* stands for a missing entry of endpoints_

Node == 0 .. (NumNodes - 1)
Root == 0

ASSUME TreeBuilderAssumption ==
  /\ NumNodes \in Nat \ {0}
  /\ IsFiniteSet(Elements)
  /\ Place \in [Elements -> Node]
  /\ Initial \subseteq Elements
  /\ Batch \in [Elements -> Nat]
  /\ MaxPhases \in Nat /\ MaxMoves \in Nat
  /\ Smp \in BOOLEAN /\ SettleFirst \in BOOLEAN
  /\ NoIndex \notin Elements

VARIABLES
  registered,   \* nodes whose reg_array handler has run
  present,      \* nodes whose arrays_ holds an entry for the array
  arrays,       \* arrays_: the produce/consume count of each node
  inserting,    \* insertion_statuses_
  endpoints,    \* endpoints_: the last known root of the spanning tree
  status,       \* where each element is in its life
  loc,          \* the node an element is on (last on, while it moves)
  valid,        \* association_->valid_upstream_
  upstream,     \* association_->upstream_
  downstream,   \* association_->downstream_
  msgs,         \* construction messages in flight
  phase,        \* the number of the current insertion phase
  stage,        \* progress of done_inserting / begin_inserting on each node
  contrib,      \* each node's contribution to the counting reduction
  contributed,  \* the nodes that have contributed to its current round
  result,       \* "gcount == 0", on its way to each node's recv_count_
  called,       \* done_inserting has been broadcast in this phase
  moves,        \* number of migrations so far
  aborted       \* the CkAbort / CkAssert that ended the program, if any

nodeVars  == <<registered, present, inserting, endpoints>>
treeVars  == <<status, loc, valid, upstream, downstream>>
countVars == <<stage, contrib, contributed, result, called, phase>>
vars == <<nodeVars, treeVars, countVars, arrays, msgs, moves, aborted>>

Statuses  == {"absent", "unlisted", "registered", "moving"}
Stages    == {"open", "counting", "closed", "reopened"}
Results   == {"none", "zero", "nonzero"}
Aborts    == {"none", "registered twice", "insertion did not occur",
              "dynamic insertions must be associated", "not yet implemented"}

(***************************************************************************)
(* binary_tree.                                                            *)
(***************************************************************************)
Parent(i) == IF i > 0 THEN (i - 1) \div 2 ELSE -1

Leaves(i) == {2 * i + 1, 2 * i + 2} \cap Node

(***************************************************************************)
(* Messages.  The field child of a receive_upstream names the element the  *)
(* answer is about; the code does not send it and no handler reads it.     *)
(***************************************************************************)
Message == [type : {"receive_downstream", "receive_upstream", "reg_endpoint"},
            dst : Node, src : Node, idx : Elements, child : Elements]

DownstreamMsg(dst, src, e) ==
  [type |-> "receive_downstream", dst |-> dst, src |-> src, idx |-> e, child |-> e]

UpstreamMsg(dst, src, t, e) ==
  [type |-> "receive_upstream", dst |-> dst, src |-> src, idx |-> t, child |-> e]

EndpointMsgs_FirstOnly(n, e) ==
  {[type |-> "reg_endpoint", dst |-> l, src |-> n, idx |-> e, child |-> e] :
     l \in Leaves(n) \cap {2 * n + 1}}

EndpointMsgs(n, e) ==
  {[type |-> "reg_endpoint", dst |-> l, src |-> n, idx |-> e, child |-> e] :
     l \in Leaves(n)}

-----------------------------------------------------------------------------
ElementsAt(n) == {e \in Elements : status[e] = "registered" /\ loc[e] = n}

Orphan(e) == status[e] = "registered" /\ ~valid[e]

OrphanTargets(n) == {e \in ElementsAt(n) : ~valid[e]}

\* find_target(aid, false): the elements with the fewest downstream members;
\* std::min_element returns the first of them in the hash map's order
FewestTargets(n) ==
  {t \in ElementsAt(n) : \A u \in ElementsAt(n) :
     Cardinality(downstream[t]) <= Cardinality(downstream[u])}

\* the change of the count when reg_endpoint has run: it produced one message
\* for each leaf and consumed the one that brought it here
EndpointQd_ForgetsConsume(n) == Cardinality(Leaves(n))

EndpointQd(n) == Cardinality(Leaves(n)) - 1

Running == aborted = "none"

\* In a non-SMP build the registration loop of reg_array is one handler, so
\* nothing else runs on the node before it has registered every element.
Starting(n) ==
  n \in registered /\ \E e \in Elements : status[e] = "unlisted" /\ loc[e] = n

Idle(n) == Smp \/ ~Starting(n)

AllRegistered == registered = Node /\ \A n \in Node : ~Starting(n)

Abort(why) ==
  /\ aborted' = why
  /\ UNCHANGED <<nodeVars, treeVars, countVars, arrays, msgs, moves>>

-----------------------------------------------------------------------------
(***************************************************************************)
(* Registration of an element.                                             *)
(***************************************************************************)

AdoptLocally_ForgetsValid(n, e) ==
  /\ \E t \in FewestTargets(n) :
       /\ downstream' = [downstream EXCEPT ![t] = @ \cup {e}]
       /\ upstream' = [upstream EXCEPT ![e] = @ \cup {t}]
  /\ status' = [status EXCEPT ![e] = "registered"]
  /\ UNCHANGED <<present, endpoints, valid, arrays, msgs, aborted>>

\* reg_downstream found a local target: both ends of the link are set
AdoptLocally(n, e) ==
  /\ \E t \in FewestTargets(n) :
       /\ downstream' = [downstream EXCEPT ![t] = @ \cup {e}]
       /\ upstream' = [upstream EXCEPT ![e] = @ \cup {t}]
  /\ valid' = [valid EXCEPT ![e] = TRUE]
  /\ status' = [status EXCEPT ![e] = "registered"]
  /\ UNCHANGED <<present, endpoints, arrays, msgs, aborted>>

\* send_upstream from a node below the root
SeekRemotely(n, e) ==
  /\ n # Root
  /\ msgs' = msgs \cup {DownstreamMsg(Parent(n), n, e)}
  /\ arrays' = [arrays EXCEPT ![n] = @ + 1]
  /\ present' = present \cup {n}
  /\ status' = [status EXCEPT ![e] = "registered"]
  /\ UNCHANGED <<endpoints, valid, upstream, downstream, aborted>>

\* send_upstream at the root: reg_endpoint, which asserts it is the first
BecomeEndpoint(n, e) ==
  /\ n = Root
  /\ endpoints[n] = NoIndex
  /\ endpoints' = [endpoints EXCEPT ![n] = e]
  /\ valid' = [valid EXCEPT ![e] = TRUE]
  /\ msgs' = msgs \cup EndpointMsgs(n, e)
  /\ arrays' = [arrays EXCEPT ![n] = @ + EndpointQd(n) + 1]
  /\ present' = present \cup {n}
  /\ status' = [status EXCEPT ![e] = "registered"]
  /\ UNCHANGED <<upstream, downstream, aborted>>

\* reg_element(elt, true) on node n.  The element is associated before it is
\* put among the elements of the node, so it never finds itself.  Nothing is
\* destroyed here, hence stop_forwarding finds no forwarding record.
RegElement(n, e) ==
  \/ /\ inserting[n]
     /\ \/ ElementsAt(n) # {} /\ AdoptLocally(n, e)
        \/ ElementsAt(n) = {} /\ SeekRemotely(n, e)
        \/ ElementsAt(n) = {} /\ BecomeEndpoint(n, e)
     /\ UNCHANGED <<registered, inserting, loc, countVars, moves>>
  \/ /\ inserting[n] /\ ElementsAt(n) = {} /\ n = Root
     /\ endpoints[n] # NoIndex
     /\ Abort("insertion did not occur")
  \/ /\ ~inserting[n]
     /\ Abort("dynamic insertions must be associated")

(***************************************************************************)
(* reg_array, broadcast once by the program, and its registration loop     *)
(* over the elements that already exist (startup_process_).                *)
(***************************************************************************)
RegArray_ForgetsStatus(n) ==
  /\ Running
  /\ n \notin registered
  /\ \/ /\ n \notin present
        /\ registered' = registered \cup {n}
        /\ present' = present \cup {n}
        /\ arrays' = [arrays EXCEPT ![n] = 0]
        /\ UNCHANGED <<inserting, endpoints, treeVars, countVars, msgs, moves, aborted>>
     \/ /\ n \in present
        /\ Abort("registered twice")

RegArray(n) ==
  /\ Running
  /\ n \notin registered
  /\ \/ /\ n \notin present
        /\ registered' = registered \cup {n}
        /\ present' = present \cup {n}
        /\ arrays' = [arrays EXCEPT ![n] = 0]
        /\ inserting' = [inserting EXCEPT ![n] = TRUE]
        /\ UNCHANGED <<endpoints, treeVars, countVars, msgs, moves, aborted>>
     \/ /\ n \in present
        /\ Abort("registered twice")

StartupProcess(n) ==
  /\ Running
  /\ n \in registered
  /\ \E e \in Elements :
       /\ status[e] = "unlisted" /\ loc[e] = n
       /\ RegElement(n, e)

\* ckElementCreated for an insertion requested after the registration (or
\* begin_inserting) callback of the element's batch
ElementCreated(e) ==
  /\ Running
  /\ AllRegistered
  /\ status[e] = "absent"
  /\ Batch[e] <= phase
  /\ RegElement(loc[e], e)

(***************************************************************************)
(* The entry methods that place an element of another node.                *)
(***************************************************************************)

\* reg_endpoint(src, aid, idx)
RegEndpoint(m) ==
  LET n == m.dst IN
  /\ Running /\ m \in msgs /\ m.type = "reg_endpoint" /\ Idle(n)
  /\ \/ /\ endpoints[n] = NoIndex
        /\ endpoints' = [endpoints EXCEPT ![n] = m.idx]
        /\ valid' = [valid EXCEPT ![m.idx] = @ \/ m.idx \in ElementsAt(n)]
        /\ msgs' = (msgs \ {m}) \cup EndpointMsgs(n, m.idx)
        /\ arrays' = [arrays EXCEPT ![n] = @ + EndpointQd(n)]
        /\ present' = present \cup {n}
        /\ UNCHANGED <<registered, inserting, status, loc, upstream, downstream,
                       countVars, moves, aborted>>
     \/ /\ endpoints[n] # NoIndex
        /\ Abort("insertion did not occur")

\* receive_downstream, with a local element to adopt the newcomer: the answer
\* is produced in place of the request, so the count stays as it is
AdoptRemote(m) ==
  LET n == m.dst IN
  /\ ElementsAt(n) # {}
  /\ \E t \in FewestTargets(n) :
       /\ downstream' = [downstream EXCEPT ![t] = @ \cup {m.idx}]
       /\ msgs' = (msgs \ {m}) \cup {UpstreamMsg(m.src, n, t, m.idx)}
  /\ UNCHANGED <<present, endpoints, arrays>>

\* receive_downstream with none, below the root: one consumed, one produced
PassUp(m) ==
  LET n == m.dst IN
  /\ ElementsAt(n) = {} /\ n # Root
  /\ msgs' = (msgs \ {m}) \cup {DownstreamMsg(Parent(n), m.src, m.idx)}
  /\ present' = present \cup {n}
  /\ UNCHANGED <<endpoints, arrays, downstream>>

\* receive_downstream with none, at the root: the newcomer is the endpoint
CrownRemote(m) ==
  LET n == m.dst IN
  /\ ElementsAt(n) = {} /\ n = Root
  /\ endpoints[n] = NoIndex
  /\ endpoints' = [endpoints EXCEPT ![n] = m.idx]
  /\ msgs' = (msgs \ {m}) \cup EndpointMsgs(n, m.idx)
  /\ arrays' = [arrays EXCEPT ![n] = @ + EndpointQd(n)]
  /\ present' = present \cup {n}
  /\ UNCHANGED downstream

ReceiveDownstream(m) ==
  /\ Running /\ m \in msgs /\ m.type = "receive_downstream" /\ Idle(m.dst)
  /\ \/ /\ AdoptRemote(m) \/ PassUp(m) \/ CrownRemote(m)
        /\ UNCHANGED <<registered, inserting, status, loc, valid, upstream,
                       countVars, moves, aborted>>
     \/ /\ ElementsAt(m.dst) = {} /\ m.dst = Root /\ endpoints[m.dst] # NoIndex
        /\ Abort("insertion did not occur")

\* receive_upstream: the parent is given to whichever local element lacks one
ReceiveUpstream(m) ==
  LET n == m.dst IN
  /\ Running /\ m \in msgs /\ m.type = "receive_upstream" /\ Idle(n)
  /\ \/ /\ \E e \in OrphanTargets(n) :
             /\ upstream' = [upstream EXCEPT ![e] = @ \cup {m.idx}]
             /\ valid' = [valid EXCEPT ![e] = TRUE]
        /\ msgs' = msgs \ {m}
        /\ arrays' = [arrays EXCEPT ![n] = @ - 1]
        /\ present' = present \cup {n}
        /\ UNCHANGED <<registered, inserting, endpoints, status, loc, downstream,
                       countVars, moves, aborted>>
     \/ /\ OrphanTargets(n) = {}
        /\ Abort("not yet implemented")

-----------------------------------------------------------------------------
(***************************************************************************)
(* done_inserting: rounds of a sum reduction over the counts, until one    *)
(* of them is zero.  Every node contributes when its handler runs, so a    *)
(* round does not read the counts at one instant.                          *)
(***************************************************************************)

\* the program broadcasts done_inserting
CallDone ==
  /\ Running /\ AllRegistered /\ ~called
  /\ \A n \in Node : stage[n] = "open"
  /\ SettleFirst => \A e \in Elements : Batch[e] <= phase => status[e] # "absent"
  /\ called' = TRUE
  /\ UNCHANGED <<nodeVars, treeVars, stage, contrib, contributed, result, phase, arrays,
                 msgs, moves, aborted>>

Contribute(n) ==
  /\ contrib' = [contrib EXCEPT ![n] = arrays[n]]
  /\ contributed' = contributed \cup {n}

DoneInserting(n) ==
  /\ Running /\ called /\ stage[n] = "open"
  /\ inserting[n]
  /\ Contribute(n)
  /\ stage' = [stage EXCEPT ![n] = "counting"]
  /\ UNCHANGED <<nodeVars, treeVars, result, called, phase, arrays, msgs, moves,
                 aborted>>

\* what a round of the reduction delivers: is the sum of the counts zero?
SumIsZero(c) == SumFunction(c) = 0

\* Charm++ completes the reduction and broadcasts its result to recv_count_
Reduce ==
  /\ Running
  /\ contributed = Node
  /\ result' = [n \in Node |-> IF SumIsZero(contrib) THEN "zero" ELSE "nonzero"]
  /\ contributed' = {}
  /\ UNCHANGED <<nodeVars, treeVars, stage, contrib, called, phase, arrays, msgs,
                 moves, aborted>>

\* recv_count_: the phase ends on a zero, and another round starts otherwise;
\* once the loop is left the node contributes to the caller's callback
RecvCount(n) ==
  /\ Running
  /\ result[n] # "none"
  /\ result' = [result EXCEPT ![n] = "none"]
  /\ \/ /\ result[n] = "zero"
        /\ inserting' = [inserting EXCEPT ![n] = FALSE]
        /\ stage' = [stage EXCEPT ![n] = "closed"]
        /\ UNCHANGED <<contrib, contributed>>
     \/ /\ result[n] = "nonzero"
        /\ Contribute(n)
        /\ UNCHANGED <<inserting, stage>>
  /\ UNCHANGED <<registered, present, endpoints, treeVars, called, phase, arrays,
                 msgs, moves, aborted>>

\* the caller's done_inserting callback has fired
AllClosed == \A n \in Node : stage[n] = "closed"

\* begin_inserting, called when the previous phase is over
BeginInserting(n) ==
  /\ Running /\ phase < MaxPhases
  /\ stage[n] = "closed"
  /\ \A o \in Node : stage[o] \in {"closed", "reopened"}
  /\ inserting' = [inserting EXCEPT ![n] = TRUE]
  /\ stage' = [stage EXCEPT ![n] = "reopened"]
  /\ called' = FALSE
  /\ UNCHANGED <<registered, present, endpoints, treeVars, contrib, contributed, result,
                 phase, arrays, msgs, moves, aborted>>

\* the begin_inserting callback: every node is ready for insertions
BeginCallback ==
  /\ Running
  /\ \A n \in Node : stage[n] = "reopened"
  /\ stage' = [n \in Node |-> "open"]
  /\ phase' = phase + 1
  /\ UNCHANGED <<nodeVars, treeVars, called, contrib, contributed, result, arrays, msgs, moves,
                 aborted>>

-----------------------------------------------------------------------------
(***************************************************************************)
(* Migration (ckElementLeaving, ckElementArriving), by a load balancer     *)
(* that the program starts after the callback of done_inserting.  That the *)
(* callback may fire early, with messages in flight and elements without a *)
(* parent, does not stop an element from leaving.                          *)
(***************************************************************************)
ElementLeaving(e) ==
  /\ Running /\ AllClosed /\ moves < MaxMoves
  /\ status[e] = "registered"
  /\ status' = [status EXCEPT ![e] = "moving"]
  /\ moves' = moves + 1
  /\ UNCHANGED <<nodeVars, loc, valid, upstream, downstream, countVars, arrays,
                 msgs, aborted>>

ElementArriving(e, n) ==
  /\ Running
  /\ status[e] = "moving"
  /\ status' = [status EXCEPT ![e] = "registered"]
  /\ loc' = [loc EXCEPT ![e] = n]
  /\ UNCHANGED <<nodeVars, valid, upstream, downstream, countVars, arrays, msgs,
                 moves, aborted>>

-----------------------------------------------------------------------------
Init ==
  /\ registered = {} /\ present = {}
  /\ arrays = [n \in Node |-> 0]
  /\ inserting = [n \in Node |-> FALSE]
  /\ endpoints = [n \in Node |-> NoIndex]
  /\ status = [e \in Elements |-> IF e \in Initial THEN "unlisted" ELSE "absent"]
  /\ loc = Place
  /\ valid = [e \in Elements |-> FALSE]
  /\ upstream = [e \in Elements |-> {}]
  /\ downstream = [e \in Elements |-> {}]
  /\ msgs = {}
  /\ phase = 0
  /\ stage = [n \in Node |-> "open"]
  /\ contrib = [n \in Node |-> 0]
  /\ contributed = {}
  /\ result = [n \in Node |-> "none"]
  /\ called = FALSE
  /\ moves = 0
  /\ aborted = "none"

Deliver == \E m \in msgs : RegEndpoint(m) \/ ReceiveDownstream(m) \/ ReceiveUpstream(m)

Startup == \E n \in Node : RegArray(n) \/ StartupProcess(n)

Counting == Reduce \/ \E n \in Node : DoneInserting(n) \/ RecvCount(n)

Stay ==
  \/ Deliver
  \/ Startup
  \/ Counting
  \/ \E e \in Elements : ElementCreated(e)
  \/ CallDone
  \/ \E n \in Node : BeginInserting(n)
  \/ BeginCallback
  \/ \E e \in Elements, n \in Node : ElementArriving(e, n)

Next == Stay \/ \E e \in Elements : ElementLeaving(e)

Spec == Init /\ [][Next]_vars

\* The Charm++ scheduler delivers every message and every reduction it has
\* accepted; whether the program inserts, reopens or migrates is its choice.
Fairness == WF_vars(Deliver) /\ WF_vars(Startup) /\ WF_vars(Counting)

FairSpec == Spec /\ Fairness

\* An assumption on the program: a migration begins only when no construction
\* message is in flight.  The callback of done_inserting does not tell (see
\* ClosedMeansQuiescent); a program that awaits Charm++'s quiescence detection
\* before it balances its load meets it, and so does one without migrations.
QuietLeaving(e) == msgs = {} /\ ElementLeaving(e)

QuietNext == Stay \/ \E e \in Elements : QuietLeaving(e)

QuietSpec == Init /\ [][QuietNext]_vars

-----------------------------------------------------------------------------
(***************************************************************************)
(* Properties.                                                             *)
(***************************************************************************)

\* Every variable has its type; in particular construction messages are only
\* ever addressed to nodes that exist (binary_tree::parent, leaves).
TypeOK ==
  /\ registered \subseteq Node /\ present \subseteq Node
  /\ arrays \in [Node -> Int]
  /\ inserting \in [Node -> BOOLEAN]
  /\ endpoints \in [Node -> Elements \cup {NoIndex}]
  /\ status \in [Elements -> Statuses]
  /\ loc \in [Elements -> Node]
  /\ valid \in [Elements -> BOOLEAN]
  /\ upstream \in [Elements -> SUBSET Elements]
  /\ downstream \in [Elements -> SUBSET Elements]
  /\ msgs \subseteq Message
  /\ phase \in Nat
  /\ stage \in [Node -> Stages]
  /\ contrib \in [Node -> Int] /\ contributed \subseteq Node
  /\ result \in [Node -> Results]
  /\ called \in BOOLEAN
  /\ moves \in Nat
  /\ aborted \in Aborts

\* The per-node produce/consume counts of arrays_, each of which may be
\* negative, always add up to the number of construction messages in flight:
\* what done_inserting's reduction relies on.
CountsBalance == Running => SumFunction(arrays) = Cardinality(msgs)

\* receive_upstream does not say which element asked for a parent; the handler
\* takes any local element without one.  It is always the one that asked, and
\* it is still there, so send_downstream (not implemented) is never needed.
UpstreamFindsItsChild ==
  \A m \in msgs : m.type = "receive_upstream" =>
     {e \in ElementsAt(m.dst) : ~valid[e]} = {m.child}

\* An element is a downstream member of t exactly when t is its upstream
\* member or the receive_upstream that says so is on its way; and no element
\* has two upstream members.
LinksMirrored ==
  /\ \A e, t \in Elements :
       e \in downstream[t] <=>
         \/ t \in upstream[e]
         \/ \E m \in msgs : m.type = "receive_upstream" /\ m.idx = t /\ m.child = e
  /\ \A e, t, u \in Elements : t \in upstream[e] /\ u \in upstream[e] => t = u

\* A message about an element finds it in the state the message assumes.
SeekersWait ==
  \A m \in msgs :
    /\ m.type # "receive_upstream" => m.child = m.idx
    /\ m.type # "reg_endpoint" => Orphan(m.child)
    /\ status[m.child] \in {"registered", "moving"}
    /\ m.type = "receive_downstream" =>
         loc[m.child] = m.src /\ \A t \in Elements : m.child \notin downstream[t]
    /\ m.type = "receive_upstream" => loc[m.child] = m.dst

\* A message that seeks or brings a parent is the only one about its element.
SoleMessage ==
  \A m, k \in msgs : m.type # "reg_endpoint" /\ m.child = k.child => m = k

\* A node never holds two elements that wait for a parent.
OneOrphanPerNode ==
  \A e, g \in Elements : Orphan(e) /\ Orphan(g) /\ loc[e] = loc[g] => e = g

\* Only associated elements have upstream members, and, if all moves are quiet,
\* only they migrate.
ValidityFollowsLife ==
  \A e \in Elements :
    /\ ~valid[e] => upstream[e] = {}
    /\ status[e] \in {"absent", "unlisted"} => ~valid[e]
    /\ status[e] = "moving" => valid[e]

\* What makes UpstreamFindsItsChild and LinksMirrored inductive: seekers wait
\* where their messages say they do, one per node, one message per seeker.
ConstructionInv ==
  SeekersWait /\ SoleMessage /\ OneOrphanPerNode /\ ValidityFollowsLife /\ LinksMirrored

\* The elements below root: the least set that has root and, with an element,
\* those whose upstream member it is.
Below(root) ==
  {e \in Elements : \A S \in SUBSET Elements :
     (root \in S /\ \A x \in Elements : upstream[x] \cap S # {} => x \in S) => e \in S}

\* Once no construction message is in flight, the registered elements form one
\* tree: every node agrees on its endpoint, and every element reaches it
\* through its upstream members (so there is no cycle and no second root).
TreeWhenSettled ==
  (Running /\ AllRegistered /\ msgs = {} /\ \E e \in Elements : valid[e]) =>
    \E root \in Elements :
      /\ \A n \in Node : endpoints[n] = root
      /\ \A e \in Elements : status[e] \in {"registered", "moving"} => e \in Below(root)

\* A valid upstream is final: no step of the construction moves an element to
\* another parent, or makes the endpoint somebody's child.
UpstreamStable ==
  [][\A e \in Elements : valid[e] => valid'[e] /\ upstream'[e] = upstream[e]]_vars

\* Neither an assertion nor a NOT_IMPLEMENTED is reached, when the elements of
\* the root node are inserted in a phase of their own before any other, and
\* insertions settle before done_inserting is called.
NoAbort == aborted = "none"

\* The rounds of done_inserting come to an end on every node.
EventuallyClosed == called ~> AllClosed

\* tree_demo: "cb will be called when (internal) quiscence is reached".
ClosedMeansQuiescent == AllClosed => msgs = {}

\* reg_endpoint: CkAssertMsg(ins.second, "insertion did not occur").
EndpointInsertedOnce == aborted # "insertion did not occur"

\* reg_array aborts with "array registered twice!", which must mean that the
\* program registered the array a second time on that node; it never does.
RegisteredOnce == aborted # "registered twice"
=============================================================================
