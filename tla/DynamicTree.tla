----------------------------- MODULE DynamicTree -----------------------------
(***************************************************************************)
(* Reductions over the spanning tree of an array while elements join and   *)
(* leave it (manageable, managed identities, tree_builder).                *)
(*                                                                         *)
(* A reduction over all elements follows the tree as it is when each       *)
(* element starts its round.  An element that leaves asks its parent to    *)
(* replace it by its children, from the round it would have started next   *)
(* on; the parent adds all children but the first at once, to its list and *)
(* to the reducers that are under way, and stages a transaction that puts  *)
(* the first one, or nothing, into the place of the element.  It waits     *)
(* until the element is in the list of the parent.  Children keep sending  *)
(* to the one that left; the interceptor forwards that to the parent.      *)
(*                                                                         *)
(* Handlers of one element are atomic; messages arrive in any order.  The  *)
(* handlers of an element are functions from its state to the next one.    *)
(***************************************************************************)
EXTENDS Integers, Sequences, SequencesExt, FiniteSets, FiniteSetsExt

CONSTANTS
  Idx,        \* the elements
  Root,       \* the endpoint, which stays
  Parent,     \* Parent[i]: the parent of i in the tree at first, or None if
              \* i is the root or not there yet
  Joiners,    \* the elements that join later
  Leavers,    \* the elements that may leave
  MaxRounds,  \* bound: the number of reductions
  Careful,    \* the program destroys elements only when none is behind them
              \* in rounds and nothing is staged there
  None

Round == 0..(MaxRounds - 1)

VARIABLES
  node,       \* node[i]: the state of element i
  status,     \* status[i]: "absent", "pending", "alive" or "dead"
  upstream,   \* upstream[i]: the parent i was given, or None
  fwd,        \* fwd[i]: where messages to i are forwarded, or None
  msgs,       \* contributions and requests on their way
  results     \* what the callback was given

vars == <<node, status, upstream, fwd, msgs, results>>

\* A node: `need' is the number of inputs of its reducers (0: no reducer for
\* that round), `devs' are the inputs they have, `ports' the open reduction
\* ports, `queue' what waits for a port, `done' what its reducers put out;
\* `first' is the first round it takes part in.
Fresh(count, children) ==
  [first |-> count, redn_count |-> count, downstream |-> children, staged |-> <<>>,
   need |-> [k \in Round |-> 0], devs |-> {}, ports |-> {}, queue |-> {}, done |-> {},
   aborted |-> FALSE]

Reducers(n) == {k \in Round : n.need[k] > 0}

-----------------------------------------------------------------------------
\* Reducers and ports.

Inputs(n, k) == {d \in n.devs : d.count = k}

\* A reducer with all its inputs puts out their values and is gone, and its
\* ports are closed.
Accept(n, k, from, val) ==
  LET devs == n.devs \cup {[count |-> k, index |-> from, val |-> val]}
      inputs == {d \in devs : d.count = k}
  IN
  IF Cardinality(inputs) < n.need[k]
  THEN [n EXCEPT !.devs = devs]
  ELSE [n EXCEPT !.devs = devs \ inputs,
                 !.need[k] = 0,
                 !.ports = {p \in @ : p[1] # k},
                 !.done = @ \cup {[count |-> k, val |-> UNION {d.val : d \in inputs}]}]

\* receive(), for a value sent to port (k, from).
Receive(n, k, from, val) ==
  IF <<k, from>> \in n.ports THEN Accept(n, k, from, val)
  ELSE [n EXCEPT !.queue = @ \cup {[count |-> k, index |-> from, val |-> val]}]

\* open(), and then what the port queue holds for the port.
Open(n, k, from) ==
  LET waiting == {q \in n.queue : q.count = k /\ q.index = from}
      opened == [n EXCEPT !.ports = @ \cup {<<k, from>>}, !.queue = @ \ waiting,
                          !.aborted = @ \/ <<k, from>> \in n.ports]
  IN FoldSet(LAMBDA q, m : Accept(m, k, from, q.val), opened, waiting)

\* local_contribution(): a new reducer with a port for each child, and the
\* value of the element itself.
Contributed(n, i) ==
  LET k == n.redn_count
      started == [n EXCEPT !.redn_count = @ + 1, !.need[k] = Len(n.downstream) + 1]
  IN Accept(FoldSeq(LAMBDA c, m : Open(m, k, c), started, n.downstream), k, i, {<<k, i>>})

-----------------------------------------------------------------------------
\* Transactions.

AddDownstream_ListOnly(n, i, stamp) == [n EXCEPT !.downstream = Append(@, i)]

\* add_downstream(): reducers from round `stamp' on have one more input.
AddDownstream(n, i, stamp) ==
  FoldSet(LAMBDA k, m : Open([m EXCEPT !.need[k] = @ + 1], k, i),
          [n EXCEPT !.downstream = Append(@, i)],
          {k \in Reducers(n) : k >= stamp})

\* affect_ports(): the rounds of the ports of child i, from `stamp' on.
Affected(n, i, stamp) == {p[1] : p \in {q \in n.ports : q[2] = i /\ q[1] >= stamp}}

\* kDelete: the child is erased, and a null value given to its ports.
Deleted(n, t) ==
  FoldSet(LAMBDA k, m : Receive(m, k, t.from, {}),
          [n EXCEPT !.downstream = Remove(@, t.from)],
          Affected(n, t.from, t.stamp))

Replaced_KeepsPorts(n, t) ==
  [n EXCEPT !.downstream = [d \in DOMAIN @ |-> IF @[d] = t.from THEN t.to ELSE @[d]]]

\* kReplace: the other child takes the place, and the ports are renamed.
Replaced(n, t) ==
  FoldSet(LAMBDA k, m : Open([m EXCEPT !.ports = @ \ {<<k, t.from>>}], k, t.to),
          [n EXCEPT !.downstream = [d \in DOMAIN @ |-> IF @[d] = t.from THEN t.to ELSE @[d]]],
          Affected(n, t.from, t.stamp))

\* One transaction: the first one staged whose child is in the list.
ResolveNext(n) ==
  LET s == SelectInSeq(n.staged, LAMBDA t : Contains(n.downstream, t.from))
      t == n.staged[s]
      rest == [n EXCEPT !.staged = RemoveAt(@, s)]
  IN IF s = 0 THEN n ELSE IF t.to = None THEN Deleted(rest, t) ELSE Replaced(rest, t)

Resolve_Once(n) == ResolveNext(n)

\* resolve_transactions(): until none can be resolved.
Resolve(n) == FoldSeq(LAMBDA t, m : ResolveNext(m), n, n.staged)

\* replace_downstream(from, to, stamp)
ReplaceDownstream(n, from, to, stamp) ==
  LET more == FoldSeq(LAMBDA c, m : AddDownstream(m, c, stamp), n, IF to = <<>> THEN <<>> ELSE Tail(to))
      t == [from |-> from, to |-> IF to = <<>> THEN None ELSE Head(to), stamp |-> stamp]
  IN Resolve([more EXCEPT !.staged = Append(@, t)])

-----------------------------------------------------------------------------
\* Actions.

Running == \A i \in Idx : ~node[i].aborted

\* What the reducers of i put out goes to the parent i was given, or to the
\* callback; `rest' is what else is on its way.
Become(i, n, rest) ==
  /\ node' = [node EXCEPT ![i] = [n EXCEPT !.done = {}]]
  /\ IF upstream[i] = None
     THEN results' = results \cup n.done /\ msgs' = rest
     ELSE /\ msgs' = rest \cup {[kind |-> "contribution", dst |-> upstream[i], count |-> d.count,
                                 index |-> i, val |-> d.val] : d \in n.done}
          /\ UNCHANGED results

\* An element contributes to the next round.
Contribute(i) ==
  /\ Running
  /\ status[i] = "alive"
  /\ node[i].redn_count < MaxRounds
  /\ \E n \in {Contributed(node[i], i)} : Become(i, n, msgs)
  /\ UNCHANGED <<status, upstream, fwd>>

\* A contribution or a request reaches an element.
Deliver(m) ==
  /\ Running
  /\ m \in msgs
  /\ status[m.dst] = "alive"
  /\ \E n \in {IF m.kind = "contribution"
               THEN Receive(node[m.dst], m.count, m.index, m.val)
               ELSE ReplaceDownstream(node[m.dst], m.index, m.to, m.stamp)} :
       Become(m.dst, n, msgs \ {m})
  /\ UNCHANGED <<status, upstream, fwd>>

\* A message for an element that left is forwarded.
Redirect(m) ==
  /\ Running
  /\ m \in msgs
  /\ status[m.dst] = "dead" /\ fwd[m.dst] # None
  /\ msgs' = (msgs \ {m}) \cup {[m EXCEPT !.dst = fwd[m.dst]]}
  /\ UNCHANGED <<node, status, upstream, fwd, results>>

\* create_child(): c becomes a child of i, and starts with the round i is to
\* start next.
CreateChild(i, c) ==
  /\ Running
  /\ status[i] = "alive" /\ c \in Joiners /\ status[c] = "absent"
  /\ status' = [status EXCEPT ![c] = "pending"]
  /\ upstream' = [upstream EXCEPT ![c] = i]
  /\ node' = [node EXCEPT ![i].downstream = Append(@, c),
                          ![c] = Fresh(node[i].redn_count, <<>>)]
  /\ UNCHANGED <<fwd, msgs, results>>

\* The new element is constructed.
Insert(c) ==
  /\ Running
  /\ status[c] = "pending"
  /\ status' = [status EXCEPT ![c] = "alive"]
  /\ UNCHANGED <<node, upstream, fwd, msgs, results>>

\* An assumption on the program, of which the code checks nothing: it destroys
\* element i only when no reducer of i is under way (tree_demo, for one, before
\* i contributes); and, if it is careful, when no element has yet to start a
\* round that i took part in, and no transaction is staged at i.
MayLeave(i) ==
  /\ i \in Leavers
  /\ Reducers(node[i]) = {}
  /\ Careful => /\ node[i].staged = <<>>
                /\ \A j \in Idx : status[j] \in {"alive", "pending"} =>
                                     node[i].redn_count <= node[j].redn_count

\* disassociate(), and the destructor, which sends what waits in the port
\* queue to the element again.
Leave(i) ==
  LET n == node[i] IN
  /\ Running
  /\ status[i] = "alive"
  /\ MayLeave(i)
  /\ status' = [status EXCEPT ![i] = "dead"]
  /\ fwd' = [fwd EXCEPT ![i] = IF n.downstream = <<>> THEN None ELSE upstream[i]]
  /\ msgs' = msgs \cup {[kind |-> "replace", dst |-> upstream[i], index |-> i, to |-> n.downstream,
                         stamp |-> n.redn_count]}
                  \cup {[kind |-> "contribution", dst |-> i, count |-> q.count, index |-> q.index,
                         val |-> q.val] : q \in n.queue}
  /\ node' = [node EXCEPT ![i] = [Fresh(n.redn_count, <<>>) EXCEPT !.first = n.first]]
  /\ UNCHANGED <<upstream, results>>

Init ==
  /\ status = [i \in Idx |-> IF i \in Joiners THEN "absent" ELSE "alive"]
  /\ upstream = Parent
  /\ node = [i \in Idx |-> Fresh(0, SetToSeq({c \in Idx : Parent[c] = i}))]
  /\ fwd = [i \in Idx |-> None]
  /\ msgs = {}
  /\ results = {}

Next ==
  \/ \E i \in Idx : Contribute(i)
  \/ \E m \in msgs : Deliver(m)
  \/ \E m \in msgs : Redirect(m)
  \/ \E i, c \in Idx : CreateChild(i, c)
  \/ \E c \in Idx : Insert(c)
  \/ \E i \in Idx : Leave(i)

Spec == Init /\ [][Next]_vars

-----------------------------------------------------------------------------
\* Properties.

Here == {i \in Idx : status[i] \in {"alive", "pending"}}

\* <<k, i>>: the contribution of i to round k, of those that were made.
Contributions ==
  {t \in Round \X Idx : node[t[2]].first <= t[1] /\ t[1] < node[t[2]].redn_count}

\* manageable.hpp: "collectives before the stamp will remain unchanged, since
\* we should expect a value from them".  The value of a reduction has the
\* contribution of every element that took part in that round, and whoever
\* is there has done so.
ResultsComplete ==
  \A r \in results :
    /\ \A t \in r.val : t[1] = r.count
    /\ \A t \in Contributions : t[1] = r.count => t \in r.val
    /\ \A i \in Here : node[i].redn_count > r.count

\* Once no request is on its way, none is staged either, each element but the
\* root is in the list of one element, and none that left is in any.
TreeRestored ==
  (\A m \in msgs : m.kind # "replace") =>
    \A i \in Here :
      /\ node[i].staged = <<>>
      /\ ToSet(node[i].downstream) \subseteq Here
      /\ i = Root \/ Cardinality({<<p, d>> \in Here \X (1..Cardinality(Idx)) :
                         d \in DOMAIN node[p].downstream /\ node[p].downstream[d] = i}) = 1

\* Nothing is on its way to an element that can be reached, and each element
\* has contributed to all rounds.
Settled ==
  /\ \A m \in msgs : status[m.dst] = "dead" /\ fwd[m.dst] = None
  /\ \A i \in Idx : status[i] # "pending"
  /\ \A i \in Here : node[i].redn_count = MaxRounds

\* No port is opened twice, and no reduction hangs: when nothing can happen
\* any more but further joins and leaves, the callback was given the value of
\* every reduction, and neither a message nor a value in a port queue is left.
NothingHangs ==
  /\ Running
  /\ Settled =>
       /\ \A k \in Round : \E r \in results : r.count = k
       /\ \A i \in Idx : node[i].queue = {} /\ node[i].need = [k \in Round |-> 0]
       /\ msgs = {}
=============================================================================
