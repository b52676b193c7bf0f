# Verification of hypercomm

hypercomm is a C++ layer above Charm++. It recasts chares as *localities*: objects
with entry ports, into which messages and values are delivered, and with components,
small actors that consume values from their input ports and emit others. On top of
that it offers reductions and broadcasts over lightweight sections, futures, tasks,
a message interceptor, and a nodegroup that strings the elements of an array into a
spanning tree. This directory models the parts of it whose correctness depends on the
order of events, checks them with TLC on small instances, and proves the central
facts with TLAPS for every instance.

## 1. Inventory

| Component | State | Operations | Interacts with |
|---|---|---|---|
| `tree_builder` | per node and array: message count, insertion status, endpoint, elements | `reg_array`, `begin_inserting`, `done_inserting`, `reg_endpoint`, `receive_downstream`, `receive_upstream`, element created / destroyed / migrating | nodes exchange messages; reads and writes the association of each element |
| sections, identities | a list of indices; two counters for each section and member | `upstream`, `downstream`, `next_reduction`, `next_broadcast`, `accept_broadcast`, `pick_root` | reductions and broadcasts |
| section reductions | reducers, reduction ports, port queue | `local_contribution`, `receive`, `open`, `reducer::action` | localities, components, sections |
| section broadcasts | a counter per member, broadcasters in flight | `broadcast`, `broadcaster::action` | interceptor, sections |
| localities | entry ports, port queue, components, invalidations, zero-copy requests | `open`, `receive`, `passthru`, `invalidate_port`, `invalidate_component`, `post_buffer` | everything |
| components | inbox, outbox, listeners, activity | `accept`, `activate`, `deactivate`, `stage_action`, invalidation | localities, callbacks |
| mailbox, sentinel, state server, multistate component | requests, expected counts, states | `put`, `request_to`, `expect`, ... | components |
| dynamic tree (`manageable`) | association, staged transactions, stamps | `create_child`, `replace_downstream`, destruction | tree_builder, reductions |
| interceptor | aliases, forwarding records, queued messages, per PE | `forward`, `stop_forwarding`, `deliver`, `send_async` | localities |
| futures, `wait_any` | ids, open future ports | `make_future`, `request_future`, `set` | localities, interceptor |
| threading | pools of thread ids | allocation, release, suspension | localities |
| workgroup | tasks, their arguments | creation, continuation, termination | Charm++ reductions |
| serialization, values, proxies, utilities | buffers | pack, unpack, hash, compare | everything |

What is hard here: every handler is atomic, but Charm++ delivers the messages between
two handlers in any order; several reductions, broadcasts or insertions run at once
over the same elements; values arrive before the port they are for is open; the code
refers to remote elements by counters, hashes and "whichever local element lacks a
parent" instead of by name; and termination of the construction is detected by adding
up counts that were read at different instants. `PROJECT.json` lists these hazards
with the line at which each bites.

What makes each component correct:

* tree construction: one tree whose links agree at both ends, no second root, and
  `done_inserting` neither early nor endless;
* reductions: each callback gets exactly the contributions to its own reduction,
  nothing is lost, repeated or stranded in a queue, and no assertion fails;
* broadcasts: everyone gets everything, in one order;
* components: every complete set of inputs is consumed once, values returned by a dying
  component are not lost, listeners hear of it exactly once;
* interceptor: a message reaches its element wherever that is, or that element's heir, or is kept while there is neither;
* futures and zero-copy requests: every request is matched with one value or buffer.

## 2. Modules

| Module | Models |
|---|---|
| `TreeBuilder` | `tree_builder.hpp`, `tree_builder.ci`, `manageable_base.hpp` |
| `TreeBuilderProofs` | theorems about it |
| `Section` | the spanning tree of a section: `section.hpp`, `section_identity.hpp` |
| `SectionReduction` | `local_contribution`, ports and port queue, `reducer` |
| `SectionReductionProofs` | theorems about it, and about the tree of a section |
| `TotalOrder` | abstract: what a totally ordered broadcast promises |
| `SectionBroadcast` | `broadcaster`, `accept_broadcast`, `send_to_root`; refines `TotalOrder` |
| `SectionBroadcastProofs` | theorems about it and the tree, the refinement among them |
| `ZeroCopy` | zero-copy values of a locality: `post_buffer`, `poll_buffer`, `receive_value`, `zero_copy_value` |
| `ZeroCopyProofs` | theorems about it |
| `Locality` | the components of one locality: `component.hpp`, `inbox.hpp`, `connector.hpp`, `mailbox.hpp`, `sentinel.hpp`, `locality.cc` |
| `Interceptor` | `interceptor.hpp`, `interceptor.cc`, and what `tree_builder.hpp` makes of it when elements leave |
| `InterceptorProofs` | theorems about it |
| `DynamicTree` | reductions over a tree that elements join and leave: `manageable.hpp`, `managed_identity.hpp` |
| `Lockstep` | abstract: what a bulk-synchronous computation promises |
| `Workgroup` | `tasking/workgroup.hpp`, `workgroup.cc`, the task of `workgroup_demo`; refines `Lockstep` |
| `WorkgroupProofs` | theorems about it, the steps of the refinement among them |
| `Futures` | `future.hpp`, `wait_any.hpp`, `port_opener.hpp`, `resuming_callback.hpp` |
| `FuturesProofs` | theorems about it |
| `Serdes` | pointer graphs through `serdes.hpp` and `pup.hpp`, `pack_deferrable_`, `zero_copy_value::to_typed` |
| `SerdesProofs` | theorems about it |
| `MC...` | the constants of the runs |

The modules fall into four groups: the tree of an array (`TreeBuilder` builds it,
`DynamicTree` changes it, `Interceptor` redirects the messages of those who leave);
collectives (`Section`, `SectionReduction`, `SectionBroadcast`, `Workgroup`); what happens
inside a locality (`Locality`, `ZeroCopy`, `Futures`); and what a value is on the wire
(`Serdes`). Where a module needs a neighbour, it takes over the part that matters: the port
queue is in `SectionReduction`, `Locality`, `DynamicTree` and `Futures`.

An operator whose name has a suffix after an underscore (`WaitAnySend_Drop`,
`Complete_KeepsDevs`) is a deliberately wrong form of the definition that follows it.
It is used only to show that a property notices the fault.

### TreeBuilder

The nodes form a binary tree. An element that is the first of its node has no local
parent, so `send_upstream` sends it up the node tree until a node that holds elements
adopts it (`receive_downstream`, answered by `receive_upstream`), or until the root node
declares it the endpoint and tells everyone (`reg_endpoint`). `arrays` is `arrays_`,
the count that each node keeps of messages produced less messages consumed; `valid`,
`upstream` and `downstream` are the association of an element; `stage`, `contrib`,
`contributed` and `result` follow the `done_inserting` of `tree_builder.ci`: a loop of
sum reductions until one is zero. One action is one handler. The registration loop of
`reg_array` releases the lock between elements in an SMP build, and the constant `Smp`
says which build it is.

An element migrates when every node has had the callback of `done_inserting`, as under `AtSync`
load balancing between phases. That is all the code can know: the callback may come early (see 4), and then
elements leave with messages in flight and without a parent, or arrive beside an orphan.
`QuietSpec` is `Spec` under an assumption on the program: nothing leaves while a construction message is
in flight (`QuietLeaving`). A program that awaits Charm++'s quiescence detection before it balances its load
meets it, as does one without migrations.

Simplifications: one array (all maps are keyed by its id); elements are not destroyed;
forwarding records do not exist here, so `stop_forwarding` has no effect; the
vectors of an association, whose order never matters, are sets; assertions are on, as
in a debug build, and a failed one ends the behaviour with its text in `aborted`.

### SectionReduction

`local_contribution` creates a reducer, opens a reduction port for each child (which
drains the port queue into the still inactive reducer), activates it, and gives it
the local value: one handler, one action (`LocalContribution`). `Receive` is
`generic_locality_::receive` for a contribution: into the port queue if no port is
open, else through `passthru` to the reducer. `Complete` is what follows the last
input: the output goes to the parent or the callback, `deactivate` makes the listeners
close the ports, and `try_collect` removes the component.

A value is the set of the contributions that have gone into it, each a token
`<<section, round, member>>`; the combiner is union. Reducers are named
`<<index, section, round>>`, which the code does with a component id. A section is
a list without repetitions. `HashOf` keeps what `hash_combine` distinguishes: the
64-bit wrap-around and the constant do not matter for the lists used here. The counter
starts at zero at every member; it is not persisted and `reduction_id_t` does not wrap
within the bounds.

### SectionBroadcast

A broadcaster is an immediate action and runs in one handler: copies to the children
(accepted or not), then `accept_broadcast`, then local delivery. Requests without a
stamp reach the root in any order, and the root numbers them. `InOrder` says whether the
copies from a member to its child keep their order. Charm++ does not promise it, and
both cases are examined. `copies[m]` is the channel from the parent of `m`, its only
sender. The abstract `TotalOrder` has nothing but what each member has received.

### ZeroCopy

A value with large blocks travels as a message that lists them (`pack_deferrable_`, `Send`).
`receive_value` looks for a posted buffer for each block, allocates one, or, at an endpoint
in manual mode, queues a request; `post_buffer` looks for a queued request for each new
buffer. `Complete` is the callback of a transfer. A block is its size and a buffer is one
call of `post_buffer`, with its endpoint and size: the application may post the same memory
again. `manual` is the set of endpoints with an entry in the map `outstanding`; a queue of
`buffers` that the code erases when empty is the empty sequence. The loop of
`receive_value` takes one step per block (`PollPosted`, `PollAllocate`, `PollWait`), and
`current` keeps other handlers out until it ends; only a transfer may complete in
between, since a copy within a process calls back at once. `values` keeps all arrivals,
where the code moves a value's on with the value. Registration of memory and the release of the
sender's blocks are Charm++'s; the locality does not migrate while requests wait.

### Locality

Handlers run to their end, but the calls they make nest and come back to an object in the
middle of a call: a component that dies returns its values through `receive`, which may hand
them to the component that dies; a sentinel that hears of a completion invalidates the other
members of the group, whose listeners change the group; one that is erased returns, in its
destructor, what its inbox still holds (`EraseComponent`). `calls` is the call stack. An action
that begins with `At` is a function, or the part of one between two calls; `Handler` actions
(`Deliver`, `SetUp`, `Suspend`, `Resume`) start when it is empty. The program is a list of
statements: components with inputs from mailboxes, ports or other components, which a
sentinel waits for (`any`, `all`) or nobody does. Predicates of mailbox requests are left out (each request
accepts any value), and values sent to one port are told apart by the order of arrival. The vector of a
sentinel's group is modelled as cells and a length (`memory`, `size`), because the loop reads behind its end,
and because `invalidate_component` is given the id by reference: a cell of that vector. The frames `invalidate` and
`erase` name the cell, not the component, so that the id which `Erase` notes down in `invalidations` is
what the cell holds by then; `on_invalidation` has closed the gap meanwhile (`Revoked`). Whether that is the component
that was invalidated depends on its place in the group, and so on the order in which the program activates
the branches (`activated`; see 4). The sentinel hears of its components through a pointer to a cell that its destructor sets
to null; the test in `on_status_change` is of the pointer, not of what the cell holds, so a
listener that is called when the sentinel is gone calls through null: `Notify` aborts.
A call to a component that has been erased, or an assertion that fails, ends the behaviour in
`aborted`.

### Interceptor

Each PE has a branch. `Deliver` is `deliver`: the last name of the index according to the
records of that PE (`dealias`), then the element if it is local, the buffer if the PE is home
and does not know better, or the last known PE. `dealias` recurses; here the last name is
defined by the least set that is closed under records, and a recursion that does not end is
`Circular`. `Send`, `Arrive`, `Forward` and `StopForwarding` are the entry methods and
handlers, `Create` and `Destroy` what `reg_element` and `disassociate` call.
Location caches are Charm++'s: a PE knows its own elements and where it sent one, and any PE may be told
the truth at any time (`Inform`); until then what it knows may be old. `heirs` is a history: who has
been made the successor of whom. Creation with an index whose life is over
is bounded by `MaxLives`. One array, and one message is as good as its identity.

### DynamicTree

`create_child`, `replace_downstream`, `resolve_transactions` and the reducers of a managed
reduction. The handlers of an element are functions from its state (`node[i]`) to the next one;
`Become` turns what its reducers put out into messages. A stamp is the round the leaving element would
have started next; a transaction is staged until the element it is about is in the list. The element
that leaves returns its port queue and is forwarded, as in `Interceptor`. When may an element leave? The
code checks nothing. `MayLeave` is an assumption on the program, not a translation: none of the element's reducers is under way
(in `tree_demo` it is destroyed before it contributes), and, if the program is `Careful`, nobody is behind in rounds
and nothing is staged; without the latter, results are incomplete (see 4). Reductions are the only collectives; the specification has no fairness, and
says of every state in which all is done what must be in place (`NothingHangs`).

### Workgroup and Lockstep

`Created`, `Resumed`, `TryContinue` and `Discard` are `create`, `resume`, `try_continue_` and
`try_discard_`; the task is the relaxation of `workgroup_demo`: ghosts from the neighbours, then a
reduction, in each iteration. The handlers are functions on a worker's state. Reductions are Charm++'s:
it combines the k-th contributions of all workers, whatever task they are for, and combines their
task ids by a bitwise and. The demo does not initialise `it`; `FirstIt` is what each worker finds there,
the same everywhere in the run. `Lockstep` is what the user of a bulk-synchronous program counts on: nobody
begins an iteration before everybody has begun the one before.

### Futures

`Set` sends the value to the source; `Wait` is a thread that requests the futures it wants, in order,
up to one that is ready; a request opens a port here and sends a `port_opener` to the source (`OpenRemote`).
`Send` dispatches on the callback of a port: it resumes a thread, passes the value to the `wait_any_callback`,
or forwards it to the requester. A future is set once and requested by one element; the counters of
quiescence detection are left out. The value of a future is the future.

### Serdes

A value is a graph of objects held by shared pointers. It is walked to be sized and to be packed, with
one table of pointer records, and once by the receiver; a step is one pointer, and `todo` is the recursion of
`pup`. `progenitor`, which tells the records of the first walk from those of the second, is the phase. Objects are
plain, polymorphic (entered in the receiver's table before their members are read), large buffers
(deferred to RDMA when the sender allows it) or bytes that stay in the message. Members stay at a
fixed address while the value is unpacked: pointers in a container that reallocates, type names,
and the sizes of containers and of `CkNcpyBuffer` are left out. `Supported` says which values the code
copies faithfully; those of the run are (`MCSupported`, which TLC evaluates), and section 4 shows what becomes of others.

## 3. Runs

| Run | Instance | Shows |
|---|---|---|
| `tree_rooted` | four nodes, five elements, two phases, one migration, SMP | one tree, balanced counts, no abort, `done_inserting` terminates |
| `tree_rivals` | three nodes, non-SMP, some elements made before `reg_array`, one migration with no message in flight (`QuietSpec`) | start-up, insertions and `done_inserting` race: until an assertion stops it, answers find their child |
| `tree_quiescence` | four nodes | Violation: the phase is closed with a message in flight |
| `redn_overlap` | two overlapping sections of four members, two rounds | results exact, nothing stranded, ports lead to live reducers, everything ends |
| `bcast_ordered` | four members, three broadcasts, order kept | total order (`TotalOrder`), everyone receives everything |
| `zero_copy` | three values, four buffers of two sizes, two endpoints | no match is missed, buffers and blocks are paired once, values come whole, quiescence is sound |
| `locality_case` | a case statement of two branches, activated in the order in which the sentinel is told of them, executed twice over three mailboxes, an output, a component on a port, a persistent one on two | unused values are returned, one branch of each case runs, nothing lingers or is used after it was erased, the thread goes on |
| `interceptor` | a chain of three elements, two PEs, two messages, one migration | one of each message, none behind a record, received by heirs only, none chases its element for ever |
| `dynamic_tree` | a chain of four, any three may leave, one joins, two reductions | complete results, the tree is whole again, nothing hangs |
| `workgroup` | four workers, two tasks of two iterations | contributions agree, ghosts are those of the iteration, no message is overlooked; implements `Lockstep` |
| `futures` | three elements, five futures, one thread waits for three | values conserved, none stranded, the first is taken, every thread resumes |
| `serdes` | six objects, all graphs of three pointers and two members, sent twice | the copy is the graph that was sent, no assertion of the walks fails |

Bounds. Four nodes are the smallest tree with a grandchild and a node with two
children; five elements make a node adopt locally, adopt remotely and pass up.
`MaxPhases` and `MaxMoves` bound how often the program reopens insertion and migrates. In `tree_rooted` no assumption
about migrations is needed: with these four nodes no phase closes early.
For reductions, four members give the root two children and one of these a child, the
second section reverses the roles of two of them, and two rounds let a fast child be a
round ahead. For broadcasts, three let a copy overtake, and be overtaken by, another.
For zero-copy values, two blocks and two buffers of different sizes make both searches
skip an entry of a queue. In `locality_case` the second execution of the case finds what
the first one returned. In `interceptor` a chain of three gives a chain of two records, whose
homes are on different PEs; one migration makes a cache stale. In `dynamic_tree` the middle
elements may leave together, so that a transaction waits for another, and two rounds
let an element leave between them. Four workers have inner and outer ones, two apart. In `futures`
each path of a value occurs: local and remote, before and after its port, first and late. In
`serdes` three pointers are enough for one object met twice and another between, two
buffers for their order.
No symmetry is used: elements differ by place, members by position.

Deadlock checking is off: each of these systems stops when the bounded input is used up.

Fairness. Charm++ delivers every message and finishes every reduction it accepted:
weak fairness of message delivery, of registration and of the counting reduction. Whether the
program inserts, migrates or reopens is its own choice and not fair. In
`SectionReduction` the contributions are fair as well: a reduction completes only
if every member takes part, which is the contract of a collective operation. In
`ZeroCopy` the application posts its buffers, which manual mode asks of it. In `Locality` a
handler terminates (`Call`), and the program goes on with its statements. In `Interceptor` messages are
delivered and the home hears of changes; creation, migration and departure are not fair. In `Workgroup`
tasks are launched, in `Futures` each message is delivered by itself, threads that are ready run, and futures are set.
`DynamicTree` and `Serdes` have no fairness.

## 4. Findings

The run `tree_quiescence`, at `tree_builder.ci:19`: the counts of a round are not a snapshot. A message
that is consumed before its receiver contributes and produces another on a node after that
contributed cancels one in flight; the sum is zero and the phase closes early.

Further instances of the same modules are not kept as runs. Each shows a limit of the code
that the runs above stay within; TLC finds the property violated with these constants.

| Module | Constants that differ from the run's | Property | What happens |
|---|---|---|---|
| `TreeBuilder` | as `tree_quiescence`, with 3 nodes, `RivalElements`, `RivalPlace` | `EndpointInsertedOnce` | `tree_builder.hpp:267`: below an empty root node, every first element becomes the endpoint; the second fails the assertion |
| `TreeBuilder` | as `tree_quiescence`, with 3 nodes, `InitialElements` (also as `Initial`), `InitialPlace` | `RegisteredOnce` | `tree_builder.hpp:188`: `reg_array` takes the entry that a construction message has created for a second registration |
| `TreeBuilder` | as `tree_rooted`, with `SettleFirst = FALSE` | `NoAbort` | `tree_builder.hpp:462`: an element that is created after `done_inserting` was called has found the phase closed on its node: "dynamic insertions must be associated" |
| `TreeBuilder` | as `tree_rivals`, with `SPECIFICATION Spec` | `UpstreamFindsItsChild` | `tree_builder.hpp:414`: the phase closes early, the orphan migrates while the answer to its request is in flight, and the answer finds no element without a parent |
| `SectionReduction` | `Sections <- Colliding` | `OwnReductionOnly` | `reduction_port.hpp:13`: a port names its section by a hash that ignores order; sections with equal hashes that share members mix their reductions |
| `SectionBroadcast` | `InOrder = FALSE` | `AllReceived` | `identity.hpp:37`: a copy that is overtaken is dropped |
| `Locality` | `SdagStatements` | `OneOfEach`, `NothingLingers` | `sdag_demo/tester.cc:145`: "the sentinel requires only one of com0 or com1 to pass", and com1 is activated before com0. When com1 completes at once, com0 is invalidated before it is active; `invalidate_component(peer)` holds a reference into the group, which `on_invalidation` shifts, so `locality.cc:65` notes down com1. com0 is activated all the same and runs on the next baz: two branches of one case |
| `Locality` | `SdagStatements`, `SdagCount` | `EventuallyAwake` | the same: com0 takes the only baz, for which the second case waits, and the thread sleeps on |
| `Locality` | `ThreeComs`, `ThreeInputs`, `ThreeOut`, `ThreeStatements`, `ThreeCount` | `OneOfEach`, `NoAbort`, `NothingLingers` | `sentinel.hpp:33`: the loop over a group erases from it, skips a branch of three, and that runs as well, after the sentinel is gone (`sentinel.hpp:119`) |
| `Locality` | `d1` alone, on `p1` and `p2`, `SurplusInputs`, `SurplusOut`, `SurplusStatements`, `SurplusCount` | `NoAbort` | `inbox.hpp:61`: "try to return all unused values": a component that completes gets them back, since its ports are still open, is erased by that call (`locality.cc:389`), and its destructor returns them to a port that leads nowhere (assertion at `locality.cc:156`) |
| `DynamicTree` | `Careful = FALSE` | `ResultsComplete`, `TreeRestored` | `manageable.hpp:119`: an element that leaves while others are behind in rounds is missing from reductions it took part in |
| `Futures` | as in the run | `LateValuesRest` | `wait_any.hpp:23`: a late value is sent back to a port that is still open, and circulates |
| `Interceptor` | as in the run | `BufferedReceived` | `interceptor.cc:358`: "should this resync the send queue for idx?": a message that is buffered before its element is created stays in the buffer beside the element |
| `Interceptor` | `MaxLives = 2` | `NoAbort` | `interceptor.cc:339`: a request to forward that comes after its index has been created anew makes a record beside the live element, and the request of the next departure is a duplicate |
| `Workgroup` | `Concurrent = TRUE` | `ContributionsAgree` | `workgroup.cc:107`: two tasks at once contribute in different orders |
| `Workgroup` | `FirstIt <- OwnIt` | `ContributionsAgree`, `InLockstep` | `workgroup_demo`: `it` is not initialised; workers that find different values do different numbers of iterations |
| `Serdes` | `ErrorChecking = TRUE` | `NoAbort` | `serdes.hpp:207`: the comparator of the sortedness check subtracts a size from an id, so that two buffers fail it |
| `Serdes` | two objects of kind `"bytes"` | `CopyFaithful` | `pup.hpp:157`: bytes that stay in the message share its control block, so that on the next hop the second is taken for the first |
| `Serdes` | the polymorph may point to the root | `NoAbort` | `typed_value.hpp:137`: the pointer to a value that is stored in place does not own it, so that only the sizer knows a pointer back to it, and the sizes differ |
| `Serdes` | `MCGraphs` without `Acyclic` | `CopyFaithful` | `pup.hpp:154`: an object that is no polymorph enters the receiver's table after its members, and a pointer back to it becomes null |

With `Colliding`, `ContributedOnce` and `PortsAwait` still hold, and with `InOrder = FALSE`
`OrderRespected` and `LastReceived`: the theorems below cover both.

## 5. Proofs

Assumptions: `TreeBuilderAssumption`, `SectionAssumption`, `BroadcastAssumption`,
`ZeroCopyAssumption`, `FuturesAssumption`, `InterceptorAssumption`, `WorkgroupAssumption`,
`SerdesAssumption` and `NoneAssumption` state the types of the constants, that sections are lists without repetitions, that
an array has finitely many elements, indices and messages, and that a workgroup has at least two workers
and runs one or two tasks; TLC evaluates them in every run. What a theorem assumes beyond
that is a hypothesis of it, named `QuietSpec`, `RootFirst`, `HashesTell`, `Uniform` and `Supported` below.

**TreeBuilder.** `TypeCorrect`, for `Spec`, as are `CountsCorrect`, `PlacesAreFinal` and
`MessagesCorrect` (the request or the answer about an element is the only one). The others are about `QuietSpec`:
that nothing migrates while a construction message is in flight is a hypothesis about the program, without which
`UpstreamFindsItsChild` is false (see 4). `ConstructionCorrect` proves the inductive invariant
`ConstructionInv /\ SpanningInv`; the two parts need each other, since that no orphan leaves follows from the second,
whose steps use the first. First the links. What the code needs is `UpstreamFindsItsChild` (the answer, which does
not name the child, finds it) and `LinksMirrored`; neither is inductive, because a step
that delivers an answer must know that the element it picks is the one that asked.
The strengthening says that an element that seeks a parent is an orphan where its
message says it is, that there is one message about it, and that a node has at most one
orphan: the first element asks, and all later ones are adopted by it. `LinksCorrect` and
`UpstreamCorrect` follow. `CountsCorrect`: the counts of
the nodes add up to the messages in flight, whatever is placed, built and delivered, so that
only the instants at which the nodes contribute can make a round wrong (which is what
`tree_quiescence` finds). The sum of the model is a function from the
parts of a sum to the sum; that a handler which changes one node's count changes the sum by
as much is proved from that function's defining equation, one node after the other.
`OneTree` proves `TreeWhenSettled` for any placement and any quiet migrations. `SpanningInv` says that the endpoint is
known from a node to its leaves, or on the way (`EndpointsSpread`); that an orphan is the subject of a message or is
the endpoint itself (`OrphansAwait`); and that no set of elements is only below itself (`Acyclic`). The
last is the point: a node adopts a stranger without a look at what is below that, perhaps the adopter. It is
not, because requests go to nodes with smaller numbers and so do the links; the elements that had their places
when one migrated break this rule, but none of them seeks a parent any more (`Anchored`).
`NeverAborts` proves `NoAbort` under `RootFirst`: the array is registered before anything is inserted, the first phase
inserts on the root node only, and more elements than ever migrate, and insertions settle before `done_inserting` is
called; again for `QuietSpec`. Then the root node is never empty once there is an endpoint (`RootHeld`), and nodes accept insertions as long
as any are due (`StagesInOrder`). The findings show that the code does abort without it.

**SectionReduction.** `TypeCorrect`. `PortsCorrect`: the invariant is inductive with
`TypeOK`, since ports are opened and closed together with their reducer.
`ContributionsConserved`: a contribution is in exactly one place. The strengthening
`RoundsBegun` says that reducers and tokens exist only for rounds that have begun, so the
new token and the new reducer are new; each move of a value (queue, receive, gather)
is a lemma that hands over the tokens from one place to another. Nothing is assumed of the
hash, so this holds for colliding sections too.
The other theorems assume `HashesTell`: sections that have a member in common have different hashes
(otherwise they mix their reductions, see 4). `ReductionInv` follows one round of one section: each member is
behind, collecting or done (`FromLeaves`: done only after its children), and what is on its way to a member
comes from a child that is done and from which the member, which is not, has nothing yet
(`Awaited`); there is one such message for each child, and one result for each round. It is stated of any
counts, messages, queues and ports (`Orderly`), since one call of `local_contribution` may begin
a round, collect what is queued for it and complete it, and each of these is a lemma.
`ReductionsOrderly` shows it inductive and that nothing aborts; `ReducersKeepApart` and
`NothingIsStranded` follow. For `ResultsAreComplete`: when the root is done so is everybody (the first in
the list that is not would have a parent that is), so by `ContributionsConserved` each contribution
can only be in the result.

**SectionBroadcast.** `BroadcastTypeCorrect`. `OrderCorrect`, for either value of
`InOrder`: `OrderInv` says that every stamp in flight is the position of its broadcast in
the root's order, and that what a member has received is listed in it at increasing
positions up to `bcast_count`. `OrderedBroadcast`, for `InOrder`: the specification implements
`TotalOrder`. `ChainInv` says that numbers are fresh, that what a member has received,
followed by what is in the channel to it, is what its parent has received (`Linked`), and
hence that everybody has a prefix of the root's order (`Prefixed`). Since any two prefixes
of one sequence are comparable, each delivery is a step of `TotalOrder`. `LastArrives`, for either
value again: a member passes on what it drops, so what it has accepted, or something later, has
reached its child or is on its way there (`Passed`); once nothing is, nobody is behind its
parent and hence nobody behind the root (`RootIsLeast`, by the least ordinal). With `ChainInv` this
gives `AllArrive`, for `InOrder`.

**ZeroCopy.** `ZeroCopyTyped`. `NoMatchIsMissed`: inductive with `TypeOK`, once a search for
the first match that fails is known to mean that there is none (`NoFirst`, from the
well-foundedness of the naturals). `Books` is the inductive invariant of the rest: queues
hold nothing twice and everything at its own endpoint, so that removing one entry
removes one request or buffer; the requests made so far (`Issued`) are those that wait, move or
have arrived; the counter is the number of those that wait. `BuffersAreUsedOnce`,
`RequestsAreConserved`, `ValuesDeliveredWhole`, `QdIsBalanced` and `QuiescenceIsSound` follow.

**Futures.** `Types`. `Conservation`, `NoneStranded` and `FirstIsTaken` rest on one inductive invariant:
the value of a future that has been set is in one place (`OnePlace`, as a disjunction of
places instead of a sum of cardinalities), a port's callback is the one its requester made
(`CallbacksOK`), and what a thread was given agrees with its state (`ThreadsOK`). A
resuming callback would overwrite an earlier result; that it does not happen follows from
the conservation of the one value it can be given.

**Interceptor.** `Types`, `OneOfEach` and `NoneBehindARecord` hold for any number of lives. The invariant
`Inv` gives each message a place (`OnePlace`), and every routing step is one lemma
(`DeliverStep`): messages that were taken from where they were (`Lifted`) and may be routed
(`Routable`) end up in one place each, and the others stay. The count of quiescence detection follows
from the cardinality of the difference of two finite sets (`QdStep`). `HeirsAlone` and
`NeverAborts` assume that no index is used twice (`MaxLives <= 1`), without which the second is
false. `OnceInv` adds that parents live and no set of elements is only below itself
(`TreeOK`), that heirs succeed the dead, transitively and not in a circle (`HeirsOK`), that
records and requests are about heirs and there is at most one for an index (`Recorded`), and
that a message is with an heir (`Held`). Both "not in a circle" are stated over sets of
indices, so no induction is needed: the dying element's parent lives and so ends every chain.

**Workgroup.** The handlers are functions of a worker's state that call each other, so each has a lemma that
says which fields it sets and which it leaves alone; the loop of `try_continue_()` takes one payload at a time from
a buffer, and what one turn preserves, the whole loop does (`TriesToTheEnd`, from the
well-foundedness of the naturals). `TypeCorrect` and `NoneOverlooked` hold for any interleaving of tasks.
The others assume `Uniform`: a task is launched after the one before has ended, and all workers find the
same value in `it`. The instances in 4 show that neither can be dropped. `LockstepInv` says that, for a
task and a round of it, the workers are in one of four phases: exchanging ghosts (some have begun the round;
each has heard from some of those, and has counted these ghosts or has them in its buffer; what is on its
way it has not heard),
ending (the result of the last round is on its way to some), closing (the grid is reduced) or idle. A worker cannot
begin the next round before the reduction of this one is combined, which takes a contribution of every worker,
and it contributes only after it has counted all its neighbours; this is why no iteration number is needed.
`WorkersAgree`, `OwnGhosts` and `BulkSynchronous`, the initial states and steps of `Lockstep`, follow.

**Serdes.** `CopiesAreFaithful` and `NeverAborts`, for any objects, graphs and number of hops under
`Supported`: the sortedness assertion is compiled out, no object but a polymorph is on a cycle and no root is, and a
value that is sent on has one block of bytes at most. The last four rows of section 4 show that no clause can be dropped.
What the walks compute is recursive in the value, and the proof avoids that recursion: it compares them with a
fourth walk, over the objects of the value itself (`Walk`: a list of stacks, of the objects seen, and of the bytes
so far), each step of which follows from the one before. `WalksAgree` proves the inductive invariant `IInv`, phase by
phase. The sizer extends this list at its end, and its table has one record for each object seen (`RecordsOK`).
The packer repeats the list from its first step, or from the second if the root is built in place; a record of the
first walk becomes one of the second when the walk meets its object, so that kinds, ids and sizes are those that the sizer
found (`PackedOK`, `BuffersSorted`). The receiver repeats it again: its open slots are, in order, the pointers that
the walk has yet to visit (`Matches`), it has built the objects seen (`BuiltOK`), and each slot is right, open, or waits
for the buffer of its id (`FilledOK`, `DeferredOK`). That a reference finds its object is the point: an object that
enters the table after its members has a marker on the stack, and all that is open above the marker lies below the
object (`MarkersOK`), which nothing below refers to. The i-th deferred id is then that of the
i-th buffer (`DeferredIds`), since the ids that list a map in order are unique (`ByIdUnique`).

**Only model-checked.** Liveness (`EventuallyClosed`, `EventuallyReduced`, `EventuallyReceived`,
`EventuallyDelivered`, `EventuallyAwake`, `EventuallySettled`, `EventuallyResumed`, and that all get to the last
iteration, a part of `InLockstep`).
All properties of `Locality`, whose call stack makes every invariant one about the pending
calls, and which hold of the programs of its run but not of any (see 4: a theorem
needs a hypothesis about the program that excludes these); and those of `DynamicTree`, whose reductions span
a tree that changes while they run.

## 6. Not modelled, and the plan

Modelled in part:

* `tree_builder`: elements are not destroyed in `TreeBuilder` (they are in `DynamicTree` and
  `Interceptor`), and the number of arrays is one.
* mailbox requests with predicates; sentinels that are reused; callbacks and values of
  components other than the tokens that a property follows.
* `manageable`: broadcasts over a dynamic tree.
* futures that are set or requested more than once.
* serialization: type-specific `pup` of containers, in particular pointers inside a container
  that is resized while it is unpacked (`pup.hpp:60-75`), and pointers back to plain objects.

Not modelled:

* state server and multistate component. They are small state machines over mailbox-like
  ports, the next to be modelled: states that are put and acquired in order, an expected
  state that never comes.
* threading: pools of thread ids (`threading.hpp`), whose exhaustion depends on the PEs' loads.
* `flex_pup`, type traits, proxies, hashing containers and other utilities: no state, or none that
  the order of events changes.
* the build and the demos, which serve as statements of what the library promises.

What proofs are left, in order: `ValuesKept` of `Locality` for programs whose components use up what
they are given or take it from mailboxes, by an invariant over the call stack; the reductions of
`DynamicTree`.
