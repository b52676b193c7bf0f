-------------------------- MODULE SectionReduction --------------------------
(***************************************************************************)
(* Reductions over lightweight sections.                                   *)
(*                                                                         *)
(* A section is a list of indices; its members form a binary tree by their *)
(* positions in the list, and nothing is registered anywhere.  A member    *)
(* that contributes creates a reducer component for its next round and     *)
(* opens one entry port for each of its children; whatever arrives before  *)
(* the port is open waits in the member's port_queue.  A reducer that has  *)
(* its own contribution and one from each child sends the combined value   *)
(* to its parent, or to the callback at the root, closes its ports and is  *)
(* collected.                                                              *)
(*                                                                         *)
(* Handlers of one element are atomic.  Messages are neither lost nor      *)
(* duplicated, but arrive in any order, and the rounds of different        *)
(* sections overlap freely.  A value is the set of the contributions that  *)
(* the combiner was given.                                                 *)
(***************************************************************************)
EXTENDS Section, FiniteSets

CONSTANTS
  Sections,   \* the sections in use, each a sequence of distinct indices
  MaxRounds   \* bound: the number of reductions over each section

ASSUME SectionAssumption ==
  /\ \A s \in Sections : IsSection(s)
  /\ MaxRounds \in Nat

Index == UNION {Member(s) : s \in Sections}
Round == 0 .. (MaxRounds - 1)

VARIABLES
  redn_count,   \* identity::redn_count_, of each section at each index
  reducers,     \* the reducer components that exist, as <<index, section, round>>
  devs,         \* reducer::devs_, all reducers together
  entry_ports,  \* open reduction ports and the reducers they lead to
  port_queue,   \* deliverables that arrived before their port was open
  msgs,         \* contributions on their way to another member
  results,      \* what the callback has been given
  aborted       \* the CkAbort / CkAssert that ended the program, if any

vars == <<redn_count, reducers, devs, entry_ports, port_queue, msgs, results, aborted>>

Aborts == {"none", "port already exists", "contribution not accepted"}

Running == aborted = "none"

Abort(why) ==
  /\ aborted' = why
  /\ UNCHANGED <<redn_count, reducers, devs, entry_ports, port_queue, msgs, results>>

\* hash_iterable adds, for each element h of the list, 0x9e3779b9 + (h << 6) +
\* (h >> 2): lists have the same hash when their lengths and sums agree (and
\* otherwise differ, for the short lists of small indices that are used here)
HashOf(s) == <<Len(s), SumFunction([i \in DOMAIN s |-> 64 * s[i] + s[i] \div 4])>>

\* reduction_port: the section's hash, the number of the round, and the child
Port(s, c, child) == [identity |-> HashOf(s), count |-> c, index |-> child]

-----------------------------------------------------------------------------
(***************************************************************************)
(* The reducer of <<m, s, c>>: round c of section s at index m.            *)
(***************************************************************************)
\* n_ustream: one input for each child, and the local contribution
NumUstream(m, s) == Cardinality(Upstream(s, m)) + 1

Accepted(rdcr) == {d \in devs : d.rdcr = rdcr}

PortsTo(rdcr) == {e \in entry_ports : e.rdcr = rdcr}

Combined(ds) == UNION {d.val : d \in ds}

Complete_KeepsDevs(rdcr, ds, queued) ==
  LET m == rdcr[1] s == rdcr[2] c == rdcr[3] IN
  /\ \/ /\ Downstream(s, m) = {}
        /\ results' = results \cup {[sect |-> s, round |-> c, val |-> Combined(ds)]}
        /\ msgs' = queued
     \/ /\ Downstream(s, m) # {}
        /\ msgs' = queued \cup {[dst |-> down, port |-> Port(s, c, m), val |-> Combined(ds)] :
                                 down \in Downstream(s, m)}
        /\ UNCHANGED results
  /\ devs' = devs \cup ds
  /\ entry_ports' = entry_ports \ PortsTo(rdcr)
  /\ reducers' = reducers \ {rdcr}

Complete_LeavesPorts(rdcr, ds, queued) ==
  LET m == rdcr[1] s == rdcr[2] c == rdcr[3] IN
  /\ \/ /\ Downstream(s, m) = {}
        /\ results' = results \cup {[sect |-> s, round |-> c, val |-> Combined(ds)]}
        /\ msgs' = queued
     \/ /\ Downstream(s, m) # {}
        /\ msgs' = queued \cup {[dst |-> down, port |-> Port(s, c, m), val |-> Combined(ds)] :
                                 down \in Downstream(s, m)}
        /\ UNCHANGED results
  /\ devs' = devs \ Accepted(rdcr)
  /\ UNCHANGED entry_ports
  /\ reducers' = reducers \ {rdcr}

\* reducer::action on its last input: the combined value goes down the tree or
\* to the callback, the component is deactivated (its listeners close its
\* ports) and collected
Complete(rdcr, ds, queued) ==
  LET m == rdcr[1] s == rdcr[2] c == rdcr[3] IN
  /\ \/ /\ Downstream(s, m) = {}
        /\ results' = results \cup {[sect |-> s, round |-> c, val |-> Combined(ds)]}
        /\ msgs' = queued
     \/ /\ Downstream(s, m) # {}
        /\ msgs' = queued \cup {[dst |-> down, port |-> Port(s, c, m), val |-> Combined(ds)] :
                                 down \in Downstream(s, m)}
        /\ UNCHANGED results
  /\ devs' = devs \ Accepted(rdcr)
  /\ entry_ports' = entry_ports \ PortsTo(rdcr)
  /\ reducers' = reducers \ {rdcr}

\* open: entry_ports must not hold an equal port
AlreadyOpen(m, ports) == \E e \in entry_ports : e.at = m /\ e.port \in ports

\* resync_port_queue: what has arrived for these ports
Queued(m, ports) == {q \in port_queue : q.dst = m /\ q.port \in ports}

\* accept: the deliverable x becomes an input of the reducer
Input(rdcr, x) == [rdcr |-> rdcr, from |-> x.port.index, val |-> x.val]

\* local_contribution(section, value, fn, cb), one handler: a new reducer, its
\* ports (open drains what the port queue holds for them, which the inactive
\* reducer keeps), activation, and then the local value
LocalContribution(s, m) ==
  LET c     == redn_count[s][m]
      rdcr  == <<m, s, c>>
      ports == {Port(s, c, u) : u \in Upstream(s, m)}
      early == Queued(m, ports)
      given == {Input(rdcr, q) : q \in early}
                 \cup {[rdcr |-> rdcr, from |-> m, val |-> {<<s, c, m>>}]}
  IN
  /\ Running
  /\ c < MaxRounds
  /\ \/ /\ ~AlreadyOpen(m, ports)
        /\ Cardinality(early) < NumUstream(m, s)
        /\ redn_count' = [redn_count EXCEPT ![s][m] = @ + 1]
        /\ port_queue' = port_queue \ early
        /\ \/ /\ Cardinality(early) + 1 < NumUstream(m, s)
              /\ reducers' = reducers \cup {rdcr}
              /\ devs' = devs \cup given
              /\ entry_ports' = entry_ports \cup
                   {[at |-> m, port |-> p, rdcr |-> rdcr] : p \in ports}
              /\ UNCHANGED <<msgs, results>>
           \/ /\ Cardinality(early) + 1 = NumUstream(m, s)
              /\ Complete(rdcr, given, msgs)
        /\ UNCHANGED aborted
     \/ /\ AlreadyOpen(m, ports)
        /\ Abort("port already exists")
     \/ /\ ~AlreadyOpen(m, ports)
        /\ Cardinality(early) >= NumUstream(m, s)
        /\ Abort("contribution not accepted")

\* receive, for a contribution that reaches the port of its sender
Receive(msg) ==
  LET open == {e \in entry_ports : e.at = msg.dst /\ e.port = msg.port}
  IN
  /\ Running
  /\ msg \in msgs
  /\ \/ /\ open = {}
        /\ port_queue' = port_queue \cup {msg}
        /\ msgs' = msgs \ {msg}
        /\ UNCHANGED <<redn_count, reducers, devs, entry_ports, results, aborted>>
     \/ \E e \in open :
          LET rdcr == e.rdcr
              ds   == Accepted(rdcr) \cup {Input(rdcr, msg)}
          IN
          /\ \/ /\ Cardinality(ds) < NumUstream(rdcr[1], rdcr[2])
                /\ devs' = devs \cup ds
                /\ msgs' = msgs \ {msg}
                /\ UNCHANGED <<reducers, entry_ports, results>>
             \/ /\ Cardinality(ds) >= NumUstream(rdcr[1], rdcr[2])
                /\ Complete(rdcr, ds, msgs \ {msg})
          /\ UNCHANGED <<redn_count, port_queue, aborted>>

-----------------------------------------------------------------------------
Init ==
  /\ redn_count = [s \in Sections |-> [m \in Member(s) |-> 0]]
  /\ reducers = {} /\ devs = {} /\ entry_ports = {} /\ port_queue = {}
  /\ msgs = {} /\ results = {}
  /\ aborted = "none"

Contribute == \E s \in Sections : \E m \in Member(s) : LocalContribution(s, m)

Deliver == \E msg \in msgs : Receive(msg)

Next == Contribute \/ Deliver

Spec == Init /\ [][Next]_vars

\* Charm++ delivers every message, and every member of a section takes part
\* in each of its reductions.
FairSpec == Spec /\ WF_vars(Deliver) /\ WF_vars(Contribute)
-----------------------------------------------------------------------------
(***************************************************************************)
(* Properties.                                                             *)
(***************************************************************************)
\* <<s, c, m>>: what m contributes to round c of section s
Token == {t \in Sections \X Round \X Index : t[3] \in Member(t[1])}
PortType == [identity : {HashOf(s) : s \in Sections}, count : Round, index : Index]
Reducer == {<<t[3], t[1], t[2]>> : t \in Token}
Deliverable == [dst : Index, port : PortType, val : SUBSET Token]

\* Every variable has its type.
TypeOK ==
  /\ DOMAIN redn_count = Sections
  /\ \A s \in Sections : redn_count[s] \in [Member(s) -> 0 .. MaxRounds]
  /\ reducers \subseteq Reducer
  /\ devs \subseteq [rdcr : Reducer, from : Index, val : SUBSET Token]
  /\ entry_ports \subseteq [at : Index, port : PortType, rdcr : Reducer]
  /\ port_queue \subseteq Deliverable
  /\ msgs \subseteq Deliverable
  /\ results \subseteq [sect : Sections, round : Round, val : SUBSET Token]
  /\ aborted \in Aborts

\* the places a contribution is in
Holders(t) ==
  ({"msgs"} \X {x \in msgs : t \in x.val})
    \cup ({"port_queue"} \X {x \in port_queue : t \in x.val})
    \cup ({"devs"} \X {x \in devs : t \in x.val})
    \cup ({"results"} \X {x \in results : t \in x.val})

\* A contribution is in exactly one place from the moment it is made: in a
\* message, in a port queue, in a reducer, or in a value the callback was
\* given.  The moves of deliverables through receive, open, the reducer and
\* its output neither drop nor repeat one, even when ports collide.
ContributedOnce ==
  \A t \in Token :
    /\ t[2] < redn_count[t[1]][t[3]] <=> Holders(t) # {}
    /\ \A h, k \in Holders(t) : h = k

\* The callback is given a value only when every member has contributed to
\* that round of that section, and the value is made of these contributions
\* and of nothing else (redn_demo, bcast_demo: one callback per reduction).
ResultsComplete ==
  \A r \in results : r.val = {<<r.sect, r.round, m>> : m \in Member(r.sect)}

\* A contribution waits in the port queue only while its receiver has not
\* started that round; open takes it from there, and none comes too late.
NothingStranded ==
  \A q \in port_queue, s \in Sections :
    q.dst \in Member(s) /\ q.port.identity = HashOf(s) => redn_count[s][q.dst] <= q.port.count

\* An open port leads to a reducer that exists, so the assertion "local
\* delivery failed!" of receive holds; and a reducer that exists has the port
\* of each of its children open, however its inputs arrive.
PortsAwait ==
  /\ \A e \in entry_ports : e.rdcr \in reducers
  /\ \A r \in reducers : \A u \in Upstream(r[2], r[1]) :
       [at |-> r[1], port |-> Port(r[2], r[3], u), rdcr |-> r] \in entry_ports

\* README: reducers "open designated entry ports for each reduction, assigning
\* them a unique ID": a reducer accepts contributions to its own section and
\* round only.
OwnReductionOnly ==
  \A d \in devs : \A t \in d.val : t[1] = d.rdcr[2] /\ t[2] = d.rdcr[3]

\* No port is opened twice, and a reducer never finishes before it is given
\* the local contribution.
NoAbort == Running

\* every reduction has reached the callback and left nothing behind
AllReduced ==
  /\ \A s \in Sections, c \in Round : \E r \in results : r.sect = s /\ r.round = c
  /\ reducers = {} /\ entry_ports = {} /\ port_queue = {}

\* When every member contributes, every reduction reaches the callback, and
\* its components, ports and queued values are gone for good.
EventuallyReduced == <>[]AllReduced
=============================================================================
