----------------------- MODULE SectionReductionProofs -----------------------
(***************************************************************************)
(* Proofs about SectionReduction, for every set of sections and any number *)
(* of rounds.  Types, ports and the conservation of contributions do not   *)
(* depend on the hashes of the sections; that results are complete does:   *)
(* it is proved for sections that their hashes tell apart (HashesTell).    *)
(***************************************************************************)
EXTENDS SectionReduction, FiniteSetTheorems, WellFoundedInduction, TLAPS

-----------------------------------------------------------------------------
(***************************************************************************)
(* The tree of a section, for every section.                               *)
(***************************************************************************)

\* The ordinal of a member is a position of the list.
LEMMA OrdinalOfMember ==
  ASSUME NEW s, IsSection(s), NEW m \in Member(s)
  PROVE  /\ OrdinalFor(s, m) \in Int
         /\ IsValidOrdinal(s, OrdinalFor(s, m))
         /\ s[OrdinalFor(s, m) + 1] = m
<1>1. s \in Seq(Nat)
  BY DEF IsSection
<1>2. DOMAIN s = 1 .. Len(s) /\ Len(s) \in Nat
  BY <1>1
<1>3. \E i \in DOMAIN s : s[i] = m
  BY DEF Member, Range
<1>4. PICK i \in DOMAIN s : s[i] = m /\ OrdinalFor(s, m) = i - 1
  BY <1>3 DEF OrdinalFor
<1>. QED
  BY <1>2, <1>4 DEF IsValidOrdinal

\* Valid ordinals lead to members.
LEMMA IndicesAreMembers ==
  ASSUME NEW s, IsSection(s), NEW ords \in SUBSET Int
  PROVE  IndicesAt(s, ords) \subseteq Member(s)
<1>1. s \in Seq(Nat) /\ Len(s) \in Nat /\ DOMAIN s = 1 .. Len(s)
  BY DEF IsSection
<1>2. ASSUME NEW o \in ords, IsValidOrdinal(s, o)
      PROVE  s[o + 1] \in Member(s)
  <2>1. o + 1 \in DOMAIN s
    BY <1>1, <1>2 DEF IsValidOrdinal
  <2>. QED
    BY <2>1 DEF Member, Range
<1>. QED
  BY <1>2 DEF IndicesAt

\* Children and parents are members, and there is at most one parent.
LEMMA TreeOfMembers ==
  ASSUME NEW s, IsSection(s), NEW m \in Member(s)
  PROVE  /\ Upstream(s, m) \subseteq Member(s)
         /\ Downstream(s, m) \subseteq Member(s)
         /\ \A x, y \in Downstream(s, m) : x = y
<1>1. OrdinalFor(s, m) \in Int
  BY OrdinalOfMember
<1>2. Upstream(s, m) \subseteq Member(s)
  <2>1. {2 * OrdinalFor(s, m) + 1, 2 * OrdinalFor(s, m) + 2} \in SUBSET Int
    BY <1>1
  <2>. QED
    BY <2>1, IndicesAreMembers DEF Upstream
<1>3. PICK p \in Int :
        (IF OrdinalFor(s, m) > 0 THEN {(OrdinalFor(s, m) - 1) \div 2} ELSE {-1}) = {p}
  BY <1>1
<1>4. Downstream(s, m) = IndicesAt(s, {p})
  BY <1>3 DEF Downstream
<1>5. Downstream(s, m) \subseteq Member(s)
  BY <1>4, IndicesAreMembers
<1>6. \A x, y \in Downstream(s, m) : x = y
  BY <1>4 DEF IndicesAt
<1>. QED
  BY <1>2, <1>5, <1>6

\* The member at a valid ordinal has that ordinal.
LEMMA OrdinalAt ==
  ASSUME NEW s, IsSection(s), NEW o \in Int, IsValidOrdinal(s, o)
  PROVE  s[o + 1] \in Member(s) /\ OrdinalFor(s, s[o + 1]) = o
<1>1. s \in Seq(Nat) /\ Len(s) \in Nat /\ DOMAIN s = 1 .. Len(s)
  BY DEF IsSection
<1>2. o + 1 \in DOMAIN s
  BY <1>1 DEF IsValidOrdinal
<1>3. s[o + 1] \in Member(s)
  BY <1>2 DEF Member, Range
<1>4. /\ OrdinalFor(s, s[o + 1]) \in Int
      /\ OrdinalFor(s, s[o + 1]) + 1 \in DOMAIN s
      /\ s[OrdinalFor(s, s[o + 1]) + 1] = s[o + 1]
  BY <1>1, <1>3, OrdinalOfMember DEF IsValidOrdinal
<1>5. OrdinalFor(s, s[o + 1]) + 1 = o + 1
  BY <1>2, <1>4 DEF IsSection, IsInjective
<1>. QED
  BY <1>3, <1>4, <1>5

\* The ordinals of a member's children.
LEMMA OrdinalOfChild ==
  ASSUME NEW s, IsSection(s), NEW m \in Member(s), NEW u \in Upstream(s, m)
  PROVE  OrdinalFor(s, u) \in {2 * OrdinalFor(s, m) + 1, 2 * OrdinalFor(s, m) + 2}
<1>1. OrdinalFor(s, m) \in Int
  BY OrdinalOfMember
<1>2. PICK o \in {2 * OrdinalFor(s, m) + 1, 2 * OrdinalFor(s, m) + 2} :
        IsValidOrdinal(s, o) /\ u = s[o + 1]
  BY DEF Upstream, IndicesAt
<1>. QED
  BY <1>1, <1>2, OrdinalAt

\* Downstream is the inverse of Upstream: every member but the root has a
\* parent, whose child it is.
LEMMA ParentOfMember ==
  ASSUME NEW s, IsSection(s), NEW u \in Member(s), u # PickRoot(s)
  PROVE  \E m \in Member(s) : Downstream(s, u) = {m} /\ u \in Upstream(s, m)
<1>. DEFINE o == OrdinalFor(s, u)
            p == (o - 1) \div 2
<1>1. o \in Int /\ IsValidOrdinal(s, o) /\ s[o + 1] = u
  BY OrdinalOfMember
<1>2. o > 0
  BY <1>1 DEF IsValidOrdinal, PickRoot
<1>3. p \in Int /\ p >= 0 /\ p < o /\ o \in {2 * p + 1, 2 * p + 2}
  BY <1>1, <1>2
<1>4. Len(s) \in Nat
  BY DEF IsSection
<1>5. IsValidOrdinal(s, p)
  BY <1>1, <1>3, <1>4 DEF IsValidOrdinal
<1>6. s[p + 1] \in Member(s) /\ OrdinalFor(s, s[p + 1]) = p
  BY <1>3, <1>5, OrdinalAt
<1>7. Downstream(s, u) = {s[p + 1]}
  BY <1>2, <1>5 DEF Downstream, IndicesAt
<1>8. u \in Upstream(s, s[p + 1])
  <2>. HIDE DEF p, o
  <2>. QED
    BY <1>1, <1>3, <1>6 DEF Upstream, IndicesAt
<1>. QED
  BY <1>6, <1>7, <1>8

\* A set of naturals that is not empty has a least member.
LEMMA LeastMember ==
  ASSUME NEW T \in SUBSET Nat, T # {}
  PROVE  \E i \in T : \A j \in T : i <= j
<1>1. PICK i \in T : \A j \in T : ~ (<<j, i>> \in OpToRel(<, Nat))
  BY NatLessThanWellFounded, WFMin
<1>2. OpToRel(<, Nat) = {ss \in Nat \X Nat : ss[1] < ss[2]}
  BY Zenon DEF OpToRel
<1>3. ASSUME NEW j \in T
      PROVE  i <= j
  <2>1. <<j, i>> \in Nat \X Nat /\ <<j, i>>[1] = j /\ <<j, i>>[2] = i
    OBVIOUS
  <2>2. ~ (j < i)
    BY <1>1, <1>2, <2>1
  <2>. QED
    BY <2>2
<1>. QED
  BY <1>3

-----------------------------------------------------------------------------
(***************************************************************************)
(* Members, reducers and tokens.                                           *)
(***************************************************************************)

LEMMA MembersAreIndices ==
  ASSUME NEW s \in Sections
  PROVE  Member(s) \subseteq Index
BY DEF Index

LEMMA TokenIntro ==
  ASSUME NEW s \in Sections, NEW c \in Round, NEW m \in Member(s)
  PROVE  <<s, c, m>> \in Token /\ <<m, s, c>> \in Reducer
<1>1. m \in Index
  BY MembersAreIndices
<1>2. <<s, c, m>> \in Token
  BY <1>1 DEF Token
<1>3. <<m, s, c>> = << <<s, c, m>>[3], <<s, c, m>>[1], <<s, c, m>>[2] >>
  OBVIOUS
<1>. QED
  BY <1>2, <1>3 DEF Reducer

LEMMA ReducerParts ==
  ASSUME NEW r \in Reducer
  PROVE  /\ r[2] \in Sections /\ r[3] \in Round /\ r[1] \in Member(r[2])
         /\ r = <<r[1], r[2], r[3]>>
BY DEF Reducer, Token

LEMMA PortTyped ==
  ASSUME NEW s \in Sections, NEW c \in Round, NEW m \in Member(s)
  PROVE  Port(s, c, m) \in PortType
BY MembersAreIndices DEF Port, PortType

-----------------------------------------------------------------------------
(***************************************************************************)
(* Type correctness.                                                       *)
(***************************************************************************)

Dev == [rdcr : Reducer, from : Index, val : SUBSET Token]

\* Completion keeps the types.
LEMMA CompleteTyped ==
  ASSUME TypeOK, NEW r \in Reducer, NEW ds \in SUBSET Dev, NEW queued \in SUBSET Deliverable,
         Complete(r, ds, queued)
  PROVE  /\ results' \subseteq [sect : Sections, round : Round, val : SUBSET Token]
         /\ msgs' \subseteq Deliverable
         /\ devs' \subseteq Dev
         /\ entry_ports' \subseteq [at : Index, port : PortType, rdcr : Reducer]
         /\ reducers' \subseteq Reducer
<1>1. r[2] \in Sections /\ r[3] \in Round /\ r[1] \in Member(r[2])
  BY ReducerParts
<1>2. Combined(ds) \in SUBSET Token
  BY DEF Combined, Dev
<1>3. Downstream(r[2], r[1]) \subseteq Index
  BY <1>1, SectionAssumption, TreeOfMembers, MembersAreIndices
<1>4. Port(r[2], r[3], r[1]) \in PortType
  BY <1>1, PortTyped
<1>5. \A down \in Downstream(r[2], r[1]) :
        [dst |-> down, port |-> Port(r[2], r[3], r[1]), val |-> Combined(ds)] \in Deliverable
  BY <1>2, <1>3, <1>4 DEF Deliverable
<1>6. msgs' \subseteq Deliverable
  BY <1>5 DEF Complete
<1>7. results' \subseteq [sect : Sections, round : Round, val : SUBSET Token]
  BY <1>1, <1>2 DEF Complete, TypeOK
<1>. QED
  BY <1>6, <1>7 DEF Complete, TypeOK, Dev

LEMMA TypeInit == Init => TypeOK
<1>. SUFFICES ASSUME Init PROVE TypeOK
  OBVIOUS
<1>1. \A s \in Sections : redn_count[s] \in [Member(s) -> 0 .. MaxRounds]
  BY SectionAssumption DEF Init
<1>. QED
  BY <1>1 DEF Init, TypeOK, Aborts

\* An Abort changes nothing else.
LEMMA AbortTyped ==
  ASSUME TypeOK, NEW why \in Aborts, Abort(why)
  PROVE  TypeOK'
BY DEF TypeOK, Abort, Deliverable

LEMMA ContributionTyped ==
  ASSUME TypeOK, NEW s \in Sections, NEW m \in Member(s), LocalContribution(s, m)
  PROVE  TypeOK'
<1>. DEFINE c     == redn_count[s][m]
            rdcr  == <<m, s, c>>
            ports == {Port(s, c, u) : u \in Upstream(s, m)}
            early == {q \in port_queue : q.dst = m /\ q.port \in ports}
            given == {[rdcr |-> rdcr, from |-> q.port.index, val |-> q.val] : q \in early}
                       \cup {[rdcr |-> rdcr, from |-> m, val |-> {<<s, c, m>>}]}
<1>1. c \in 0 .. MaxRounds /\ c < MaxRounds /\ MaxRounds \in Nat
  BY SectionAssumption DEF TypeOK, LocalContribution
<1>2. c \in Round
  BY <1>1 DEF Round
<1>3. rdcr \in Reducer /\ <<s, c, m>> \in Token
  BY <1>2, TokenIntro
<1>4. m \in Index
  BY MembersAreIndices
<1>5. given \subseteq Dev
  <2>1. \A q \in early : q.port.index \in Index /\ q.val \in SUBSET Token
    BY DEF TypeOK, Deliverable, PortType
  <2>. QED
    BY <2>1, <1>3, <1>4 DEF Dev
<1>6. CASE Abort("port already exists")
  BY <1>6, AbortTyped DEF Aborts
<1>7. CASE Abort("contribution not accepted")
  BY <1>7, AbortTyped DEF Aborts
<1>8. CASE /\ redn_count' = [redn_count EXCEPT ![s][m] = @ + 1]
           /\ port_queue' = port_queue \ early
           /\ \/ /\ reducers' = reducers \cup {rdcr}
                 /\ devs' = devs \cup given
                 /\ entry_ports' = entry_ports \cup
                      {[at |-> m, port |-> p, rdcr |-> rdcr] : p \in ports}
                 /\ UNCHANGED <<msgs, results>>
              \/ Complete(rdcr, given, msgs)
           /\ UNCHANGED aborted
  <2>1. /\ DOMAIN redn_count' = Sections
        /\ \A t \in Sections : redn_count'[t] \in [Member(t) -> 0 .. MaxRounds]
    BY <1>8, <1>1 DEF TypeOK
  <2>2. port_queue' \subseteq Deliverable
    BY <1>8 DEF TypeOK
  <2>3. CASE Complete(rdcr, given, msgs)
    <3>1. msgs \in SUBSET Deliverable
      BY DEF TypeOK
    <3>. HIDE DEF rdcr, given, early, ports, c
    <3>2. /\ results' \subseteq [sect : Sections, round : Round, val : SUBSET Token]
          /\ msgs' \subseteq Deliverable
          /\ devs' \subseteq Dev
          /\ entry_ports' \subseteq [at : Index, port : PortType, rdcr : Reducer]
          /\ reducers' \subseteq Reducer
      BY <2>3, <3>1, <1>3, <1>5, CompleteTyped
    <3>. QED
      BY <3>2, <2>1, <2>2, <1>8 DEF TypeOK, Dev
  <2>4. CASE /\ reducers' = reducers \cup {rdcr}
             /\ devs' = devs \cup given
             /\ entry_ports' = entry_ports \cup
                  {[at |-> m, port |-> p, rdcr |-> rdcr] : p \in ports}
             /\ UNCHANGED <<msgs, results>>
    <3>1. ports \subseteq PortType
      BY <1>2, PortTyped, SectionAssumption, TreeOfMembers
    <3>. HIDE DEF rdcr, given, early, ports, c
    <3>2. {[at |-> m, port |-> p, rdcr |-> rdcr] : p \in ports}
            \subseteq [at : Index, port : PortType, rdcr : Reducer]
      BY <3>1, <1>3, <1>4
    <3>. QED
      BY <3>2, <2>4, <2>1, <2>2, <1>3, <1>5, <1>8 DEF TypeOK, Dev
  <2>. QED
    BY <1>8, <2>3, <2>4
<1>. QED
  BY <1>6, <1>7, <1>8 DEF LocalContribution, Queued, Input

LEMMA ReceiveTyped ==
  ASSUME TypeOK, NEW msg \in msgs, Receive(msg)
  PROVE  TypeOK'
<1>1. msg \in Deliverable
  BY DEF TypeOK
<1>2. CASE /\ port_queue' = port_queue \cup {msg}
           /\ msgs' = msgs \ {msg}
           /\ UNCHANGED <<redn_count, reducers, devs, entry_ports, results, aborted>>
  BY <1>1, <1>2 DEF TypeOK, Deliverable
<1>3. ASSUME NEW e \in entry_ports,
             LET ds == Accepted(e.rdcr)
                        \cup {[rdcr |-> e.rdcr, from |-> msg.port.index, val |-> msg.val]}
             IN \/ /\ devs' = devs \cup ds
                   /\ msgs' = msgs \ {msg}
                   /\ UNCHANGED <<reducers, entry_ports, results>>
                \/ Complete(e.rdcr, ds, msgs \ {msg}),
             UNCHANGED <<redn_count, port_queue, aborted>>
      PROVE  TypeOK'
  <2>. DEFINE ds == Accepted(e.rdcr)
                 \cup {[rdcr |-> e.rdcr, from |-> msg.port.index, val |-> msg.val]}
  <2>1. e.rdcr \in Reducer
    BY DEF TypeOK
  <2>2. msg.port.index \in Index /\ msg.val \in SUBSET Token
    BY <1>1 DEF Deliverable, PortType
  <2>3. ds \in SUBSET Dev
    BY <2>1, <2>2 DEF Accepted, TypeOK, Dev
  <2>4. msgs \ {msg} \in SUBSET Deliverable
    BY DEF TypeOK
  <2>5. CASE /\ devs' = devs \cup ds
             /\ msgs' = msgs \ {msg}
             /\ UNCHANGED <<reducers, entry_ports, results>>
    <3>. HIDE DEF ds
    <3>. QED
      BY <1>3, <2>3, <2>4, <2>5 DEF TypeOK, Dev
  <2>6. CASE Complete(e.rdcr, ds, msgs \ {msg})
    <3>. HIDE DEF ds
    <3>1. /\ results' \subseteq [sect : Sections, round : Round, val : SUBSET Token]
          /\ msgs' \subseteq Deliverable
          /\ devs' \subseteq Dev
          /\ entry_ports' \subseteq [at : Index, port : PortType, rdcr : Reducer]
          /\ reducers' \subseteq Reducer
      BY <2>1, <2>3, <2>4, <2>6, CompleteTyped
    <3>. QED
      BY <1>3, <3>1 DEF TypeOK, Dev
  <2>. QED
    BY <1>3, <2>5, <2>6
<1>. QED
  BY <1>2, <1>3 DEF Receive, Input

\* Every reachable state of the reductions is well typed.
THEOREM TypeCorrect == Spec => []TypeOK
<1>1. TypeOK /\ [Next]_vars => TypeOK'
  <2>. SUFFICES ASSUME TypeOK, [Next]_vars PROVE TypeOK'
    OBVIOUS
  <2>1. CASE UNCHANGED vars
    BY <2>1 DEF vars, TypeOK, Deliverable
  <2>2. CASE Contribute
    BY <2>2, ContributionTyped DEF Contribute
  <2>3. CASE Deliver
    BY <2>3, ReceiveTyped DEF Deliver
  <2>. QED
    BY <2>1, <2>2, <2>3 DEF Next
<1>. QED
  BY TypeInit, <1>1, PTL DEF Spec

-----------------------------------------------------------------------------
(***************************************************************************)
(* Ports and reducers.                                                     *)
(***************************************************************************)

\* Completion closes the ports of the reducer it removes, and no other.
LEMMA CompletePorts ==
  ASSUME PortsAwait, NEW r, NEW ds, NEW queued, Complete(r, ds, queued)
  PROVE  PortsAwait'
<1>1. entry_ports' = {e \in entry_ports : e.rdcr # r} /\ reducers' = reducers \ {r}
  BY DEF Complete, PortsTo
<1>2. \A e \in entry_ports' : e.rdcr \in reducers'
  BY <1>1 DEF PortsAwait
<1>3. ASSUME NEW q \in reducers', NEW u \in Upstream(q[2], q[1])
      PROVE  [at |-> q[1], port |-> Port(q[2], q[3], u), rdcr |-> q] \in entry_ports'
  <2>1. [at |-> q[1], port |-> Port(q[2], q[3], u), rdcr |-> q] \in entry_ports
    BY <1>1, <1>3 DEF PortsAwait
  <2>. QED
    BY <1>1, <2>1
<1>. QED
  BY <1>2, <1>3 DEF PortsAwait

LEMMA PortsStep ==
  ASSUME PortsAwait, [Next]_vars
  PROVE  PortsAwait'
<1>1. CASE UNCHANGED <<entry_ports, reducers>>
  BY <1>1 DEF PortsAwait
<1>2. ASSUME NEW s \in Sections, NEW m \in Member(s), LocalContribution(s, m)
      PROVE  PortsAwait'
  <2>. DEFINE c     == redn_count[s][m]
              rdcr  == <<m, s, c>>
              ports == {Port(s, c, u) : u \in Upstream(s, m)}
              fresh == {[at |-> m, port |-> p, rdcr |-> rdcr] : p \in ports}
  <2>1. CASE reducers' = reducers \cup {rdcr} /\ entry_ports' = entry_ports \cup fresh
    <3>1. \A e \in entry_ports' : e.rdcr \in reducers'
      BY <2>1 DEF PortsAwait
    <3>2. ASSUME NEW u \in Upstream(s, m)
          PROVE  [at |-> m, port |-> Port(s, c, u), rdcr |-> rdcr] \in entry_ports'
      BY <2>1
    <3>3. rdcr[1] = m /\ rdcr[2] = s /\ rdcr[3] = c
      OBVIOUS
    <3>. HIDE DEF rdcr, fresh, c
    <3>4. \A q \in reducers' : \A u \in Upstream(q[2], q[1]) :
            [at |-> q[1], port |-> Port(q[2], q[3], u), rdcr |-> q] \in entry_ports'
      BY <2>1, <3>2, <3>3 DEF PortsAwait
    <3>. QED
      BY <3>1, <3>4 DEF PortsAwait
  <2>2. CASE UNCHANGED <<entry_ports, reducers>>
    BY <2>2, <1>1
  <2>3. CASE \E ds : Complete(rdcr, ds, msgs)
    BY <2>3, CompletePorts
  <2>. QED
    BY <1>2, <2>1, <2>2, <2>3 DEF LocalContribution, Queued, Input, Abort
<1>3. ASSUME NEW msg \in msgs, Receive(msg)
      PROVE  PortsAwait'
  <2>1. CASE UNCHANGED <<entry_ports, reducers>>
    BY <2>1, <1>1
  <2>2. CASE \E r, ds : Complete(r, ds, msgs \ {msg})
    BY <2>2, CompletePorts
  <2>. QED
    BY <1>3, <2>1, <2>2 DEF Receive, Input
<1>. QED
  BY <1>1, <1>2, <1>3 DEF Next, Contribute, Deliver, vars

\* In every reachable state an open port leads to a reducer that exists, and
\* a reducer has all its ports open: receive's "local delivery failed!" is
\* unreachable.
THEOREM PortsCorrect == Spec => []PortsAwait
<1>1. Init => PortsAwait
  BY DEF Init, PortsAwait
<1>. QED
  BY <1>1, PortsStep, PTL DEF Spec

-----------------------------------------------------------------------------
(***************************************************************************)
(* Conservation of contributions.                                          *)
(***************************************************************************)

Begun(r) == r[3] < redn_count[r[2]][r[1]]

\* Ports and accepted deliverables belong to rounds that were started, so a
\* new reducer starts out empty.
RoundsBegun ==
  /\ \A d \in devs : Begun(d.rdcr)
  /\ \A e \in entry_ports : Begun(e.rdcr)

LEMMA CountsGrow ==
  ASSUME TypeOK, [Next]_vars, NEW r \in Reducer, Begun(r)
  PROVE  Begun(r)'
<1>. USE DEF Begun
<1>1. r[2] \in Sections /\ r[1] \in Member(r[2]) /\ r[3] \in Round
  BY ReducerParts
<1>2. redn_count[r[2]][r[1]] \in Nat /\ r[3] \in Nat
  BY <1>1, SectionAssumption DEF TypeOK, Round
<1>3. CASE UNCHANGED redn_count
  BY <1>3
<1>4. ASSUME NEW s \in Sections, NEW m \in Member(s),
             redn_count' = [redn_count EXCEPT ![s][m] = @ + 1]
      PROVE  Begun(r)'
  BY <1>1, <1>2, <1>4 DEF TypeOK
<1>5. ASSUME NEW s \in Sections, NEW m \in Member(s), LocalContribution(s, m)
      PROVE  Begun(r)'
  BY <1>3, <1>4, <1>5 DEF LocalContribution, Queued, Input, Abort
<1>6. ASSUME NEW msg \in msgs, Receive(msg)
      PROVE  Begun(r)'
  BY <1>3, <1>6 DEF Receive, Input
<1>. QED
  BY <1>3, <1>5, <1>6 DEF Next, Contribute, Deliver, vars

LEMMA CompleteBegun ==
  ASSUME NEW r, NEW ds, NEW queued, Complete(r, ds, queued)
  PROVE  devs' \subseteq devs /\ entry_ports' \subseteq entry_ports
BY DEF Complete

LEMMA BegunStep ==
  ASSUME TypeOK, RoundsBegun, [Next]_vars
  PROVE  RoundsBegun'
<1>1. \A d \in devs : d.rdcr \in Reducer /\ Begun(d.rdcr)'
  BY CountsGrow DEF TypeOK, RoundsBegun
<1>2. \A e \in entry_ports : e.rdcr \in Reducer /\ Begun(e.rdcr)'
  BY CountsGrow DEF TypeOK, RoundsBegun
<1>3. CASE devs' \subseteq devs /\ entry_ports' \subseteq entry_ports
  BY <1>1, <1>2, <1>3 DEF RoundsBegun
<1>4. ASSUME NEW s \in Sections, NEW m \in Member(s), LocalContribution(s, m)
      PROVE  RoundsBegun'
  <2>. DEFINE c     == redn_count[s][m]
              rdcr  == <<m, s, c>>
              ports == {Port(s, c, u) : u \in Upstream(s, m)}
              early == {q \in port_queue : q.dst = m /\ q.port \in ports}
              given == {[rdcr |-> rdcr, from |-> q.port.index, val |-> q.val] : q \in early}
                         \cup {[rdcr |-> rdcr, from |-> m, val |-> {<<s, c, m>>}]}
              fresh == {[at |-> m, port |-> p, rdcr |-> rdcr] : p \in ports}
  <2>1. CASE /\ redn_count' = [redn_count EXCEPT ![s][m] = @ + 1]
             /\ devs' = devs \cup given
             /\ entry_ports' = entry_ports \cup fresh
    <3>1. c \in Nat
      BY SectionAssumption DEF TypeOK
    <3>2. redn_count'[s][m] = c + 1
      BY <2>1 DEF TypeOK
    <3>3. PICK r : r = rdcr
      OBVIOUS
    <3>4. Begun(r)'
      BY <3>1, <3>2, <3>3 DEF Begun
    <3>5. (\A d \in given : d.rdcr = r) /\ (\A e \in fresh : e.rdcr = r)
      BY <3>3
    <3>6. \A d \in devs' : Begun(d.rdcr)'
      BY <1>1, <2>1, <3>4, <3>5
    <3>7. \A e \in entry_ports' : Begun(e.rdcr)'
      BY <1>2, <2>1, <3>4, <3>5
    <3>. QED
      BY <3>6, <3>7 DEF RoundsBegun
  <2>2. CASE UNCHANGED <<devs, entry_ports>>
    BY <2>2, <1>3
  <2>3. CASE \E ds : Complete(rdcr, ds, msgs)
    BY <2>3, <1>3, CompleteBegun
  <2>. QED
    BY <1>4, <2>1, <2>2, <2>3 DEF LocalContribution, Queued, Input, Abort
<1>5. ASSUME NEW msg \in msgs, Receive(msg)
      PROVE  RoundsBegun'
  <2>1. CASE UNCHANGED <<devs, entry_ports>>
    BY <2>1, <1>3
  <2>2. CASE \E r, ds : Complete(r, ds, msgs \ {msg})
    BY <2>2, <1>3, CompleteBegun
  <2>3. ASSUME NEW e \in entry_ports,
               devs' = devs \cup Accepted(e.rdcr)
                 \cup {[rdcr |-> e.rdcr, from |-> msg.port.index, val |-> msg.val]},
               UNCHANGED entry_ports
        PROVE  RoundsBegun'
    BY <1>1, <1>2, <2>3 DEF RoundsBegun, Accepted
  <2>. QED
    BY <1>5, <2>1, <2>2, <2>3 DEF Receive, Input
<1>. QED
  BY <1>3, <1>4, <1>5 DEF Next, Contribute, Deliver, vars

\* A contribution t is in at most one of the deliverables of M, Q, D and R.
Sole(t, M, Q, D, R) ==
  /\ \A x, y \in M : t \in x.val /\ t \in y.val => x = y
  /\ \A x, y \in Q : t \in x.val /\ t \in y.val => x = y
  /\ \A x, y \in D : t \in x.val /\ t \in y.val => x = y
  /\ \A x, y \in R : t \in x.val /\ t \in y.val => x = y
  /\ \A x \in M, y \in Q : ~(t \in x.val /\ t \in y.val)
  /\ \A x \in M, y \in D : ~(t \in x.val /\ t \in y.val)
  /\ \A x \in M, y \in R : ~(t \in x.val /\ t \in y.val)
  /\ \A x \in Q, y \in D : ~(t \in x.val /\ t \in y.val)
  /\ \A x \in Q, y \in R : ~(t \in x.val /\ t \in y.val)
  /\ \A x \in D, y \in R : ~(t \in x.val /\ t \in y.val)

\* t is in one of them.
Held(t, M, Q, D, R) ==
  \/ \E x \in M : t \in x.val
  \/ \E x \in Q : t \in x.val
  \/ \E x \in D : t \in x.val
  \/ \E x \in R : t \in x.val

\* The two ways to say that a contribution is in one place.
LEMMA OnceForm ==
  ASSUME NEW t
  PROVE  /\ Holders(t) # {} <=> Held(t, msgs, port_queue, devs, results)
         /\ (\A h, k \in Holders(t) : h = k) <=> Sole(t, msgs, port_queue, devs, results)
<1>1. /\ \A x \in msgs : t \in x.val => <<"msgs", x>> \in Holders(t)
      /\ \A x \in port_queue : t \in x.val => <<"port_queue", x>> \in Holders(t)
      /\ \A x \in devs : t \in x.val => <<"devs", x>> \in Holders(t)
      /\ \A x \in results : t \in x.val => <<"results", x>> \in Holders(t)
  BY DEF Holders
<1>2. ASSUME \A h, k \in Holders(t) : h = k
      PROVE  Sole(t, msgs, port_queue, devs, results)
  BY <1>1, <1>2 DEF Sole
<1>3. ASSUME Sole(t, msgs, port_queue, devs, results)
      PROVE  \A h, k \in Holders(t) : h = k
  BY <1>3 DEF Holders, Sole
<1>4. ASSUME Holders(t) # {}
      PROVE  Held(t, msgs, port_queue, devs, results)
  BY <1>4 DEF Holders, Held
<1>5. ASSUME Held(t, msgs, port_queue, devs, results)
      PROVE  Holders(t) # {}
  BY <1>1, <1>5 DEF Held
<1>. QED
  BY <1>2, <1>3, <1>4, <1>5

\* A deliverable m moves out of M, and something with its value into Q or D.
LEMMA MoveOne ==
  ASSUME NEW t, NEW M, NEW Q, NEW D, NEW R, NEW m \in M, NEW d, d.val = m.val,
         Sole(t, M, Q, D, R)
  PROVE  /\ Sole(t, M \ {m}, Q \cup {m}, D, R)
         /\ Held(t, M, Q, D, R) <=> Held(t, M \ {m}, Q \cup {m}, D, R)
         /\ Sole(t, M \ {m}, Q, D \cup {d}, R)
         /\ Held(t, M, Q, D, R) <=> Held(t, M \ {m}, Q, D \cup {d}, R)
<1>1. Sole(t, M \ {m}, Q \cup {m}, D, R)
  BY DEF Sole
<1>2. Held(t, M, Q, D, R) <=> Held(t, M \ {m}, Q \cup {m}, D, R)
  BY DEF Held
<1>3. Sole(t, M \ {m}, Q, D \cup {d}, R)
  BY DEF Sole
<1>4. Held(t, M, Q, D, R) <=> Held(t, M \ {m}, Q, D \cup {d}, R)
  BY DEF Held
<1>. QED
  BY <1>1, <1>2, <1>3, <1>4

\* The deliverables of A leave D, and one with all their contributions enters
\* M or R: what the combiner does.
LEMMA Gather ==
  ASSUME NEW t, NEW M, NEW Q, NEW D, NEW R, NEW A \in SUBSET D, NEW x,
         x.val = Combined(A), Sole(t, M, Q, D, R)
  PROVE  /\ Sole(t, M \cup {x}, Q, D \ A, R)
         /\ Held(t, M, Q, D, R) <=> Held(t, M \cup {x}, Q, D \ A, R)
         /\ Sole(t, M, Q, D \ A, R \cup {x})
         /\ Held(t, M, Q, D, R) <=> Held(t, M, Q, D \ A, R \cup {x})
<1>1. t \in x.val <=> \E d \in A : t \in d.val
  BY DEF Combined
<1>2. Sole(t, M \cup {x}, Q, D \ A, R)
  BY <1>1 DEF Sole
<1>3. Held(t, M, Q, D, R) <=> Held(t, M \cup {x}, Q, D \ A, R)
  BY <1>1 DEF Held
<1>4. Sole(t, M, Q, D \ A, R \cup {x})
  BY <1>1 DEF Sole
<1>5. Held(t, M, Q, D, R) <=> Held(t, M, Q, D \ A, R \cup {x})
  BY <1>1 DEF Held
<1>. QED
  BY <1>2, <1>3, <1>4, <1>5

\* A completion only gathers what its reducer has.
LEMMA CompleteOnce ==
  ASSUME NEW t, NEW r \in Reducer, NEW ds, NEW queued, NEW Q, NEW D, ds \subseteq D,
         devs \ Accepted(r) = D \ ds,
         Complete(r, ds, queued), Sole(t, queued, Q, D, results)
  PROVE  /\ Sole(t, msgs', Q, devs', results')
         /\ Held(t, queued, Q, D, results) <=> Held(t, msgs', Q, devs', results')
<1>1. devs' = D \ ds
  BY DEF Complete
<1>2. r[2] \in Sections /\ r[1] \in Member(r[2])
  BY ReducerParts
<1>3. CASE Downstream(r[2], r[1]) = {}
  <2>. DEFINE x == [sect |-> r[2], round |-> r[3], val |-> Combined(ds)]
  <2>1. msgs' = queued /\ results' = results \cup {x}
    BY <1>3 DEF Complete
  <2>2. x.val = Combined(ds)
    OBVIOUS
  <2>. HIDE DEF x
  <2>. QED
    BY <1>1, <2>1, <2>2, Gather
<1>4. CASE Downstream(r[2], r[1]) # {}
  <2>a. \A y, z \in Downstream(r[2], r[1]) : y = z
    BY <1>2, SectionAssumption, TreeOfMembers
  <2>b. PICK down : down \in Downstream(r[2], r[1])
    BY <1>4
  <2>1. Downstream(r[2], r[1]) = {down}
    BY <2>a, <2>b
  <2>. DEFINE x == [dst |-> down, port |-> Port(r[2], r[3], r[1]), val |-> Combined(ds)]
  <2>2. msgs' = queued \cup {x} /\ results' = results
    BY <1>4, <2>1 DEF Complete
  <2>3. x.val = Combined(ds)
    OBVIOUS
  <2>. HIDE DEF x
  <2>. QED
    BY <1>1, <2>2, <2>3, Gather
<1>. QED
  BY <1>3, <1>4

\* what is left of ContributedOnce for one contribution
Once(t) ==
  /\ t[2] < redn_count[t[1]][t[3]] <=> Held(t, msgs, port_queue, devs, results)
  /\ Sole(t, msgs, port_queue, devs, results)

LEMMA OnceEquiv == ContributedOnce <=> \A t \in Token : Once(t)
BY OnceForm DEF ContributedOnce, Once

\* A delivery moves contributions and makes none.
LEMMA ReceiveOnce ==
  ASSUME TypeOK, NEW msg \in msgs, Receive(msg), NEW t \in Token, Once(t)
  PROVE  Once(t)'
<1>1. Sole(t, msgs, port_queue, devs, results)
  BY DEF Once
<1>2. redn_count' = redn_count
  BY DEF Receive, Input
<1>3. SUFFICES
        /\ Sole(t, msgs', port_queue', devs', results')
        /\ Held(t, msgs, port_queue, devs, results)
             <=> Held(t, msgs', port_queue', devs', results')
  BY <1>2, <1>3 DEF Once, Sole, Held
<1>4. CASE /\ port_queue' = port_queue \cup {msg}
           /\ msgs' = msgs \ {msg}
           /\ UNCHANGED <<devs, results>>
  BY <1>1, <1>4, MoveOne
<1>5. ASSUME NEW e \in entry_ports, UNCHANGED port_queue,
             LET ds == Accepted(e.rdcr)
                        \cup {[rdcr |-> e.rdcr, from |-> msg.port.index, val |-> msg.val]}
             IN \/ /\ devs' = devs \cup ds
                   /\ msgs' = msgs \ {msg}
                   /\ UNCHANGED results
                \/ Complete(e.rdcr, ds, msgs \ {msg})
      PROVE  /\ Sole(t, msgs', port_queue', devs', results')
             /\ Held(t, msgs, port_queue, devs, results)
                  <=> Held(t, msgs', port_queue', devs', results')
  <2>. DEFINE d  == [rdcr |-> e.rdcr, from |-> msg.port.index, val |-> msg.val]
              ds == Accepted(e.rdcr) \cup {d}
  <2>1. d.val = msg.val /\ d.rdcr = e.rdcr
    OBVIOUS
  <2>2. devs \cup ds = devs \cup {d}
    BY DEF Accepted
  <2>3. /\ Sole(t, msgs \ {msg}, port_queue, devs \cup {d}, results)
        /\ Held(t, msgs, port_queue, devs, results)
             <=> Held(t, msgs \ {msg}, port_queue, devs \cup {d}, results)
    <3>. HIDE DEF d
    <3>. QED
      BY <1>1, <2>1, MoveOne
  <2>4. CASE devs' = devs \cup ds /\ msgs' = msgs \ {msg} /\ UNCHANGED results
    <3>. HIDE DEF d, ds
    <3>. QED
      BY <1>5, <2>2, <2>3, <2>4
  <2>5. CASE Complete(e.rdcr, ds, msgs \ {msg})
    <3>1. e.rdcr \in Reducer
      BY DEF TypeOK
    <3>2. ds \subseteq devs \cup {d}
      BY DEF Accepted
    <3>3. devs \ Accepted(e.rdcr) = (devs \cup {d}) \ ds
      <4>. HIDE DEF d
      <4>. QED
        BY <2>1 DEF Accepted
    <3>. HIDE DEF d, ds
    <3>4. /\ Sole(t, msgs', port_queue, devs', results')
          /\ Held(t, msgs \ {msg}, port_queue, devs \cup {d}, results)
               <=> Held(t, msgs', port_queue, devs', results')
      BY <2>3, <2>5, <3>1, <3>2, <3>3, CompleteOnce
    <3>. QED
      BY <1>5, <2>3, <3>4
  <2>. QED
    BY <1>5, <2>4, <2>5
<1>. QED
  BY <1>4, <1>5 DEF Receive, Input

\* F is own and, for each q of E, a deliverable dev[q] with the value of q.
Taken(E, F, dev, own) ==
  /\ own \in F
  /\ \A x \in F : x = own \/ \E q \in E : x = dev[q]
  /\ \A q \in E : dev[q] \in F /\ dev[q].val = q.val

\* The queued deliverables of E enter D, with a new one, own.
LEMMA TakeQueued ==
  ASSUME NEW t, NEW M, NEW Q, NEW D, NEW R, NEW E, E \subseteq Q,
         NEW F, NEW dev, NEW own, Taken(E, F, dev, own),
         Sole(t, M, Q, D, R)
  PROVE  /\ t \notin own.val => /\ Sole(t, M, Q \ E, D \cup F, R)
                                /\ Held(t, M, Q, D, R) <=> Held(t, M, Q \ E, D \cup F, R)
         /\ t \in own.val /\ ~Held(t, M, Q, D, R) =>
              Sole(t, M, Q \ E, D \cup F, R) /\ Held(t, M, Q \ E, D \cup F, R)
<1>1. \A x \in F : x = own \/ \E q \in E : x = dev[q] /\ x.val = q.val
  BY DEF Taken
<1>2. \A q \in E : dev[q] \in F /\ dev[q].val = q.val
  BY DEF Taken
<1>3. own \in F
  BY DEF Taken
<1>4. ASSUME t \notin own.val
      PROVE  Sole(t, M, Q \ E, D \cup F, R)
  <2>1. \A x \in F : t \in x.val => \E q \in E : x = dev[q] /\ t \in q.val
    BY <1>1, <1>4
  <2>2. \A x, y \in F : t \in x.val /\ t \in y.val => x = y
    BY <2>1 DEF Sole
  <2>. QED
    BY <2>1, <2>2 DEF Sole
<1>5. ASSUME t \notin own.val
      PROVE  Held(t, M, Q, D, R) <=> Held(t, M, Q \ E, D \cup F, R)
  <2>1. (\E x \in F : t \in x.val) <=> (\E q \in E : t \in q.val)
    BY <1>1, <1>2, <1>5
  <2>. QED
    BY <2>1 DEF Held
<1>6. ASSUME t \in own.val, ~Held(t, M, Q, D, R)
      PROVE  Sole(t, M, Q \ E, D \cup F, R) /\ Held(t, M, Q \ E, D \cup F, R)
  <2>1. \A x \in F : t \in x.val => x = own
    BY <1>1, <1>6 DEF Held
  <2>2. Sole(t, M, Q \ E, D \cup F, R)
    BY <2>1, <1>6 DEF Held, Sole
  <2>3. Held(t, M, Q \ E, D \cup F, R)
    BY <1>3, <1>6 DEF Held
  <2>. QED
    BY <2>2, <2>3
<1>. QED
  BY <1>4, <1>5, <1>6

\* A local contribution makes one, and moves what was queued for its reducer.
LEMMA ContributionOnce ==
  ASSUME TypeOK, RoundsBegun, NEW s \in Sections, NEW m \in Member(s),
         LocalContribution(s, m), NEW t \in Token, Once(t)
  PROVE  Once(t)'
<1>. DEFINE c     == redn_count[s][m]
            rdcr  == <<m, s, c>>
            ports == {Port(s, c, u) : u \in Upstream(s, m)}
            early == {q \in port_queue : q.dst = m /\ q.port \in ports}
            dev   == [q \in early |-> [rdcr |-> rdcr, from |-> q.port.index, val |-> q.val]]
            own   == [rdcr |-> rdcr, from |-> m, val |-> {<<s, c, m>>}]
            given == {dev[q] : q \in early} \cup {own}
<1>1. CASE UNCHANGED <<redn_count, devs, port_queue, msgs, results>>
  BY <1>1 DEF Once, Sole, Held
<1>2. CASE /\ c < MaxRounds
           /\ redn_count' = [redn_count EXCEPT ![s][m] = @ + 1]
           /\ port_queue' = port_queue \ early
           /\ \/ devs' = devs \cup given /\ UNCHANGED <<msgs, results>>
              \/ Complete(rdcr, given, msgs)
  <2>1. c \in 0 .. MaxRounds /\ c \in Round
    BY <1>2, SectionAssumption DEF TypeOK, Round
  <2>2. rdcr \in Reducer
    BY <2>1, TokenIntro
  <2>3. t = <<t[1], t[2], t[3]>> /\ t[1] \in Sections /\ t[3] \in Member(t[1]) /\ t[2] \in Nat
    BY SectionAssumption DEF Token, Round
  <2>4. redn_count[t[1]][t[3]] \in Nat
    BY <2>3, SectionAssumption DEF TypeOK
  <2>5. Taken(early, given, dev, own) /\ early \subseteq port_queue
    BY DEF Taken
  <2>a. t \in own.val <=> t = <<s, c, m>>
    OBVIOUS
  <2>6. /\ Sole(t, msgs, port_queue, devs, results)
        /\ t[2] < redn_count[t[1]][t[3]] <=> Held(t, msgs, port_queue, devs, results)
    BY DEF Once
  <2>b. /\ t \notin own.val =>
             /\ Sole(t, msgs, port_queue \ early, devs \cup given, results)
             /\ Held(t, msgs, port_queue, devs, results)
                  <=> Held(t, msgs, port_queue \ early, devs \cup given, results)
        /\ t \in own.val /\ ~Held(t, msgs, port_queue, devs, results) =>
             /\ Sole(t, msgs, port_queue \ early, devs \cup given, results)
             /\ Held(t, msgs, port_queue \ early, devs \cup given, results)
    <3>. HIDE DEF own, dev, early, given, c
    <3>. QED
      BY <2>5, <2>6, TakeQueued
  <2>7. /\ Sole(t, msgs, port_queue \ early, devs \cup given, results)
        /\ t[2] < redn_count'[t[1]][t[3]]
             <=> Held(t, msgs, port_queue \ early, devs \cup given, results)
    <3>1. CASE t = <<s, c, m>>
      <4>1. ~(t[2] < redn_count[t[1]][t[3]])
        BY <2>1, <3>1
      <4>2. t[2] < redn_count'[t[1]][t[3]]
        BY <1>2, <2>1, <3>1 DEF TypeOK
      <4>3. t \in own.val
        BY <2>a, <3>1
      <4>. HIDE DEF own, dev, early, given, c
      <4>. QED
        BY <4>1, <4>2, <4>3, <2>6, <2>b
    <3>2. CASE t # <<s, c, m>>
      <4>1. redn_count'[t[1]][t[3]] = redn_count[t[1]][t[3]] \/ (t[1] = s /\ t[3] = m)
        <5>1. redn_count' = [redn_count EXCEPT ![s][m] = @ + 1]
          BY <1>2
        <5>2. \A u \in Sections : redn_count[u] \in [Member(u) -> 0 .. MaxRounds]
          BY DEF TypeOK
        <5>3. DOMAIN redn_count = Sections
          BY DEF TypeOK
        <5>4. CASE t[1] # s
          BY <5>1, <5>3, <5>4, <2>3
        <5>5. CASE t[1] = s /\ t[3] # m
          BY <5>1, <5>2, <5>3, <5>5, <2>3
        <5>. QED
          BY <5>4, <5>5
      <4>2. ASSUME t[1] = s, t[3] = m
            PROVE  t[2] < redn_count'[t[1]][t[3]] <=> t[2] < redn_count[t[1]][t[3]]
        <5>1. t[2] # c
          BY <2>3, <3>2, <4>2
        <5>2. redn_count'[s][m] = c + 1 /\ c \in Nat
          BY <1>2, <2>1 DEF TypeOK
        <5>. QED
          BY <2>3, <4>2, <5>1, <5>2
      <4>3. t \notin own.val
        BY <2>a, <3>2
      <4>4. t[2] < redn_count'[t[1]][t[3]] <=> t[2] < redn_count[t[1]][t[3]]
        BY <4>1, <4>2
      <4>. HIDE DEF own, dev, early, given, c
      <4>5. /\ Sole(t, msgs, port_queue \ early, devs \cup given, results)
            /\ Held(t, msgs, port_queue, devs, results)
                 <=> Held(t, msgs, port_queue \ early, devs \cup given, results)
        BY <4>3, <2>b
      <4>. QED
        BY <2>6, <4>4, <4>5
    <3>. QED
      BY <3>1, <3>2
  <2>8. SUFFICES /\ Sole(t, msgs', port_queue \ early, devs', results')
                 /\ Held(t, msgs, port_queue \ early, devs \cup given, results)
                      <=> Held(t, msgs', port_queue \ early, devs', results')
    <3>. HIDE DEF own, dev, early, given, c
    <3>1. /\ Sole(t, msgs', port_queue', devs', results')
          /\ Held(t, msgs, port_queue \ early, devs \cup given, results)
                      <=> Held(t, msgs', port_queue', devs', results')
      BY <1>2, <2>8
    <3>. QED
      BY <2>7, <3>1 DEF Once, Sole, Held
  <2>9. CASE devs' = devs \cup given /\ UNCHANGED <<msgs, results>>
    <3>. HIDE DEF early, given
    <3>. QED
      BY <2>7, <2>9
  <2>10. CASE Complete(rdcr, given, msgs)
    <3>1. \A d \in devs : d.rdcr # rdcr
      BY <2>1 DEF RoundsBegun, Begun
    <3>2. \A d \in given : d.rdcr = rdcr
      <4>1. own.rdcr = rdcr /\ \A q \in early : dev[q].rdcr = rdcr
        OBVIOUS
      <4>. HIDE DEF own, dev, early
      <4>. QED
        BY <4>1
    <3>3. devs \ Accepted(rdcr) = (devs \cup given) \ given /\ given \subseteq devs \cup given
      <4>. HIDE DEF given, rdcr
      <4>. QED
        BY <3>1, <3>2 DEF Accepted
    <3>. HIDE DEF early, given, rdcr
    <3>. QED
      BY <2>2, <2>7, <2>10, <3>3, CompleteOnce
  <2>. QED
    BY <1>2, <2>9, <2>10
<1>. QED
  BY <1>1, <1>2 DEF LocalContribution, Queued, Input, Abort

\* In every reachable state, and whether or not the hashes of sections
\* collide, each contribution that was made is in exactly one place: no
\* handler of a reduction drops or repeats one.
THEOREM ContributionsConserved == Spec => []ContributedOnce
<1>1. Init => RoundsBegun /\ ContributedOnce
  <2>. SUFFICES ASSUME Init PROVE RoundsBegun /\ ContributedOnce
    OBVIOUS
  <2>1. \A t \in Token : ~(t[2] < redn_count[t[1]][t[3]])
    BY SectionAssumption DEF Init, Token, Round
  <2>2. \A t \in Token : Holders(t) = {}
    BY DEF Init, Holders
  <2>. QED
    BY <2>1, <2>2 DEF Init, RoundsBegun, ContributedOnce
<1>2. TypeOK /\ RoundsBegun /\ ContributedOnce /\ [Next]_vars => ContributedOnce'
  <2>. SUFFICES ASSUME TypeOK, RoundsBegun, ContributedOnce, [Next]_vars
                PROVE  ContributedOnce'
    OBVIOUS
  <2>1. ASSUME NEW t \in Token
        PROVE  Once(t)'
    <3>1. Once(t)
      BY OnceEquiv
    <3>2. CASE UNCHANGED vars
      BY <3>1, <3>2 DEF vars, Once, Sole, Held
    <3>3. CASE Contribute
      BY <3>1, <3>3, ContributionOnce DEF Contribute
    <3>4. CASE Deliver
      BY <3>1, <3>4, ReceiveOnce DEF Deliver
    <3>. QED
      BY <3>2, <3>3, <3>4 DEF Next
  <2>2. (ContributedOnce <=> \A t \in Token : Once(t))'
    BY OnceEquiv, PTL
  <2>. QED
    BY <2>1, <2>2
<1>3. TypeOK /\ RoundsBegun /\ [Next]_vars => RoundsBegun'
  BY BegunStep
<1>. QED
  BY TypeCorrect, <1>1, <1>2, <1>3, PTL DEF Spec

\* No member is its own child, and there are finitely many children; the
\* root, and it alone, has no parent.
LEMMA FewChildren ==
  ASSUME NEW s, IsSection(s), NEW m \in Member(s)
  PROVE  /\ m \notin Upstream(s, m)
         /\ IsFiniteSet(Upstream(s, m))
         /\ Downstream(s, m) = {} <=> m = PickRoot(s)
<1>. DEFINE o == OrdinalFor(s, m)
<1>1. o \in Int /\ o >= 0 /\ s[o + 1] = m
  BY OrdinalOfMember DEF IsValidOrdinal
<1>2. m \notin Upstream(s, m)
  <2>1. o # 2 * o + 1 /\ o # 2 * o + 2
    BY <1>1
  <2>. HIDE DEF o
  <2>. QED
    BY <2>1, OrdinalOfChild DEF o
<1>3. IsFiniteSet(Upstream(s, m))
  <2>1. IsFiniteSet({s[(2 * o + 1) + 1]} \cup {s[(2 * o + 2) + 1]})
    BY FS_Singleton, FS_AddElement
  <2>2. Upstream(s, m) \subseteq {s[(2 * o + 1) + 1]} \cup {s[(2 * o + 2) + 1]}
    BY DEF Upstream, IndicesAt
  <2>. QED
    BY <2>1, <2>2, FS_Subset
<1>4. ASSUME m = PickRoot(s)
      PROVE  Downstream(s, m) = {}
  <2>1. IsValidOrdinal(s, 0) /\ s[0 + 1] = m
    BY <1>4 DEF IsSection, IsValidOrdinal, PickRoot
  <2>2. o = 0
    BY <2>1, OrdinalAt
  <2>. QED
    BY <2>2 DEF Downstream, IndicesAt, IsValidOrdinal
<1>5. m # PickRoot(s) => Downstream(s, m) # {}
  BY ParentOfMember
<1>. QED
  BY <1>2, <1>3, <1>4, <1>5

-----------------------------------------------------------------------------
(***************************************************************************)
(* Completeness of the results.                                            *)
(*                                                                         *)
(* What a port knows of its section is a hash.  From here on the hashes of *)
(* sections that share a member differ.                                    *)
(***************************************************************************)
HashesTell ==
  \A s, t \in Sections :
    HashOf(s) = HashOf(t) /\ Member(s) \cap Member(t) # {} => s = t

\* The invariant is stated of any counts n, reducers O, messages M, queued
\* messages Q, inputs D, ports E and results R, since one handler may begin a
\* round, collect what is queued for it and complete it.

\* m has contributed to round c of s, and its reducer is gone.
Done(n, O, s, c, m) == c < n[s][m] /\ <<m, s, c>> \notin O

\* x brings m the contributions of its child u.
About(x, s, c, m, u) == x.dst = m /\ x.port = Port(s, c, u)

\* x holds contributions to round c of s only.
Of(x, s, c) == \A t \in x.val : t[1] = s /\ t[2] = c

Working(n, O) == \A r \in O : r[3] < n[r[2]][r[1]]

\* Rounds are completed from the leaves to the root.
FromLeaves(n, O) ==
  \A s \in Sections, c \in Round : \A m \in Member(s) : \A u \in Upstream(s, m) :
    Done(n, O, s, c, m) => Done(n, O, s, c, u)

Addressed(F) ==
  \A x \in F : \E s \in Sections, c \in Round : \E m \in Member(s) :
    \E u \in Upstream(s, m) : About(x, s, c, m, u)

\* A deliverable of u is on its way to m: u is done, m is not, and has nothing
\* from u yet.
Awaited(n, O, F, D) ==
  \A s \in Sections, c \in Round : \A m \in Member(s) : \A u \in Upstream(s, m) : \A x \in F :
    About(x, s, c, m, u) =>
      /\ Done(n, O, s, c, u) /\ ~Done(n, O, s, c, m)
      /\ \A d \in D : ~(d.rdcr = <<m, s, c>> /\ d.from = u)
      /\ Of(x, s, c)

Lone(F) == \A x, y \in F : x.dst = y.dst /\ x.port = y.port => x = y

\* What is queued is for rounds that have not begun.
Early(n, Q) ==
  \A s \in Sections, c \in Round : \A m \in Member(s) : \A u \in Upstream(s, m) : \A x \in Q :
    About(x, s, c, m, u) => n[s][m] <= c

Ports(O, E) ==
  \A e \in E :
    /\ e.rdcr \in O /\ e.at = e.rdcr[1]
    /\ \E u \in Upstream(e.rdcr[2], e.rdcr[1]) : e.port = Port(e.rdcr[2], e.rdcr[3], u)

\* The inputs of a reducer are its own and its children's, one of each.
Inputs(n, O, D) ==
  /\ \A d \in D :
       /\ d.rdcr \in O
       /\ \/ d.from = d.rdcr[1]
          \/ /\ d.from \in Upstream(d.rdcr[2], d.rdcr[1])
             /\ Done(n, O, d.rdcr[2], d.rdcr[3], d.from)
       /\ Of(d, d.rdcr[2], d.rdcr[3])
  /\ \A d, e \in D : d.rdcr = e.rdcr /\ d.from = e.from => d = e

OneResult(n, O, R) ==
  /\ \A r \in R : Done(n, O, r.sect, r.round, PickRoot(r.sect)) /\ Of(r, r.sect, r.round)
  /\ \A r, q \in R : r.sect = q.sect /\ r.round = q.round => r = q

Orderly(n, O, M, Q, D, E, R) ==
  /\ Working(n, O) /\ FromLeaves(n, O)
  /\ Addressed(M \cup Q) /\ Awaited(n, O, M \cup Q, D) /\ Lone(M \cup Q) /\ M \cap Q = {}
  /\ Early(n, Q) /\ Ports(O, E) /\ Inputs(n, O, D) /\ OneResult(n, O, R)

ReductionInv ==
  Orderly(redn_count, reducers, msgs, port_queue, devs, entry_ports, results)

\* A port and its owner tell the section, the round and the child.
LEMMA PortTells ==
  ASSUME HashesTell, NEW s \in Sections, NEW t \in Sections,
         NEW c, NEW d, NEW u, NEW v, NEW m \in Member(s), m \in Member(t),
         Port(s, c, u) = Port(t, d, v)
  PROVE  s = t /\ c = d /\ u = v
<1>1. HashOf(s) = HashOf(t) /\ c = d /\ u = v
  BY DEF Port
<1>. QED
  BY <1>1 DEF HashesTell

\* When the root is done, every member is: the first in the list that is not
\* would have a parent that is.
LEMMA AllDone ==
  ASSUME NEW n, NEW O, FromLeaves(n, O), NEW s \in Sections, NEW c \in Round,
         Done(n, O, s, c, PickRoot(s)), NEW m \in Member(s)
  PROVE  Done(n, O, s, c, m)
<1>. DEFINE Late == {k \in Member(s) : ~Done(n, O, s, c, k)}
            T    == {OrdinalFor(s, k) : k \in Late}
<1>1. IsSection(s)
  BY SectionAssumption
<1>2. \A k \in Member(s) : OrdinalFor(s, k) \in Nat /\ s[OrdinalFor(s, k) + 1] = k
  BY <1>1, OrdinalOfMember DEF IsValidOrdinal
<1>3. SUFFICES ASSUME T # {} PROVE FALSE
  OBVIOUS
<1>4. PICK i \in T : \A j \in T : i <= j
  BY <1>2, <1>3, LeastMember
<1>5. PICK k \in Late : OrdinalFor(s, k) = i
  BY <1>4
<1>6. PICK p \in Member(s) : k \in Upstream(s, p)
  BY <1>1, <1>5, ParentOfMember
<1>7. OrdinalFor(s, p) < i
  BY <1>1, <1>2, <1>5, <1>6, OrdinalOfChild
<1>8. p \notin Late
  BY <1>2, <1>4, <1>5, <1>7
<1>. QED
  BY <1>5, <1>6, <1>8 DEF FromLeaves

\* Ports of one reducer that are taken by distinct children are all taken
\* when there are as many inputs as there may be.
LEMMA EveryInput ==
  ASSUME NEW U, IsFiniteSet(U), NEW m, m \notin U, NEW A,
         \A d \in A : d.from \in U \cup {m},
         \A d, e \in A : d.from = e.from => d = e
  PROVE  /\ IsFiniteSet(A)
         /\ Cardinality(A) \in Nat
         /\ Cardinality(A) <= Cardinality(U) + 1
         /\ Cardinality(A) = Cardinality(U) + 1 => \A u \in U : \E d \in A : d.from = u
         /\ (\A d \in A : d.from # m) => Cardinality(A) < Cardinality(U) + 1
<1>. DEFINE f == [d \in A |-> d.from]
<1>1. f \in Injection(A, U \cup {m})
  BY DEF Injection, IsInjective
<1>2. /\ IsFiniteSet(U \cup {m})
      /\ Cardinality(U \cup {m}) = Cardinality(U) + 1
      /\ Cardinality(U) \in Nat
  BY FS_AddElement, FS_CardinalityType
<1>3. /\ IsFiniteSet(A)
      /\ Cardinality(A) <= Cardinality(U) + 1
      /\ Cardinality(A) = Cardinality(U) + 1 <=> f \in Surjection(A, U \cup {m})
  <2>. HIDE DEF f
  <2>. QED
    BY <1>1, <1>2, FS_Injection
<1>4. Cardinality(A) \in Nat
  BY <1>3, FS_CardinalityType
<1>5. ASSUME f \in Surjection(A, U \cup {m})
      PROVE  \A u \in U \cup {m} : \E d \in A : d.from = u
  <2>1. \A u \in U \cup {m} : \E d \in A : f[d] = u
    BY <1>5 DEF Surjection
  <2>. QED
    BY <2>1
<1>6. (\A d \in A : d.from # m) => Cardinality(A) # Cardinality(U) + 1
  BY <1>3, <1>5
<1>. QED
  BY <1>2, <1>3, <1>4, <1>5, <1>6

\* A deliverable reaches an open port of its receiver and becomes an input.
LEMMA AcceptKeeps ==
  ASSUME NEW n, NEW O \in SUBSET Reducer, NEW M, NEW Q, NEW D, NEW E, NEW R,
         Orderly(n, O, M, Q, D, E, R),
         NEW x \in M, NEW e \in E, e.at = x.dst, e.port = x.port,
         NEW d, d.rdcr = e.rdcr, d.from = x.port.index, d.val = x.val
  PROVE  Orderly(n, O, M \ {x}, Q, D \cup {d}, E, R)
<1>. DEFINE r == e.rdcr
            m == r[1]
            s == r[2]
            c == r[3]
            F == (M \ {x}) \cup Q
<1>1. /\ Working(n, O) /\ FromLeaves(n, O) /\ Addressed(M \cup Q)
      /\ Awaited(n, O, M \cup Q, D) /\ Lone(M \cup Q) /\ M \cap Q = {}
      /\ Early(n, Q) /\ Ports(O, E) /\ Inputs(n, O, D) /\ OneResult(n, O, R)
  BY DEF Orderly
<1>2. /\ r \in O /\ s \in Sections /\ c \in Round /\ m \in Member(s)
      /\ r = <<m, s, c>>
  BY <1>1, ReducerParts DEF Ports
<1>3. PICK u \in Upstream(s, m) : x.port = Port(s, c, u)
  BY <1>1 DEF Ports
<1>4. x.dst = m /\ d.from = u /\ About(x, s, c, m, u)
  BY <1>1, <1>3 DEF Ports, Port, About
<1>5. /\ Done(n, O, s, c, u) /\ ~Done(n, O, s, c, m) /\ Of(x, s, c)
      /\ \A y \in D : ~(y.rdcr = r /\ y.from = u)
  <2>. HIDE DEF m, s, c, r
  <2>. QED
    BY <1>1, <1>2, <1>4 DEF Awaited
<1>6. F \subseteq M \cup Q /\ x \notin F
  BY <1>1
<1>7. Addressed(F) /\ Lone(F) /\ (M \ {x}) \cap Q = {}
  BY <1>1, <1>6 DEF Addressed, Lone
<1>8. Awaited(n, O, F, D \cup {d})
  <2>1. SUFFICES ASSUME NEW t \in Sections, NEW b \in Round, NEW k \in Member(t),
                        NEW v \in Upstream(t, k), NEW y \in F, About(y, t, b, k, v)
                 PROVE  /\ Done(n, O, t, b, v) /\ ~Done(n, O, t, b, k)
                        /\ \A z \in D \cup {d} : ~(z.rdcr = <<k, t, b>> /\ z.from = v)
                        /\ Of(y, t, b)
    BY DEF Awaited
  <2>2. /\ Done(n, O, t, b, v) /\ ~Done(n, O, t, b, k) /\ Of(y, t, b)
        /\ \A z \in D : ~(z.rdcr = <<k, t, b>> /\ z.from = v)
    BY <1>1, <1>6, <2>1 DEF Awaited
  <2>3. ASSUME d.rdcr = <<k, t, b>>, d.from = v
        PROVE  FALSE
    <3>1. k = m /\ t = s /\ b = c /\ v = u
      BY <1>4, <2>3
    <3>2. y.dst = x.dst /\ y.port = x.port
      BY <1>3, <1>4, <2>1, <3>1 DEF About
    <3>. QED
      BY <1>1, <1>6, <3>2 DEF Lone
  <2>. QED
    BY <2>2, <2>3
<1>9. Inputs(n, O, D \cup {d})
  <2>1. Of(d, s, c)
    BY <1>5 DEF Of
  <2>. HIDE DEF F
  <2>. QED
    BY <1>1, <1>2, <1>4, <1>5, <2>1 DEF Inputs
<1>. QED
  BY <1>1, <1>7, <1>8, <1>9 DEF Orderly

\* A deliverable for which no port is open is queued.
LEMMA QueueKeeps ==
  ASSUME NEW n, \A s \in Sections : \A m \in Member(s) : n[s][m] \in Nat,
         NEW O, NEW M, NEW Q, NEW D, NEW E, NEW R,
         Orderly(n, O, M, Q, D, E, R),
         \A r \in O : \A u \in Upstream(r[2], r[1]) :
           [at |-> r[1], port |-> Port(r[2], r[3], u), rdcr |-> r] \in E,
         NEW x \in M, \A e \in E : ~(e.at = x.dst /\ e.port = x.port)
  PROVE  Orderly(n, O, M \ {x}, Q \cup {x}, D, E, R)
<1>1. /\ Working(n, O) /\ FromLeaves(n, O) /\ Addressed(M \cup Q)
      /\ Awaited(n, O, M \cup Q, D) /\ Lone(M \cup Q) /\ M \cap Q = {}
      /\ Early(n, Q) /\ Ports(O, E) /\ Inputs(n, O, D) /\ OneResult(n, O, R)
  BY DEF Orderly
<1>2. (M \ {x}) \cup (Q \cup {x}) = M \cup Q /\ (M \ {x}) \cap (Q \cup {x}) = {}
  BY <1>1
<1>3. Early(n, Q \cup {x})
  <2>1. SUFFICES ASSUME NEW s \in Sections, NEW c \in Round, NEW m \in Member(s),
                        NEW u \in Upstream(s, m), About(x, s, c, m, u), c < n[s][m]
                 PROVE  FALSE
    BY <1>1, SectionAssumption DEF Early, Round
  <2>2. ~Done(n, O, s, c, m)
    BY <1>1, <2>1 DEF Awaited
  <2>3. <<m, s, c>> \in O
    BY <2>1, <2>2 DEF Done
  <2>4. [at |-> m, port |-> Port(s, c, u), rdcr |-> <<m, s, c>>] \in E
    BY <2>3
  <2>. QED
    BY <2>1, <2>4 DEF About
<1>. QED
  BY <1>1, <1>2, <1>3 DEF Orderly

InputsOf(D, r) == {d \in D : d.rdcr = r}

\* Every child of r's member has given its input.
HasAll(D, r) == \A u \in Upstream(r[2], r[1]) : \E d \in InputsOf(D, r) : d.from = u

ResultTyped(R) == \A x \in R : x.sect \in Sections /\ x.round \in Round

PortsBut(E, r) == {e \in E : e.rdcr # r}

\* The last step of r: from the messages M and the results R to N and S.
Sends(r, A, M, R, N, S) ==
  \/ /\ Downstream(r[2], r[1]) = {}
     /\ S = R \cup {[sect |-> r[2], round |-> r[3], val |-> Combined(A)]}
     /\ N = M
  \/ /\ Downstream(r[2], r[1]) # {}
     /\ N = M \cup {[dst |-> down, port |-> Port(r[2], r[3], r[1]), val |-> Combined(A)] :
                     down \in Downstream(r[2], r[1])}
     /\ S = R

\* A reducer that has an input from each child is done: what it sends is
\* awaited by the parent, or is the one result.
LEMMA FinishKeeps ==
  ASSUME HashesTell, NEW n, NEW O \in SUBSET Reducer, NEW M, NEW Q, NEW D, NEW E, NEW R,
         Orderly(n, O, M, Q, D, E, R),
         NEW r \in O, HasAll(D, r),
         NEW N, NEW S, Sends(r, InputsOf(D, r), M, R, N, S),
         ResultTyped(R)
  PROVE  Orderly(n, O \ {r}, N, Q, D \ InputsOf(D, r), PortsBut(E, r), S)
<1>. DEFINE A == InputsOf(D, r)
<1>0. A = {d \in D : d.rdcr = r}
  BY DEF InputsOf
<1>. HIDE DEF A
<1>. DEFINE m == r[1]
            s == r[2]
            c == r[3]
            P == O \ {r}
<1>1. /\ Working(n, O) /\ FromLeaves(n, O) /\ Addressed(M \cup Q)
      /\ Awaited(n, O, M \cup Q, D) /\ Lone(M \cup Q) /\ M \cap Q = {}
      /\ Early(n, Q) /\ Ports(O, E) /\ Inputs(n, O, D) /\ OneResult(n, O, R)
  BY DEF Orderly
<1>2. /\ s \in Sections /\ c \in Round /\ m \in Member(s) /\ r = <<m, s, c>>
      /\ IsSection(s)
  BY ReducerParts, SectionAssumption
<1>3. c < n[s][m]
  BY <1>1 DEF Working
<1>4. ~Done(n, O, s, c, m) /\ Done(n, P, s, c, m)
  BY <1>2, <1>3 DEF Done
<1>5. ASSUME NEW t \in Sections, NEW b \in Round, NEW k \in Member(t)
      PROVE  Done(n, P, t, b, k) <=> Done(n, O, t, b, k) \/ (t = s /\ b = c /\ k = m)
  <2>1. <<k, t, b>> = r <=> t = s /\ b = c /\ k = m
    BY <1>2
  <2>. QED
    BY <1>3, <2>1 DEF Done
<1>6. m \notin Upstream(s, m) /\ Upstream(s, m) \subseteq Member(s)
  BY <1>2, FewChildren, TreeOfMembers
<1>7. \A u \in Upstream(s, m) : Done(n, O, s, c, u) /\ Done(n, P, s, c, u)
  <2>1. ASSUME NEW u \in Upstream(s, m)
        PROVE  Done(n, O, s, c, u)
    <3>1. PICK d \in D : d.rdcr = r /\ d.from = u
      BY DEF InputsOf, HasAll
    <3>. QED
      BY <1>1, <1>6, <3>1 DEF Inputs
  <2>. QED
    BY <1>2, <1>5, <1>6, <2>1
<1>. HIDE DEF P, m, s, c
<1>8. Working(n, P)
  BY <1>1 DEF Working, P
<1>9. FromLeaves(n, P)
  <2>1. SUFFICES ASSUME NEW t \in Sections, NEW b \in Round, NEW k \in Member(t),
                        NEW u \in Upstream(t, k), Done(n, P, t, b, k)
                 PROVE  Done(n, P, t, b, u)
    BY DEF FromLeaves
  <2>2. u \in Member(t)
    BY SectionAssumption, TreeOfMembers
  <2>3. CASE t = s /\ b = c /\ k = m
    BY <1>7, <2>3
  <2>4. CASE Done(n, O, t, b, k)
    BY <1>1, <1>5, <2>2, <2>4 DEF FromLeaves
  <2>. QED
    BY <1>5, <2>1, <2>3, <2>4
<1>10. Ports(P, PortsBut(E, r))
  BY <1>1 DEF Ports, P, PortsBut
<1>a. \A u \in Upstream(s, m) : \E d \in A : d.from = u
  BY DEF A, s, m, HasAll
<1>11. Inputs(n, P, D \ A)
  <2>1. ASSUME NEW d \in D \ A
        PROVE  /\ d.rdcr \in P
               /\ \/ d.from = d.rdcr[1]
                  \/ /\ d.from \in Upstream(d.rdcr[2], d.rdcr[1])
                     /\ Done(n, P, d.rdcr[2], d.rdcr[3], d.from)
               /\ Of(d, d.rdcr[2], d.rdcr[3])
    <3>1. d.rdcr \in O /\ d.rdcr # r
      BY <1>0, <1>1 DEF Inputs
    <3>2. d.rdcr[2] \in Sections /\ d.rdcr[3] \in Round /\ d.rdcr[1] \in Member(d.rdcr[2])
      BY <3>1, ReducerParts
    <3>3. Upstream(d.rdcr[2], d.rdcr[1]) \subseteq Member(d.rdcr[2])
      BY <3>2, SectionAssumption, TreeOfMembers
    <3>. QED
      BY <1>1, <1>5, <3>1, <3>2, <3>3 DEF Inputs, P
  <2>2. \A d, e \in D \ A : d.rdcr = e.rdcr /\ d.from = e.from => d = e
    BY <1>1 DEF Inputs
  <2>. QED
    BY <2>1, <2>2 DEF Inputs
<1>12. \A d \in A : Of(d, s, c)
  BY <1>0, <1>1 DEF Inputs, s, c
<1>13. \A x : x.val = Combined(A) => Of(x, s, c)
  BY <1>12 DEF Of, Combined
\* nothing of its children is still on its way
<1>14. ASSUME NEW t \in Sections, NEW b \in Round, NEW k \in Member(t),
              NEW u \in Upstream(t, k), NEW y \in M \cup Q, About(y, t, b, k, u)
       PROVE  /\ Done(n, P, t, b, u) /\ ~Done(n, P, t, b, k)
              /\ \A d \in D \ A : ~(d.rdcr = <<k, t, b>> /\ d.from = u)
              /\ Of(y, t, b)
  <2>1. /\ Done(n, O, t, b, u) /\ ~Done(n, O, t, b, k) /\ Of(y, t, b)
        /\ \A d \in D : ~(d.rdcr = <<k, t, b>> /\ d.from = u)
    BY <1>1, <1>14 DEF Awaited
  <2>2. ~(t = s /\ b = c /\ k = m)
    <3>1. SUFFICES ASSUME t = s, b = c, k = m PROVE FALSE
      OBVIOUS
    <3>2. PICK d \in A : d.from = u
      BY <1>a, <3>1
    <3>. QED
      BY <1>0, <1>2, <2>1, <3>1, <3>2
  <2>3. u \in Member(t)
    BY SectionAssumption, TreeOfMembers
  <2>. QED
    BY <1>5, <2>1, <2>2, <2>3
<1>15. CASE m = PickRoot(s)
  <2>. DEFINE y == [sect |-> s, round |-> c, val |-> Combined(A)]
  <2>1. N = M /\ S = R \cup {y}
    BY <1>2, <1>15, FewChildren DEF Sends, A, s, m, c
  <2>2. Awaited(n, P, M \cup Q, D \ A)
    BY <1>14 DEF Awaited
  <2>3. y.sect = s /\ y.round = c /\ y.val = Combined(A)
    OBVIOUS
  <2>. HIDE DEF y
  <2>4. ASSUME NEW x \in R
        PROVE  /\ ~(x.sect = s /\ x.round = c)
               /\ Done(n, P, x.sect, x.round, PickRoot(x.sect)) /\ Of(x, x.sect, x.round)
    <3>1. Done(n, O, x.sect, x.round, PickRoot(x.sect)) /\ Of(x, x.sect, x.round)
      BY <1>1 DEF OneResult
    <3>2. PickRoot(x.sect) \in Member(x.sect)
      BY SectionAssumption DEF ResultTyped, IsSection, Member, Range, PickRoot
    <3>3. ~(x.sect = s /\ x.round = c)
      BY <1>4, <1>15, <3>1
    <3>. QED
      BY <1>5, <3>1, <3>2, <3>3 DEF ResultTyped
  <2>5. OneResult(n, P, S)
    BY <1>1, <1>4, <1>13, <1>15, <2>1, <2>3, <2>4 DEF OneResult
  <2>. QED
    BY <1>1, <1>8, <1>9, <1>10, <1>11, <2>1, <2>2, <2>5 DEF Orderly, P, A
<1>16. CASE m # PickRoot(s)
  <2>1. PICK p \in Member(s) : Downstream(s, m) = {p} /\ m \in Upstream(s, p)
    BY <1>2, <1>16, ParentOfMember
  <2>. DEFINE x == [dst |-> p, port |-> Port(s, c, m), val |-> Combined(A)]
  <2>2. N = M \cup {x} /\ S = R
    BY <2>1 DEF Sends, A, s, m, c
  <2>3. About(x, s, c, p, m) /\ x.val = Combined(A) /\ x.port = Port(s, c, m) /\ x.dst = p
    BY DEF About
  <2>. HIDE DEF x
  <2>4. p # m
    BY <1>2, <2>1, FewChildren
  <2>5. \A y \in M \cup Q : ~(y.dst = p /\ y.port = x.port)
    <3>1. SUFFICES ASSUME NEW y \in M \cup Q, y.dst = p, y.port = x.port PROVE FALSE
      OBVIOUS
    <3>2. About(y, s, c, p, m)
      BY <2>3, <3>1 DEF About
    <3>. QED
      BY <1>1, <1>2, <1>4, <2>1, <3>2 DEF Awaited
  <2>6. /\ Addressed(N \cup Q) /\ Lone(N \cup Q) /\ N \cap Q = {}
    <3>1. N \cup Q = (M \cup Q) \cup {x}
      BY <2>2
    <3>2. Addressed(N \cup Q)
      BY <1>1, <1>2, <2>1, <2>3, <3>1 DEF Addressed
    <3>3. Lone(N \cup Q)
      BY <1>1, <2>3, <2>5, <3>1 DEF Lone
    <3>. QED
      BY <1>1, <2>2, <2>3, <2>5, <3>2, <3>3
  <2>7. ASSUME NEW t \in Sections, NEW b \in Round, NEW k \in Member(t),
               NEW u \in Upstream(t, k), About(x, t, b, k, u)
        PROVE  /\ Done(n, P, t, b, u) /\ ~Done(n, P, t, b, k)
               /\ \A d \in D \ A : ~(d.rdcr = <<k, t, b>> /\ d.from = u)
               /\ Of(x, t, b)
    <3>1. k = p /\ Port(t, b, u) = Port(s, c, m)
      BY <2>3, <2>7 DEF About
    <3>2. t = s /\ b = c /\ u = m
      BY <1>2, <2>1, <3>1, PortTells
    <3>3. ~Done(n, O, s, c, p)
      BY <1>1, <1>2, <1>4, <2>1 DEF FromLeaves
    <3>4. ~Done(n, P, s, c, p)
      BY <1>2, <1>5, <2>1, <2>4, <3>3
    <3>5. \A d \in D \ A : ~(d.rdcr = <<p, s, c>> /\ d.from = m)
      <4>1. SUFFICES ASSUME NEW d \in D, d.rdcr = <<p, s, c>>, d.from = m
                     PROVE  FALSE
        OBVIOUS
      <4>2. d.rdcr[1] = p /\ d.rdcr[2] = s /\ d.rdcr[3] = c
        BY <4>1
      <4>3. Done(n, O, s, c, m)
        BY <1>1, <2>4, <4>1, <4>2 DEF Inputs
      <4>. QED
        BY <1>4, <4>3
    <3>. QED
      BY <1>4, <1>13, <2>3, <3>1, <3>2, <3>4, <3>5
  <2>8. Awaited(n, P, N \cup Q, D \ A)
    BY <1>14, <2>2, <2>7 DEF Awaited
  <2>9. OneResult(n, P, S)
    <3>1. ASSUME NEW y \in R
          PROVE  Done(n, P, y.sect, y.round, PickRoot(y.sect))
      <4>1. PickRoot(y.sect) \in Member(y.sect)
        BY SectionAssumption DEF ResultTyped, IsSection, Member, Range, PickRoot
      <4>. QED
        BY <1>1, <1>5, <4>1 DEF OneResult, ResultTyped
    <3>. QED
      BY <1>1, <2>2, <3>1 DEF OneResult
  <2>. QED
    BY <1>1, <1>8, <1>9, <1>10, <1>11, <2>6, <2>8, <2>9 DEF Orderly, P, A
<1>. QED
  BY <1>15, <1>16

\* What LocalContribution computes: the reducer's ports, what the queue Q has
\* for them, and the inputs it starts with.
PortsOf(r) == {Port(r[2], r[3], u) : u \in Upstream(r[2], r[1])}

QueuedFor(Q, r) == {q \in Q : q.dst = r[1] /\ q.port \in PortsOf(r)}

GivenTo(Q, r) ==
  {[rdcr |-> r, from |-> q.port.index, val |-> q.val] : q \in QueuedFor(Q, r)}
    \cup {[rdcr |-> r, from |-> r[1], val |-> {<<r[2], r[3], r[1]>>}]}

Opened(r) == {[at |-> r[1], port |-> p, rdcr |-> r] : p \in PortsOf(r)}

CountsTyped(n) ==
  DOMAIN n = Sections /\ \A t \in Sections : n[t] \in [Member(t) -> 0 .. MaxRounds]

\* Nothing of r is there yet, and what is queued for it came from its children.
Fresh(r, O, Q, D, E) ==
  /\ r \in Reducer /\ r \notin O
  /\ \A d \in D : d.rdcr # r
  /\ \A e \in E : e.rdcr # r
  /\ \A d \in GivenTo(Q, r) : d.rdcr = r
  /\ \A q \in QueuedFor(Q, r) : q.port.index \in Upstream(r[2], r[1])
  /\ \A q, k \in QueuedFor(Q, r) : q.port.index = k.port.index => q = k

Advanced(n, s, m) == [n EXCEPT ![s][m] = @ + 1]

\* A local contribution begins a round: its reducer is new, and so far has its
\* own input and those that were queued for it.
LEMMA BeginKeeps ==
  ASSUME NEW n, CountsTyped(n),
         NEW O \in SUBSET Reducer, NEW M, NEW Q, NEW D, NEW E, NEW R,
         Orderly(n, O, M, Q, D, E, R),
         ResultTyped(R),
         HashesTell,
         NEW s \in Sections, NEW m \in Member(s),
         NEW r, r = <<m, s, n[s][m]>>, n[s][m] < MaxRounds
  PROVE  /\ Orderly(Advanced(n, s, m), O \cup {r}, M, Q \ QueuedFor(Q, r),
                    D \cup GivenTo(Q, r), E \cup Opened(r), R)
         /\ Fresh(r, O, Q, D, E)
<1>. DEFINE c     == n[s][m]
            ports == PortsOf(r)
            early == QueuedFor(Q, r)
            given == GivenTo(Q, r)
<1>0. /\ c = n[s][m] /\ r = <<m, s, c>> /\ c < MaxRounds
      /\ ports = {Port(s, c, u) : u \in Upstream(s, m)}
      /\ early = {q \in Q : q.dst = m /\ q.port \in ports}
      /\ given = {[rdcr |-> r, from |-> q.port.index, val |-> q.val] : q \in early}
                    \cup {[rdcr |-> r, from |-> m, val |-> {<<s, c, m>>}]}
  <2>1. c = n[s][m] /\ r = <<m, s, c>> /\ r[1] = m /\ r[2] = s /\ r[3] = c /\ c < MaxRounds
    OBVIOUS
  <2>. HIDE DEF c
  <2>. QED
    BY <2>1 DEF PortsOf, QueuedFor, GivenTo
<1>. HIDE DEF c, ports, early, given
<1>. USE <1>0
<1>. DEFINE n1 == Advanced(n, s, m)
            O1 == O \cup {r}
            fresh == {[at |-> m, port |-> p, rdcr |-> r] : p \in ports}
            F1 == M \cup (Q \ early)
<1>1. /\ Working(n, O) /\ FromLeaves(n, O) /\ Addressed(M \cup Q)
      /\ Awaited(n, O, M \cup Q, D) /\ Lone(M \cup Q) /\ M \cap Q = {}
      /\ Early(n, Q) /\ Ports(O, E) /\ Inputs(n, O, D) /\ OneResult(n, O, R)
  BY DEF Orderly
<1>2. /\ c \in Nat /\ MaxRounds \in Nat /\ c \in Round
      /\ \A t \in Sections : \A k \in Member(t) : n[t][k] \in Nat
  BY SectionAssumption DEF Round, CountsTyped
<1>3. r \in Reducer /\ r[1] = m /\ r[2] = s /\ r[3] = c
  <2>1. <<m, s, c>> \in Reducer
    BY <1>2, TokenIntro
  <2>2. r = <<m, s, c>>
    OBVIOUS
  <2>. QED
    BY <2>1, <2>2
<1>4. r \notin O
  BY <1>1, <1>2, <1>3 DEF Working
<1>5. /\ (\A d \in D : d.rdcr # r) /\ (\A e \in E : e.rdcr # r)
  BY <1>1, <1>4 DEF Inputs, Ports
<1>6. m \notin Upstream(s, m) /\ Upstream(s, m) \subseteq Member(s)
  BY SectionAssumption, FewChildren, TreeOfMembers
<1>7. \A t \in Sections : \A k \in Member(t) :
        n1[t][k] = IF t = s /\ k = m THEN c + 1 ELSE n[t][k]
  BY DEF CountsTyped, Advanced
<1>. HIDE DEF n1, O1
<1>8. ASSUME NEW t \in Sections, NEW b \in Round, NEW k \in Member(t)
      PROVE  Done(n1, O1, t, b, k) <=> Done(n, O, t, b, k)
  <2>1. b \in Nat
    BY SectionAssumption DEF Round
  <2>2. <<k, t, b>> = r <=> k = m /\ t = s /\ b = c
    OBVIOUS
  <2>3. CASE t = s /\ k = m
    <3>1. n1[t][k] = c + 1 /\ n[t][k] = c
      BY <1>7, <2>3
    <3>2. CASE b = c
      BY <2>2, <2>3, <3>1, <3>2, <1>2 DEF Done, O1
    <3>3. CASE b # c
      BY <2>1, <2>2, <3>1, <3>3, <1>2 DEF Done, O1
    <3>. QED
      BY <3>2, <3>3
  <2>4. CASE ~(t = s /\ k = m)
    BY <1>7, <2>2, <2>4 DEF Done, O1
  <2>. QED
    BY <2>3, <2>4
<1>9. \A t \in Sections : \A k \in Member(t) : Upstream(t, k) \subseteq Member(t)
  BY SectionAssumption, TreeOfMembers
<1>10. Working(n1, O1)
  <2>1. ASSUME NEW q \in O
        PROVE  q[3] < n1[q[2]][q[1]]
    <3>1. q[2] \in Sections /\ q[3] \in Nat /\ q[1] \in Member(q[2])
      BY ReducerParts, SectionAssumption DEF Round
    <3>. QED
      BY <1>1, <1>2, <1>7, <3>1 DEF Working
  <2>2. r[3] < n1[r[2]][r[1]]
    BY <1>2, <1>3, <1>7
  <2>. QED
    BY <2>1, <2>2 DEF Working, O1
<1>11. FromLeaves(n1, O1)
  BY <1>1, <1>8, <1>9 DEF FromLeaves
<1>12. F1 \subseteq M \cup Q
  OBVIOUS
<1>13. Addressed(F1) /\ Lone(F1) /\ M \cap (Q \ early) = {}
  BY <1>1, <1>12 DEF Addressed, Lone
\* what is queued for the new reducer
<1>14. ASSUME NEW q \in early
       PROVE  /\ q \in Q /\ q.port.index \in Upstream(s, m)
              /\ About(q, s, c, m, q.port.index)
              /\ Done(n, O, s, c, q.port.index) /\ Of(q, s, c)
  <2>1. PICK u \in Upstream(s, m) : q.port = Port(s, c, u)
    OBVIOUS
  <2>2. q.port.index = u
    BY <2>1 DEF Port
  <2>3. q \in Q /\ q.dst = m
    OBVIOUS
  <2>4. About(q, s, c, m, u)
    BY <2>1, <2>3 DEF About
  <2>. QED
    BY <1>1, <1>2, <2>2, <2>3, <2>4 DEF Awaited
<1>15. \A q, k \in early : q.port.index = k.port.index => q = k
  BY <1>1, <1>14 DEF About, Lone
<1>16. ASSUME NEW d \in given
       PROVE  /\ d.rdcr = r
              /\ \/ d.from = m /\ d.val = {<<s, c, m>>}
                 \/ \E q \in early : d.from = q.port.index /\ d.val = q.val
  OBVIOUS
<1>17. \A d, e \in given : d.from = e.from => d = e
  <2>1. SUFFICES ASSUME NEW d \in given, NEW e \in given, d.from = e.from PROVE d = e
    OBVIOUS
  <2>. DEFINE own == [rdcr |-> r, from |-> m, val |-> {<<s, c, m>>}]
              dev == [q \in early |-> [rdcr |-> r, from |-> q.port.index, val |-> q.val]]
  <2>2. (d = own \/ \E q \in early : d = dev[q]) /\ (e = own \/ \E q \in early : e = dev[q])
    OBVIOUS
  <2>3. own.from = m /\ \A q \in early : dev[q].from = q.port.index
    OBVIOUS
  <2>. HIDE DEF own, dev
  <2>4. CASE d = own /\ e = own
    BY <2>4
  <2>5. ASSUME NEW q \in early, NEW k \in early, d = dev[q], e = dev[k]
        PROVE  d = e
    <3>1. q = k
      BY <1>15, <2>1, <2>3, <2>5
    <3>. QED
      BY <2>5, <3>1
  <2>6. ASSUME NEW q \in early, (d = own /\ e = dev[q]) \/ (e = own /\ d = dev[q])
        PROVE  FALSE
    BY <1>6, <1>14, <2>1, <2>3, <2>6
  <2>7. CASE d = own
    BY <2>2, <2>4, <2>6, <2>7
  <2>8. ASSUME NEW q \in early, d = dev[q]
        PROVE  d = e
    BY <2>2, <2>5, <2>6, <2>8
  <2>. QED
    BY <2>2, <2>7, <2>8
<1>. HIDE DEF F1, fresh
<1>18. Awaited(n1, O1, F1, D \cup given)
  <2>1. SUFFICES ASSUME NEW t \in Sections, NEW b \in Round, NEW k \in Member(t),
                        NEW u \in Upstream(t, k), NEW x \in F1, About(x, t, b, k, u)
                 PROVE  /\ Done(n1, O1, t, b, u) /\ ~Done(n1, O1, t, b, k)
                        /\ \A d \in D \cup given : ~(d.rdcr = <<k, t, b>> /\ d.from = u)
                        /\ Of(x, t, b)
    BY DEF Awaited
  <2>2. /\ Done(n, O, t, b, u) /\ ~Done(n, O, t, b, k) /\ Of(x, t, b)
        /\ \A d \in D : ~(d.rdcr = <<k, t, b>> /\ d.from = u)
    BY <1>1, <1>12, <2>1 DEF Awaited
  <2>3. ASSUME NEW d \in given, d.rdcr = <<k, t, b>>, d.from = u
        PROVE  FALSE
    <3>1. k = m /\ t = s /\ b = c
      BY <1>16, <2>3
    <3>2. PICK q \in early : u = q.port.index
      BY <1>6, <1>16, <2>3, <3>1
    <3>3. q \in Q /\ About(q, s, c, m, u)
      BY <1>14, <3>2
    <3>4. x = q
      BY <1>1, <1>12, <2>1, <3>1, <3>3 DEF About, Lone
    <3>. QED
      BY <1>1, <3>2, <3>3, <3>4 DEF F1
  <2>4. u \in Member(t)
    BY <1>9
  <2>. QED
    BY <1>8, <2>2, <2>3, <2>4
<1>19. Early(n1, Q \ early)
  <2>1. SUFFICES ASSUME NEW t \in Sections, NEW b \in Round, NEW k \in Member(t),
                        NEW u \in Upstream(t, k), NEW x \in Q \ early, About(x, t, b, k, u)
                 PROVE  n1[t][k] <= b
    BY DEF Early
  <2>2. n[t][k] <= b /\ b \in Nat
    BY <1>1, <2>1, SectionAssumption DEF Early, Round
  <2>3. CASE t = s /\ k = m
    <3>1. b # c
      <4>1. SUFFICES ASSUME b = c PROVE FALSE
        OBVIOUS
      <4>2. x.dst = m /\ x.port = Port(s, c, u) /\ u \in Upstream(s, m)
        BY <2>1, <2>3, <4>1 DEF About
      <4>. QED
        BY <2>1, <4>2
    <3>. QED
      BY <1>2, <1>7, <2>2, <2>3, <3>1
  <2>4. CASE ~(t = s /\ k = m)
    BY <1>7, <2>2, <2>4
  <2>. QED
    BY <2>3, <2>4
<1>20. Ports(O1, E \cup fresh)
  <2>1. ASSUME NEW e \in fresh
        PROVE  /\ e.rdcr \in O1 /\ e.at = e.rdcr[1]
               /\ \E u \in Upstream(e.rdcr[2], e.rdcr[1]) : e.port = Port(e.rdcr[2], e.rdcr[3], u)
    <3>1. PICK u \in Upstream(s, m) : e = [at |-> m, port |-> Port(s, c, u), rdcr |-> r]
      BY DEF fresh
    <3>2. e.rdcr = r /\ e.at = m /\ e.port = Port(s, c, u)
      BY <3>1
    <3>. QED
      BY <1>3, <3>2 DEF O1
  <2>. QED
    BY <1>1, <2>1 DEF Ports, O1
<1>21. Inputs(n1, O1, D \cup given)
  <2>1. ASSUME NEW d \in D
        PROVE  /\ d.rdcr \in O1
               /\ \/ d.from = d.rdcr[1]
                  \/ /\ d.from \in Upstream(d.rdcr[2], d.rdcr[1])
                     /\ Done(n1, O1, d.rdcr[2], d.rdcr[3], d.from)
               /\ Of(d, d.rdcr[2], d.rdcr[3])
    <3>1. d.rdcr \in O
      BY <1>1 DEF Inputs
    <3>2. d.rdcr[2] \in Sections /\ d.rdcr[3] \in Round /\ d.rdcr[1] \in Member(d.rdcr[2])
      BY <3>1, ReducerParts
    <3>. QED
      BY <1>1, <1>8, <1>9, <3>1, <3>2 DEF Inputs, O1
  <2>2. ASSUME NEW d \in given
        PROVE  /\ d.rdcr \in O1
               /\ \/ d.from = d.rdcr[1]
                  \/ /\ d.from \in Upstream(d.rdcr[2], d.rdcr[1])
                     /\ Done(n1, O1, d.rdcr[2], d.rdcr[3], d.from)
               /\ Of(d, d.rdcr[2], d.rdcr[3])
    <3>1. d.rdcr = r /\ d.rdcr[1] = m /\ d.rdcr[2] = s /\ d.rdcr[3] = c /\ d.rdcr \in O1
      BY <1>3, <1>16 DEF O1
    <3>2. CASE d.from = m /\ d.val = {<<s, c, m>>}
      BY <3>1, <3>2 DEF Of
    <3>3. ASSUME NEW q \in early, d.from = q.port.index, d.val = q.val
          PROVE  /\ d.from \in Upstream(s, m) /\ Done(n1, O1, s, c, d.from) /\ Of(d, s, c)
      BY <1>2, <1>6, <1>8, <1>14, <3>3 DEF Of
    <3>. QED
      BY <1>16, <3>1, <3>2, <3>3
  <2>3. \A d, e \in D \cup given : d.rdcr = e.rdcr /\ d.from = e.from => d = e
    BY <1>1, <1>5, <1>16, <1>17 DEF Inputs
  <2>. QED
    BY <2>1, <2>2, <2>3 DEF Inputs
<1>22. OneResult(n1, O1, R)
  <2>1. ASSUME NEW x \in R
        PROVE  Done(n1, O1, x.sect, x.round, PickRoot(x.sect))
    <3>1. PickRoot(x.sect) \in Member(x.sect)
      BY SectionAssumption DEF ResultTyped, IsSection, Member, Range, PickRoot
    <3>. QED
      BY <1>1, <1>8, <3>1 DEF OneResult, ResultTyped
  <2>. QED
    BY <1>1, <2>1 DEF OneResult
<1>23. Orderly(n1, O1, M, Q \ early, D \cup given, E \cup fresh, R)
  BY <1>10, <1>11, <1>13, <1>18, <1>19, <1>20, <1>21, <1>22 DEF Orderly, F1
<1>24. fresh = Opened(r)
  BY <1>3 DEF fresh, Opened, ports
<1>25. \A d \in given : d.rdcr = r
  BY <1>16
<1>26. \A q \in early : q.port.index \in Upstream(s, m)
  BY <1>14
<1>. HIDE <1>0
<1>. QED
  BY <1>3, <1>4, <1>5, <1>15, <1>23, <1>24, <1>25, <1>26 DEF n1, O1, early, given, Fresh

\* A local contribution finds its ports closed and, among what is queued for
\* them, at most one deliverable of each child.
LEMMA ContributionKeeps ==
  ASSUME HashesTell, TypeOK, NoAbort, ReductionInv,
         NEW s \in Sections, NEW m \in Member(s), LocalContribution(s, m)
  PROVE  ReductionInv' /\ NoAbort'
<1>. DEFINE r     == <<m, s, redn_count[s][m]>>
            ports == PortsOf(r)
            early == QueuedFor(port_queue, r)
            given == GivenTo(port_queue, r)
            fresh == Opened(r)
            n1    == Advanced(redn_count, s, m)
            U     == Upstream(s, m)
<1>1. /\ redn_count[s][m] < MaxRounds
      /\ CountsTyped(redn_count)
      /\ reducers \in SUBSET Reducer
      /\ ResultTyped(results)
  BY DEF LocalContribution, TypeOK, CountsTyped, ResultTyped
<1>2. Orderly(redn_count, reducers, msgs, port_queue, devs, entry_ports, results)
  BY DEF ReductionInv
<1>a. r[1] = m /\ r[2] = s /\ r[3] = redn_count[s][m] /\ r = <<m, s, redn_count[s][m]>>
  OBVIOUS
<1>. HIDE DEF r
<1>3. /\ Orderly(n1, reducers \cup {r}, msgs, port_queue \ early, devs \cup given,
                 entry_ports \cup fresh, results)
      /\ Fresh(r, reducers, port_queue, devs, entry_ports)
  <2>. HIDE DEF ports, early, given, fresh, n1
  <2>1. /\ Orderly(Advanced(redn_count, s, m), reducers \cup {r}, msgs,
                   port_queue \ QueuedFor(port_queue, r), devs \cup GivenTo(port_queue, r),
                   entry_ports \cup Opened(r), results)
        /\ Fresh(r, reducers, port_queue, devs, entry_ports)
    BY <1>1, <1>2, <1>a, BeginKeeps
  <2>. QED
    BY <2>1 DEF n1, early, given, fresh
<1>b. /\ r \in Reducer /\ r \notin reducers
      /\ \A d \in devs : d.rdcr # r
      /\ \A e \in entry_ports : e.rdcr # r
      /\ \A d \in given : d.rdcr = r
      /\ \A q \in early : q.port.index \in U
      /\ \A q, k \in early : q.port.index = k.port.index => q = k
  BY <1>3, <1>a DEF Fresh
<1>. HIDE DEF n1, early, given, fresh, ports
<1>4. IsFiniteSet(U) /\ Cardinality(U) \in Nat
  BY SectionAssumption, FewChildren, FS_CardinalityType
<1>5. /\ Cardinality(early) <= Cardinality(U)
      /\ Cardinality(early) \in Nat
      /\ Cardinality(early) = Cardinality(U) => \A u \in U : \E q \in early : q.port.index = u
  <2>. DEFINE f == [q \in early |-> q.port.index]
  <2>. HIDE DEF U
  <2>1. f \in Injection(early, U)
    BY <1>3, <1>b DEF Injection, IsInjective
  <2>2. /\ IsFiniteSet(early)
        /\ Cardinality(early) <= Cardinality(U)
        /\ Cardinality(early) = Cardinality(U) <=> f \in Surjection(early, U)
    <3>. HIDE DEF f
    <3>. QED
      BY <1>4, <2>1, FS_Injection
  <2>3. ASSUME f \in Surjection(early, U)
        PROVE  \A u \in U : \E q \in early : q.port.index = u
    <3>1. \A u \in U : \E q \in early : f[q] = u
      BY <2>3 DEF Surjection
    <3>. QED
      BY <3>1
  <2>. QED
    BY <2>2, <2>3, FS_CardinalityType
<1>6. ~AlreadyOpen(m, ports)
  <2>1. SUFFICES ASSUME NEW e \in entry_ports, e.at = m, NEW u \in U,
                        e.port = Port(s, r[3], u)
                 PROVE  FALSE
    BY <1>a DEF AlreadyOpen, ports, PortsOf
  <2>2. PICK v \in Upstream(e.rdcr[2], e.rdcr[1]) : e.port = Port(e.rdcr[2], e.rdcr[3], v)
    BY <1>2 DEF Orderly, Ports
  <2>3. e.rdcr \in reducers /\ e.rdcr[1] = m
    BY <1>2, <2>1 DEF Orderly, Ports
  <2>4. /\ e.rdcr[2] \in Sections /\ e.rdcr[1] \in Member(e.rdcr[2])
        /\ e.rdcr = <<e.rdcr[1], e.rdcr[2], e.rdcr[3]>>
    BY <1>1, <2>3, ReducerParts
  <2>5. s = e.rdcr[2] /\ r[3] = e.rdcr[3]
    <3>1. Port(s, r[3], u) = Port(e.rdcr[2], e.rdcr[3], v) /\ m \in Member(e.rdcr[2])
      BY <2>1, <2>2, <2>3, <2>4
    <3>. QED
      BY <2>4, <3>1, PortTells
  <2>. QED
    BY <1>3, <1>b, <1>a, <2>3, <2>4, <2>5
<1>7. Cardinality(early) < NumUstream(m, s) /\ NumUstream(m, s) = Cardinality(U) + 1
  BY <1>4, <1>5 DEF NumUstream
<1>8. /\ redn_count' = n1
      /\ port_queue' = port_queue \ early
      /\ \/ /\ reducers' = reducers \cup {r}
            /\ devs' = devs \cup given
            /\ entry_ports' = entry_ports \cup fresh
            /\ UNCHANGED <<msgs, results>>
         \/ /\ Cardinality(early) + 1 = NumUstream(m, s)
            /\ Complete(r, given, msgs)
      /\ UNCHANGED aborted
  <2>. DEFINE c0     == redn_count[s][m]
              r0     == <<m, s, c0>>
              ports0 == {Port(s, c0, u) : u \in Upstream(s, m)}
              early0 == Queued(m, ports0)
              given0 == {Input(r0, q) : q \in early0}
                          \cup {[rdcr |-> r0, from |-> m, val |-> {<<s, c0, m>>}]}
              fresh0 == {[at |-> m, port |-> p, rdcr |-> r0] : p \in ports0}
              count0 == [redn_count EXCEPT ![s][m] = @ + 1]
  <2>1. \/ /\ redn_count' = count0
           /\ port_queue' = port_queue \ early0
           /\ \/ /\ reducers' = reducers \cup {r0}
                 /\ devs' = devs \cup given0
                 /\ entry_ports' = entry_ports \cup fresh0
                 /\ UNCHANGED <<msgs, results>>
              \/ /\ Cardinality(early0) + 1 = NumUstream(m, s)
                 /\ Complete(r0, given0, msgs)
           /\ UNCHANGED aborted
        \/ AlreadyOpen(m, ports0)
        \/ Cardinality(early0) >= NumUstream(m, s)
    BY DEF LocalContribution
  <2>2. ports0 = ports /\ r0 = r /\ count0 = n1
    BY <1>a DEF ports, PortsOf, n1, Advanced
  <2>3. early0 = early
    BY <1>a, <2>2 DEF early, QueuedFor, Queued, ports
  <2>4. given0 = given
    <3>1. given0 = {[rdcr |-> r, from |-> q.port.index, val |-> q.val] : q \in early0}
                     \cup {[rdcr |-> r, from |-> m, val |-> {<<s, c0, m>>}]}
      BY <2>2 DEF Input
    <3>. HIDE DEF early0, ports0, r0, given0
    <3>2. given0 = {[rdcr |-> r, from |-> q.port.index, val |-> q.val] : q \in early}
                     \cup {[rdcr |-> r, from |-> r[1], val |-> {<<r[2], r[3], r[1]>>}]}
      BY <1>a, <2>3, <3>1
    <3>. QED
      BY <3>2 DEF given, early, GivenTo
  <2>5. fresh0 = fresh
    BY <1>a, <2>2 DEF fresh, Opened, ports
  <2>. HIDE DEF U, c0, r0, ports0, early0, given0, fresh0, count0
  <2>. QED
    BY <1>6, <1>7, <2>1, <2>2, <2>3, <2>4, <2>5, <1>4, <1>5
<1>9. CASE /\ reducers' = reducers \cup {r}
           /\ devs' = devs \cup given
           /\ entry_ports' = entry_ports \cup fresh
           /\ UNCHANGED <<msgs, results>>
  <2>. QED
    BY <1>3, <1>b, <1>8, <1>9 DEF ReductionInv, NoAbort, Running
<1>10. CASE /\ Cardinality(early) + 1 = NumUstream(m, s)
            /\ Complete(r, given, msgs)
  <2>1. \A u \in U : \E q \in early : q.port.index = u
    BY <1>4, <1>5, <1>7, <1>10
  <2>2. \A u \in U : \E d \in given : d.from = u
    <3>1. SUFFICES ASSUME NEW q \in early PROVE \E d \in given : d.from = q.port.index
      BY <2>1
    <3>2. [rdcr |-> r, from |-> q.port.index, val |-> q.val] \in given
      BY DEF given, early, GivenTo
    <3>. QED
      BY <3>2
  <2>3. given = InputsOf(devs \cup given, r)
    BY <1>3, <1>b DEF InputsOf
  <2>4. /\ Sends(r, given, msgs, results, msgs', results')
        /\ devs' = devs \ Accepted(r)
        /\ entry_ports' = entry_ports \ PortsTo(r)
        /\ reducers' = reducers \ {r}
    BY <1>10 DEF Complete, Sends
  <2>5. Orderly(n1, (reducers \cup {r}) \ {r}, msgs', port_queue \ early,
                (devs \cup given) \ given, PortsBut(entry_ports \cup fresh, r), results')
    <3>1. HasAll(devs \cup given, r)
      BY <1>a, <2>2, <2>3 DEF HasAll
    <3>2. reducers \cup {r} \in SUBSET Reducer /\ r \in reducers \cup {r}
      BY <1>1, <1>3, <1>b
    <3>3. Sends(r, InputsOf(devs \cup given, r), msgs, results, msgs', results')
      BY <2>3, <2>4
    <3>4. Orderly(n1, (reducers \cup {r}) \ {r}, msgs', port_queue \ early,
                  (devs \cup given) \ InputsOf(devs \cup given, r),
                  PortsBut(entry_ports \cup fresh, r), results')
      BY <1>1, <1>3, <1>b, <3>1, <3>2, <3>3, FinishKeeps
    <3>. QED
      BY <2>3, <3>4
  <2>6. (reducers \cup {r}) \ {r} = reducers'
    BY <1>3, <1>b, <2>4
  <2>7. (devs \cup given) \ given = devs'
    BY <1>3, <1>b, <2>4 DEF Accepted
  <2>8. \A e \in fresh : e.rdcr = r
    BY DEF fresh, Opened
  <2>9. PortsBut(entry_ports \cup fresh, r) = entry_ports'
    BY <1>3, <1>b, <2>4, <2>8 DEF PortsTo, PortsBut
  <2>. QED
    BY <1>8, <2>5, <2>6, <2>7, <2>9 DEF ReductionInv, NoAbort, Running
<1>. QED
  BY <1>8, <1>9, <1>10

LEMMA ReceptionKeeps ==
  ASSUME HashesTell, TypeOK, PortsAwait, NoAbort, ReductionInv,
         NEW msg \in msgs, Receive(msg)
  PROVE  ReductionInv' /\ NoAbort'
<1>1. /\ reducers \in SUBSET Reducer
      /\ \A s \in Sections : \A m \in Member(s) : redn_count[s][m] \in Nat
      /\ ResultTyped(results)
  BY SectionAssumption DEF TypeOK, ResultTyped
<1>2. Orderly(redn_count, reducers, msgs, port_queue, devs, entry_ports, results)
  BY DEF ReductionInv
<1>3. CASE /\ {e \in entry_ports : e.at = msg.dst /\ e.port = msg.port} = {}
           /\ port_queue' = port_queue \cup {msg}
           /\ msgs' = msgs \ {msg}
           /\ UNCHANGED <<redn_count, reducers, devs, entry_ports, results, aborted>>
  <2>1. \A e \in entry_ports : ~(e.at = msg.dst /\ e.port = msg.port)
    BY <1>3
  <2>2. \A r \in reducers : \A u \in Upstream(r[2], r[1]) :
          [at |-> r[1], port |-> Port(r[2], r[3], u), rdcr |-> r] \in entry_ports
    BY DEF PortsAwait
  <2>3. Orderly(redn_count, reducers, msgs \ {msg}, port_queue \cup {msg}, devs,
                entry_ports, results)
    BY <1>1, <1>2, <2>1, <2>2, QueueKeeps
  <2>. QED
    BY <1>3, <2>3 DEF ReductionInv, NoAbort, Running
<1>4. ASSUME NEW e \in entry_ports, e.at = msg.dst, e.port = msg.port,
             NEW d, d = [rdcr |-> e.rdcr, from |-> msg.port.index, val |-> msg.val],
             NEW ds, ds = Accepted(e.rdcr) \cup {d},
             \/ /\ devs' = devs \cup ds
                /\ msgs' = msgs \ {msg}
                /\ UNCHANGED <<reducers, entry_ports, results>>
             \/ /\ Cardinality(ds) >= NumUstream(e.rdcr[1], e.rdcr[2])
                /\ Complete(e.rdcr, ds, msgs \ {msg}),
             UNCHANGED <<redn_count, port_queue, aborted>>
      PROVE  ReductionInv' /\ NoAbort'
  <2>. DEFINE r == e.rdcr
              M == msgs \ {msg}
              D == devs \cup {d}
  <2>1. d.rdcr = r /\ d.from = msg.port.index /\ d.val = msg.val
    BY <1>4
  <2>2. Orderly(redn_count, reducers, M, port_queue, D, entry_ports, results)
    BY <1>1, <1>2, <1>4, <2>1, AcceptKeeps
  <2>3. devs \cup ds = D
    BY <1>4 DEF Accepted
  <2>4. CASE /\ devs' = devs \cup ds
             /\ msgs' = M
             /\ UNCHANGED <<reducers, entry_ports, results>>
    BY <1>4, <2>2, <2>3, <2>4 DEF ReductionInv, NoAbort, Running
  <2>5. CASE /\ Cardinality(ds) >= NumUstream(r[1], r[2])
             /\ Complete(r, ds, M)
    <3>1. r \in reducers /\ r \in Reducer
      BY <1>1, <1>2 DEF Orderly, Ports
    <3>2. /\ r[2] \in Sections /\ r[1] \in Member(r[2]) /\ IsSection(r[2])
      BY <3>1, ReducerParts, SectionAssumption
    <3>3. ds = InputsOf(D, r)
      BY <1>4, <2>1 DEF Accepted, InputsOf
    <3>4. /\ \A x \in ds : x.from \in Upstream(r[2], r[1]) \cup {r[1]}
          /\ \A x, y \in ds : x.from = y.from => x = y
      BY <2>2, <3>3 DEF Orderly, Inputs, InputsOf
    <3>5. /\ Cardinality(ds) \in Nat
          /\ Cardinality(ds) <= Cardinality(Upstream(r[2], r[1])) + 1
          /\ Cardinality(ds) = Cardinality(Upstream(r[2], r[1])) + 1
               => \A u \in Upstream(r[2], r[1]) : \E x \in ds : x.from = u
      <4>1. IsFiniteSet(Upstream(r[2], r[1])) /\ r[1] \notin Upstream(r[2], r[1])
        BY <3>2, FewChildren
      <4>. HIDE DEF r
      <4>. QED
        BY <3>4, <4>1, EveryInput
    <3>6. Cardinality(Upstream(r[2], r[1])) \in Nat
      BY <3>2, FewChildren, FS_CardinalityType
    <3>7. \A u \in Upstream(r[2], r[1]) : \E x \in ds : x.from = u
      BY <2>5, <3>5, <3>6 DEF NumUstream
    <3>. HIDE DEF r, M, D
    <3>8. /\ Sends(r, ds, M, results, msgs', results')
          /\ devs' = devs \ Accepted(r)
          /\ entry_ports' = entry_ports \ PortsTo(r)
          /\ reducers' = reducers \ {r}
      BY <2>5 DEF Complete, Sends
    <3>9. Orderly(redn_count, reducers \ {r}, msgs', port_queue, D \ ds,
                  PortsBut(entry_ports, r), results')
      <4>1. HasAll(D, r)
        BY <3>3, <3>7 DEF HasAll
      <4>2. Sends(r, InputsOf(D, r), M, results, msgs', results')
        BY <3>3, <3>8
      <4>3. Orderly(redn_count, reducers \ {r}, msgs', port_queue, D \ InputsOf(D, r),
                    PortsBut(entry_ports, r), results')
        BY <1>1, <2>2, <3>1, <4>1, <4>2, FinishKeeps
      <4>. QED
        BY <3>3, <4>3
    <3>10. D \ ds = devs'
      BY <2>1, <3>3, <3>8 DEF Accepted, InputsOf, D
    <3>11. PortsBut(entry_ports, r) = entry_ports'
      BY <3>8 DEF PortsTo, PortsBut
    <3>. QED
      BY <1>4, <3>8, <3>9, <3>10, <3>11 DEF ReductionInv, NoAbort, Running
  <2>. QED
    BY <1>4, <2>4, <2>5
<1>. QED
  BY <1>3, <1>4 DEF Receive, Input

\* The invariant of the reductions, when hashes tell sections apart.
THEOREM ReductionsOrderly ==
  ASSUME HashesTell
  PROVE  Spec => [](ReductionInv /\ NoAbort)
<1>1. Init => ReductionInv /\ NoAbort
  <2>. SUFFICES ASSUME Init PROVE ReductionInv /\ NoAbort
    OBVIOUS
  <2>1. ASSUME NEW s \in Sections, NEW c \in Round, NEW m \in Member(s)
        PROVE  ~Done(redn_count, reducers, s, c, m)
    BY SectionAssumption DEF Init, Done, Round
  <2>2. FromLeaves(redn_count, reducers)
    BY <2>1 DEF FromLeaves
  <2>3. Addressed(msgs \cup port_queue) /\ Awaited(redn_count, reducers, msgs \cup port_queue, devs)
    BY DEF Init, Addressed, Awaited
  <2>. QED
    BY <2>2, <2>3 DEF Init, NoAbort, Running, ReductionInv, Orderly, Working, Lone, Early,
                      Ports, Inputs, OneResult
<1>2. TypeOK /\ PortsAwait /\ ReductionInv /\ NoAbort /\ [Next]_vars => (ReductionInv /\ NoAbort)'
  <2>. SUFFICES ASSUME TypeOK, PortsAwait, ReductionInv, NoAbort, [Next]_vars
                PROVE  ReductionInv' /\ NoAbort'
    OBVIOUS
  <2>1. CASE UNCHANGED vars
    BY <2>1 DEF vars, ReductionInv, NoAbort, Running
  <2>2. CASE Contribute
    BY <2>2, ContributionKeeps DEF Contribute
  <2>3. CASE Deliver
    BY <2>3, ReceptionKeeps DEF Deliver
  <2>. QED
    BY <2>1, <2>2, <2>3 DEF Next
<1>. QED
  BY <1>1, <1>2, TypeCorrect, PortsCorrect, PTL DEF Spec

\* The value of a result is what every member contributed to that round.
LEMMA CompleteResult ==
  ASSUME TypeOK, ContributedOnce, ReductionInv, NEW r \in results
  PROVE  r.val = {<<r.sect, r.round, m>> : m \in Member(r.sect)}
<1>. DEFINE s == r.sect
            c == r.round
<1>1. s \in Sections /\ c \in Round /\ r.val \subseteq Token
  BY DEF TypeOK
<1>2. Orderly(redn_count, reducers, msgs, port_queue, devs, entry_ports, results)
  BY DEF ReductionInv
<1>3. Done(redn_count, reducers, s, c, PickRoot(s)) /\ Of(r, s, c)
  BY <1>2 DEF Orderly, OneResult
<1>. HIDE DEF s, c
<1>4. \A m \in Member(s) : Done(redn_count, reducers, s, c, m)
  <2>1. FromLeaves(redn_count, reducers)
    BY <1>2 DEF Orderly
  <2>. QED
    BY <1>1, <1>3, <2>1, AllDone
<1>5. ASSUME NEW t \in r.val
      PROVE  t \in {<<s, c, m>> : m \in Member(s)}
  <2>1. t \in Token /\ t[1] = s /\ t[2] = c
    BY <1>1, <1>3 DEF Of
  <2>. QED
    BY <2>1 DEF Token
<1>6. ASSUME NEW m \in Member(s)
      PROVE  <<s, c, m>> \in r.val
  <2>. DEFINE t == <<s, c, m>>
  <2>1. t \in Token /\ t[1] = s /\ t[2] = c /\ t[3] = m
    BY <1>1, TokenIntro
  <2>. HIDE DEF t
  <2>2. Holders(t) # {}
    BY <1>1, <1>4, <2>1 DEF ContributedOnce, Done
  <2>3. ASSUME NEW x \in msgs \cup port_queue, t \in x.val
        PROVE  FALSE
    <3>1. PICK z \in Sections, b \in Round :
            \E k \in Member(z) : \E u \in Upstream(z, k) : About(x, z, b, k, u)
      BY <1>2, <2>3 DEF Orderly, Addressed
    <3>2. Of(x, z, b) /\ \E k \in Member(z) : ~Done(redn_count, reducers, z, b, k)
      BY <1>2, <2>3, <3>1 DEF Orderly, Awaited
    <3>. QED
      BY <1>4, <2>1, <2>3, <3>2 DEF Of
  <2>4. ASSUME NEW d \in devs, t \in d.val
        PROVE  FALSE
    <3>1. d.rdcr \in reducers /\ Of(d, d.rdcr[2], d.rdcr[3])
      BY <1>2 DEF Orderly, Inputs
    <3>2. /\ d.rdcr[1] \in Member(d.rdcr[2])
          /\ d.rdcr = <<d.rdcr[1], d.rdcr[2], d.rdcr[3]>>
      BY <3>1, ReducerParts DEF TypeOK
    <3>3. d.rdcr[2] = s /\ d.rdcr[3] = c
      BY <2>1, <2>4, <3>1 DEF Of
    <3>. QED
      BY <1>4, <3>1, <3>2, <3>3 DEF Done
  <2>5. PICK x \in results : t \in x.val
    BY <2>2, <2>3, <2>4 DEF Holders
  <2>6. x.sect = s /\ x.round = c
    BY <1>2, <2>1, <2>5 DEF Orderly, OneResult, Of
  <2>7. x = r
    BY <1>2, <2>6 DEF Orderly, OneResult, s, c
  <2>. QED
    BY <2>5, <2>7 DEF t
<1>. QED
  BY <1>5, <1>6 DEF s, c

\* When hashes tell the sections apart, the callback is given a value only
\* when every member has contributed to that round, and the value is made of
\* these contributions and nothing else.
THEOREM ResultsAreComplete ==
  ASSUME HashesTell
  PROVE  Spec => []ResultsComplete
<1>1. TypeOK /\ ContributedOnce /\ ReductionInv => ResultsComplete
  BY CompleteResult DEF ResultsComplete
<1>. QED
  BY <1>1, TypeCorrect, ContributionsConserved, ReductionsOrderly, PTL

\* When hashes tell the sections apart, what waits in a port queue is for a
\* round its receiver has not begun, so that open will take it from there.
THEOREM NothingIsStranded ==
  ASSUME HashesTell
  PROVE  Spec => []NothingStranded
<1>1. ReductionInv => NothingStranded
  <2>1. SUFFICES ASSUME ReductionInv, NEW q \in port_queue, NEW s \in Sections,
                        q.dst \in Member(s), q.port.identity = HashOf(s)
                 PROVE  redn_count[s][q.dst] <= q.port.count
    BY DEF NothingStranded
  <2>2. PICK t \in Sections, c \in Round :
          \E m \in Member(t) : \E u \in Upstream(t, m) : About(q, t, c, m, u)
    BY <2>1 DEF ReductionInv, Orderly, Addressed
  <2>3. q.dst \in Member(t) /\ q.port.identity = HashOf(t) /\ q.port.count = c
    BY <2>2 DEF About, Port
  <2>4. s = t
    BY <2>1, <2>3 DEF HashesTell
  <2>5. redn_count[t][q.dst] <= c
    BY <2>1, <2>2 DEF About, ReductionInv, Orderly, Early
  <2>. QED
    BY <2>3, <2>4, <2>5
<1>. QED
  BY <1>1, ReductionsOrderly, PTL

\* When hashes tell the sections apart, a reducer accepts contributions to its
\* own section and round only, no port is opened twice, and no reducer is
\* complete before the local contribution.
THEOREM ReducersKeepApart ==
  ASSUME HashesTell
  PROVE  Spec => [](OwnReductionOnly /\ NoAbort)
<1>1. ReductionInv => OwnReductionOnly
  BY DEF ReductionInv, Orderly, Inputs, Of, OwnReductionOnly
<1>. QED
  BY <1>1, ReductionsOrderly, PTL
=============================================================================
