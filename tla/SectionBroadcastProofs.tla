----------------------- MODULE SectionBroadcastProofs -----------------------
(***************************************************************************)
(* Proofs about SectionBroadcast, for every section and any broadcasts.    *)
(***************************************************************************)
EXTENDS SectionBroadcast, SequenceTheorems, WellFoundedInduction, TLAPS

-----------------------------------------------------------------------------
(***************************************************************************)
(* The tree of a section, for every section.                               *)
(***************************************************************************)

\* The ordinal of a member is a position of the list.
LEMMA OrdinalOfMember ==
  ASSUME NEW s, IsSection(s), NEW m \in Member(s)
  PROVE  /\ OrdinalFor(s, m) \in Int
         /\ IsValidOrdinal(s, OrdinalFor(s, m))
         /\ s[OrdinalFor(s, m) + 1] = m
<1>1. s \in Seq(Nat)
  BY DEF IsSection
<1>2. DOMAIN s = 1 .. Len(s) /\ Len(s) \in Nat
  BY <1>1
<1>3. \E i \in DOMAIN s : s[i] = m
  BY DEF Member, Range
<1>4. PICK i \in DOMAIN s : s[i] = m /\ OrdinalFor(s, m) = i - 1
  BY <1>3 DEF OrdinalFor
<1>. QED
  BY <1>2, <1>4 DEF IsValidOrdinal

\* Valid ordinals lead to members.
LEMMA IndicesAreMembers ==
  ASSUME NEW s, IsSection(s), NEW ords \in SUBSET Int
  PROVE  IndicesAt(s, ords) \subseteq Member(s)
<1>1. s \in Seq(Nat) /\ Len(s) \in Nat /\ DOMAIN s = 1 .. Len(s)
  BY DEF IsSection
<1>2. ASSUME NEW o \in ords, IsValidOrdinal(s, o)
      PROVE  s[o + 1] \in Member(s)
  <2>1. o + 1 \in DOMAIN s
    BY <1>1, <1>2 DEF IsValidOrdinal
  <2>. QED
    BY <2>1 DEF Member, Range
<1>. QED
  BY <1>2 DEF IndicesAt

\* Children and parents are members, and there is at most one parent.
LEMMA TreeOfMembers ==
  ASSUME NEW s, IsSection(s), NEW m \in Member(s)
  PROVE  /\ Upstream(s, m) \subseteq Member(s)
         /\ Downstream(s, m) \subseteq Member(s)
         /\ \A x, y \in Downstream(s, m) : x = y
<1>1. OrdinalFor(s, m) \in Int
  BY OrdinalOfMember
<1>2. Upstream(s, m) \subseteq Member(s)
  <2>1. {2 * OrdinalFor(s, m) + 1, 2 * OrdinalFor(s, m) + 2} \in SUBSET Int
    BY <1>1
  <2>. QED
    BY <2>1, IndicesAreMembers DEF Upstream
<1>3. PICK p \in Int :
        (IF OrdinalFor(s, m) > 0 THEN {(OrdinalFor(s, m) - 1) \div 2} ELSE {-1}) = {p}
  BY <1>1
<1>4. Downstream(s, m) = IndicesAt(s, {p})
  BY <1>3 DEF Downstream
<1>5. Downstream(s, m) \subseteq Member(s)
  BY <1>4, IndicesAreMembers
<1>6. \A x, y \in Downstream(s, m) : x = y
  BY <1>4 DEF IndicesAt
<1>. QED
  BY <1>2, <1>5, <1>6

\* The member at a valid ordinal has that ordinal.
LEMMA OrdinalAt ==
  ASSUME NEW s, IsSection(s), NEW o \in Int, IsValidOrdinal(s, o)
  PROVE  s[o + 1] \in Member(s) /\ OrdinalFor(s, s[o + 1]) = o
<1>1. s \in Seq(Nat) /\ Len(s) \in Nat /\ DOMAIN s = 1 .. Len(s)
  BY DEF IsSection
<1>2. o + 1 \in DOMAIN s
  BY <1>1 DEF IsValidOrdinal
<1>3. s[o + 1] \in Member(s)
  BY <1>2 DEF Member, Range
<1>4. /\ OrdinalFor(s, s[o + 1]) \in Int
      /\ OrdinalFor(s, s[o + 1]) + 1 \in DOMAIN s
      /\ s[OrdinalFor(s, s[o + 1]) + 1] = s[o + 1]
  BY <1>1, <1>3, OrdinalOfMember DEF IsValidOrdinal
<1>5. OrdinalFor(s, s[o + 1]) + 1 = o + 1
  BY <1>2, <1>4 DEF IsSection, IsInjective
<1>. QED
  BY <1>3, <1>4, <1>5

\* The ordinals of a member's children.
LEMMA OrdinalOfChild ==
  ASSUME NEW s, IsSection(s), NEW m \in Member(s), NEW u \in Upstream(s, m)
  PROVE  OrdinalFor(s, u) \in {2 * OrdinalFor(s, m) + 1, 2 * OrdinalFor(s, m) + 2}
<1>1. OrdinalFor(s, m) \in Int
  BY OrdinalOfMember
<1>2. PICK o \in {2 * OrdinalFor(s, m) + 1, 2 * OrdinalFor(s, m) + 2} :
        IsValidOrdinal(s, o) /\ u = s[o + 1]
  BY DEF Upstream, IndicesAt
<1>. QED
  BY <1>1, <1>2, OrdinalAt

\* A member is the child of at most one other, and the root of none.
LEMMA OneParent ==
  ASSUME NEW s, IsSection(s), NEW m \in Member(s), NEW u \in Upstream(s, m)
  PROVE  /\ u # PickRoot(s)
         /\ \A n \in Member(s) : u \in Upstream(s, n) => n = m
<1>1. /\ OrdinalFor(s, m) \in Int /\ OrdinalFor(s, m) >= 0
      /\ s[OrdinalFor(s, m) + 1] = m
  BY OrdinalOfMember DEF IsValidOrdinal
<1>2. OrdinalFor(s, u) \in {2 * OrdinalFor(s, m) + 1, 2 * OrdinalFor(s, m) + 2}
  BY OrdinalOfChild
<1>3. IsValidOrdinal(s, 0) /\ s[0 + 1] = PickRoot(s)
  BY DEF IsSection, IsValidOrdinal, PickRoot
<1>4. OrdinalFor(s, PickRoot(s)) = 0
  BY <1>3, OrdinalAt
<1>5. ASSUME NEW n \in Member(s), u \in Upstream(s, n)
      PROVE  n = m
  <2>1. OrdinalFor(s, n) \in Int /\ s[OrdinalFor(s, n) + 1] = n
    BY OrdinalOfMember
  <2>2. OrdinalFor(s, u) \in {2 * OrdinalFor(s, n) + 1, 2 * OrdinalFor(s, n) + 2}
    BY <1>5, OrdinalOfChild
  <2>3. OrdinalFor(s, m) = OrdinalFor(s, n)
    BY <1>1, <1>2, <2>1, <2>2
  <2>. QED
    BY <1>1, <2>1, <2>3
<1>. QED
  BY <1>1, <1>2, <1>4, <1>5

\* Downstream is the inverse of Upstream: every member but the root has a
\* parent, whose child it is.
LEMMA ParentOfMember ==
  ASSUME NEW s, IsSection(s), NEW u \in Member(s), u # PickRoot(s)
  PROVE  \E m \in Member(s) : Downstream(s, u) = {m} /\ u \in Upstream(s, m)
<1>. DEFINE o == OrdinalFor(s, u)
            p == (o - 1) \div 2
<1>1. o \in Int /\ IsValidOrdinal(s, o) /\ s[o + 1] = u
  BY OrdinalOfMember
<1>2. o > 0
  BY <1>1 DEF IsValidOrdinal, PickRoot
<1>3. p \in Int /\ p >= 0 /\ p < o /\ o \in {2 * p + 1, 2 * p + 2}
  BY <1>1, <1>2
<1>4. Len(s) \in Nat
  BY DEF IsSection
<1>5. IsValidOrdinal(s, p)
  BY <1>1, <1>3, <1>4 DEF IsValidOrdinal
<1>6. s[p + 1] \in Member(s) /\ OrdinalFor(s, s[p + 1]) = p
  BY <1>3, <1>5, OrdinalAt
<1>7. Downstream(s, u) = {s[p + 1]}
  BY <1>2, <1>5 DEF Downstream, IndicesAt
<1>8. u \in Upstream(s, s[p + 1])
  <2>. HIDE DEF p, o
  <2>. QED
    BY <1>1, <1>3, <1>6 DEF Upstream, IndicesAt
<1>. QED
  BY <1>6, <1>7, <1>8

\* A set of naturals that is not empty has a least member.
LEMMA LeastMember ==
  ASSUME NEW T \in SUBSET Nat, T # {}
  PROVE  \E i \in T : \A j \in T : i <= j
<1>1. PICK i \in T : \A j \in T : ~ (<<j, i>> \in OpToRel(<, Nat))
  BY NatLessThanWellFounded, WFMin
<1>2. OpToRel(<, Nat) = {ss \in Nat \X Nat : ss[1] < ss[2]}
  BY Zenon DEF OpToRel
<1>3. ASSUME NEW j \in T
      PROVE  i <= j
  <2>1. <<j, i>> \in Nat \X Nat /\ <<j, i>>[1] = j /\ <<j, i>>[2] = i
    OBVIOUS
  <2>2. ~ (j < i)
    BY <1>1, <1>2, <2>1
  <2>. QED
    BY <2>2
<1>. QED
  BY <1>3

\* What is at a child no less than at its parent is nowhere less than at the
\* root.
LEMMA RootIsLeast ==
  ASSUME NEW s, IsSection(s), NEW f, \A m \in Member(s) : f[m] \in Nat,
         \A p \in Member(s) : \A u \in Upstream(s, p) : f[p] <= f[u],
         NEW m \in Member(s)
  PROVE  f[PickRoot(s)] <= f[m]
<1>. DEFINE Less == {k \in Member(s) : ~(f[PickRoot(s)] <= f[k])}
            T    == {OrdinalFor(s, k) : k \in Less}
<1>. SUFFICES ASSUME m \in Less PROVE FALSE
  OBVIOUS
<1>1. \A k \in Member(s) : OrdinalFor(s, k) \in Nat
  BY OrdinalOfMember DEF IsValidOrdinal
<1>2. T \in SUBSET Nat /\ T # {}
  BY <1>1
<1>3. PICK o \in T : \A j \in T : o <= j
  BY <1>2, LeastMember
<1>4. PICK k \in Less : o = OrdinalFor(s, k)
  OBVIOUS
<1>5. PickRoot(s) \in Member(s)
  BY DEF IsSection, Member, Range, PickRoot
<1>6. k # PickRoot(s)
  BY <1>5
<1>7. PICK p \in Member(s) : k \in Upstream(s, p)
  BY <1>6, ParentOfMember
<1>8. p \in Less
  BY <1>5, <1>7
<1>9. /\ OrdinalFor(s, k) \in {2 * OrdinalFor(s, p) + 1, 2 * OrdinalFor(s, p) + 2}
      /\ OrdinalFor(s, p) \in T
  BY <1>7, <1>8, OrdinalOfChild
<1>. QED
  BY <1>1, <1>3, <1>4, <1>9

-----------------------------------------------------------------------------
(***************************************************************************)
(* Queues and their copies.                                                *)
(***************************************************************************)

Copy == [count : Nat \ {0}, bcast : Broadcasts]

\* Taking an element out of a sequence.
LEMMA RemoveAtFacts ==
  ASSUME NEW S, NEW q \in Seq(S), NEW i \in DOMAIN q
  PROVE  /\ RemoveAt(q, i) \in Seq(S)
         /\ Len(RemoveAt(q, i)) = Len(q) - 1
         /\ \A j \in DOMAIN RemoveAt(q, i) : \E k \in DOMAIN q : RemoveAt(q, i)[j] = q[k]
         /\ \A k \in DOMAIN q : k # i => \E j \in DOMAIN RemoveAt(q, i) : RemoveAt(q, i)[j] = q[k]
         /\ i = 1 => \A j \in 1 .. (Len(q) - 1) : RemoveAt(q, i)[j] = q[j + 1]
<1>. DEFINE a == SubSeq(q, 1, i - 1)
            b == SubSeq(q, i + 1, Len(q))
<1>1. i \in 1 .. Len(q) /\ Len(q) \in Nat /\ DOMAIN q = 1 .. Len(q)
  OBVIOUS
<1>2. a \in Seq(S) /\ Len(a) = i - 1 /\ \A j \in 1 .. (i - 1) : a[j] = q[j]
  BY <1>1
<1>3. b \in Seq(S) /\ Len(b) = Len(q) - i /\ \A j \in 1 .. (Len(q) - i) : b[j] = q[i + j]
  BY <1>1
<1>. HIDE DEF a, b
<1>. DEFINE c == a \o b
<1>4. /\ c \in Seq(S)
      /\ Len(c) = Len(a) + Len(b)
      /\ \A j \in 1 .. Len(a) + Len(b) :
           c[j] = IF j <= Len(a) THEN a[j] ELSE b[j - Len(a)]
  BY <1>2, <1>3, ConcatProperties
<1>. HIDE DEF c
<1>n. Len(c) = Len(q) - 1
  BY <1>1, <1>2, <1>3, <1>4
<1>5. ASSUME NEW j \in 1 .. (Len(q) - 1)
      PROVE  /\ j < i => c[j] = q[j]
             /\ j >= i => c[j] = q[j + 1]
  <2>1. CASE j < i
    BY <1>1, <1>2, <1>3, <1>4, <2>1
  <2>2. CASE j >= i
    <3>1. j - (i - 1) \in 1 .. (Len(q) - i) /\ i + (j - (i - 1)) = j + 1
      BY <1>1, <2>2
    <3>2. c[j] = b[j - (i - 1)]
      BY <1>1, <1>2, <1>3, <1>4, <2>2
    <3>. QED
      BY <1>1, <1>3, <3>1, <3>2, <2>2
  <2>. QED
    BY <1>1, <2>1, <2>2
<1>6. RemoveAt(q, i) = c
  BY DEF RemoveAt, a, b, c
<1>7. \A j \in 1 .. (Len(q) - 1) : \E k \in DOMAIN q : c[j] = q[k]
  <2>. TAKE j \in 1 .. (Len(q) - 1)
  <2>1. j \in DOMAIN q /\ j + 1 \in DOMAIN q
    BY <1>1
  <2>2. c[j] = q[j] \/ c[j] = q[j + 1]
    BY <1>1, <1>5
  <2>. QED
    BY <2>1, <2>2
<1>8. DOMAIN c = 1 .. (Len(q) - 1)
  <2>1. c \in Seq(S)
    BY <1>4
  <2>2. DOMAIN c = 1 .. Len(c)
    BY <2>1
  <2>. QED
    BY <1>n, <2>2
<1>9. ASSUME i = 1, NEW j \in 1 .. (Len(q) - 1)
      PROVE  c[j] = q[j + 1]
  BY <1>1, <1>5, <1>9
<1>10. ASSUME NEW k \in DOMAIN q, k # i
       PROVE  \E j \in DOMAIN c : c[j] = q[k]
  <2>1. CASE k < i
    <3>1. k \in DOMAIN c /\ c[k] = q[k]
      BY <1>1, <1>5, <1>8, <2>1
    <3>. QED
      BY <3>1
  <2>2. CASE k > i
    <3>1. k - 1 \in DOMAIN c /\ k - 1 >= i /\ (k - 1) + 1 = k
      BY <1>1, <1>8, <2>2
    <3>2. c[k - 1] = q[k]
      BY <1>5, <1>8, <3>1
    <3>. QED
      BY <3>1, <3>2
  <2>. QED
    BY <1>1, <1>10, <2>1, <2>2
<1>. QED
  BY <1>4, <1>n, <1>6, <1>7, <1>8, <1>9, <1>10

-----------------------------------------------------------------------------
(***************************************************************************)
(* Type correctness.                                                       *)
(***************************************************************************)

LEMMA RootIsMember == Root \in Members
<1>1. Sect \in Seq(Nat) /\ Len(Sect) > 0
  BY BroadcastAssumption DEF IsSection
<1>2. 1 \in DOMAIN Sect
  BY <1>1
<1>. QED
  BY <1>2 DEF Root, PickRoot, Members, Member, Range

\* broadcaster::action keeps the types.
LEMMA ActionTyped ==
  ASSUME TypeOK, NEW m \in Members, NEW n \in Nat \ {0}, NEW b \in Broadcasts,
         NEW rest \in [Members -> Seq(Copy)], Action(m, n, b, rest)
  PROVE  /\ bcast_count' \in [Members -> Nat]
         /\ copies' \in [Members -> Seq(Copy)]
         /\ received' \in [Members -> Seq(Broadcasts)]
<1>1. [count |-> n, bcast |-> b] \in Copy
  BY DEF Copy
<1>2. ASSUME NEW u \in Members
      PROVE  copies'[u] \in Seq(Copy)
  <2>1. copies'[u] = IF u \in Upstream(Sect, m)
                     THEN Append(rest[u], [count |-> n, bcast |-> b]) ELSE rest[u]
    BY DEF Action
  <2>2. rest[u] \in Seq(Copy)
    OBVIOUS
  <2>3. Append(rest[u], [count |-> n, bcast |-> b]) \in Seq(Copy)
    BY <1>1, <2>2
  <2>. QED
    BY <2>1, <2>2, <2>3
<1>3. copies' \in [Members -> Seq(Copy)]
  BY <1>2 DEF Action
<1>4. AcceptBroadcast(m, n, b)
  BY DEF Action
<1>5. bcast_count' \in [Members -> Nat]
  BY <1>4 DEF AcceptBroadcast, TypeOK
<1>6. received' \in [Members -> Seq(Broadcasts)]
  <2>1. received \in [Members -> Seq(Broadcasts)]
    BY DEF TypeOK
  <2>2. received[m] \in Seq(Broadcasts)
    BY <2>1
  <2>3. Append(received[m], b) \in Seq(Broadcasts)
    BY <2>2
  <2>. QED
    BY <1>4, <2>1, <2>3 DEF AcceptBroadcast
<1>. QED
  BY <1>3, <1>5, <1>6

\* What a relay executes, and what it leaves on the way.
LEMMA RelayTyped ==
  ASSUME TypeOK, NEW m \in Members, NEW i \in DOMAIN copies[m]
  PROVE  /\ copies[m][i] \in Copy
         /\ [copies EXCEPT ![m] = RemoveAt(@, i)] \in [Members -> Seq(Copy)]
<1>1. copies \in [Members -> Seq(Copy)]
  BY DEF TypeOK, Copy
<1>2. copies[m] \in Seq(Copy)
  BY <1>1
<1>3. RemoveAt(copies[m], i) \in Seq(Copy)
  BY <1>2, RemoveAtFacts
<1>. QED
  BY <1>1, <1>2, <1>3

LEMMA StepTyped == TypeOK /\ [Next]_vars => TypeOK'
<1>. SUFFICES ASSUME TypeOK, [Next]_vars PROVE TypeOK'
  OBVIOUS
<1>1. CASE UNCHANGED vars
  BY <1>1 DEF vars, TypeOK
<1>2. ASSUME NEW b \in unsent, Broadcast(b)
      PROVE  TypeOK'
  BY <1>2 DEF Broadcast, TypeOK
<1>3. ASSUME NEW b \in requests, Number(b)
      PROVE  TypeOK'
  <2>1. b \in Broadcasts /\ copies \in [Members -> Seq(Copy)] /\ Root \in Members
    BY RootIsMember DEF TypeOK, Copy
  <2>2. NextBroadcast(Root) \in Nat \ {0}
    BY <2>1 DEF NextBroadcast, TypeOK
  <2>3. Action(Root, NextBroadcast(Root), b, copies)
    BY <1>3 DEF Number
  <2>4. /\ bcast_count' \in [Members -> Nat]
        /\ copies' \in [Members -> Seq(Copy)]
        /\ received' \in [Members -> Seq(Broadcasts)]
    BY <2>1, <2>2, <2>3, ActionTyped
  <2>. QED
    BY <1>3, <2>4 DEF Number, TypeOK, Copy
<1>4. ASSUME NEW m \in Members, NEW i \in DOMAIN copies[m], Relay(m, i)
      PROVE  TypeOK'
  <2>1. /\ copies[m][i].count \in Nat \ {0} /\ copies[m][i].bcast \in Broadcasts
        /\ [copies EXCEPT ![m] = RemoveAt(@, i)] \in [Members -> Seq(Copy)]
    BY RelayTyped DEF Copy
  <2>2. /\ bcast_count' \in [Members -> Nat]
        /\ copies' \in [Members -> Seq(Copy)]
        /\ received' \in [Members -> Seq(Broadcasts)]
    BY <1>4, <2>1, ActionTyped DEF Relay
  <2>. QED
    BY <1>4, <2>2 DEF Relay, TypeOK, Copy
<1>. QED
  BY <1>1, <1>2, <1>3, <1>4 DEF Next, Request, Execute

\* Every reachable state of the broadcasts is well typed.
THEOREM BroadcastTypeCorrect == Spec => []TypeOK
<1>1. Init => TypeOK
  BY DEF Init, TypeOK
<1>. QED
  BY <1>1, StepTyped, PTL DEF Spec

-----------------------------------------------------------------------------
(***************************************************************************)
(* The order of the root.                                                  *)
(***************************************************************************)

\* What Append does, in terms of positions.
LEMMA AppendFacts ==
  ASSUME NEW S, NEW q \in Seq(S), NEW x \in S
  PROVE  /\ Append(q, x) \in Seq(S)
         /\ DOMAIN Append(q, x) = 1 .. (Len(q) + 1)
         /\ Len(Append(q, x)) = Len(q) + 1
         /\ Append(q, x)[Len(q) + 1] = x
         /\ \A i \in DOMAIN q : Append(q, x)[i] = q[i]
         /\ DOMAIN q = 1 .. Len(q) /\ Len(q) \in Nat
         /\ \A j \in DOMAIN Append(q, x) :
              (j \in DOMAIN q /\ Append(q, x)[j] = q[j]) \/ Append(q, x)[j] = x
OBVIOUS

\* What broadcaster::action leaves on its way to a member.
LEMMA ActionCopies ==
  ASSUME NEW m \in Members, NEW n, NEW b, NEW rest, Action(m, n, b, rest), NEW u \in Members
  PROVE  copies'[u] = IF u \in Upstream(Sect, m)
                      THEN Append(rest[u], [count |-> n, bcast |-> b]) ELSE rest[u]
BY DEF Action

\* Every copy on its way was there before or is the new one.
LEMMA ActionSends ==
  ASSUME NEW m \in Members, NEW n \in Nat \ {0}, NEW b \in Broadcasts,
         NEW rest \in [Members -> Seq(Copy)], Action(m, n, b, rest),
         NEW u \in Members, NEW j \in DOMAIN copies'[u]
  PROVE  \/ \E k \in DOMAIN rest[u] : copies'[u][j] = rest[u][k]
         \/ copies'[u][j] = [count |-> n, bcast |-> b]
<1>. DEFINE x == [count |-> n, bcast |-> b]
<1>1. copies'[u] = IF u \in Upstream(Sect, m) THEN Append(rest[u], x) ELSE rest[u]
  BY ActionCopies
<1>2. x \in Copy /\ rest[u] \in Seq(Copy)
  BY DEF Copy
<1>. HIDE DEF x
<1>3. \A k \in DOMAIN Append(rest[u], x) :
        (k \in DOMAIN rest[u] /\ Append(rest[u], x)[k] = rest[u][k]) \/ Append(rest[u], x)[k] = x
  BY <1>2, AppendFacts
<1>4. (\E k \in DOMAIN rest[u] : copies'[u][j] = rest[u][k]) \/ copies'[u][j] = x
  <2>1. CASE u \in Upstream(Sect, m)
    <3>1. copies'[u] = Append(rest[u], x)
      BY <1>1, <2>1
    <3>2. j \in DOMAIN Append(rest[u], x)
      BY <3>1
    <3>3. (j \in DOMAIN rest[u] /\ copies'[u][j] = rest[u][j]) \/ copies'[u][j] = x
      BY <1>3, <3>1, <3>2
    <3>. QED
      BY <3>3
  <2>2. CASE u \notin Upstream(Sect, m)
    BY <1>1, <2>2
  <2>. QED
    BY <2>1, <2>2
<1>. QED
  BY <1>4 DEF x

\* The root numbers broadcasts in the order in which it receives them.
RootCounts == bcast_count[Root] = Len(Order) /\ copies[Root] = << >>

Stamp(x, order) == x.count \in DOMAIN order /\ x.bcast = order[x.count]

\* A copy with number n carries the n-th broadcast.
CopiesStamped == \A m \in Members : \A i \in DOMAIN copies[m] : Stamp(copies[m][i], Order)

\* f tells which broadcasts of the order a member has received.
Follows(m, f) ==
  /\ f \in [DOMAIN received[m] -> DOMAIN Order]
  /\ \A i, j \in DOMAIN received[m] : i < j => f[i] < f[j]
  /\ \A i \in DOMAIN received[m] : received[m][i] = Order[f[i]]
  /\ \A i \in DOMAIN received[m] : f[i] <= bcast_count[m]

OrderInv ==
  /\ RootCounts
  /\ CopiesStamped
  /\ \A m \in Members : \E f : Follows(m, f)

\* The root numbers a broadcast: the order grows by one.
LEMMA NumberOrder ==
  ASSUME TypeOK, OrderInv, NEW b \in requests, Number(b)
  PROVE  /\ bcast_count' = [bcast_count EXCEPT ![Root] = @ + 1]
         /\ received' = [received EXCEPT ![Root] = Append(@, b)]
         /\ Order \in Seq(Broadcasts) /\ b \in Broadcasts
         /\ Order' = Append(Order, b)
         /\ bcast_count[Root] = Len(Order)
<1>1. Root \in Members
  BY RootIsMember
<1>2. bcast_count[Root] \in Nat /\ Order \in Seq(Broadcasts) /\ b \in Broadcasts
  BY <1>1 DEF TypeOK, Order
<1>3. ~(bcast_count[Root] >= bcast_count[Root] + 1)
  BY <1>2
<1>4. /\ bcast_count' = [bcast_count EXCEPT ![Root] = @ + 1]
      /\ received' = [received EXCEPT ![Root] = Append(@, b)]
  BY <1>3 DEF Number, Action, AcceptBroadcast, NextBroadcast
<1>5. Order' = Append(Order, b)
  BY <1>1, <1>4 DEF Order, TypeOK
<1>. QED
  BY <1>2, <1>4, <1>5 DEF OrderInv, RootCounts

\* What a relay executes; its member is not the root.
LEMMA RelayOrder ==
  ASSUME TypeOK, OrderInv, NEW m \in Members, NEW i \in DOMAIN copies[m], Relay(m, i)
  PROVE  /\ m # Root
         /\ copies[m][i] \in Copy
         /\ Stamp(copies[m][i], Order)
         /\ Order' = Order
         /\ bcast_count'[Root] = bcast_count[Root]
<1>1. m # Root
  BY DEF OrderInv, RootCounts
<1>2. AcceptBroadcast(m, copies[m][i].count, copies[m][i].bcast)
  BY DEF Relay, Action
<1>3. Order' = Order /\ bcast_count'[Root] = bcast_count[Root]
  BY <1>1, <1>2, RootIsMember DEF AcceptBroadcast, Order, TypeOK
<1>. QED
  BY <1>1, <1>3, RelayTyped DEF OrderInv, CopiesStamped

\* Both steps keep the numbering.
LEMMA NumberStamps ==
  ASSUME TypeOK, OrderInv, NEW b \in requests, Number(b)
  PROVE  RootCounts' /\ CopiesStamped'
<1>1. /\ bcast_count' = [bcast_count EXCEPT ![Root] = @ + 1]
      /\ Order \in Seq(Broadcasts) /\ b \in Broadcasts
      /\ Order' = Append(Order, b)
      /\ bcast_count[Root] = Len(Order)
  BY NumberOrder
<1>2. /\ DOMAIN Order' = 1 .. (Len(Order) + 1)
      /\ Len(Order') = Len(Order) + 1
      /\ Order'[Len(Order) + 1] = b
      /\ \A j \in DOMAIN Order : Order'[j] = Order[j]
      /\ DOMAIN Order = 1 .. Len(Order) /\ Len(Order) \in Nat
  BY <1>1, AppendFacts
<1>3. PICK n : n = Len(Order) + 1
  OBVIOUS
<1>4. Action(Root, n, b, copies)
  BY <1>1, <1>3 DEF Number, NextBroadcast
<1>5. copies'[Root] = copies[Root]
  <2>1. Root \notin Upstream(Sect, Root)
    BY BroadcastAssumption, RootIsMember, OneParent DEF Root, Members
  <2>. QED
    BY <1>4, <2>1, RootIsMember, ActionCopies
<1>6. RootCounts'
  BY <1>1, <1>2, <1>5, RootIsMember DEF RootCounts, OrderInv, TypeOK
<1>7. \A x : Stamp(x, Order) => Stamp(x, Order')
  BY <1>2 DEF Stamp
<1>8. Stamp([count |-> n, bcast |-> b], Order')
  BY <1>2, <1>3 DEF Stamp
<1>9. ASSUME NEW u \in Members, NEW j \in DOMAIN copies'[u]
      PROVE  Stamp(copies'[u][j], Order')
  <2>1. n \in Nat \ {0} /\ b \in Broadcasts
    BY <1>1, <1>2, <1>3
  <2>a. copies \in [Members -> Seq(Copy)]
    BY DEF TypeOK, Copy
  <2>2. \/ \E k \in DOMAIN copies[u] : copies'[u][j] = copies[u][k]
        \/ copies'[u][j] = [count |-> n, bcast |-> b]
    BY <1>4, <2>1, <2>a, RootIsMember, ActionSends
  <2>. QED
    BY <1>7, <1>8, <2>2 DEF OrderInv, CopiesStamped
<1>. QED
  BY <1>6, <1>9 DEF CopiesStamped

LEMMA RelayStamps ==
  ASSUME TypeOK, OrderInv, NEW m \in Members, NEW i \in DOMAIN copies[m], Relay(m, i)
  PROVE  RootCounts' /\ CopiesStamped'
<1>. DEFINE n    == copies[m][i].count
            b    == copies[m][i].bcast
            rest == [copies EXCEPT ![m] = RemoveAt(@, i)]
<1>1. /\ m # Root /\ Order' = Order /\ bcast_count'[Root] = bcast_count[Root]
      /\ copies[m][i] \in Copy /\ Stamp(copies[m][i], Order)
  BY RelayOrder
<1>2. n \in Nat \ {0} /\ b \in Broadcasts /\ rest \in [Members -> Seq(Copy)]
  BY RelayTyped DEF Copy
<1>3. Action(m, n, b, rest)
  BY DEF Relay
<1>4. [count |-> n, bcast |-> b] = copies[m][i]
  BY <1>1 DEF Copy
<1>5. ASSUME NEW u \in Members, NEW k \in DOMAIN rest[u]
      PROVE  \E l \in DOMAIN copies[u] : rest[u][k] = copies[u][l]
  <2>1. copies \in [Members -> Seq(Copy)] /\ copies[m] \in Seq(Copy)
    BY DEF TypeOK, Copy
  <2>2. \A j \in DOMAIN RemoveAt(copies[m], i) :
          \E l \in DOMAIN copies[m] : RemoveAt(copies[m], i)[j] = copies[m][l]
    BY <2>1, RemoveAtFacts
  <2>3. rest[u] = IF u = m THEN RemoveAt(copies[m], i) ELSE copies[u]
    BY <2>1
  <2>. HIDE DEF rest
  <2>. QED
    BY <1>5, <2>2, <2>3
<1>6. rest[Root] = copies[Root]
  BY <1>1, RootIsMember DEF TypeOK
<1>. HIDE DEF n, b, rest
<1>7. copies'[Root] = copies[Root]
  <2>1. Root \notin Upstream(Sect, m)
    BY BroadcastAssumption, OneParent DEF Root, Members
  <2>2. copies'[Root] = IF Root \in Upstream(Sect, m)
          THEN Append(rest[Root], [count |-> n, bcast |-> b]) ELSE rest[Root]
    BY <1>3, RootIsMember, ActionCopies
  <2>. QED
    BY <1>6, <2>1, <2>2
<1>8. RootCounts'
  BY <1>1, <1>7 DEF RootCounts, OrderInv
<1>9. ASSUME NEW u \in Members, NEW j \in DOMAIN copies'[u]
      PROVE  Stamp(copies'[u][j], Order')
  <2>1. \/ \E k \in DOMAIN rest[u] : copies'[u][j] = rest[u][k]
        \/ copies'[u][j] = [count |-> n, bcast |-> b]
    BY <1>2, <1>3, ActionSends
  <2>. QED
    BY <1>1, <1>4, <1>5, <2>1 DEF OrderInv, CopiesStamped
<1>. QED
  BY <1>8, <1>9 DEF CopiesStamped

\* The members follow the order when the root extends it.
LEMMA NumberFollows ==
  ASSUME TypeOK, OrderInv, NEW b \in requests, Number(b), NEW m \in Members
  PROVE  \E f : Follows(m, f)'
<1>1. /\ bcast_count' = [bcast_count EXCEPT ![Root] = @ + 1]
      /\ received' = [received EXCEPT ![Root] = Append(@, b)]
      /\ Order \in Seq(Broadcasts) /\ b \in Broadcasts
      /\ Order' = Append(Order, b)
      /\ bcast_count[Root] = Len(Order)
  BY NumberOrder
<1>2. /\ DOMAIN Order' = 1 .. (Len(Order) + 1)
      /\ \A j \in DOMAIN Order : Order'[j] = Order[j]
      /\ DOMAIN Order = 1 .. Len(Order) /\ Len(Order) \in Nat
  BY <1>1, AppendFacts
<1>3. CASE m = Root
  <2>1. PICK g : g = [i \in DOMAIN Order' |-> i]
    OBVIOUS
  <2>2. received'[m] = Order' /\ bcast_count'[m] = Len(Order) + 1
    BY <1>1, <1>3 DEF TypeOK, Order
  <2>3. Follows(m, g)'
    BY <1>2, <2>1, <2>2 DEF Follows
  <2>. QED
    BY <2>3
<1>4. CASE m # Root
  <2>1. PICK g : Follows(m, g)
    BY DEF OrderInv
  <2>2. received'[m] = received[m] /\ bcast_count'[m] = bcast_count[m]
    BY <1>1, <1>4 DEF TypeOK
  <2>3. Follows(m, g)'
    BY <1>2, <2>1, <2>2 DEF Follows
  <2>. QED
    BY <2>3
<1>. QED
  BY <1>3, <1>4

\* A member that executes a copy still follows the order: it drops the copy,
\* or goes to a later place in the order.
LEMMA RelayFollows ==
  ASSUME TypeOK, OrderInv, NEW m \in Members, NEW i \in DOMAIN copies[m], Relay(m, i),
         NEW k \in Members
  PROVE  \E f : Follows(k, f)'
<1>. DEFINE n == copies[m][i].count
            b == copies[m][i].bcast
<1>1. /\ Order' = Order
      /\ n \in DOMAIN Order /\ b = Order[n] /\ b \in Broadcasts /\ n \in Nat
  BY RelayOrder DEF Stamp, Copy
<1>2. AcceptBroadcast(m, n, b)
  BY DEF Relay, Action
<1>3. PICK f : Follows(k, f)
  BY DEF OrderInv
<1>. HIDE DEF n, b
<1>4. CASE received'[k] = received[k] /\ bcast_count'[k] = bcast_count[k]
  <2>1. Follows(k, f)'
    BY <1>1, <1>3, <1>4 DEF Follows
  <2>. QED
    BY <2>1
<1>5. CASE /\ k = m
           /\ bcast_count[m] < n
           /\ bcast_count'[m] = n
           /\ received'[m] = Append(received[m], b)
  <2>1. received[m] \in Seq(Broadcasts) /\ bcast_count[m] \in Nat
    BY DEF TypeOK
  <2>2. PICK q : q = received[m]
    OBVIOUS
  <2>3. /\ DOMAIN received'[m] = 1 .. (Len(q) + 1)
        /\ received'[m][Len(q) + 1] = b
        /\ \A j \in DOMAIN q : received'[m][j] = q[j]
        /\ DOMAIN q = 1 .. Len(q) /\ Len(q) \in Nat
    BY <1>1, <1>5, <2>1, <2>2, AppendFacts
  <2>4. PICK g : g = [j \in 1 .. (Len(q) + 1) |-> IF j \in DOMAIN q THEN f[j] ELSE n]
    OBVIOUS
  <2>5. /\ f \in [DOMAIN q -> DOMAIN Order]
        /\ \A j, l \in DOMAIN q : j < l => f[j] < f[l]
        /\ \A j \in DOMAIN q : q[j] = Order[f[j]]
        /\ \A j \in DOMAIN q : f[j] <= bcast_count[m]
    BY <1>3, <1>5, <2>2 DEF Follows
  <2>6. DOMAIN Order \subseteq Nat
    BY RootIsMember DEF Order, TypeOK
  <2>7. g \in [DOMAIN received'[m] -> DOMAIN Order']
    BY <1>1, <2>3, <2>4, <2>5
  <2>8. \A j, l \in DOMAIN received'[m] : j < l => g[j] < g[l]
    BY <1>1, <1>5, <2>1, <2>3, <2>4, <2>5, <2>6
  <2>9. \A j \in DOMAIN received'[m] : received'[m][j] = Order'[g[j]]
    BY <1>1, <2>3, <2>4, <2>5
  <2>10. \A j \in DOMAIN received'[m] : g[j] <= bcast_count'[m]
    BY <1>1, <1>5, <2>1, <2>3, <2>4, <2>5, <2>6
  <2>11. Follows(k, g)'
    BY <1>5, <2>7, <2>8, <2>9, <2>10 DEF Follows
  <2>. QED
    BY <2>11
<1>. QED
  BY <1>2, <1>4, <1>5 DEF AcceptBroadcast, TypeOK

LEMMA OrderStep ==
  ASSUME TypeOK, OrderInv, [Next]_vars
  PROVE  OrderInv'
<1>1. CASE UNCHANGED <<bcast_count, copies, received>>
  <2>1. Order' = Order
    BY <1>1 DEF Order
  <2>2. RootCounts' /\ CopiesStamped'
    BY <1>1, <2>1 DEF OrderInv, RootCounts, CopiesStamped
  <2>3. \A m \in Members : \A f : Follows(m, f) => Follows(m, f)'
    BY <1>1, <2>1 DEF Follows
  <2>. QED
    BY <2>2, <2>3 DEF OrderInv
<1>2. ASSUME NEW b \in unsent, Broadcast(b)
      PROVE  OrderInv'
  BY <1>1, <1>2 DEF Broadcast
<1>3. ASSUME NEW b \in requests, Number(b)
      PROVE  OrderInv'
  BY <1>3, NumberStamps, NumberFollows DEF OrderInv
<1>4. ASSUME NEW m \in Members, NEW i \in DOMAIN copies[m], Relay(m, i)
      PROVE  OrderInv'
  BY <1>4, RelayStamps, RelayFollows DEF OrderInv
<1>. QED
  BY <1>1, <1>2, <1>3, <1>4 DEF Next, Request, Execute, vars

LEMMA OrderInit == Init => OrderInv
<1>. SUFFICES ASSUME Init PROVE OrderInv
  OBVIOUS
<1>1. RootCounts /\ CopiesStamped
  BY RootIsMember DEF Init, RootCounts, CopiesStamped, Order
<1>2. ASSUME NEW m \in Members
      PROVE  Follows(m, << >>)
  <2>1. received[m] = << >> /\ Order = << >>
    BY RootIsMember DEF Init, Order
  <2>. QED
    BY <2>1 DEF Follows
<1>. QED
  BY <1>1, <1>2 DEF OrderInv

\* Every member receives a part of the root's order, each broadcast at most
\* once and none out of turn, in every section and whether or not copies
\* overtake each other.
THEOREM OrderCorrect == Spec => []OrderRespected
<1>1. OrderInv => OrderRespected
  BY DEF OrderInv, Follows, OrderRespected
<1>. QED
  BY BroadcastTypeCorrect, OrderInit, OrderStep, <1>1, PTL DEF Spec

-----------------------------------------------------------------------------
(***************************************************************************)
(* Total order, when copies keep their order.                              *)
(***************************************************************************)

\* No broadcast is in the order twice, and what is on its way to the root is
\* not in it yet.
Fresh ==
  /\ \A b \in unsent \cup requests : \A i \in DOMAIN Order : Order[i] # b
  /\ unsent \cap requests = {}
  /\ \A i, j \in DOMAIN Order : Order[i] = Order[j] => i = j

\* What is on its way from p to its child u is what p has received and u has
\* not, in order.
Linked(p, u) ==
  /\ Len(copies[u]) = bcast_count[p] - bcast_count[u]
  /\ \A i \in DOMAIN copies[u] : copies[u][i].count = bcast_count[u] + i

\* A member has received the first bcast_count_ broadcasts.
Prefixed(m) ==
  /\ Len(received[m]) = bcast_count[m]
  /\ bcast_count[m] <= Len(Order)
  /\ \A i \in DOMAIN received[m] : received[m][i] = Order[i]

ChainInv ==
  /\ Fresh
  /\ \A p \in Members : \A u \in Upstream(Sect, p) : Linked(p, u)
  /\ \A m \in Members : Prefixed(m)

LEMMA FreshStep ==
  ASSUME TypeOK, OrderInv, Fresh, [Next]_vars
  PROVE  Fresh'
<1>1. CASE Order' = Order /\ unsent' \cup requests' = unsent \cup requests
           /\ unsent' \cap requests' = {}
  BY <1>1 DEF Fresh
<1>2. CASE UNCHANGED vars
  BY <1>1, <1>2 DEF vars, Order, Fresh
<1>3. ASSUME NEW b \in unsent, Broadcast(b)
      PROVE  Fresh'
  BY <1>1, <1>3 DEF Broadcast, Order, Fresh
<1>4. ASSUME NEW b \in requests, Number(b)
      PROVE  Fresh'
  <2>1. Order \in Seq(Broadcasts) /\ b \in Broadcasts /\ Order' = Append(Order, b)
    BY <1>4, NumberOrder
  <2>2. /\ DOMAIN Order' = 1 .. (Len(Order) + 1)
        /\ Order'[Len(Order) + 1] = b
        /\ \A j \in DOMAIN Order : Order'[j] = Order[j]
        /\ DOMAIN Order = 1 .. Len(Order) /\ Len(Order) \in Nat
    BY <2>1, AppendFacts
  <2>3. unsent' = unsent /\ requests' = requests \ {b}
    BY <1>4 DEF Number
  <2>. QED
    BY <1>4, <2>2, <2>3 DEF Fresh
<1>5. ASSUME NEW m \in Members, NEW i \in DOMAIN copies[m], Relay(m, i)
      PROVE  Fresh'
  <2>1. Order' = Order
    BY <1>5, RelayOrder
  <2>. QED
    BY <1>1, <1>5, <2>1 DEF Relay, Fresh
<1>. QED
  BY <1>2, <1>3, <1>4, <1>5 DEF Next, Request, Execute

\* The children of a member are members, and not the member itself.
LEMMA ChildFacts ==
  ASSUME NEW p \in Members, NEW u \in Upstream(Sect, p)
  PROVE  u \in Members /\ u # p /\ u # Root
<1>1. u \in Members /\ u # Root
  BY BroadcastAssumption, TreeOfMembers, OneParent DEF Members, Root
<1>2. /\ OrdinalFor(Sect, p) \in Int /\ OrdinalFor(Sect, p) >= 0
      /\ OrdinalFor(Sect, u) \in {2 * OrdinalFor(Sect, p) + 1, 2 * OrdinalFor(Sect, p) + 2}
  BY BroadcastAssumption, OrdinalOfMember, OrdinalOfChild DEF Members, IsValidOrdinal
<1>. QED
  BY <1>1, <1>2

\* An action at m that accepts the next number keeps the chain: rest is what
\* the delivery leaves in copies, with m's own channel already advanced.
LEMMA ActionLinks ==
  ASSUME TypeOK, NEW m \in Members, NEW n \in Nat \ {0}, NEW b \in Broadcasts,
         NEW rest \in [Members -> Seq(Copy)], Action(m, n, b, rest),
         n = bcast_count[m] + 1,
         \A u \in Members : u # m => rest[u] = copies[u],
         \A p \in Members : m \in Upstream(Sect, p) =>
           /\ Len(rest[m]) = bcast_count[p] - n
           /\ \A i \in DOMAIN rest[m] : rest[m][i].count = n + i,
         NEW p \in Members, NEW u \in Upstream(Sect, p), Linked(p, u)
  PROVE  Linked(p, u)'
<1>1. u \in Members /\ u # p
  BY ChildFacts
<1>2. bcast_count \in [Members -> Nat] /\ bcast_count' = [bcast_count EXCEPT ![m] = n]
  BY DEF TypeOK, Action, AcceptBroadcast
<1>3. copies'[u] = IF u \in Upstream(Sect, m)
                   THEN Append(rest[u], [count |-> n, bcast |-> b]) ELSE rest[u]
  BY <1>1, ActionCopies
<1>4. u \in Upstream(Sect, m) <=> p = m
  BY BroadcastAssumption, OneParent DEF Members
<1>5. CASE p = m
  <2>1. rest[u] = copies[u] /\ copies'[u] = Append(copies[u], [count |-> n, bcast |-> b])
    BY <1>1, <1>3, <1>4, <1>5
  <2>2. copies[u] \in Seq(Copy) /\ [count |-> n, bcast |-> b] \in Copy
    BY <1>1 DEF TypeOK, Copy
  <2>3. PICK x : x = [count |-> n, bcast |-> b]
    OBVIOUS
  <2>4. PICK q : q = copies[u]
    OBVIOUS
  <2>5. /\ DOMAIN copies'[u] = 1 .. (Len(q) + 1)
        /\ Len(copies'[u]) = Len(q) + 1
        /\ copies'[u][Len(q) + 1] = x
        /\ \A i \in DOMAIN q : copies'[u][i] = q[i]
        /\ DOMAIN q = 1 .. Len(q) /\ Len(q) \in Nat
    BY <2>1, <2>2, <2>3, <2>4, AppendFacts
  <2>6. bcast_count'[u] = bcast_count[u] /\ bcast_count'[p] = bcast_count[p] + 1
    BY <1>1, <1>2, <1>5
  <2>7. Len(q) = bcast_count[p] - bcast_count[u] /\ x.count = bcast_count[p] + 1
    BY <1>5, <2>3, <2>4 DEF Linked
  <2>8. bcast_count[u] \in Nat /\ bcast_count[p] \in Nat
    BY <1>1, <1>2
  <2>9. \A i \in DOMAIN copies'[u] : copies'[u][i].count = bcast_count'[u] + i
    <3>. TAKE i \in DOMAIN copies'[u]
    <3>1. CASE i \in DOMAIN q
      BY <2>4, <2>5, <2>6, <3>1 DEF Linked
    <3>2. CASE i = Len(q) + 1
      <4>1. copies'[u][i] = x
        BY <2>5, <3>2
      <4>2. bcast_count[p] + 1 = bcast_count[u] + i
        BY <2>5, <2>7, <2>8, <3>2
      <4>. QED
        BY <2>6, <2>7, <4>1, <4>2
    <3>. QED
      BY <2>5, <3>1, <3>2
  <2>10. Len(copies'[u]) = bcast_count'[p] - bcast_count'[u]
    BY <2>5, <2>6, <2>7, <2>8
  <2>. QED
    BY <2>9, <2>10 DEF Linked
<1>6. CASE p # m /\ u = m
  <2>1. copies'[u] = rest[m] /\ bcast_count'[u] = n /\ bcast_count'[p] = bcast_count[p]
    BY <1>1, <1>2, <1>3, <1>4, <1>6
  <2>. QED
    BY <1>6, <2>1 DEF Linked
<1>7. CASE p # m /\ u # m
  <2>1. copies'[u] = copies[u] /\ bcast_count'[u] = bcast_count[u] /\ bcast_count'[p] = bcast_count[p]
    BY <1>1, <1>2, <1>3, <1>4, <1>7
  <2>. QED
    BY <2>1 DEF Linked
<1>. QED
  BY <1>5, <1>6, <1>7

\* The root extends the order: the chain grows at its root.
LEMMA NumberChain ==
  ASSUME TypeOK, OrderInv, ChainInv, NEW b \in requests, Number(b)
  PROVE  /\ \A p \in Members : \A u \in Upstream(Sect, p) : Linked(p, u)'
         /\ \A m \in Members : Prefixed(m)'
<1>1. /\ bcast_count' = [bcast_count EXCEPT ![Root] = @ + 1]
      /\ received' = [received EXCEPT ![Root] = Append(@, b)]
      /\ Order \in Seq(Broadcasts) /\ b \in Broadcasts
      /\ Order' = Append(Order, b)
      /\ bcast_count[Root] = Len(Order)
  BY NumberOrder
<1>2. /\ DOMAIN Order' = 1 .. (Len(Order) + 1)
      /\ Len(Order') = Len(Order) + 1
      /\ \A j \in DOMAIN Order : Order'[j] = Order[j]
      /\ DOMAIN Order = 1 .. Len(Order) /\ Len(Order) \in Nat
  BY <1>1, AppendFacts
<1>3. ASSUME NEW p \in Members, NEW u \in Upstream(Sect, p)
      PROVE  Linked(p, u)'
  <2>1. PICK n : n = bcast_count[Root] + 1
    OBVIOUS
  <2>2. n \in Nat \ {0} /\ Action(Root, n, b, copies)
    BY <1>1, <1>2, <2>1 DEF Number, NextBroadcast
  <2>3. copies \in [Members -> Seq(Copy)]
    BY DEF TypeOK, Copy
  <2>4. \A k \in Members : Root \notin Upstream(Sect, k)
    BY ChildFacts
  <2>5. Linked(p, u)
    BY DEF ChainInv
  <2>. QED
    BY <1>1, <2>1, <2>2, <2>3, <2>4, <2>5, RootIsMember, ActionLinks
<1>4. ASSUME NEW m \in Members
      PROVE  Prefixed(m)'
  <2>1. CASE m = Root
    <3>1. received'[m] = Order' /\ bcast_count'[m] = Len(Order) + 1
      BY <1>1, <2>1 DEF TypeOK, Order
    <3>. QED
      BY <1>2, <3>1 DEF Prefixed
  <2>2. CASE m # Root
    <3>1. received'[m] = received[m] /\ bcast_count'[m] = bcast_count[m]
      BY <1>1, <2>2 DEF TypeOK
    <3>2. /\ Len(received[m]) = bcast_count[m]
          /\ bcast_count[m] <= Len(Order)
          /\ \A i \in DOMAIN received[m] : received[m][i] = Order[i]
      BY DEF ChainInv, Prefixed
    <3>3. DOMAIN received[m] = 1 .. Len(received[m]) /\ bcast_count[m] \in Nat
      BY DEF TypeOK
    <3>4. bcast_count[m] <= Len(Order') /\ DOMAIN received[m] \subseteq DOMAIN Order
      BY <1>2, <3>2, <3>3
    <3>. QED
      BY <1>2, <3>1, <3>2, <3>4 DEF Prefixed
  <2>. QED
    BY <2>1, <2>2
<1>. QED
  BY <1>3, <1>4

\* With order kept, a relay executes the copy with the next number.
LEMMA RelayNext ==
  ASSUME InOrder, TypeOK, OrderInv, ChainInv, NEW m \in Members, NEW i \in DOMAIN copies[m],
         Relay(m, i)
  PROVE  /\ i = 1
         /\ copies[m][i].count = bcast_count[m] + 1
         /\ copies[m][i].bcast = Order[bcast_count[m] + 1]
         /\ copies[m][i].bcast \in Broadcasts
         /\ bcast_count[m] + 1 \in DOMAIN Order
         /\ bcast_count' = [bcast_count EXCEPT ![m] = bcast_count[m] + 1]
         /\ received' = [received EXCEPT ![m] = Append(@, copies[m][i].bcast)]
<1>1. i = 1
  BY DEF Relay
<1>2. m # Root /\ copies[m][i] \in Copy /\ Stamp(copies[m][i], Order)
  BY RelayOrder
<1>3. PICK p \in Members : m \in Upstream(Sect, p)
  BY <1>2, BroadcastAssumption, ParentOfMember DEF Members, Root
<1>4. copies[m][i].count = bcast_count[m] + 1
  BY <1>1, <1>3 DEF ChainInv, Linked
<1>5. bcast_count[m] \in Nat
  BY DEF TypeOK
<1>6. ~(bcast_count[m] >= bcast_count[m] + 1)
  BY <1>5
<1>7. AcceptBroadcast(m, copies[m][i].count, copies[m][i].bcast)
  BY DEF Relay, Action
<1>8. /\ bcast_count' = [bcast_count EXCEPT ![m] = bcast_count[m] + 1]
      /\ received' = [received EXCEPT ![m] = Append(@, copies[m][i].bcast)]
  BY <1>4, <1>6, <1>7 DEF AcceptBroadcast
<1>. QED
  BY <1>1, <1>2, <1>4, <1>8 DEF Stamp, Copy

\* A relay moves the chain on by one number.
LEMMA RelayChain ==
  ASSUME InOrder, TypeOK, OrderInv, ChainInv, NEW m \in Members, NEW i \in DOMAIN copies[m],
         Relay(m, i)
  PROVE  /\ \A p \in Members : \A u \in Upstream(Sect, p) : Linked(p, u)'
         /\ \A k \in Members : Prefixed(k)'
<1>. DEFINE n    == copies[m][i].count
            b    == copies[m][i].bcast
            rest == [copies EXCEPT ![m] = RemoveAt(@, i)]
<1>1. /\ i = 1
      /\ n = bcast_count[m] + 1
      /\ b = Order[n] /\ b \in Broadcasts
      /\ n \in DOMAIN Order
      /\ bcast_count' = [bcast_count EXCEPT ![m] = n]
      /\ received' = [received EXCEPT ![m] = Append(@, b)]
  BY RelayNext
<1>2. n \in Nat \ {0} /\ rest \in [Members -> Seq(Copy)]
  BY RelayTyped DEF Copy
<1>3. Action(m, n, b, rest) /\ Order' = Order
  BY RelayOrder DEF Relay
<1>4. copies \in [Members -> Seq(Copy)] /\ copies[m] \in Seq(Copy)
  BY DEF TypeOK, Copy
<1>5. rest[m] = RemoveAt(copies[m], i) /\ \A u \in Members : u # m => rest[u] = copies[u]
  BY <1>4
<1>. HIDE DEF n, b, rest
<1>6. ASSUME NEW p \in Members, m \in Upstream(Sect, p)
      PROVE  /\ Len(rest[m]) = bcast_count[p] - n
             /\ \A j \in DOMAIN rest[m] : rest[m][j].count = n + j
  <2>1. /\ Len(copies[m]) = bcast_count[p] - bcast_count[m]
        /\ \A j \in DOMAIN copies[m] : copies[m][j].count = bcast_count[m] + j
    BY <1>6 DEF ChainInv, Linked
  <2>2. /\ Len(rest[m]) = Len(copies[m]) - 1
        /\ \A j \in 1 .. (Len(copies[m]) - 1) : rest[m][j] = copies[m][j + 1]
    BY <1>1, <1>4, <1>5, RemoveAtFacts
  <2>3. DOMAIN rest[m] = 1 .. Len(rest[m]) /\ DOMAIN copies[m] = 1 .. Len(copies[m])
        /\ Len(copies[m]) \in Nat
    BY <1>2, <1>4
  <2>4. bcast_count[m] \in Nat /\ bcast_count[p] \in Nat
    BY DEF TypeOK
  <2>5. Len(rest[m]) = bcast_count[p] - n
    BY <1>1, <2>1, <2>2, <2>4
  <2>6. ASSUME NEW j \in DOMAIN rest[m]
        PROVE  rest[m][j].count = n + j
    <3>1. j \in 1 .. (Len(copies[m]) - 1) /\ j + 1 \in DOMAIN copies[m] /\ j \in Nat
      BY <2>2, <2>3
    <3>2. rest[m][j] = copies[m][j + 1] /\ copies[m][j + 1].count = bcast_count[m] + (j + 1)
      BY <2>1, <2>2, <3>1
    <3>3. n = bcast_count[m] + 1 /\ j \in Nat
      BY <1>1, <3>1
    <3>4. bcast_count[m] + (j + 1) = n + j
      BY <2>4, <3>3
    <3>. QED
      BY <3>2, <3>4
  <2>. QED
    BY <2>5, <2>6
<1>7. ASSUME NEW p \in Members, NEW u \in Upstream(Sect, p)
      PROVE  Linked(p, u)'
  <2>1. Linked(p, u)
    BY DEF ChainInv
  <2>. QED
    BY <1>1, <1>2, <1>3, <1>5, <1>6, <2>1, ActionLinks
<1>8. ASSUME NEW k \in Members
      PROVE  Prefixed(k)'
  <2>0. Prefixed(k)
    BY DEF ChainInv
  <2>1. CASE k # m
    <3>1. received'[k] = received[k] /\ bcast_count'[k] = bcast_count[k]
      BY <1>1, <2>1 DEF TypeOK
    <3>. QED
      BY <1>3, <2>0, <3>1 DEF Prefixed
  <2>2. CASE k = m
    <3>1. received'[m] = Append(received[m], b) /\ bcast_count'[m] = n
      BY <1>1 DEF TypeOK
    <3>2. received[m] \in Seq(Broadcasts) /\ Order \in Seq(Broadcasts)
      BY RootIsMember DEF TypeOK, Order
    <3>3. PICK q : q = received[m]
      OBVIOUS
    <3>4. /\ DOMAIN received'[m] = 1 .. (Len(q) + 1)
          /\ Len(received'[m]) = Len(q) + 1
          /\ received'[m][Len(q) + 1] = b
          /\ \A j \in DOMAIN q : received'[m][j] = q[j]
          /\ DOMAIN q = 1 .. Len(q) /\ Len(q) \in Nat
      BY <1>1, <3>1, <3>2, <3>3, AppendFacts
    <3>5. Len(q) = bcast_count[m] /\ \A j \in DOMAIN q : q[j] = Order[j]
      BY <2>0, <2>2, <3>3 DEF Prefixed
    <3>6. DOMAIN Order = 1 .. Len(Order)
      BY <3>2
    <3>7. \A j \in DOMAIN received'[m] : received'[m][j] = Order[j]
      BY <1>1, <3>4, <3>5
    <3>8. n <= Len(Order)
      BY <1>1, <3>6
    <3>. QED
      BY <1>1, <1>3, <2>2, <3>1, <3>4, <3>5, <3>7, <3>8 DEF Prefixed
  <2>. QED
    BY <2>1, <2>2
<1>. QED
  BY <1>7, <1>8

LEMMA ChainStep ==
  ASSUME InOrder, TypeOK, OrderInv, ChainInv, [Next]_vars
  PROVE  ChainInv'
<1>1. Fresh'
  BY FreshStep DEF ChainInv
<1>2. CASE UNCHANGED <<bcast_count, copies, received>>
  <2>1. \A p \in Members : \A u \in Upstream(Sect, p) : Linked(p, u)'
    BY <1>2 DEF ChainInv, Linked
  <2>2. \A m \in Members : Prefixed(m)'
    BY <1>2 DEF ChainInv, Prefixed, Order
  <2>. QED
    BY <1>1, <2>1, <2>2 DEF ChainInv
<1>3. ASSUME NEW b \in unsent, Broadcast(b)
      PROVE  ChainInv'
  BY <1>2, <1>3 DEF Broadcast
<1>4. ASSUME NEW b \in requests, Number(b)
      PROVE  ChainInv'
  BY <1>1, <1>4, NumberChain DEF ChainInv
<1>5. ASSUME NEW m \in Members, NEW i \in DOMAIN copies[m], Relay(m, i)
      PROVE  ChainInv'
  BY <1>1, <1>5, RelayChain DEF ChainInv
<1>. QED
  BY <1>2, <1>3, <1>4, <1>5 DEF Next, Request, Execute, vars

LEMMA ChainInit == Init => ChainInv
<1>. SUFFICES ASSUME Init PROVE ChainInv
  OBVIOUS
<1>1. Order = << >>
  BY RootIsMember DEF Init, Order
<1>2. Fresh
  BY <1>1 DEF Init, Fresh
<1>3. ASSUME NEW p \in Members, NEW u \in Upstream(Sect, p)
      PROVE  Linked(p, u)
  BY ChildFacts DEF Init, Linked
<1>4. ASSUME NEW m \in Members
      PROVE  Prefixed(m)
  BY <1>1 DEF Init, Prefixed
<1>. QED
  BY <1>2, <1>3, <1>4 DEF ChainInv

\* A sequence that agrees with a longer one is its prefix.
LEMMA PrefixIntro ==
  ASSUME NEW S, NEW q \in Seq(S), NEW r \in Seq(S), Len(q) <= Len(r),
         \A i \in 1 .. Len(q) : q[i] = r[i]
  PROVE  IsPrefix(q, r)
<1>1. Len(q) \in Nat /\ Len(r) \in Nat
  OBVIOUS
<1>2. SubSeq(q, 1, Len(q)) = SubSeq(r, 1, Len(q))
  BY <1>1
<1>. QED
  BY <1>2 DEF IsPrefix

AllPrefixed == \A m \in Members : Prefixed(m)

AllCompare == \A n, k \in Members : TO!Comparable(received[n], received[k])

\* Members that have received prefixes of the order are comparable.
LEMMA PrefixesCompare == TypeOK /\ AllPrefixed => AllCompare
<1>. SUFFICES ASSUME TypeOK, AllPrefixed, NEW n \in Members, NEW k \in Members
              PROVE  TO!Comparable(received[n], received[k])
  BY DEF AllCompare
<1>1. received[n] \in Seq(Broadcasts) /\ received[k] \in Seq(Broadcasts)
  BY DEF TypeOK
<1>2. /\ \A i \in 1 .. Len(received[n]) : received[n][i] = Order[i]
      /\ \A i \in 1 .. Len(received[k]) : received[k][i] = Order[i]
      /\ Len(received[n]) \in Nat /\ Len(received[k]) \in Nat
  BY <1>1 DEF AllPrefixed, Prefixed
<1>3. CASE Len(received[n]) <= Len(received[k])
  <2>1. \A i \in 1 .. Len(received[n]) : received[n][i] = received[k][i]
    BY <1>2, <1>3
  <2>2. IsPrefix(received[n], received[k])
    BY <1>1, <1>3, <2>1, PrefixIntro
  <2>. QED
    BY <2>2 DEF TO!Comparable, TO!IsPrefix, IsPrefix
<1>4. CASE Len(received[k]) <= Len(received[n])
  <2>1. \A i \in 1 .. Len(received[k]) : received[k][i] = received[n][i]
    BY <1>2, <1>4
  <2>2. IsPrefix(received[k], received[n])
    BY <1>1, <1>4, <2>1, PrefixIntro
  <2>. QED
    BY <2>2 DEF TO!Comparable, TO!IsPrefix, IsPrefix
<1>. QED
  BY <1>2, <1>3, <1>4

\* A step that hands b to m is a step of the totally ordered broadcast.
LEMMA DeliveryRefines ==
  ASSUME TypeOK, TypeOK', AllPrefixed', NEW m \in Members,
         NEW b \in Broadcasts, \A i \in DOMAIN received[m] : received[m][i] # b,
         received' = [received EXCEPT ![m] = Append(@, b)]
  PROVE  TO!Next
<1>1. b \notin TO!Range(received[m])
  BY DEF TO!Range
<1>3. AllCompare'
  BY PrefixesCompare, PTL
<1>4. TO!Receive(m, b)
  BY <1>1, <1>3 DEF TO!Receive, AllCompare, TO!Comparable, TO!IsPrefix
<1>. QED
  BY <1>4 DEF TO!Next

LEMMA StepRefines ==
  ASSUME InOrder, TypeOK, TypeOK', OrderInv, ChainInv, ChainInv', [Next]_vars
  PROVE  [TO!Next]_received
<1>0. AllPrefixed'
  BY DEF ChainInv, AllPrefixed
<1>1. CASE UNCHANGED received
  BY <1>1
<1>2. ASSUME NEW b \in requests, Number(b)
      PROVE  TO!Next
  <2>1. b \in Broadcasts /\ received' = [received EXCEPT ![Root] = Append(@, b)]
    BY <1>2, NumberOrder
  <2>2. \A i \in DOMAIN received[Root] : received[Root][i] # b
    BY DEF ChainInv, Fresh, Order
  <2>. QED
    BY <1>0, <2>1, <2>2, RootIsMember, DeliveryRefines
<1>3. ASSUME NEW m \in Members, NEW i \in DOMAIN copies[m], Relay(m, i)
      PROVE  TO!Next
  <2>. DEFINE b == copies[m][i].bcast
  <2>1. /\ b \in Broadcasts /\ b = Order[bcast_count[m] + 1]
        /\ bcast_count[m] + 1 \in DOMAIN Order
        /\ received' = [received EXCEPT ![m] = Append(@, b)]
    BY <1>3, RelayNext
  <2>. HIDE DEF b
  <2>2. ASSUME NEW j \in DOMAIN received[m]
        PROVE  received[m][j] # b
    <3>1. Prefixed(m) /\ Fresh
      BY DEF ChainInv
    <3>2. received[m] \in Seq(Broadcasts) /\ bcast_count[m] \in Nat /\ Order \in Seq(Broadcasts)
      BY RootIsMember DEF TypeOK, Order
    <3>3. j \in 1 .. bcast_count[m] /\ received[m][j] = Order[j]
      BY <3>1, <3>2 DEF Prefixed
    <3>4. j \in DOMAIN Order /\ j # bcast_count[m] + 1
      BY <2>1, <3>2, <3>3
    <3>. QED
      BY <2>1, <3>1, <3>3, <3>4 DEF Fresh
  <2>. QED
    BY <1>0, <2>1, <2>2, DeliveryRefines
<1>. QED
  BY <1>1, <1>2, <1>3 DEF Next, Request, Execute, Broadcast, vars

\* When the copies from a member to its child keep their order, broadcasts
\* over any section are totally ordered: every member receives each at most
\* once, and any two members have received the same ones, up to how far they
\* have come.
THEOREM OrderedBroadcast ==
  ASSUME InOrder
  PROVE  Spec => TotallyOrdered
<1>1. Init => TO!Init
  BY DEF Init, TO!Init
<1>2. TypeOK /\ OrderInv /\ ChainInv /\ [Next]_vars => ChainInv'
  BY ChainStep
<1>3. /\ TypeOK /\ TypeOK' /\ OrderInv /\ ChainInv /\ ChainInv' /\ [Next]_vars
      => [TO!Next]_received
  BY StepRefines
<1>. QED
  BY <1>1, <1>2, <1>3, BroadcastTypeCorrect, OrderInit, OrderStep, ChainInit, PTL
  DEF Spec, TotallyOrdered, TO!Spec

-----------------------------------------------------------------------------
(***************************************************************************)
(* When nothing is on its way any more.                                    *)
(***************************************************************************)

\* What a member has accepted, or a later broadcast, has reached its child or
\* is on its way to it.
Passed(p, u) ==
  \/ bcast_count[p] <= bcast_count[u]
  \/ \E i \in DOMAIN copies[u] : bcast_count[p] <= copies[u][i].count

AllPassed == \A p \in Members : \A u \in Upstream(Sect, p) : Passed(p, u)

\* The last broadcast that a member has received is the one with the number
\* of its bcast_count_.
Latest(m) ==
  IF received[m] = << >> THEN bcast_count[m] = 0
  ELSE bcast_count[m] \in DOMAIN Order /\ Last(received[m]) = Order[bcast_count[m]]

LatestInv == \A m \in Members : Latest(m)

\* An action passes on what it executes, whether it accepts it or not: rest is
\* what the delivery leaves in copies, which lacks nothing but the copy that
\* is executed.
LEMMA ActionPasses ==
  ASSUME TypeOK, AllPassed,
         NEW m \in Members, NEW n \in Nat \ {0}, NEW b \in Broadcasts,
         NEW rest \in [Members -> Seq(Copy)], Action(m, n, b, rest),
         \A u \in Members : u # m => rest[u] = copies[u],
         \A k \in DOMAIN copies[m] :
           copies[m][k].count <= n \/ \E j \in DOMAIN rest[m] : rest[m][j] = copies[m][k]
  PROVE  AllPassed'
<1>. SUFFICES ASSUME NEW p \in Members, NEW u \in Upstream(Sect, p)
              PROVE  Passed(p, u)'
  BY DEF AllPassed
<1>. DEFINE x == [count |-> n, bcast |-> b]
<1>1. u \in Members /\ u # p /\ x \in Copy /\ x.count = n
  BY ChildFacts DEF Copy
<1>2. bcast_count \in [Members -> Nat] /\ copies \in [Members -> Seq(Copy)]
  BY DEF TypeOK, Copy
<1>3. /\ \A k \in Members : k # m => bcast_count'[k] = bcast_count[k]
      /\ bcast_count'[m] \in {bcast_count[m], n}
      /\ bcast_count[m] <= bcast_count'[m] /\ n <= bcast_count'[m]
  BY <1>2 DEF Action, AcceptBroadcast
<1>4. Passed(p, u)
  BY DEF AllPassed
<1>. HIDE DEF x
<1>5. copies'[u] = IF u \in Upstream(Sect, m) THEN Append(rest[u], x) ELSE rest[u]
  BY <1>1, ActionCopies DEF x
<1>6. \A j \in DOMAIN rest[u] : \E k \in DOMAIN copies'[u] : copies'[u][k] = rest[u][j]
  <2>1. rest[u] \in Seq(Copy)
    BY <1>1
  <2>2. \A j \in DOMAIN rest[u] :
          j \in DOMAIN Append(rest[u], x) /\ Append(rest[u], x)[j] = rest[u][j]
    BY <1>1, <2>1, AppendFacts
  <2>. QED
    BY <1>5, <2>2
<1>7. CASE p = m /\ bcast_count'[m] = n
  <2>1. copies'[u] = Append(rest[u], x) /\ rest[u] \in Seq(Copy)
    BY <1>1, <1>5, <1>7
  <2>2. Len(rest[u]) + 1 \in DOMAIN copies'[u] /\ copies'[u][Len(rest[u]) + 1] = x
    BY <1>1, <2>1, AppendFacts
  <2>3. bcast_count'[p] <= x.count
    BY <1>1, <1>7
  <2>. QED
    BY <2>2, <2>3 DEF Passed
<1>8. CASE bcast_count'[p] = bcast_count[p] /\ u # m
  <2>1. rest[u] = copies[u] /\ bcast_count'[u] = bcast_count[u]
    BY <1>1, <1>3, <1>8
  <2>. QED
    BY <1>4, <1>6, <1>8, <2>1 DEF Passed
<1>9. CASE u = m
  <2>1. bcast_count'[p] = bcast_count[p]
    BY <1>1, <1>3, <1>9
  <2>2. CASE bcast_count[p] <= bcast_count[m]
    <3>1. bcast_count'[p] <= bcast_count'[u]
      BY <1>2, <1>3, <1>9, <2>1, <2>2
    <3>. QED
      BY <3>1 DEF Passed
  <2>3. CASE \E k \in DOMAIN copies[m] : bcast_count[p] <= copies[m][k].count
    <3>1. PICK k \in DOMAIN copies[m] : bcast_count[p] <= copies[m][k].count
      BY <2>3
    <3>2. CASE copies[m][k].count <= n
      <4>1. copies[m][k].count \in Nat
        <5>1. copies[m] \in Seq(Copy)
          BY <1>2
        <5>2. copies[m][k] \in Copy
          BY <5>1
        <5>. QED
          BY <5>2 DEF Copy
      <4>2. bcast_count'[p] <= bcast_count'[u]
        BY <1>2, <1>3, <1>9, <2>1, <3>1, <3>2, <4>1
      <4>. QED
        BY <4>2 DEF Passed
    <3>3. CASE \E j \in DOMAIN rest[m] : rest[m][j] = copies[m][k]
      BY <1>6, <1>9, <2>1, <3>1, <3>3 DEF Passed
    <3>. QED
      BY <3>2, <3>3
  <2>. QED
    BY <1>4, <1>9, <2>2, <2>3 DEF Passed
<1>. QED
  BY <1>1, <1>3, <1>7, <1>8, <1>9

LEMMA PassedStep ==
  ASSUME TypeOK, OrderInv, AllPassed, [Next]_vars
  PROVE  AllPassed'
<1>0. copies \in [Members -> Seq(Copy)]
  BY DEF TypeOK, Copy
<1>1. CASE UNCHANGED <<bcast_count, copies>>
  BY <1>1 DEF AllPassed, Passed
<1>2. ASSUME NEW b \in requests, Number(b)
      PROVE  AllPassed'
  <2>1. PICK n : n = NextBroadcast(Root)
    OBVIOUS
  <2>2. n \in Nat \ {0} /\ b \in Broadcasts /\ Action(Root, n, b, copies)
    BY <1>2, <2>1, RootIsMember DEF Number, NextBroadcast, TypeOK
  <2>3. \A k \in DOMAIN copies[Root] : \E j \in DOMAIN copies[Root] : copies[Root][j] = copies[Root][k]
    OBVIOUS
  <2>. QED
    BY <1>0, <2>2, <2>3, RootIsMember, ActionPasses
<1>3. ASSUME NEW m \in Members, NEW i \in DOMAIN copies[m], Relay(m, i)
      PROVE  AllPassed'
  <2>. DEFINE n    == copies[m][i].count
              b    == copies[m][i].bcast
              rest == [copies EXCEPT ![m] = RemoveAt(@, i)]
  <2>1. n \in Nat \ {0} /\ b \in Broadcasts
    BY <1>3, RelayOrder DEF Copy
  <2>2. Action(m, n, b, rest)
    BY <1>3 DEF Relay
  <2>3. /\ RemoveAt(copies[m], i) \in Seq(Copy)
        /\ \A k \in DOMAIN copies[m] :
             k # i => \E j \in DOMAIN RemoveAt(copies[m], i) : RemoveAt(copies[m], i)[j] = copies[m][k]
    BY <1>0, RemoveAtFacts
  <2>4. rest \in [Members -> Seq(Copy)] /\ rest[m] = RemoveAt(copies[m], i)
    BY <1>0, <2>3
  <2>5. \A u \in Members : u # m => rest[u] = copies[u]
    BY <1>0
  <2>6. \A k \in DOMAIN copies[m] :
          copies[m][k].count <= n \/ \E j \in DOMAIN rest[m] : rest[m][j] = copies[m][k]
    BY <2>1, <2>3, <2>4
  <2>. HIDE DEF n, b, rest
  <2>. QED
    BY <2>1, <2>2, <2>4, <2>5, <2>6, ActionPasses
<1>. QED
  BY <1>1, <1>2, <1>3 DEF Next, Request, Execute, Broadcast, vars

\* What a member receives becomes its last broadcast.
LEMMA LatestReceived ==
  ASSUME TypeOK, NEW m \in Members, NEW b \in Broadcasts, NEW n \in DOMAIN Order',
         received'[m] = Append(received[m], b), bcast_count'[m] = n, Order'[n] = b
  PROVE  Latest(m)'
<1>1. received[m] \in Seq(Broadcasts)
  BY DEF TypeOK
<1>2. /\ received'[m] # << >>
      /\ received'[m][Len(received'[m])] = b
  BY <1>1, AppendFacts
<1>. QED
  BY <1>2 DEF Latest, Last

LEMMA LatestStep ==
  ASSUME TypeOK, OrderInv, LatestInv, [Next]_vars
  PROVE  LatestInv'
<1>1. ASSUME NEW m \in Members, received'[m] = received[m], bcast_count'[m] = bcast_count[m],
             \A i \in DOMAIN Order : i \in DOMAIN Order' /\ Order'[i] = Order[i]
      PROVE  Latest(m)'
  BY <1>1 DEF LatestInv, Latest
<1>2. CASE UNCHANGED <<bcast_count, received>>
  BY <1>1, <1>2 DEF LatestInv, Order
<1>3. ASSUME NEW b \in requests, Number(b)
      PROVE  LatestInv'
  <2>1. /\ bcast_count' = [bcast_count EXCEPT ![Root] = @ + 1]
        /\ received' = [received EXCEPT ![Root] = Append(@, b)]
        /\ Order \in Seq(Broadcasts) /\ b \in Broadcasts
        /\ Order' = Append(Order, b)
        /\ bcast_count[Root] = Len(Order)
    BY <1>3, NumberOrder
  <2>2. /\ DOMAIN Order' = 1 .. (Len(Order) + 1)
        /\ Order'[Len(Order) + 1] = b
        /\ \A j \in DOMAIN Order : Order'[j] = Order[j]
        /\ DOMAIN Order = 1 .. Len(Order) /\ Len(Order) \in Nat
    BY <2>1, AppendFacts
  <2>3. Latest(Root)'
    <3>1. received'[Root] = Append(received[Root], b) /\ bcast_count'[Root] = Len(Order) + 1
      BY <2>1, RootIsMember DEF TypeOK
    <3>2. Len(Order) + 1 \in DOMAIN Order'
      BY <2>2
    <3>. QED
      BY <2>1, <2>2, <3>1, <3>2, RootIsMember, LatestReceived
  <2>4. ASSUME NEW m \in Members, m # Root
        PROVE  Latest(m)'
    <3>1. received'[m] = received[m] /\ bcast_count'[m] = bcast_count[m]
      BY <2>1, <2>4 DEF TypeOK
    <3>2. \A i \in DOMAIN Order : i \in DOMAIN Order' /\ Order'[i] = Order[i]
      BY <2>2
    <3>. QED
      BY <1>1, <3>1, <3>2
  <2>. QED
    BY <2>3, <2>4 DEF LatestInv
<1>4. ASSUME NEW m \in Members, NEW i \in DOMAIN copies[m], Relay(m, i)
      PROVE  LatestInv'
  <2>. DEFINE n == copies[m][i].count
              b == copies[m][i].bcast
  <2>1. Order' = Order /\ n \in DOMAIN Order /\ b = Order[n] /\ b \in Broadcasts
    BY <1>4, RelayOrder DEF Stamp, Copy
  <2>2. AcceptBroadcast(m, n, b)
    BY <1>4 DEF Relay, Action
  <2>. HIDE DEF n, b
  <2>3. CASE UNCHANGED <<bcast_count, received>>
    BY <1>2, <2>3
  <2>4. CASE /\ bcast_count' = [bcast_count EXCEPT ![m] = n]
             /\ received' = [received EXCEPT ![m] = Append(@, b)]
    <3>1. received'[m] = Append(received[m], b) /\ bcast_count'[m] = n
      BY <2>4 DEF TypeOK
    <3>2. Latest(m)'
      BY <2>1, <3>1, LatestReceived
    <3>3. ASSUME NEW k \in Members, k # m
          PROVE  Latest(k)'
      <4>1. received'[k] = received[k] /\ bcast_count'[k] = bcast_count[k]
        BY <2>4, <3>3 DEF TypeOK
      <4>. QED
        BY <1>1, <2>1, <4>1
    <3>. QED
      BY <3>2, <3>3 DEF LatestInv
  <2>. QED
    BY <2>2, <2>3, <2>4 DEF AcceptBroadcast
<1>. QED
  BY <1>2, <1>3, <1>4 DEF Next, Request, Execute, Broadcast, vars

LEMMA PassedInit == Init => AllPassed /\ LatestInv
<1>. SUFFICES ASSUME Init PROVE AllPassed /\ LatestInv
  OBVIOUS
<1>1. \A m \in Members : bcast_count[m] = 0 /\ received[m] = << >>
  BY DEF Init
<1>2. \A p \in Members : \A u \in Upstream(Sect, p) : bcast_count[p] <= bcast_count[u]
  BY <1>1, ChildFacts
<1>. QED
  BY <1>1, <1>2 DEF AllPassed, Passed, LatestInv, Latest

\* When no copy is on its way, every member has come as far as the root.
LEMMA QuietCounts ==
  ASSUME TypeOK, OrderInv, AllPassed, Quiet, NEW m \in Members
  PROVE  Len(Order) <= bcast_count[m]
<1>1. \A k \in Members : bcast_count[k] \in Nat
  BY DEF TypeOK
<1>2. \A p \in Members : \A u \in Upstream(Sect, p) : bcast_count[p] <= bcast_count[u]
  BY ChildFacts DEF AllPassed, Passed, Quiet
<1>3. bcast_count[Root] <= bcast_count[m]
  BY <1>1, <1>2, BroadcastAssumption, RootIsLeast DEF Members, Root
<1>. QED
  BY <1>3 DEF OrderInv, RootCounts

\* However the copies overtake each other, the last broadcast reaches every
\* member: those that drop older copies have relayed the later one.
THEOREM LastArrives == Spec => []LastReceived
<1>1. TypeOK /\ OrderInv /\ AllPassed /\ LatestInv => LastReceived
  <2>. SUFFICES ASSUME TypeOK, OrderInv, AllPassed, LatestInv, Quiet, Order # << >>, NEW m \in Members
                PROVE  received[m] # << >> /\ Last(received[m]) = Last(Order)
    BY DEF LastReceived
  <2>1. Order \in Seq(Broadcasts)
    BY RootIsMember DEF Order, TypeOK
  <2>2. Len(Order) \in Nat \ {0} /\ DOMAIN Order = 1 .. Len(Order)
    BY <2>1
  <2>3. bcast_count[m] \in Nat /\ Len(Order) <= bcast_count[m]
    BY QuietCounts DEF TypeOK
  <2>4. /\ received[m] # << >>
        /\ bcast_count[m] \in DOMAIN Order
        /\ Last(received[m]) = Order[bcast_count[m]]
    BY <2>2, <2>3 DEF LatestInv, Latest
  <2>5. bcast_count[m] = Len(Order)
    BY <2>2, <2>3, <2>4
  <2>. QED
    BY <2>4, <2>5 DEF Last
<1>2. TypeOK /\ OrderInv /\ AllPassed /\ LatestInv /\ [Next]_vars => AllPassed' /\ LatestInv'
  BY PassedStep, LatestStep
<1>. QED
  BY BroadcastTypeCorrect, OrderInit, OrderStep, PassedInit, <1>1, <1>2, PTL DEF Spec

\* What was sent is on its way to the root, or in its order.
Accounted == Broadcasts \ unsent = requests \cup Range(Order)

LEMMA AccountedStep ==
  ASSUME TypeOK, OrderInv, Accounted, [Next]_vars
  PROVE  Accounted'
<1>1. CASE UNCHANGED vars
  BY <1>1 DEF vars, Accounted, Order, Range
<1>2. ASSUME NEW b \in unsent, Broadcast(b)
      PROVE  Accounted'
  <2>1. Order' = Order /\ b \in Broadcasts
    BY <1>2 DEF Broadcast, Order, TypeOK
  <2>. QED
    BY <1>2, <2>1 DEF Accounted, Broadcast, Range
<1>3. ASSUME NEW b \in requests, Number(b)
      PROVE  Accounted'
  <2>1. Order \in Seq(Broadcasts) /\ b \in Broadcasts /\ Order' = Append(Order, b)
    BY <1>3, NumberOrder
  <2>2. Range(Order') = Range(Order) \cup {b}
    BY <2>1, AppendFacts DEF Range
  <2>3. requests' = requests \ {b} /\ unsent' = unsent
    BY <1>3 DEF Number
  <2>. QED
    BY <2>2, <2>3 DEF Accounted
<1>4. ASSUME NEW m \in Members, NEW i \in DOMAIN copies[m], Relay(m, i)
      PROVE  Accounted'
  <2>1. Order' = Order
    BY <1>4, RelayOrder
  <2>. QED
    BY <1>4, <2>1 DEF Relay, Accounted, Range
<1>. QED
  BY <1>1, <1>2, <1>3, <1>4 DEF Next, Request, Execute

\* When the copies keep their order and nothing is on its way any more, every
\* member has received every broadcast that was sent, which bcast_demo counts
\* on.
THEOREM AllArrive ==
  ASSUME InOrder
  PROVE  Spec => []AllReceived
<1>1. TypeOK /\ OrderInv /\ ChainInv /\ AllPassed /\ Accounted => AllReceived
  <2>. SUFFICES ASSUME TypeOK, OrderInv, ChainInv, AllPassed, Accounted, Quiet, NEW m \in Members
                PROVE  Range(received[m]) = Broadcasts \ unsent
    BY DEF AllReceived
  <2>1. Range(Order) = Broadcasts \ unsent
    BY DEF Accounted, Quiet
  <2>2. received[m] \in Seq(Broadcasts) /\ Order \in Seq(Broadcasts) /\ bcast_count[m] \in Nat
    BY RootIsMember DEF TypeOK, Order
  <2>3. /\ Len(received[m]) = bcast_count[m] /\ bcast_count[m] <= Len(Order)
        /\ \A i \in DOMAIN received[m] : received[m][i] = Order[i]
    BY DEF ChainInv, Prefixed
  <2>4. Len(Order) <= bcast_count[m]
    BY QuietCounts
  <2>5. DOMAIN received[m] = DOMAIN Order
    BY <2>2, <2>3, <2>4
  <2>. QED
    BY <2>1, <2>3, <2>5 DEF Range
<1>2. Init => Accounted
  BY RootIsMember DEF Init, Accounted, Order, Range
<1>3. TypeOK /\ OrderInv /\ ChainInv /\ [Next]_vars => ChainInv'
  BY ChainStep
<1>4. TypeOK /\ OrderInv /\ AllPassed /\ [Next]_vars => AllPassed'
  BY PassedStep
<1>5. TypeOK /\ OrderInv /\ Accounted /\ [Next]_vars => Accounted'
  BY AccountedStep
<1>. QED
  BY BroadcastTypeCorrect, OrderInit, OrderStep, ChainInit, PassedInit,
     <1>1, <1>2, <1>3, <1>4, <1>5, PTL DEF Spec
=============================================================================
