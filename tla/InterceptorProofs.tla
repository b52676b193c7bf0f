--------------------------- MODULE InterceptorProofs ---------------------------
(***************************************************************************)
(* Whatever elements do, and in whatever order messages and requests are   *)
(* handled, a message is in one place: on its way, in the buffer of one    *)
(* home, or received; and none is buffered behind a record.  When no index *)
(* is used twice, only heirs receive, and nothing aborts.  Proofs for any  *)
(* PEs, indices, homes and messages.                                       *)
(***************************************************************************)
EXTENDS Interceptor, FiniteSetTheorems, TLAPS

Packets == [kind : {"deliver"}, at : PE, idx : Idx, m : Msgs]
           \cup [kind : {"forward"}, at : PE, idx : Idx, to : Idx, life : Nat]
           \cup [kind : {"stop"}, at : PE, idx : Idx, life : Nat]

\* The places of m, when `packets' are in transit and `buffers' at the homes.
ParcelsOf(m, packets) == {p \in packets : p.kind = "deliver" /\ p.m = m}
BuffersOf(m, buffers) == {i \in Idx : m \in buffers[i]}

InNet(m) == /\ \E p : ParcelsOf(m, net) = {p}
            /\ BuffersOf(m, queued) = {}
            /\ received[m] = None
InBuffer(m) == /\ ParcelsOf(m, net) = {}
               /\ \E i : BuffersOf(m, queued) = {i}
               /\ received[m] = None
Taken(m) == /\ ParcelsOf(m, net) = {}
            /\ BuffersOf(m, queued) = {}
            /\ received[m] # None
Nowhere(m) == /\ ParcelsOf(m, net) = {}
              /\ BuffersOf(m, queued) = {}
              /\ received[m] = None
OnePlace(m) == IF m \in sent THEN InNet(m) \/ InBuffer(m) \/ Taken(m) ELSE Nowhere(m)

\* An element other than the root has a parent.
ParentsOK == \A i \in Idx : loc[i] # None /\ i # Root => up[i] # None

QdOK == qd = Cardinality(Buffered(queued))

Inv == /\ TypeOK
       /\ ParentsOK
       /\ QdOK
       /\ ForwardedNotBuffered
       /\ Running => \A m \in Msgs : OnePlace(m)

-----------------------------------------------------------------------------
\* Routing.

LEMMA PacketForm ==
  ASSUME TypeOK, NEW p \in net
  PROVE  /\ p \in Packets /\ p.at \in PE /\ p.idx \in Idx
         /\ p.kind = "deliver" => p.m \in Msgs
         /\ p.kind = "forward" => p.to \in Idx
  BY DEF TypeOK, Packets

\* What a message that is not circular is routed to has no record here.
LEMMA LastNameFacts ==
  ASSUME NEW pe, NEW i, NEW reqs, ~Circular(pe, i, reqs)
  PROVE  Dealias(pe, i, reqs) \in Idx /\ ~Forwarded(pe, Dealias(pe, i, reqs), reqs)
  <1>1. PICK j : j \in LastNames(pe, i, reqs)
    BY DEF Circular
  <1>2. Dealias(pe, i, reqs) \in LastNames(pe, i, reqs)
    BY <1>1 DEF Dealias
  <1> QED  BY <1>2 DEF LastNames, Unravelled

\* The messages ms, which were in hand, are with the element j, on their way to
\* it, or in its buffer.
Given(j, ms, buffers, rest) ==
  /\ net' = rest
  /\ queued' = buffers
  /\ received' = [m \in Msgs |-> IF m \in ms THEN j ELSE received[m]]
Posted(j, ms, buffers, rest) ==
  /\ \E at \in PE : net' = rest \cup {Parcel(at, j, m) : m \in ms}
  /\ queued' = buffers
  /\ UNCHANGED received
Kept(j, ms, buffers, rest, reqs) ==
  /\ reqs[j] = None
  /\ net' = rest
  /\ queued' = [buffers EXCEPT ![j] = @ \cup ms]
  /\ UNCHANGED received

Placed(ms, buffers, rest, reqs) ==
  \/ /\ ms = {} /\ net' = rest /\ queued' = buffers
     /\ UNCHANGED received
  \/ \E j \in Idx : \/ Given(j, ms, buffers, rest)
                    \/ Posted(j, ms, buffers, rest)
                    \/ Kept(j, ms, buffers, rest, reqs)

LEMMA LastKnownType ==
  ASSUME TypeOK, NEW pe \in PE, NEW i \in Idx
  PROVE  LastKnown(pe, i) \in PE
  <1>1. cache[pe] \in [Idx -> PE \cup {None}] /\ Home[i] \in PE
    BY InterceptorAssumption DEF TypeOK
  <1> QED  BY <1>1 DEF LastKnown

LEMMA DeliverPlaces ==
  ASSUME TypeOK, NEW pe \in PE, NEW i, NEW ms, NEW immediate, NEW reqs, NEW buffers, NEW rest,
         Deliver(pe, i, ms, immediate, reqs, buffers, rest)
  PROVE  \/ /\ aborted' = "endless recursion"
            /\ net' = rest /\ queued' = buffers /\ UNCHANGED received
         \/ /\ UNCHANGED aborted
            /\ Placed(ms, buffers, rest, reqs)
  <1>1. CASE /\ ms = {} /\ net' = rest /\ queued' = buffers
             /\ UNCHANGED <<received, aborted>>
    BY <1>1 DEF Placed
  <1>2. CASE /\ ms # {} /\ Circular(pe, i, reqs)
             /\ aborted' = "endless recursion"
             /\ net' = rest /\ queued' = buffers
             /\ UNCHANGED received
    BY <1>2
  <1>3. CASE /\ ms # {} /\ ~Circular(pe, i, reqs)
             /\ Route(pe, Dealias(pe, i, reqs), ms, immediate, buffers, rest)
             /\ UNCHANGED aborted
    <2> DEFINE j == Dealias(pe, i, reqs)
    <2>1. j \in Idx /\ ~Forwarded(pe, j, reqs)
      BY <1>3, LastNameFacts
    <2>2. LastKnown(pe, j) \in PE
      <3> HIDE DEF j
      <3> QED  BY <2>1, LastKnownType
    <2>3. Route(pe, j, ms, immediate, buffers, rest) /\ UNCHANGED aborted
      BY <1>3
    <2> HIDE DEF j
    <2>4. CASE Given(j, ms, buffers, rest)
      BY <2>1, <2>3, <2>4 DEF Placed
    <2>5. CASE Posted(j, ms, buffers, rest)
      BY <2>1, <2>3, <2>5 DEF Placed
    <2>6. CASE Kept(j, ms, buffers, rest, reqs)
      BY <2>1, <2>3, <2>6 DEF Placed
    <2>7. Given(j, ms, buffers, rest) \/ Posted(j, ms, buffers, rest)
          \/ Kept(j, ms, buffers, rest, reqs)
      BY <2>1, <2>2, <2>3 DEF Route, Given, Posted, Kept, Forwarded
    <2> QED  BY <2>4, <2>5, <2>6, <2>7
  <1> QED  BY <1>1, <1>2, <1>3 DEF Deliver

\* Where the messages are after that: those of ms in one place, the others
\* where they were.
LEMMA PlacedInHand ==
  ASSUME TypeOK, NEW ms \in SUBSET Msgs, NEW buffers \in [Idx -> SUBSET Msgs], NEW rest, NEW reqs,
         Placed(ms, buffers, rest, reqs),
         NEW m \in ms,
         ParcelsOf(m, rest) = {}, BuffersOf(m, buffers) = {}, received[m] = None
  PROVE  (InNet(m) \/ InBuffer(m) \/ Taken(m))'
  <1>1. m \in Msgs
    OBVIOUS
  <1>2. PICK j \in Idx : \/ Given(j, ms, buffers, rest)
                         \/ Posted(j, ms, buffers, rest)
                         \/ Kept(j, ms, buffers, rest, reqs)
    BY DEF Placed
  <1>3. CASE Given(j, ms, buffers, rest)
    <2>1. received'[m] = j /\ j # None
      BY <1>1, <1>3, InterceptorAssumption DEF Given
    <2> QED  BY <1>3, <2>1 DEF Given, Taken
  <1>4. CASE Posted(j, ms, buffers, rest)
    <2>1. PICK at \in PE : net' = rest \cup {Parcel(at, j, n) : n \in ms}
      BY <1>4 DEF Posted
    <2>2. ParcelsOf(m, net') = {Parcel(at, j, m)}
      BY <2>1 DEF ParcelsOf, Parcel
    <2> QED  BY <1>4, <2>2 DEF Posted, InNet
  <1>5. CASE Kept(j, ms, buffers, rest, reqs)
    <2>1. BuffersOf(m, queued') = {j}
      BY <1>5 DEF Kept, BuffersOf
    <2> QED  BY <1>5, <2>1 DEF Kept, InBuffer
  <1> QED  BY <1>2, <1>3, <1>4, <1>5

LEMMA PlacedOther ==
  ASSUME TypeOK, NEW ms \in SUBSET Msgs, NEW buffers \in [Idx -> SUBSET Msgs], NEW rest, NEW reqs,
         Placed(ms, buffers, rest, reqs),
         NEW m \in Msgs \ ms
  PROVE  /\ ParcelsOf(m, net') = ParcelsOf(m, rest)
         /\ BuffersOf(m, queued') = BuffersOf(m, buffers)
         /\ received'[m] = received[m]
  <1>1. CASE /\ ms = {} /\ net' = rest /\ queued' = buffers
             /\ UNCHANGED received
    BY <1>1
  <1>2. ASSUME NEW j \in Idx, Given(j, ms, buffers, rest)
        PROVE  /\ ParcelsOf(m, net') = ParcelsOf(m, rest)
               /\ BuffersOf(m, queued') = BuffersOf(m, buffers)
               /\ received'[m] = received[m]
    BY <1>2 DEF Given
  <1>3. ASSUME NEW j \in Idx, Posted(j, ms, buffers, rest)
        PROVE  /\ ParcelsOf(m, net') = ParcelsOf(m, rest)
               /\ BuffersOf(m, queued') = BuffersOf(m, buffers)
               /\ received'[m] = received[m]
    BY <1>3 DEF Posted, ParcelsOf, Parcel
  <1>4. ASSUME NEW j \in Idx, Kept(j, ms, buffers, rest, reqs)
        PROVE  /\ ParcelsOf(m, net') = ParcelsOf(m, rest)
               /\ BuffersOf(m, queued') = BuffersOf(m, buffers)
               /\ received'[m] = received[m]
    BY <1>4 DEF Kept, BuffersOf
  <1> QED  BY <1>1, <1>2, <1>3, <1>4 DEF Placed

\* What can be routed: messages in hand, and the other messages in buffers and
\* in transit.  No buffer is behind a record.
Routable(ms, buffers, rest, reqs) ==
  /\ ms \in SUBSET Msgs
  /\ buffers \in [Idx -> SUBSET Msgs]
  /\ rest \subseteq Packets
  /\ reqs \in [Idx -> Idx \cup {None}]
  /\ \A j \in Idx : buffers[j] # {} => reqs[j] = None

\* What routing leaves alone, and the types of what it does not.
LEMMA PlacedTypes ==
  ASSUME TypeOK, NEW ms, NEW buffers, NEW rest, NEW reqs,
         Routable(ms, buffers, rest, reqs),
         Placed(ms, buffers, rest, reqs)
  PROVE  /\ net' \subseteq Packets
         /\ queued' \in [Idx -> SUBSET Msgs]
         /\ received' \in [Msgs -> Idx \cup {None}]
         /\ \A i \in Idx : queued'[i] # buffers[i] => reqs[i] = None
  <1>1. /\ received \in [Msgs -> Idx \cup {None}]
        /\ ms \in SUBSET Msgs /\ buffers \in [Idx -> SUBSET Msgs] /\ rest \subseteq Packets
    BY DEF TypeOK, Routable
  <1>2. CASE /\ ms = {} /\ net' = rest /\ queued' = buffers
             /\ UNCHANGED received
    BY <1>1, <1>2
  <1>3. ASSUME NEW j \in Idx, Given(j, ms, buffers, rest)
        PROVE  /\ net' \subseteq Packets
               /\ queued' \in [Idx -> SUBSET Msgs]
               /\ received' \in [Msgs -> Idx \cup {None}]
               /\ \A i \in Idx : queued'[i] # buffers[i] => reqs[i] = None
    BY <1>1, <1>3 DEF Given
  <1>4. ASSUME NEW j \in Idx, Posted(j, ms, buffers, rest)
        PROVE  /\ net' \subseteq Packets
               /\ queued' \in [Idx -> SUBSET Msgs]
               /\ received' \in [Msgs -> Idx \cup {None}]
               /\ \A i \in Idx : queued'[i] # buffers[i] => reqs[i] = None
    BY <1>1, <1>4 DEF Posted, Parcel, Packets
  <1>5. ASSUME NEW j \in Idx, Kept(j, ms, buffers, rest, reqs)
        PROVE  /\ net' \subseteq Packets
               /\ queued' \in [Idx -> SUBSET Msgs]
               /\ received' \in [Msgs -> Idx \cup {None}]
               /\ \A i \in Idx : queued'[i] # buffers[i] => reqs[i] = None
    BY <1>1, <1>5 DEF Kept
  <1> QED  BY <1>2, <1>3, <1>4, <1>5 DEF Placed

\* Counting the difference of two sets of buffered messages.
LEMMA QdStep ==
  ASSUME QdOK, CountQd
  PROVE  QdOK'
  <1> DEFINE B == Buffered(queued)
             C == Buffered(queued')
  <1>1. IsFiniteSet(Idx \X Msgs)
    BY FS_Product, InterceptorAssumption
  <1>2. B \subseteq Idx \X Msgs /\ C \subseteq Idx \X Msgs
    BY DEF Buffered
  <1>3. IsFiniteSet(B) /\ IsFiniteSet(C)
    BY <1>1, <1>2, FS_Subset
  <1>4. qd = Cardinality(B) /\ qd' = qd + Cardinality(C \ B) - Cardinality(B \ C)
    BY DEF QdOK, CountQd
  <1>5. QdOK' <=> qd' = Cardinality(C)
    BY DEF QdOK, Buffered
  <1> HIDE DEF B, C
  <1>6. /\ Cardinality(C \ B) = Cardinality(C) - Cardinality(C \cap B)
        /\ Cardinality(B \ C) = Cardinality(B) - Cardinality(B \cap C)
    BY <1>3, FS_Difference
  <1>7. /\ Cardinality(B) \in Nat /\ Cardinality(C) \in Nat
        /\ Cardinality(C \cap B) \in Nat
    BY <1>3, FS_CardinalityType, FS_Intersection
  <1>8. C \cap B = B \cap C
    OBVIOUS
  <1> DEFINE b == Cardinality(B)
             c == Cardinality(C)
             d == Cardinality(B \cap C)
  <1>9. qd' = b + (c - d) - (b - d) /\ b \in Nat /\ c \in Nat /\ d \in Nat
    BY <1>4, <1>6, <1>7, <1>8
  <1> HIDE DEF b, c, d
  <1>10. qd' = c
    BY <1>9
  <1> QED  BY <1>5, <1>10 DEF c

LEMMA BufferedCount ==
  ASSUME NEW buffers
  PROVE  Cardinality(Buffered(buffers)) \in Nat
  <1>1. IsFiniteSet(Idx \X Msgs)
    BY FS_Product, InterceptorAssumption
  <1>2. Buffered(buffers) \subseteq Idx \X Msgs
    BY DEF Buffered
  <1> QED  BY <1>1, <1>2, FS_Subset, FS_CardinalityType

-----------------------------------------------------------------------------
\* The steps.

LEMMA SamePlace ==
  ASSUME NEW m, OnePlace(m),
         ParcelsOf(m, net') = ParcelsOf(m, net),
         BuffersOf(m, queued') = BuffersOf(m, queued),
         received'[m] = received[m],
         m \in sent' <=> m \in sent
  PROVE  OnePlace(m)'
  BY DEF OnePlace, InNet, InBuffer, Taken, Nowhere

\* The messages ms have been taken from where they were, the others not.
Lifted(ms, buffers, rest, sentNow) ==
  /\ \A m \in ms : /\ ParcelsOf(m, rest) = {}
                   /\ BuffersOf(m, buffers) = {}
                   /\ received[m] = None
                   /\ m \in sentNow
  /\ \A m \in Msgs \ ms : /\ ParcelsOf(m, rest) = ParcelsOf(m, net)
                          /\ BuffersOf(m, buffers) = BuffersOf(m, queued)
                          /\ m \in sentNow <=> m \in sent

\* A step that routes the messages ms.
LEMMA DeliverStep ==
  ASSUME Inv, Running,
         NEW pe \in PE, NEW i, NEW ms, NEW immediate, NEW reqs, NEW buffers, NEW rest,
         Deliver(pe, i, ms, immediate, reqs, buffers, rest),
         CountQd, UNCHANGED <<elementVars, heirs>>, fwdReqs' = reqs, sent' \subseteq Msgs,
         Routable(ms, buffers, rest, reqs),
         Lifted(ms, buffers, rest, sent')
  PROVE  Inv'
  <1>1. TypeOK /\ ParentsOK /\ QdOK /\ ForwardedNotBuffered /\ \A m \in Msgs : OnePlace(m)
    BY DEF Inv
  <1>2. \/ /\ aborted' = "endless recursion"
           /\ net' = rest /\ queued' = buffers /\ UNCHANGED received
        \/ /\ UNCHANGED aborted
           /\ Placed(ms, buffers, rest, reqs)
    BY <1>1, DeliverPlaces
  <1>3. /\ net' \subseteq Packets
        /\ queued' \in [Idx -> SUBSET Msgs]
        /\ received' \in [Msgs -> Idx \cup {None}]
        /\ \A j \in Idx : queued'[j] # buffers[j] => reqs[j] = None
    <2>1. CASE /\ net' = rest /\ queued' = buffers /\ UNCHANGED received
      BY <1>1, <2>1 DEF TypeOK, Routable
    <2>2. CASE Placed(ms, buffers, rest, reqs)
      BY <1>1, <2>2, PlacedTypes
    <2>3. (net' = rest /\ queued' = buffers /\ UNCHANGED received) \/ Placed(ms, buffers, rest, reqs)
      BY <1>2
    <2> QED  BY <2>1, <2>2, <2>3
  <1>4. QdOK'
    BY <1>1, QdStep
  <1>5. qd' \in Int
    BY <1>4, BufferedCount DEF QdOK
  <1>6. aborted' \in {"none", "endless recursion"}
    BY <1>2 DEF Running
  <1>7. TypeOK'
    BY <1>1, <1>3, <1>5, <1>6 DEF TypeOK, Packets, elementVars, Routable
  <1>8. ParentsOK'
    BY <1>1 DEF ParentsOK, elementVars
  <1>9. ForwardedNotBuffered'
    BY <1>3 DEF ForwardedNotBuffered, Routable
  <1>10. ASSUME Running', NEW m \in Msgs
         PROVE  OnePlace(m)'
    <2>1. Placed(ms, buffers, rest, reqs)
      BY <1>2, <1>10 DEF Running
    <2>2. CASE m \in ms
      <3>1. (InNet(m) \/ InBuffer(m) \/ Taken(m))'
        BY <1>1, <2>1, <2>2, PlacedInHand DEF Routable, Lifted
      <3> QED  BY <2>2, <3>1 DEF OnePlace, Lifted
    <2>3. CASE m \notin ms
      <3>1. /\ ParcelsOf(m, net') = ParcelsOf(m, net)
            /\ BuffersOf(m, queued') = BuffersOf(m, queued)
            /\ received'[m] = received[m]
            /\ m \in sent' <=> m \in sent
        BY <1>1, <2>1, <2>3, PlacedOther DEF Routable, Lifted
      <3> QED  BY <1>1, <3>1, SamePlace
    <2> QED  BY <2>2, <2>3
  <1> QED  BY <1>4, <1>7, <1>8, <1>9, <1>10 DEF Inv

LEMMA SendStep ==
  ASSUME Inv, NEW m \in Msgs, NEW pe \in PE, Send(m, pe)
  PROVE  Inv'
  <1>1. TypeOK /\ ForwardedNotBuffered /\ Running /\ \A n \in Msgs : OnePlace(n)
    BY DEF Inv, Send
  <1>2. /\ Deliver(pe, Target[m], {m}, FALSE, fwdReqs, queued, net)
        /\ CountQd /\ UNCHANGED <<elementVars, heirs>> /\ fwdReqs' = fwdReqs
        /\ sent' = sent \cup {m} /\ m \notin sent
    BY DEF Send
  <1>3. Routable({m}, queued, net, fwdReqs)
    BY <1>1 DEF Routable, TypeOK, Packets, ForwardedNotBuffered
  <1>4. /\ ParcelsOf(m, net) = {} /\ BuffersOf(m, queued) = {} /\ received[m] = None
    BY <1>1, <1>2 DEF OnePlace, Nowhere
  <1>5. Lifted({m}, queued, net, sent')
    BY <1>2, <1>4 DEF Lifted
  <1>6. sent' \subseteq Msgs
    BY <1>1, <1>2 DEF TypeOK
  <1> QED  BY <1>1, <1>2, <1>3, <1>5, <1>6, DeliverStep

LEMMA ArriveStep ==
  ASSUME Inv, NEW p \in net, Arrive(p)
  PROVE  Inv'
  <1>1. TypeOK /\ ForwardedNotBuffered /\ Running /\ \A n \in Msgs : OnePlace(n)
    BY DEF Inv, Arrive
  <1>2. /\ p.kind = "deliver"
        /\ Deliver(p.at, p.idx, {p.m}, TRUE, fwdReqs, queued, net \ {p})
        /\ CountQd /\ UNCHANGED <<elementVars, heirs>> /\ fwdReqs' = fwdReqs
        /\ sent' = sent
    BY DEF Arrive
  <1>3. p.at \in PE /\ p.m \in Msgs
    BY <1>1, <1>2, PacketForm
  <1>4. Routable({p.m}, queued, net \ {p}, fwdReqs)
    BY <1>1, <1>3 DEF Routable, TypeOK, Packets, ForwardedNotBuffered
  <1>5. p \in ParcelsOf(p.m, net)
    BY <1>2 DEF ParcelsOf
  <1>6. InNet(p.m) /\ p.m \in sent
    BY <1>1, <1>3, <1>5 DEF OnePlace, InBuffer, Taken, Nowhere
  <1>7. ParcelsOf(p.m, net) = {p}
    BY <1>5, <1>6 DEF InNet
  <1>8. ParcelsOf(p.m, net \ {p}) = {}
    BY <1>7 DEF ParcelsOf
  <1>9. ASSUME NEW n \in Msgs \ {p.m}
        PROVE  ParcelsOf(n, net \ {p}) = ParcelsOf(n, net)
    BY <1>9 DEF ParcelsOf
  <1>10. BuffersOf(p.m, queued) = {} /\ received[p.m] = None
    BY <1>6 DEF InNet
  <1>11. Lifted({p.m}, queued, net \ {p}, sent')
    BY <1>2, <1>6, <1>8, <1>9, <1>10 DEF Lifted
  <1>12. sent' \subseteq Msgs
    BY <1>1, <1>2 DEF TypeOK
  <1> QED  BY <1>1, <1>2, <1>3, <1>4, <1>11, <1>12, DeliverStep

\* A step that moves no message.
LEMMA QuietStep ==
  ASSUME Inv, UNCHANGED <<queued, sent, received, qd>>, Running' => Running,
         \A m \in Msgs : ParcelsOf(m, net') = ParcelsOf(m, net),
         TypeOK', ParentsOK', ForwardedNotBuffered'
  PROVE  Inv'
  <1>1. QdOK'
    BY DEF Inv, QdOK, Buffered
  <1>2. ASSUME Running', NEW m \in Msgs
        PROVE  OnePlace(m)'
    <2>1. OnePlace(m)
      BY <1>2 DEF Inv
    <2> QED  BY <1>2, <2>1, SamePlace
  <1> QED  BY <1>1, <1>2 DEF Inv

LEMMA AbortStep ==
  ASSUME Inv, Abort("duplicate forwarding request")
  PROVE  Inv'
  <1>1. TypeOK' /\ ParentsOK' /\ ForwardedNotBuffered'
    BY DEF Inv, Abort, TypeOK, ParentsOK, ForwardedNotBuffered, elementVars
  <1>2. ~Running'
    BY DEF Abort, Running
  <1> QED  BY <1>1, <1>2, QuietStep DEF Abort

LEMMA ForwardStep ==
  ASSUME Inv, NEW p \in net, Forward(p)
  PROVE  Inv'
  <1>1. TypeOK /\ ParentsOK /\ ForwardedNotBuffered /\ Running /\ \A n \in Msgs : OnePlace(n)
    BY DEF Inv, Forward
  <1>2. p.kind = "forward" /\ p \in Packets /\ p.at \in PE /\ p.idx \in Idx /\ p.to \in Idx
    BY <1>1, PacketForm DEF Forward
  <1>3. CASE /\ Home[p.idx] # p.at
             /\ net' = (net \ {p}) \cup {[p EXCEPT !.at = Home[p.idx]]}
             /\ UNCHANGED <<elementVars, fwdReqs, queued, sent, received, qd, heirs, aborted>>
    <2> DEFINE q == [p EXCEPT !.at = Home[p.idx]]
    <2>1. q \in Packets /\ q.kind = "forward"
      BY <1>2, InterceptorAssumption DEF Packets
    <2>2. net' = (net \ {p}) \cup {q}
      BY <1>3
    <2> HIDE DEF q
    <2>3. \A m \in Msgs : ParcelsOf(m, net') = ParcelsOf(m, net)
      BY <1>2, <2>1, <2>2 DEF ParcelsOf
    <2>4. TypeOK'
      BY <1>1, <1>3, <2>1, <2>2 DEF TypeOK, Packets, elementVars
    <2>5. ParentsOK' /\ ForwardedNotBuffered'
      BY <1>1, <1>3 DEF ParentsOK, ForwardedNotBuffered, elementVars
    <2> QED  BY <1>3, <2>3, <2>4, <2>5, QuietStep DEF Running
  <1>4. CASE Abort("duplicate forwarding request")
    BY <1>4, AbortStep
  <1>5. CASE /\ fwdReqs[p.idx] = None
             /\ fwdReqs' = [fwdReqs EXCEPT ![p.idx] = p.to]
             /\ Resend(p, [fwdReqs EXCEPT ![p.idx] = p.to])
             /\ CountQd
             /\ UNCHANGED <<elementVars, sent, heirs>>
    <2> DEFINE reqs == [fwdReqs EXCEPT ![p.idx] = p.to]
               ms == queued[p.idx]
               buffers == [queued EXCEPT ![p.idx] = {}]
               rest == net \ {p}
    <2>1. Deliver(p.at, p.idx, ms, TRUE, reqs, buffers, rest)
      BY <1>5 DEF Resend
    <2>2. Routable(ms, buffers, rest, reqs)
      BY <1>1, <1>2 DEF Routable, TypeOK, Packets, ForwardedNotBuffered
    <2>3. ASSUME NEW m \in ms
          PROVE  ParcelsOf(m, rest) = {} /\ BuffersOf(m, buffers) = {} /\ received[m] = None /\ m \in sent
      <3>1. m \in Msgs /\ p.idx \in BuffersOf(m, queued)
        BY <1>1, <1>2, <2>3 DEF TypeOK, BuffersOf
      <3>2. InBuffer(m) /\ m \in sent
        BY <1>1, <3>1 DEF OnePlace, InNet, Taken, Nowhere
      <3>3. ParcelsOf(m, net) = {} /\ BuffersOf(m, queued) = {p.idx} /\ received[m] = None
        BY <3>1, <3>2 DEF InBuffer
      <3>4. ParcelsOf(m, rest) = {}
        BY <3>3 DEF ParcelsOf
      <3>5. BuffersOf(m, buffers) = {}
        BY <1>1, <3>3 DEF TypeOK, BuffersOf
      <3> QED  BY <3>2, <3>3, <3>4, <3>5
    <2>4. ASSUME NEW m \in Msgs \ ms
          PROVE  ParcelsOf(m, rest) = ParcelsOf(m, net) /\ BuffersOf(m, buffers) = BuffersOf(m, queued)
      BY <1>1, <1>2, <2>4 DEF TypeOK, ParcelsOf, BuffersOf
    <2>5. sent' = sent /\ sent' \subseteq Msgs /\ fwdReqs' = reqs
      BY <1>1, <1>5 DEF TypeOK
    <2> HIDE DEF reqs, ms, buffers, rest
    <2>6. Lifted(ms, buffers, rest, sent')
      BY <2>3, <2>4, <2>5 DEF Lifted
    <2>7. CountQd /\ UNCHANGED <<elementVars, heirs>>
      BY <1>5
    <2> QED  BY <1>1, <1>2, <2>1, <2>2, <2>5, <2>6, <2>7, DeliverStep
  <1> QED  BY <1>3, <1>4, <1>5 DEF Forward

LEMMA StopStep ==
  ASSUME Inv, NEW p \in net, StopForwarding(p)
  PROVE  Inv'
  <1>1. TypeOK /\ ParentsOK /\ ForwardedNotBuffered
    BY DEF Inv
  <1>2. \A m \in Msgs : ParcelsOf(m, net') = ParcelsOf(m, net)
    BY DEF StopForwarding, ParcelsOf
  <1>3. TypeOK' /\ ParentsOK' /\ ForwardedNotBuffered'
    BY <1>1 DEF StopForwarding, TypeOK, ParentsOK, ForwardedNotBuffered, elementVars
  <1> QED  BY <1>2, <1>3, QuietStep DEF StopForwarding, Running

LEMMA CreateStep ==
  ASSUME Inv, NEW i \in Idx, NEW pe \in PE, NEW p \in Idx, Create(i, pe, p)
  PROVE  Inv'
  <1>1. TypeOK /\ ParentsOK /\ ForwardedNotBuffered
    BY DEF Inv
  <1>2. \/ UNCHANGED net
        \/ net' = net \cup {StopRequest(Home[i], i, lives[i])}
    BY DEF Create
  <1>3. Home[i] \in PE /\ lives[i] \in Nat
    BY <1>1, InterceptorAssumption DEF TypeOK
  <1>4. \A m \in Msgs : ParcelsOf(m, net') = ParcelsOf(m, net)
    BY <1>2 DEF ParcelsOf, StopRequest
  <1>5. net' \subseteq Packets
    <2>1. net \subseteq Packets
      BY <1>1 DEF TypeOK, Packets
    <2>2. StopRequest(Home[i], i, lives[i]) \in Packets
      BY <1>3 DEF StopRequest, Packets
    <2> QED  BY <1>2, <2>1, <2>2
  <1>6. /\ loc' \in [Idx -> PE \cup {None}]
        /\ lives' \in [Idx -> Nat]
        /\ up' \in [Idx -> Idx \cup {None}]
        /\ cache' \in [PE -> [Idx -> PE \cup {None}]]
    <2>1. /\ loc' = [loc EXCEPT ![i] = pe]
          /\ lives' = [lives EXCEPT ![i] = lives[i] + 1]
          /\ up' = [up EXCEPT ![i] = p]
          /\ cache' = [cache EXCEPT ![pe][i] = pe]
      BY DEF Create
    <2>2. lives' \in [Idx -> Nat]
      <3>1. lives \in [Idx -> Nat]
        BY <1>1 DEF TypeOK
      <3>2. lives[i] + 1 \in Nat
        BY <1>3
      <3> DEFINE n == lives[i] + 1
      <3>3. lives' = [lives EXCEPT ![i] = n] /\ n \in Nat
        BY <2>1, <3>2
      <3> HIDE DEF n
      <3> QED  BY <3>1, <3>3
    <2>3. loc' \in [Idx -> PE \cup {None}] /\ up' \in [Idx -> Idx \cup {None}]
      BY <1>1, <2>1 DEF TypeOK
    <2>4. cache' \in [PE -> [Idx -> PE \cup {None}]]
      BY <1>1, <2>1 DEF TypeOK
    <2> QED  BY <2>2, <2>3, <2>4
  <1>7. fwdReqs' = [fwdReqs EXCEPT ![i] = None] \/ UNCHANGED fwdReqs
    BY DEF Create
  <1>8. fwdReqs' \in [Idx -> Idx \cup {None}]
    BY <1>1, <1>7 DEF TypeOK
  <1>9. UNCHANGED <<moves, queued, sent, received, qd, heirs, aborted>>
    BY DEF Create
  <1>10. TypeOK'
    BY <1>1, <1>5, <1>6, <1>8, <1>9 DEF TypeOK, Packets
  <1>11. ParentsOK'
    BY <1>1, InterceptorAssumption DEF ParentsOK, TypeOK, Create
  <1>12. ForwardedNotBuffered'
    BY <1>1, <1>7, <1>9 DEF ForwardedNotBuffered, TypeOK
  <1> QED  BY <1>4, <1>9, <1>10, <1>11, <1>12, QuietStep DEF Running

LEMMA DestroyStep ==
  ASSUME Inv, NEW i \in Idx, Destroy(i)
  PROVE  Inv'
  <1>1. TypeOK /\ ParentsOK /\ ForwardedNotBuffered
    BY DEF Inv
  <1>2. loc[i] \in PE /\ lives[i] \in Nat /\ up[i] \in Idx
    BY <1>1 DEF TypeOK, ParentsOK, Destroy
  <1>3. \/ UNCHANGED <<net, heirs>>
        \/ /\ net' = net \cup {ForwardRequest(loc[i], i, up[i], lives[i])}
           /\ heirs' = heirs \cup {<<a, up[i]>> : a \in {i} \cup {x \in Idx : <<x, i>> \in heirs}}
    BY DEF Destroy
  <1>4. \A m \in Msgs : ParcelsOf(m, net') = ParcelsOf(m, net)
    BY <1>3 DEF ParcelsOf, ForwardRequest
  <1>5. net' \subseteq Packets
    <2>1. net \subseteq Packets
      BY <1>1 DEF TypeOK, Packets
    <2>2. ForwardRequest(loc[i], i, up[i], lives[i]) \in Packets
      BY <1>2 DEF ForwardRequest, Packets
    <2> QED  BY <1>3, <2>1, <2>2
  <1>6. heirs' \subseteq Idx \X Idx
    <2>1. heirs \subseteq Idx \X Idx
      BY <1>1 DEF TypeOK
    <2>2. {<<a, up[i]>> : a \in {i} \cup {x \in Idx : <<x, i>> \in heirs}} \subseteq Idx \X Idx
      <3> DEFINE A == {i} \cup {x \in Idx : <<x, i>> \in heirs}
      <3>1. A \subseteq Idx
        OBVIOUS
      <3> HIDE DEF A
      <3>2. \A a \in A : <<a, up[i]>> \in Idx \X Idx
        BY <1>2, <3>1
      <3>3. {<<a, up[i]>> : a \in A} \subseteq Idx \X Idx
        BY <3>2
      <3> QED  BY <3>3 DEF A
    <2> QED  BY <1>3, <2>1, <2>2
  <1>7. /\ loc' \in [Idx -> PE \cup {None}]
        /\ up' \in [Idx -> Idx \cup {None}]
        /\ cache' \in [PE -> [Idx -> PE \cup {None}]]
    BY <1>1, <1>2 DEF TypeOK, Destroy
  <1>8. UNCHANGED <<lives, moves, fwdReqs, queued, sent, received, qd, aborted>>
    BY DEF Destroy
  <1>9. TypeOK'
    BY <1>1, <1>5, <1>6, <1>7, <1>8 DEF TypeOK, Packets
  <1>10. ParentsOK'
    BY <1>1, <1>2, InterceptorAssumption DEF ParentsOK, TypeOK, Destroy
  <1>11. ForwardedNotBuffered'
    BY <1>1, <1>8 DEF ForwardedNotBuffered
  <1> QED  BY <1>4, <1>8, <1>9, <1>10, <1>11, QuietStep DEF Running

LEMMA MigrateStep ==
  ASSUME Inv, NEW i \in Idx, NEW pe \in PE, Migrate(i, pe)
  PROVE  Inv'
  <1>1. TypeOK /\ ParentsOK /\ ForwardedNotBuffered
    BY DEF Inv
  <1>2. TypeOK'
    <2>1. loc[i] \in PE
      BY <1>1 DEF TypeOK, Migrate
    <2>2. cache' = [cache EXCEPT ![loc[i]][i] = pe, ![pe][i] = pe]
      BY DEF Migrate
    <2>3. cache' \in [PE -> [Idx -> PE \cup {None}]]
      BY <1>1, <2>1, <2>2 DEF TypeOK
    <2>4. loc' \in [Idx -> PE \cup {None}]
      BY <1>1 DEF TypeOK, Migrate
    <2>5. moves' \in Nat
      <3>1. moves \in Nat /\ moves' = moves + 1
        BY <1>1 DEF TypeOK, Migrate
      <3> QED  BY <3>1
    <2> QED  BY <1>1, <2>3, <2>4, <2>5 DEF TypeOK, Migrate
  <1>3. ParentsOK' /\ ForwardedNotBuffered'
    BY <1>1 DEF ParentsOK, ForwardedNotBuffered, Migrate, TypeOK
  <1> QED  BY <1>2, <1>3, QuietStep DEF Migrate, Running

LEMMA InformStep ==
  ASSUME Inv, NEW i \in Idx, NEW pe \in PE, Inform(i, pe)
  PROVE  Inv'
  <1>1. TypeOK /\ ParentsOK /\ ForwardedNotBuffered
    BY DEF Inv
  <1>2. TypeOK'
    BY <1>1 DEF TypeOK, Inform
  <1>3. ParentsOK' /\ ForwardedNotBuffered'
    BY <1>1 DEF ParentsOK, ForwardedNotBuffered, Inform
  <1> QED  BY <1>2, <1>3, QuietStep DEF Inform, Running

LEMMA InitInv == Init => Inv
  <1> SUFFICES ASSUME Init  PROVE Inv
    OBVIOUS
  <1>1. PICK pe \in PE : loc = [i \in Idx |-> IF i = Root THEN pe ELSE None]
    BY DEF Init
  <1>2. /\ loc \in [Idx -> PE \cup {None}]
        /\ cache \in [PE -> [Idx -> PE \cup {None}]]
        /\ net \subseteq Packets
    BY <1>1 DEF Init
  <1>3. TypeOK
    BY <1>2 DEF Init, TypeOK, Packets
  <1>4. ParentsOK
    BY <1>1 DEF ParentsOK
  <1>5. Buffered(queued) = {}
    BY DEF Init, Buffered
  <1>6. QdOK
    BY <1>5, FS_EmptySet DEF QdOK, Init
  <1>7. ForwardedNotBuffered
    BY DEF ForwardedNotBuffered, Init
  <1>8. \A m \in Msgs : OnePlace(m)
    BY DEF Init, OnePlace, Nowhere, ParcelsOf, BuffersOf
  <1> QED  BY <1>3, <1>4, <1>6, <1>7, <1>8 DEF Inv

LEMMA NextInv == Inv /\ [Next]_vars => Inv'
  <1> SUFFICES ASSUME Inv, [Next]_vars  PROVE Inv'
    OBVIOUS
  <1>1. CASE UNCHANGED vars
    <2>1. TypeOK' /\ ParentsOK' /\ ForwardedNotBuffered'
      BY <1>1 DEF Inv, vars, elementVars, TypeOK, ParentsOK, ForwardedNotBuffered
    <2> QED  BY <1>1, <2>1, QuietStep DEF vars, Running
  <1>2. CASE Next
    BY <1>2, SendStep, ArriveStep, ForwardStep, StopStep, CreateStep, DestroyStep, MigrateStep,
       InformStep DEF Next
  <1> QED  BY <1>1, <1>2

-----------------------------------------------------------------------------
\* What follows.

LEMMA CountedPlaces ==
  ASSUME Inv, Running, NEW m \in Msgs
  PROVE  Places(m) = IF m \in sent THEN 1 ELSE 0
  <1>1. /\ {p \in net : p.kind = "deliver" /\ p.m = m} = ParcelsOf(m, net)
        /\ {i \in Idx : m \in queued[i]} = BuffersOf(m, queued)
    BY DEF ParcelsOf, BuffersOf
  <1>2. Places(m) = Cardinality(ParcelsOf(m, net)) + Cardinality(BuffersOf(m, queued))
                    + (IF received[m] = None THEN 0 ELSE 1)
    BY <1>1 DEF Places
  <1>3. OnePlace(m)
    BY DEF Inv
  <1>4. Cardinality({}) = 0 /\ \A p : Cardinality({p}) = 1
    BY FS_EmptySet, FS_Singleton
  <1>5. CASE m \notin sent
    BY <1>2, <1>3, <1>4, <1>5 DEF OnePlace, Nowhere
  <1>6. CASE m \in sent /\ InNet(m)
    BY <1>2, <1>4, <1>6 DEF InNet
  <1>7. CASE m \in sent /\ InBuffer(m)
    <2>1. PICK i : BuffersOf(m, queued) = {i}
      BY <1>7 DEF InBuffer
    <2> QED  BY <1>2, <1>4, <1>7, <2>1 DEF InBuffer
  <1>8. CASE m \in sent /\ Taken(m)
    BY <1>2, <1>4, <1>8 DEF Taken
  <1> QED  BY <1>3, <1>5, <1>6, <1>7, <1>8 DEF OnePlace

LEMMA InvAlways == Spec => []Inv
  BY InitInv, NextInv, PTL DEF Spec

\* The types of the interceptors' state and of the requests between them.
THEOREM Types == Spec => []TypeOK
  <1>1. Inv => TypeOK
    BY DEF Inv
  <1> QED  BY <1>1, InvAlways, PTL

\* deliver() and resync_queue(): for any number of elements that come, move and
\* go, a message is in one place, and quiescence detection counts the buffered
\* ones.
THEOREM OneOfEach == Spec => []Conserved
  <1>1. Inv => Conserved
    BY CountedPlaces DEF Inv, Conserved, QdOK
  <1> QED  BY <1>1, InvAlways, PTL

\* forward() and deliver(): no message is buffered for an index with a record.
THEOREM NoneBehindARecord == Spec => []ForwardedNotBuffered
  <1>1. Inv => ForwardedNotBuffered
    BY DEF Inv
  <1> QED  BY <1>1, InvAlways, PTL

-----------------------------------------------------------------------------
(***************************************************************************)
(* When no element is created twice with the same index: records end at an *)
(* element that lives or has no heirs, so dealias() ends; each element     *)
(* asks once to be forwarded; and a message is only ever with an heir of   *)
(* its target.  `h' stands for heirs.                                      *)
(***************************************************************************)
Legal(m, i, h) == i = Target[m] \/ <<Target[m], i>> \in h

Held(packets, buffers, got, h) ==
  /\ \A p \in packets : p.kind = "deliver" => Legal(p.m, p.idx, h)
  /\ \A i \in Idx : \A m \in buffers[i] : Legal(m, i, h)
  /\ \A m \in Msgs : got[m] # None => Legal(m, got[m], h)

Requests(packets) == {p \in packets : p.kind = "forward"}

Recorded(packets, reqs, h) ==
  /\ \A i \in Idx : reqs[i] # None => <<i, reqs[i]>> \in h
  /\ \A p \in Requests(packets) : <<p.idx, p.to>> \in h /\ reqs[p.idx] = None
  /\ \A p, q \in Requests(packets) : p.idx = q.idx => p = q

\* The spanning tree: parents live, and no set of elements is only below itself.
TreeOK ==
  /\ \A i \in Idx : loc[i] # None => lives[i] > 0
  /\ \A c \in Idx : up[c] # None => loc[c] # None /\ loc[up[c]] # None
  /\ \A S \in SUBSET Idx : S # {} => \E c \in S : up[c] \notin S

\* Heirs succeed the dead, transitively, and not in a circle.
HeirsDead(h) == \A i, u \in Idx : <<i, u>> \in h => loc[i] = None /\ lives[i] > 0
HeirsTransitive(h) == \A i, j, k \in Idx : <<i, j>> \in h /\ <<j, k>> \in h => <<i, k>> \in h
HeirsEnd(h) == \A S \in SUBSET Idx : S # {} => \E j \in S : \A k \in S : <<j, k>> \notin h
HeirsOK == HeirsDead(heirs) /\ HeirsTransitive(heirs) /\ HeirsEnd(heirs)

OnceInv == /\ Inv /\ TreeOK /\ HeirsOK
           /\ Held(net, queued, received, heirs)
           /\ Recorded(net, fwdReqs, heirs)
           /\ Running

\* The records of a PE do not go in a circle, and lead to an heir.
LEMMA DealiasHeir ==
  ASSUME HeirsTransitive(heirs), HeirsEnd(heirs),
         NEW reqs \in [Idx -> Idx \cup {None}], NEW i \in Idx, NEW pe,
         \A j \in Idx : reqs[j] # None => <<j, reqs[j]>> \in heirs
  PROVE  /\ ~Circular(pe, i, reqs)
         /\ Dealias(pe, i, reqs) \in Idx
         /\ Dealias(pe, i, reqs) = i \/ <<i, Dealias(pe, i, reqs)>> \in heirs
  <1> DEFINE U == Unravelled(pe, i, reqs)
             S == {j \in Idx : j = i \/ <<i, j>> \in heirs}
  <1>1. \A j \in Idx : Forwarded(pe, j, reqs) => reqs[j] \in Idx /\ <<j, reqs[j]>> \in heirs
    BY DEF Forwarded
  <1>2. i \in U /\ U \in SUBSET Idx
    BY DEF Unravelled
  <1>3. \A j \in U : Forwarded(pe, j, reqs) => reqs[j] \in U
    BY <1>1 DEF Unravelled
  <1>4. U \subseteq S
    <2>1. i \in S /\ S \in SUBSET Idx
      OBVIOUS
    <2>2. \A k \in S : Forwarded(pe, k, reqs) => reqs[k] \in S
      BY <1>1 DEF HeirsTransitive
    <2> HIDE DEF S
    <2> QED  BY <2>1, <2>2 DEF Unravelled
  <1>5. LastNames(pe, i, reqs) = {j \in U : ~Forwarded(pe, j, reqs)}
    BY DEF LastNames
  <1> HIDE DEF U
  <1>6. PICK j \in U : \A k \in U : <<j, k>> \notin heirs
    BY <1>2 DEF HeirsEnd
  <1>7. j \in LastNames(pe, i, reqs)
    BY <1>1, <1>2, <1>3, <1>5, <1>6
  <1>8. Dealias(pe, i, reqs) \in LastNames(pe, i, reqs)
    BY <1>7 DEF Dealias
  <1>9. Dealias(pe, i, reqs) \in S
    BY <1>4, <1>5, <1>8
  <1> QED  BY <1>7, <1>9 DEF Circular

\* A step that routes the messages ms to the index i, or on to its heir.
LEMMA OnceDeliver ==
  ASSUME TypeOK, HeirsTransitive(heirs), HeirsEnd(heirs),
         NEW pe, NEW i \in Idx, NEW ms, NEW immediate, NEW reqs, NEW buffers, NEW rest,
         Deliver(pe, i, ms, immediate, reqs, buffers, rest),
         Routable(ms, buffers, rest, reqs),
         Held(rest, buffers, received, heirs),
         Recorded(rest, reqs, heirs),
         \A m \in ms : Legal(m, i, heirs)
  PROVE  /\ UNCHANGED aborted
         /\ Held(net', queued', received', heirs)
         /\ Recorded(net', reqs, heirs)
  <1> DEFINE j == Dealias(pe, i, reqs)
  <1>1. ~Circular(pe, i, reqs) /\ j \in Idx /\ (j = i \/ <<i, j>> \in heirs)
    BY DealiasHeir DEF Routable, Recorded
  <1>2. ms \in SUBSET Msgs /\ buffers \in [Idx -> SUBSET Msgs]
    BY DEF Routable
  <1>3. \A m \in ms : Legal(m, j, heirs)
    BY <1>1, <1>2, InterceptorAssumption DEF Legal, HeirsTransitive
  <1>4. CASE ms = {}
    BY <1>4 DEF Deliver
  <1>5. CASE ms # {}
    <2>1. Route(pe, j, ms, immediate, buffers, rest) /\ UNCHANGED aborted
      BY <1>1, <1>5 DEF Deliver
    <2> HIDE DEF j
    <2>2. \/ net' = rest
          \/ \E at : net' = rest \cup {Parcel(at, j, m) : m \in ms}
      BY <2>1 DEF Route
    <2>3. Requests(net') = Requests(rest)
      BY <2>2 DEF Requests, Parcel
    <2>4. Recorded(net', reqs, heirs)
      BY <2>3 DEF Recorded
    <2>5. \A p \in net' : p.kind = "deliver" => Legal(p.m, p.idx, heirs)
      BY <1>3, <2>2 DEF Held, Parcel
    <2>6. queued' = buffers \/ queued' = [buffers EXCEPT ![j] = @ \cup ms]
      BY <2>1 DEF Route
    <2>7. \A k \in Idx : \A m \in queued'[k] : Legal(m, k, heirs)
      BY <1>1, <1>2, <1>3, <2>6 DEF Held
    <2>8. \/ UNCHANGED received
          \/ received' = [m \in Msgs |-> IF m \in ms THEN j ELSE received[m]]
      BY <2>1 DEF Route
    <2>9. \A m \in Msgs : received'[m] # None => Legal(m, received'[m], heirs)
      BY <1>3, <2>8 DEF Held
    <2> QED  BY <2>1, <2>4, <2>5, <2>7, <2>9 DEF Held
  <1> QED  BY <1>4, <1>5

LEMMA TreeSame ==
  ASSUME TreeOK, HeirsOK, UNCHANGED <<elementVars, heirs>>
  PROVE  TreeOK' /\ HeirsOK'
  <1>1. loc' = loc /\ lives' = lives /\ up' = up /\ heirs' = heirs
    BY DEF elementVars
  <1> QED  BY <1>1 DEF TreeOK, HeirsOK, HeirsDead

LEMMA OnceSend ==
  ASSUME OnceInv, NEW m \in Msgs, NEW pe \in PE, Send(m, pe)
  PROVE  OnceInv'
  <1>1. TypeOK /\ ForwardedNotBuffered /\ HeirsTransitive(heirs) /\ HeirsEnd(heirs)
    BY DEF OnceInv, Inv, HeirsOK
  <1>2. Routable({m}, queued, net, fwdReqs)
    BY <1>1 DEF Routable, TypeOK, Packets, ForwardedNotBuffered
  <1>3. Target[m] \in Idx
    BY InterceptorAssumption
  <1>4. Deliver(pe, Target[m], {m}, FALSE, fwdReqs, queued, net)
    BY DEF Send
  <1>5. Held(net, queued, received, heirs) /\ Recorded(net, fwdReqs, heirs)
    BY DEF OnceInv
  <1>6. \A n \in {m} : Legal(n, Target[m], heirs)
    BY DEF Legal
  <1>7. /\ UNCHANGED aborted
        /\ Held(net', queued', received', heirs)
        /\ Recorded(net', fwdReqs, heirs)
    <2> DEFINE i == Target[m]
               ms == {m}
    <2>1. /\ i \in Idx /\ \A n \in ms : Legal(n, i, heirs)
          /\ Deliver(pe, i, ms, FALSE, fwdReqs, queued, net)
          /\ Routable(ms, queued, net, fwdReqs)
      BY <1>2, <1>3, <1>4, <1>6
    <2> HIDE DEF i, ms
    <2> QED  BY <1>1, <1>5, <2>1, OnceDeliver
  <1>8. fwdReqs' = fwdReqs /\ heirs' = heirs /\ UNCHANGED <<elementVars, heirs>>
    BY DEF Send
  <1>9. TreeOK' /\ HeirsOK'
    BY <1>8, TreeSame DEF OnceInv
  <1>10. Inv'
    BY SendStep DEF OnceInv
  <1> QED  BY <1>7, <1>8, <1>9, <1>10 DEF OnceInv, Running

LEMMA OnceArrive ==
  ASSUME OnceInv, NEW p \in net, Arrive(p)
  PROVE  OnceInv'
  <1>1. TypeOK /\ ForwardedNotBuffered /\ HeirsTransitive(heirs) /\ HeirsEnd(heirs)
    BY DEF OnceInv, Inv, HeirsOK
  <1>2. p.kind = "deliver" /\ p.idx \in Idx /\ p.m \in Msgs
    BY <1>1, PacketForm DEF Arrive
  <1>3. Routable({p.m}, queued, net \ {p}, fwdReqs)
    BY <1>1, <1>2 DEF Routable, TypeOK, Packets, ForwardedNotBuffered
  <1>4. Deliver(p.at, p.idx, {p.m}, TRUE, fwdReqs, queued, net \ {p})
    BY DEF Arrive
  <1>5. Held(net, queued, received, heirs) /\ Recorded(net, fwdReqs, heirs)
    BY DEF OnceInv
  <1>6. Held(net \ {p}, queued, received, heirs)
    BY <1>5 DEF Held
  <1>7. Recorded(net \ {p}, fwdReqs, heirs)
    BY <1>5 DEF Recorded, Requests
  <1>8. \A n \in {p.m} : Legal(n, p.idx, heirs)
    BY <1>2, <1>5 DEF Held
  <1>9. /\ UNCHANGED aborted
        /\ Held(net', queued', received', heirs)
        /\ Recorded(net', fwdReqs, heirs)
    BY <1>1, <1>2, <1>3, <1>4, <1>6, <1>7, <1>8, OnceDeliver
  <1>10. fwdReqs' = fwdReqs /\ heirs' = heirs /\ UNCHANGED <<elementVars, heirs>>
    BY DEF Arrive
  <1>11. TreeOK' /\ HeirsOK'
    BY <1>10, TreeSame DEF OnceInv
  <1>12. Inv'
    BY ArriveStep DEF OnceInv
  <1> QED  BY <1>9, <1>10, <1>11, <1>12 DEF OnceInv, Running

LEMMA OnceForward ==
  ASSUME OnceInv, NEW p \in net, Forward(p)
  PROVE  OnceInv'
  <1>1. /\ TypeOK /\ ForwardedNotBuffered /\ TreeOK /\ HeirsOK
        /\ Held(net, queued, received, heirs) /\ Recorded(net, fwdReqs, heirs)
    BY DEF OnceInv, Inv
  <1>2. p.kind = "forward" /\ p \in Packets /\ p.at \in PE /\ p.idx \in Idx /\ p.to \in Idx
    BY <1>1, PacketForm DEF Forward
  <1>3. p \in Requests(net) /\ <<p.idx, p.to>> \in heirs /\ fwdReqs[p.idx] = None
    BY <1>1, <1>2 DEF Requests, Recorded
  <1>4. Inv'
    BY ForwardStep DEF OnceInv
  <1>5. CASE /\ Home[p.idx] # p.at
             /\ net' = (net \ {p}) \cup {[p EXCEPT !.at = Home[p.idx]]}
             /\ UNCHANGED <<elementVars, fwdReqs, queued, sent, received, qd, heirs, aborted>>
    <2> DEFINE q == [p EXCEPT !.at = Home[p.idx]]
    <2>1. q.kind = "forward" /\ q.idx = p.idx /\ q.to = p.to
      BY <1>2 DEF Packets
    <2>2. net' = (net \ {p}) \cup {q}
      BY <1>5
    <2> HIDE DEF q
    <2>3. Requests(net') = (Requests(net) \ {p}) \cup {q}
      BY <2>1, <2>2 DEF Requests
    <2>4. Recorded(net', fwdReqs, heirs)
      BY <1>1, <1>3, <2>1, <2>3 DEF Recorded
    <2>5. Held(net', queued, received, heirs)
      BY <1>1, <2>1, <2>2 DEF Held
    <2>6. TreeOK' /\ HeirsOK'
      BY <1>1, <1>5, TreeSame
    <2> QED  BY <1>4, <1>5, <2>4, <2>5, <2>6 DEF OnceInv, Running
  <1>6. CASE /\ fwdReqs' = [fwdReqs EXCEPT ![p.idx] = p.to]
             /\ Resend(p, [fwdReqs EXCEPT ![p.idx] = p.to])
             /\ UNCHANGED <<elementVars, sent, heirs>>
    <2> DEFINE reqs == [fwdReqs EXCEPT ![p.idx] = p.to]
               ms == queued[p.idx]
               buffers == [queued EXCEPT ![p.idx] = {}]
               rest == net \ {p}
    <2>1. Deliver(p.at, p.idx, ms, TRUE, reqs, buffers, rest)
      BY <1>6 DEF Resend
    <2>2. Routable(ms, buffers, rest, reqs)
      BY <1>1, <1>2 DEF Routable, TypeOK, Packets, ForwardedNotBuffered
    <2>3. Held(rest, buffers, received, heirs)
      <3>1. \A i \in Idx : buffers[i] \subseteq queued[i]
        BY <1>1 DEF TypeOK
      <3> HIDE DEF buffers
      <3> QED  BY <1>1, <3>1 DEF Held
    <2>4. Recorded(rest, reqs, heirs)
      <3>1. \A i \in Idx : reqs[i] # None => <<i, reqs[i]>> \in heirs
        BY <1>1, <1>3 DEF Recorded, TypeOK
      <3>2. Requests(rest) = Requests(net) \ {p}
        BY DEF Requests
      <3>3. \A q \in Requests(net) \ {p} : q.idx # p.idx /\ q.idx \in Idx
        BY <1>1, <1>3, PacketForm DEF Recorded, Requests
      <3>4. \A q \in Requests(net) \ {p} : reqs[q.idx] = fwdReqs[q.idx]
        BY <1>1, <3>3 DEF TypeOK
      <3> HIDE DEF reqs, rest
      <3> QED  BY <1>1, <3>1, <3>2, <3>4 DEF Recorded
    <2>5. \A m \in ms : Legal(m, p.idx, heirs)
      BY <1>1, <1>2 DEF Held
    <2>6. fwdReqs' = reqs /\ heirs' = heirs /\ UNCHANGED <<elementVars, heirs>>
      BY <1>6
    <2> HIDE DEF reqs, ms, buffers, rest
    <2>7. HeirsTransitive(heirs) /\ HeirsEnd(heirs)
      BY <1>1 DEF HeirsOK
    <2>8. /\ UNCHANGED aborted
          /\ Held(net', queued', received', heirs)
          /\ Recorded(net', reqs, heirs)
      BY <1>1, <1>2, <2>1, <2>2, <2>3, <2>4, <2>5, <2>7, OnceDeliver
    <2>9. TreeOK' /\ HeirsOK'
      BY <1>1, <2>6, TreeSame
    <2> QED  BY <1>4, <2>6, <2>8, <2>9 DEF OnceInv, Running
  <1> QED  BY <1>3, <1>5, <1>6 DEF Forward

LEMMA OnceStop ==
  ASSUME OnceInv, NEW p \in net, StopForwarding(p)
  PROVE  OnceInv'
  <1>1. /\ TypeOK /\ TreeOK /\ HeirsOK
        /\ Held(net, queued, received, heirs) /\ Recorded(net, fwdReqs, heirs)
    BY DEF OnceInv, Inv
  <1>2. p.kind = "stop" /\ p.idx \in Idx
    BY <1>1, PacketForm DEF StopForwarding
  <1>3. /\ net' = net \ {p} /\ fwdReqs' = [fwdReqs EXCEPT ![p.idx] = None]
        /\ queued' = queued /\ received' = received /\ heirs' = heirs /\ aborted' = aborted
        /\ UNCHANGED <<elementVars, heirs>>
    BY DEF StopForwarding
  <1>4. Requests(net') = Requests(net)
    BY <1>2, <1>3 DEF Requests
  <1>5. \A i \in Idx : fwdReqs'[i] \in {None, fwdReqs[i]}
    BY <1>1, <1>3 DEF TypeOK
  <1>6. \A q \in Requests(net) : q.idx \in Idx
    BY <1>1, PacketForm DEF Requests
  <1>7. Recorded(net', fwdReqs', heirs')
    BY <1>1, <1>3, <1>4, <1>5, <1>6 DEF Recorded
  <1>8. Held(net', queued', received', heirs')
    BY <1>1, <1>3 DEF Held
  <1>9. TreeOK' /\ HeirsOK'
    BY <1>1, <1>3, TreeSame
  <1>10. Inv'
    BY StopStep DEF OnceInv
  <1> QED  BY <1>3, <1>7, <1>8, <1>9, <1>10 DEF OnceInv, Running

LEMMA OnceCreate ==
  ASSUME OnceInv, MaxLives <= 1, NEW i \in Idx, NEW pe \in PE, NEW p \in Idx, Create(i, pe, p)
  PROVE  OnceInv'
  <1>1. /\ TypeOK /\ TreeOK /\ HeirsOK
        /\ Held(net, queued, received, heirs) /\ Recorded(net, fwdReqs, heirs)
    BY DEF OnceInv, Inv
  <1>2. /\ loc' = [loc EXCEPT ![i] = pe]
        /\ up' = [up EXCEPT ![i] = p]
        /\ lives' = [lives EXCEPT ![i] = lives[i] + 1]
        /\ loc[i] = None /\ p # i /\ loc[p] # None /\ lives[i] < MaxLives
        /\ queued' = queued /\ received' = received /\ heirs' = heirs /\ aborted' = aborted
    BY DEF Create
  <1>3. lives[i] = 0 /\ pe # None /\ i # None /\ p # None
    <2>1. lives[i] \in Nat /\ MaxLives \in Nat
      BY <1>1, InterceptorAssumption DEF TypeOK
    <2>2. lives[i] = 0
      BY <1>2, <2>1
    <2> QED  BY <2>2, InterceptorAssumption
  <1>4. lives' = [lives EXCEPT ![i] = 1]
    BY <1>2, <1>3
  <1>5. \A c \in Idx : up[c] # i
    BY <1>1, <1>2, <1>3 DEF TreeOK
  <1>6. TreeOK'
    <2>1. ASSUME NEW j \in Idx, loc'[j] # None
          PROVE  lives'[j] > 0
      <3>1. loc \in [Idx -> PE \cup {None}] /\ lives \in [Idx -> Nat]
        BY <1>1 DEF TypeOK
      <3>2. CASE j = i
        BY <1>4, <3>1, <3>2
      <3>3. CASE j # i
        <4>1. loc'[j] = loc[j] /\ lives'[j] = lives[j]
          BY <1>2, <1>4, <3>1, <3>3
        <4> QED  BY <1>1, <2>1, <4>1 DEF TreeOK
      <3> QED  BY <3>2, <3>3
    <2>2. ASSUME NEW c \in Idx, up'[c] # None
          PROVE  loc'[c] # None /\ loc'[up'[c]] # None
      <3>1. loc \in [Idx -> PE \cup {None}] /\ up \in [Idx -> Idx \cup {None}]
        BY <1>1 DEF TypeOK
      <3>2. CASE c = i
        BY <1>2, <1>3, <3>1, <3>2
      <3>3. CASE c # i
        <4>1. up'[c] = up[c] /\ up[c] \in Idx /\ up[c] # i
          BY <1>2, <1>5, <2>2, <3>1, <3>3
        <4>2. loc[c] # None /\ loc[up[c]] # None
          BY <1>1, <2>2, <4>1 DEF TreeOK
        <4> QED  BY <1>2, <3>1, <3>3, <4>1, <4>2
      <3> QED  BY <3>2, <3>3
    <2>3. ASSUME NEW S \in SUBSET Idx, S # {}
          PROVE  \E c \in S : up'[c] \notin S
      <3>1. CASE S = {i}
        BY <1>1, <1>2, <3>1 DEF TypeOK
      <3>2. CASE S # {i}
        <4>1. S \ {i} \in SUBSET Idx /\ S \ {i} # {}
          BY <2>3, <3>2
        <4>2. PICK c \in S \ {i} : up[c] \notin S \ {i}
          BY <1>1, <4>1 DEF TreeOK
        <4>3. up'[c] = up[c] /\ up[c] # i
          BY <1>1, <1>2, <1>5, <4>2 DEF TypeOK
        <4> QED  BY <4>2, <4>3
      <3> QED  BY <3>1, <3>2
    <2> QED  BY <2>1, <2>2, <2>3 DEF TreeOK
  <1>7. HeirsOK'
    <2>1. \A j, u \in Idx : <<j, u>> \in heirs => j # i
      BY <1>1, <1>3 DEF HeirsOK, HeirsDead
    <2>2. \A j, u \in Idx : <<j, u>> \in heirs => loc'[j] = None /\ lives'[j] > 0
      BY <1>1, <1>2, <2>1 DEF HeirsOK, HeirsDead, TypeOK
    <2> QED  BY <1>1, <1>2, <2>2 DEF HeirsOK, HeirsDead, HeirsTransitive, HeirsEnd
  <1>8. /\ net' = net \/ net' = net \cup {StopRequest(Home[i], i, lives[i])}
        /\ fwdReqs' = fwdReqs \/ fwdReqs' = [fwdReqs EXCEPT ![i] = None]
    BY DEF Create
  <1>9. Requests(net') = Requests(net)
    BY <1>8 DEF Requests, StopRequest
  <1>10. \A j \in Idx : fwdReqs'[j] \in {None, fwdReqs[j]}
    BY <1>1, <1>8 DEF TypeOK
  <1>11. \A q \in Requests(net) : q.idx \in Idx
    BY <1>1, PacketForm DEF Requests
  <1>12. Recorded(net', fwdReqs', heirs')
    BY <1>1, <1>2, <1>9, <1>10, <1>11 DEF Recorded
  <1>13. Held(net', queued', received', heirs')
    BY <1>1, <1>2, <1>8 DEF Held, StopRequest
  <1>14. Inv'
    BY CreateStep DEF OnceInv
  <1> QED  BY <1>2, <1>6, <1>7, <1>12, <1>13, <1>14 DEF OnceInv, Running

\* The parent u of the dying element i becomes the heir of i and of those that
\* i is an heir of.
LEMMA NewHeirs ==
  ASSUME TypeOK, TreeOK, HeirsOK, NEW i \in Idx, NEW u \in Idx, loc[i] # None, loc[u] # None, u # i,
         NEW h, h = heirs \cup {<<a, u>> : a \in {i} \cup {x \in Idx : <<x, i>> \in heirs}}
  PROVE  /\ HeirsTransitive(h) /\ HeirsEnd(h)
         /\ \A j, k \in Idx : <<j, k>> \in h => j = i \/ (loc[j] = None /\ lives[j] > 0)
  <1> DEFINE A == {i} \cup {x \in Idx : <<x, i>> \in heirs}
  <1>1. h = heirs \cup {<<a, u>> : a \in A}
    OBVIOUS
  <1>2. /\ i \in A /\ u \notin A
        /\ \A x \in Idx : x \in A <=> x = i \/ <<x, i>> \in heirs
    BY DEF HeirsOK, HeirsDead
  <1>3. \A j, k \in Idx : <<j, k>> \in heirs => loc[j] = None /\ lives[j] > 0
    BY DEF HeirsOK, HeirsDead
  <1> HIDE DEF A
  <1>4. \A j, k : <<j, k>> \in h <=> <<j, k>> \in heirs \/ (j \in A /\ k = u)
    BY <1>1
  <1>5. HeirsTransitive(h)
    <2> SUFFICES ASSUME NEW x \in Idx, NEW y \in Idx, NEW z \in Idx, <<x, y>> \in h, <<y, z>> \in h
                 PROVE  <<x, z>> \in h
      BY DEF HeirsTransitive
    <2>1. \A a, b, c \in Idx : <<a, b>> \in heirs /\ <<b, c>> \in heirs => <<a, c>> \in heirs
      BY DEF HeirsOK, HeirsTransitive
    <2>2. y # u
      BY <1>2, <1>3, <1>4
    <2>3. <<x, y>> \in heirs
      BY <1>4, <2>2
    <2>4. CASE <<y, z>> \in heirs
      BY <1>4, <2>1, <2>3, <2>4
    <2>5. CASE y \in A /\ z = u
      <3>1. x \in A
        BY <1>2, <2>1, <2>3, <2>5
      <3> QED  BY <1>4, <2>5, <3>1
    <2> QED  BY <1>4, <2>4, <2>5
  <1>6. HeirsEnd(h)
    <2> SUFFICES ASSUME NEW S \in SUBSET Idx, S # {}
                 PROVE  \E j \in S : \A k \in S : <<j, k>> \notin h
      BY DEF HeirsEnd
    <2>1. CASE u \in S
      <3>1. \A k \in S : <<u, k>> \notin h
        BY <1>2, <1>3, <1>4
      <3> QED  BY <2>1, <3>1
    <2>2. CASE u \notin S
      <3>1. PICK j \in S : \A k \in S : <<j, k>> \notin heirs
        BY DEF HeirsOK, HeirsEnd
      <3>2. \A k \in S : <<j, k>> \notin h
        BY <1>4, <2>2, <3>1
      <3> QED  BY <3>2
    <2> QED  BY <2>1, <2>2
  <1>7. \A j, k \in Idx : <<j, k>> \in h => j = i \/ (loc[j] = None /\ lives[j] > 0)
    BY <1>2, <1>3, <1>4
  <1> QED  BY <1>5, <1>6, <1>7

LEMMA OnceDestroy ==
  ASSUME OnceInv, NEW i \in Idx, Destroy(i)
  PROVE  OnceInv'
  <1>1. /\ TypeOK /\ ParentsOK /\ TreeOK /\ HeirsOK
        /\ Held(net, queued, received, heirs) /\ Recorded(net, fwdReqs, heirs)
    BY DEF OnceInv, Inv
  <1>2. /\ loc' = [loc EXCEPT ![i] = None]
        /\ up' = [c \in Idx |-> IF c = i THEN None ELSE IF up[c] = i THEN up[i] ELSE up[c]]
        /\ i # Root /\ loc[i] # None /\ lives' = lives
        /\ queued' = queued /\ received' = received /\ fwdReqs' = fwdReqs /\ aborted' = aborted
    BY DEF Destroy
  <1>3. loc \in [Idx -> PE \cup {None}] /\ up \in [Idx -> Idx \cup {None}] /\ None \notin Idx
    BY <1>1, InterceptorAssumption DEF TypeOK
  <1>4. up[i] \in Idx /\ loc[up[i]] # None /\ up[i] # i /\ lives[i] > 0
    <2>1. up[i] # None /\ lives[i] > 0
      BY <1>1, <1>2 DEF ParentsOK, TreeOK
    <2>2. up[i] \in Idx /\ loc[up[i]] # None
      BY <1>1, <1>3, <2>1 DEF TreeOK
    <2>3. {i} \in SUBSET Idx /\ {i} # {}
      OBVIOUS
    <2>4. \E c \in {i} : up[c] \notin {i}
      BY <1>1, <2>3 DEF TreeOK
    <2> QED  BY <2>1, <2>2, <2>4
  <1>5. TreeOK'
    <2>1. \A j \in Idx : loc'[j] # None => lives'[j] > 0
      BY <1>1, <1>2, <1>3 DEF TreeOK
    <2>2. ASSUME NEW c \in Idx, up'[c] # None
          PROVE  loc'[c] # None /\ loc'[up'[c]] # None
      <3>1. c # i /\ up[c] # None
        BY <1>2, <1>3, <1>4, <2>2
      <3>2. loc[c] # None /\ loc[up[c]] # None
        BY <1>1, <3>1 DEF TreeOK
      <3>3. up'[c] \in Idx /\ up'[c] # i /\ loc[up'[c]] # None
        BY <1>2, <1>3, <1>4, <3>1, <3>2
      <3> QED  BY <1>2, <1>3, <3>1, <3>2, <3>3
    <2>3. ASSUME NEW S \in SUBSET Idx, S # {}
          PROVE  \E c \in S : up'[c] \notin S
      <3>1. PICK c \in S \cup {i} : up[c] \notin S \cup {i}
        BY <1>1 DEF TreeOK
      <3>2. PICK d \in S : up[d] \notin S
        BY <1>1, <2>3 DEF TreeOK
      <3>3. CASE i \in S
        <4>1. up'[i] = None
          BY <1>2
        <4> QED  BY <1>3, <3>3, <4>1
      <3>4. CASE i \notin S /\ c # i
        <4>1. c \in S /\ up'[c] = up[c]
          BY <1>2, <3>1, <3>4
        <4> QED  BY <3>1, <4>1
      <3>5. CASE i \notin S /\ c = i
        <4>1. up'[d] = up[d] \/ up'[d] = up[i]
          BY <1>2, <3>2, <3>5
        <4> QED  BY <3>1, <3>2, <3>5, <4>1
      <3> QED  BY <3>3, <3>4, <3>5
    <2> QED  BY <2>1, <2>2, <2>3 DEF TreeOK
  <1>6. Inv'
    BY DestroyStep DEF OnceInv
  <1>7. CASE UNCHANGED <<net, heirs>>
    <2>1. HeirsOK'
      BY <1>1, <1>2, <1>3, <1>7 DEF HeirsOK, HeirsDead
    <2> QED  BY <1>1, <1>2, <1>5, <1>6, <1>7, <2>1 DEF OnceInv, Running
  <1>8. CASE /\ net' = net \cup {ForwardRequest(loc[i], i, up[i], lives[i])}
             /\ heirs' = heirs \cup {<<a, up[i]>> : a \in {i} \cup {x \in Idx : <<x, i>> \in heirs}}
    <2> DEFINE q == ForwardRequest(loc[i], i, up[i], lives[i])
               u == up[i]
               h == heirs'
    <2>1. /\ HeirsTransitive(h) /\ HeirsEnd(h)
          /\ \A j, k \in Idx : <<j, k>> \in h => j = i \/ (loc[j] = None /\ lives[j] > 0)
      <3>1. u \in Idx /\ loc[u] # None /\ u # i
        BY <1>4
      <3>2. h = heirs \cup {<<a, u>> : a \in {i} \cup {x \in Idx : <<x, i>> \in heirs}}
        BY <1>8
      <3> HIDE DEF u, h
      <3> QED  BY <1>1, <1>2, <3>1, <3>2, NewHeirs
    <2>2. HeirsOK'
      <3>1. \A j, k \in Idx : <<j, k>> \in h => loc'[j] = None /\ lives'[j] > 0
        BY <1>2, <1>3, <1>4, <2>1
      <3> QED  BY <2>1, <3>1 DEF HeirsOK, HeirsDead, HeirsTransitive, HeirsEnd
    <2>3. heirs \subseteq h /\ <<i, u>> \in h
      BY <1>8
    <2>4. q.kind = "forward" /\ q.idx = i /\ q.to = u
      BY DEF ForwardRequest
    <2>5. net' = net \cup {q}
      BY <1>8
    <2> HIDE DEF q, u, h
    <2>6. Held(net', queued, received, h)
      BY <1>1, <2>3, <2>4, <2>5 DEF Held, Legal
    <2>7. Requests(net') = Requests(net) \cup {q}
      BY <2>4, <2>5 DEF Requests
    <2>8. \A p \in Requests(net) : p.idx \in Idx /\ p.to \in Idx /\ p.idx # i
      <3> SUFFICES ASSUME NEW p \in Requests(net)
                   PROVE  p.idx \in Idx /\ p.to \in Idx /\ p.idx # i
        OBVIOUS
      <3>1. p.idx \in Idx /\ p.to \in Idx
        BY <1>1, PacketForm DEF Requests
      <3>2. <<p.idx, p.to>> \in heirs
        BY <1>1 DEF Recorded
      <3>3. loc[p.idx] = None
        BY <1>1, <3>1, <3>2 DEF HeirsOK, HeirsDead
      <3> QED  BY <1>2, <3>1, <3>3
    <2>9. fwdReqs[i] = None
      <3>1. fwdReqs[i] \in Idx \cup {None}
        BY <1>1 DEF TypeOK
      <3> QED  BY <1>1, <1>2, <3>1 DEF Recorded, HeirsOK, HeirsDead
    <2>10. Recorded(net', fwdReqs, h)
      BY <1>1, <2>3, <2>4, <2>7, <2>8, <2>9 DEF Recorded
    <2> QED  BY <1>2, <1>5, <1>6, <2>2, <2>6, <2>10 DEF OnceInv, Running, h
  <1> QED  BY <1>7, <1>8 DEF Destroy

LEMMA OnceMigrate ==
  ASSUME OnceInv, NEW i \in Idx, NEW pe \in PE, Migrate(i, pe)
  PROVE  OnceInv'
  <1>1. TypeOK /\ TreeOK /\ HeirsOK
    BY DEF OnceInv, Inv
  <1>2. /\ loc' = [loc EXCEPT ![i] = pe] /\ loc[i] # None
        /\ UNCHANGED <<lives, up, fwdReqs, queued, net, sent, received, heirs, aborted>>
    BY DEF Migrate
  <1>3. \A j \in Idx : loc'[j] = None <=> loc[j] = None
    BY <1>1, <1>2, InterceptorAssumption DEF TypeOK
  <1>4. \A j \in Idx : up[j] \in Idx \cup {None}
    BY <1>1 DEF TypeOK
  <1>5. TreeOK'
    BY <1>1, <1>2, <1>3, <1>4 DEF TreeOK
  <1>6. HeirsOK'
    BY <1>1, <1>2, <1>3 DEF HeirsOK, HeirsDead
  <1>7. Inv'
    BY MigrateStep DEF OnceInv
  <1> QED  BY <1>2, <1>5, <1>6, <1>7 DEF OnceInv, Running

LEMMA OnceInform ==
  ASSUME OnceInv, NEW i \in Idx, NEW pe \in PE, Inform(i, pe)
  PROVE  OnceInv'
  <1>1. UNCHANGED <<loc, lives, up, fwdReqs, queued, net, sent, received, heirs, aborted>>
    BY DEF Inform
  <1>2. TreeOK' /\ HeirsOK'
    BY <1>1 DEF OnceInv, TreeOK, HeirsOK, HeirsDead
  <1>3. Inv'
    BY InformStep DEF OnceInv
  <1> QED  BY <1>1, <1>2, <1>3 DEF OnceInv, Running

LEMMA OnceInit == Init => OnceInv
  <1> SUFFICES ASSUME Init  PROVE OnceInv
    OBVIOUS
  <1>1. PICK pe \in PE : loc = [i \in Idx |-> IF i = Root THEN pe ELSE None]
    BY DEF Init
  <1>2. /\ lives = [i \in Idx |-> IF i = Root THEN 1 ELSE 0]
        /\ up = [i \in Idx |-> None] /\ heirs = {}
        /\ fwdReqs = [i \in Idx |-> None] /\ net = {}
        /\ queued = [i \in Idx |-> {}] /\ received = [m \in Msgs |-> None]
        /\ Running
    BY DEF Init, Running
  <1>3. TreeOK
    BY <1>1, <1>2, InterceptorAssumption DEF TreeOK
  <1>4. HeirsOK
    BY <1>2 DEF HeirsOK, HeirsDead, HeirsTransitive, HeirsEnd
  <1>5. Held(net, queued, received, heirs) /\ Recorded(net, fwdReqs, heirs)
    BY <1>2 DEF Held, Recorded, Requests
  <1> QED  BY <1>2, <1>3, <1>4, <1>5, InitInv DEF OnceInv

LEMMA OnceNext ==
  ASSUME MaxLives <= 1
  PROVE  OnceInv /\ [Next]_vars => OnceInv'
  <1> SUFFICES ASSUME OnceInv, [Next]_vars  PROVE OnceInv'
    OBVIOUS
  <1>1. CASE UNCHANGED vars
    <2>1. Inv'
      BY <1>1, NextInv DEF OnceInv
    <2>2. UNCHANGED <<loc, lives, up, fwdReqs, queued, net, sent, received, heirs, aborted>>
      BY <1>1 DEF vars, elementVars
    <2>3. TreeOK' /\ HeirsOK'
      BY <2>2 DEF OnceInv, TreeOK, HeirsOK, HeirsDead
    <2> QED  BY <2>1, <2>2, <2>3 DEF OnceInv, Running
  <1>2. CASE Next
    BY <1>2, OnceSend, OnceArrive, OnceForward, OnceStop, OnceCreate, OnceDestroy, OnceMigrate,
       OnceInform DEF Next
  <1> QED  BY <1>1, <1>2

LEMMA OnceAlways ==
  ASSUME MaxLives <= 1
  PROVE  Spec => []OnceInv
  BY OnceInit, OnceNext, PTL DEF Spec

\* dealias() and disassociate(): where no index is used twice, a message is
\* received by its target or by an heir of it.
THEOREM HeirsAlone ==
  ASSUME MaxLives <= 1
  PROVE  Spec => []OnlyHeirsReceive
  <1>1. OnceInv => OnlyHeirsReceive
    BY DEF OnceInv, Inv, TypeOK, Held, Legal, OnlyHeirsReceive
  <1> QED  BY <1>1, OnceAlways, PTL

\* forward() and dealias(): where no index is used twice, no forwarding request
\* is a duplicate and dealias() ends.
THEOREM NeverAborts ==
  ASSUME MaxLives <= 1
  PROVE  Spec => []NoAbort
  <1>1. OnceInv => NoAbort
    BY DEF OnceInv, NoAbort
  <1> QED  BY <1>1, OnceAlways, PTL

=============================================================================
