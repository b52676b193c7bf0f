--------------------------- MODULE ZeroCopyProofs ---------------------------
(***************************************************************************)
(* Proofs about ZeroCopy, for any values, buffers, endpoints and sizes.    *)
(***************************************************************************)
EXTENDS ZeroCopy, FiniteSetTheorems, SequenceTheorems, WellFoundedInduction, TLAPS

-----------------------------------------------------------------------------
(***************************************************************************)
(* Sequences and searches.                                                 *)
(***************************************************************************)

\* A set of naturals that is not empty has a least member.
LEMMA LeastMember ==
  ASSUME NEW T \in SUBSET Nat, T # {}
  PROVE  \E i \in T : \A j \in T : i <= j
<1>1. PICK i \in T : \A j \in T : ~ (<<j, i>> \in OpToRel(<, Nat))
  BY NatLessThanWellFounded, WFMin
<1>2. OpToRel(<, Nat) = {ss \in Nat \X Nat : ss[1] < ss[2]}
  BY Zenon DEF OpToRel
<1>3. ASSUME NEW j \in T
      PROVE  i <= j
  <2>1. <<j, i>> \in Nat \X Nat /\ <<j, i>>[1] = j /\ <<j, i>>[2] = i
    OBVIOUS
  <2>2. ~ (j < i)
    BY <1>1, <1>2, <2>1
  <2>. QED
    BY <2>2
<1>. QED
  BY <1>3

LEMMA Shift ==
  ASSUME NEW n \in Nat, NEW i \in 1 .. n, NEW k \in 1 .. (n - 1), ~ (k < i)
  PROVE  /\ k - (i - 1) \in 1 .. (n - i)
         /\ ~ (k <= i - 1)
         /\ k \in 1 .. ((i - 1) + (n - i))
         /\ i + (k - (i - 1)) = k + 1
OBVIOUS

\* RemoveAt leaves out one position and keeps the order of the others.
LEMMA RemoveAtFacts ==
  ASSUME NEW S, NEW s \in Seq(S), NEW i \in DOMAIN s
  PROVE  /\ RemoveAt(s, i) \in Seq(S)
         /\ Len(RemoveAt(s, i)) = Len(s) - 1
         /\ \A k \in 1 .. (Len(s) - 1) :
              RemoveAt(s, i)[k] = IF k < i THEN s[k] ELSE s[k + 1]
<1>1. /\ i \in 1 .. Len(s) /\ Len(s) \in Nat
      /\ \A k \in 1 .. Len(s) : s[k] \in S
  BY LenProperties, ElementOfSeq
<1> DEFINE a == SubSeq(s, 1, i - 1)
           b == SubSeq(s, i + 1, Len(s))
<1>2. /\ a \in Seq(S) /\ Len(a) = i - 1
      /\ \A k \in 1 .. (i - 1) : a[k] = s[k]
  BY <1>1, SubSeqProperties
<1>3. /\ b \in Seq(S) /\ Len(b) = Len(s) - i
      /\ \A k \in 1 .. (Len(s) - i) : b[k] = s[i + k]
  BY <1>1, SubSeqProperties
<1>. HIDE DEF a, b
<1>4. /\ a \o b \in Seq(S)
      /\ Len(a \o b) = Len(a) + Len(b)
      /\ \A k \in 1 .. (Len(a) + Len(b)) :
           (a \o b)[k] = IF k <= Len(a) THEN a[k] ELSE b[k - Len(a)]
  BY <1>2, <1>3, ConcatProperties
<1>5. RemoveAt(s, i) = a \o b
  BY DEF RemoveAt, a, b
<1>6. Len(a \o b) = Len(s) - 1
  BY <1>1, <1>2, <1>3, <1>4
<1>7. i \in 1 .. Len(s) /\ Len(s) \in Nat /\ Len(a) = i - 1 /\ Len(b) = Len(s) - i
  BY <1>1, <1>2, <1>3
<1>8. ASSUME NEW k \in 1 .. (Len(s) - 1)
      PROVE  (a \o b)[k] = IF k < i THEN s[k] ELSE s[k + 1]
  <2>1. CASE k < i
    <3>1. k \in 1 .. (i - 1) /\ k <= Len(a) /\ k \in 1 .. (Len(a) + Len(b))
      BY <2>1, <1>7
    <3>2. (a \o b)[k] = a[k]
      BY <3>1, <1>4
    <3>. QED
      BY <2>1, <3>1, <3>2, <1>2
  <2>2. CASE ~ (k < i)
    <3>1. k - Len(a) \in 1 .. (Len(s) - i) /\ ~ (k <= Len(a)) /\ k \in 1 .. (Len(a) + Len(b))
      BY <2>2, <1>7, Shift, Zenon
    <3>2. (a \o b)[k] = b[k - Len(a)]
      BY <3>1, <1>4
    <3>3. b[k - Len(a)] = s[i + (k - Len(a))]
      BY <3>1, <1>3
    <3>4. i + (k - Len(a)) = k + 1
      BY <2>2, <1>7, Shift, Zenon
    <3>. QED
      BY <2>2, <3>2, <3>3, <3>4
  <2>. QED
    BY <2>1, <2>2
<1>. QED
  BY <1>4, <1>5, <1>6, <1>8

\* What Append adds to the range of a sequence without duplicates.
LEMMA RangeOfAppend ==
  ASSUME NEW S, NEW s \in Seq(S), NEW x \in S
  PROVE  /\ Append(s, x) \in Seq(S)
         /\ Range(Append(s, x)) = Range(s) \cup {x}
         /\ IsInjective(s) /\ x \notin Range(s) => IsInjective(Append(s, x))
<1> DEFINE n == Len(s)
           t == Append(s, x)
<1>1. /\ n \in Nat /\ DOMAIN s = 1 .. n /\ \A k \in 1 .. n : s[k] \in S
  BY LenProperties, ElementOfSeq
<1>2. /\ t \in Seq(S) /\ Len(t) = n + 1
      /\ \A k \in 1 .. n : t[k] = s[k]
      /\ t[n + 1] = x
  BY AppendProperties
<1>3. DOMAIN t = 1 .. (n + 1)
  BY <1>2, LenProperties
<1>. HIDE DEF n, t
<1>4. 1 .. (n + 1) = (1 .. n) \cup {n + 1} /\ n + 1 \notin 1 .. n
  BY <1>1
<1>5. Range(t) = Range(s) \cup {x}
  BY <1>1, <1>2, <1>3, <1>4 DEF Range
<1>6. ASSUME IsInjective(s), x \notin Range(s)
      PROVE  IsInjective(t)
  <2>1. \A j, k \in 1 .. n : t[j] = t[k] => j = k
    BY <1>1, <1>2, <1>6, Zenon DEF IsInjective
  <2>2. \A k \in 1 .. n : t[k] # t[n + 1]
    BY <1>1, <1>2, <1>6, Zenon DEF Range
  <2>. QED
    BY <1>3, <1>4, <2>1, <2>2 DEF IsInjective
<1>. QED
  BY <1>2, <1>5, <1>6 DEF t

\* What RemoveAt leaves of the range of a sequence without duplicates.
LEMMA RangeOfRemoveAt ==
  ASSUME NEW S, NEW s \in Seq(S), NEW i \in DOMAIN s
  PROVE  /\ RemoveAt(s, i) \in Seq(S)
         /\ Range(RemoveAt(s, i)) \subseteq Range(s)
         /\ IsInjective(s) => /\ Range(RemoveAt(s, i)) = Range(s) \ {s[i]}
                              /\ IsInjective(RemoveAt(s, i))
<1> DEFINE n == Len(s)
           t == RemoveAt(s, i)
<1>1. /\ n \in Nat /\ DOMAIN s = 1 .. n /\ i \in 1 .. n
  BY LenProperties
<1>2. /\ t \in Seq(S) /\ Len(t) = n - 1
      /\ \A k \in 1 .. (n - 1) : t[k] = IF k < i THEN s[k] ELSE s[k + 1]
  BY RemoveAtFacts
<1>3. DOMAIN t = 1 .. (n - 1)
  BY <1>2, LenProperties
<1>. HIDE DEF n, t
<1> DEFINE old(k) == IF k < i THEN k ELSE k + 1
<1>4. /\ \A k \in 1 .. (n - 1) : old(k) \in 1 .. n /\ old(k) # i /\ t[k] = s[old(k)]
      /\ \A j, k \in 1 .. (n - 1) : old(j) = old(k) => j = k
  BY <1>1, <1>2
<1>5. ASSUME NEW m \in 1 .. n, m # i
      PROVE  \E k \in 1 .. (n - 1) : old(k) = m
  <2>1. CASE m < i
    BY <1>1, <1>5, <2>1
  <2>2. CASE m > i
    <3>1. m - 1 \in 1 .. (n - 1) /\ old(m - 1) = m
      BY <1>1, <1>5, <2>2
    <3>. QED
      BY <3>1
  <2>. QED
    BY <1>1, <1>5, <2>1, <2>2
<1>. HIDE DEF old
<1>6. Range(t) \subseteq Range(s)
  BY <1>1, <1>3, <1>4, Zenon DEF Range
<1>7. ASSUME IsInjective(s)
      PROVE  Range(t) = Range(s) \ {s[i]} /\ IsInjective(t)
  <2>1. \A k \in 1 .. (n - 1) : t[k] # s[i]
    BY <1>1, <1>4, <1>7, Zenon DEF IsInjective
  <2>2. \A m \in 1 .. n : s[m] # s[i] => \E k \in 1 .. (n - 1) : t[k] = s[m]
    BY <1>4, <1>5, Zenon
  <2>3. Range(t) = Range(s) \ {s[i]}
    <3>1. s[i] \notin Range(t)
      BY <1>3, <2>1 DEF Range
    <3>2. ASSUME NEW x \in Range(s), x # s[i]
          PROVE  x \in Range(t)
      <4>1. PICK m \in 1 .. n : x = s[m]
        BY <1>1 DEF Range
      <4>2. PICK k \in 1 .. (n - 1) : t[k] = s[m]
        BY <2>2, <3>2, <4>1
      <4>. QED
        BY <1>3, <4>1, <4>2 DEF Range
    <3>. QED
      BY <1>6, <3>1, <3>2
  <2>4. \A j, k \in 1 .. (n - 1) : t[j] = t[k] => j = k
    BY <1>1, <1>4, <1>7, Zenon DEF IsInjective
  <2>. QED
    BY <1>3, <2>3, <2>4, Zenon DEF IsInjective
<1>. QED
  BY <1>2, <1>6, <1>7 DEF t

\* A search that finds no first match finds that nothing matches.
LEMMA NoFirst ==
  ASSUME NEW n \in Nat, NEW F \in SUBSET (1 .. n),
         {i \in 1 .. n : i \in F /\ \A j \in 1 .. (i - 1) : j \notin F} = {}
  PROVE  F = {}
<1>1. SUFFICES ASSUME F # {} PROVE FALSE
  OBVIOUS
<1>2. PICK i \in F : \A j \in F : i <= j
  BY <1>1, LeastMember
<1>3. \A j \in 1 .. (i - 1) : j \notin F
  BY <1>2
<1>. QED
  BY <1>2, <1>3

-----------------------------------------------------------------------------
(***************************************************************************)
(* Requests, and the two searches for a match.                             *)
(***************************************************************************)
LEMMA RequestParts ==
  ASSUME NEW r \in Request
  PROVE  /\ r[1] \in Values /\ r[2] \in 1 .. Len(Blocks[r[1]])
         /\ r = <<r[1], r[2]>>
         /\ Blocks[r[1]] \in Seq(Nat) /\ Cnt(r) \in Nat
         /\ EpOf[r[1]] \in Endpoints
<1>1. PICK v \in Values : r \in {v} \X DOMAIN Blocks[v]
  BY DEF Request
<1>2. r[1] = v /\ r[2] \in DOMAIN Blocks[v] /\ r = <<r[1], r[2]>>
  BY <1>1
<1>3. Blocks[v] \in Seq(Nat) /\ EpOf[v] \in Endpoints
  BY ZeroCopyAssumption
<1>4. DOMAIN Blocks[v] = 1 .. Len(Blocks[v]) /\ \A i \in 1 .. Len(Blocks[v]) : Blocks[v][i] \in Nat
  BY <1>3, LenProperties, ElementOfSeq
<1>. QED
  BY <1>2, <1>3, <1>4 DEF Cnt

LEMMA RequestIntro ==
  ASSUME NEW v \in Values, NEW i \in 1 .. Len(Blocks[v])
  PROVE  <<v, i>> \in Request
<1>1. DOMAIN Blocks[v] = 1 .. Len(Blocks[v])
  BY ZeroCopyAssumption, LenProperties
<1>. QED
  BY <1>1 DEF Request

LEMMA NotIdle ==
  ASSUME NEW r \in Request
  PROVE  r # Idle
<1>1. r = <<r[1], r[2]>>
  BY RequestParts
<1>2. <<r[1], r[2]>> # << >>
  OBVIOUS
<1>. QED
  BY <1>1, <1>2 DEF Idle

LEMMA BufferParts ==
  ASSUME NEW b \in Buffers
  PROVE  EpOf[b] \in Endpoints /\ Size[b] \in Nat
BY ZeroCopyAssumption

\* When poll_buffer finds no buffer, all that are posted are too small.
LEMMA NoneLargeEnough ==
  ASSUME TypeOK, NEW ep \in Endpoints, NEW goal \in Nat, LargeEnough(ep, goal) = {}
  PROVE  \A b \in Range(buffers[ep]) : goal > Size[b]
<1> DEFINE n == Len(buffers[ep])
           F == {i \in 1 .. n : Size[buffers[ep][i]] >= goal}
<1>1. /\ n \in Nat /\ DOMAIN buffers[ep] = 1 .. n
      /\ \A i \in 1 .. n : Size[buffers[ep][i]] \in Nat
  <2>1. buffers[ep] \in Seq(Buffers)
    BY DEF TypeOK
  <2>2. n \in Nat /\ DOMAIN buffers[ep] = 1 .. n /\ \A i \in 1 .. n : buffers[ep][i] \in Buffers
    BY <2>1, LenProperties, ElementOfSeq
  <2>. QED
    BY <2>2, BufferParts
<1>2. {i \in 1 .. n : i \in F /\ \A j \in 1 .. (i - 1) : j \notin F} = {}
  <2>1. SUFFICES ASSUME NEW i \in 1 .. n, i \in F, \A j \in 1 .. (i - 1) : j \notin F
                 PROVE  FALSE
    OBVIOUS
  <2>2. \A j \in 1 .. (i - 1) : Size[buffers[ep][j]] < goal
    BY <1>1, <2>1
  <2>. QED
    BY <1>1, <2>1, <2>2 DEF LargeEnough
<1>3. F = {}
  <2>1. F \in SUBSET (1 .. n)
    OBVIOUS
  <2>. HIDE DEF F, n
  <2>. QED
    BY <1>1, <1>2, <2>1, NoFirst, Zenon
<1>4. \A i \in 1 .. n : goal > Size[buffers[ep][i]]
  BY <1>1, <1>3
<1>. QED
  BY <1>1, <1>4 DEF Range

\* When post_buffer finds no request, all that wait are too large.
LEMMA NoneApplicable ==
  ASSUME TypeOK, NEW ep \in Endpoints, NEW size \in Nat, Applicable(ep, size) = {}
  PROVE  \A r \in Range(outstanding[ep]) : Cnt(r) > size
<1> DEFINE n == Len(outstanding[ep])
           F == {i \in 1 .. n : Cnt(outstanding[ep][i]) <= size}
<1>1. /\ n \in Nat /\ DOMAIN outstanding[ep] = 1 .. n
      /\ \A i \in 1 .. n : Cnt(outstanding[ep][i]) \in Nat
  <2>1. outstanding[ep] \in Seq(Request)
    BY DEF TypeOK
  <2>2. n \in Nat /\ DOMAIN outstanding[ep] = 1 .. n /\ \A i \in 1 .. n : outstanding[ep][i] \in Request
    BY <2>1, LenProperties, ElementOfSeq
  <2>. QED
    BY <2>2, RequestParts
<1>2. {i \in 1 .. n : i \in F /\ \A j \in 1 .. (i - 1) : j \notin F} = {}
  <2>1. SUFFICES ASSUME NEW i \in 1 .. n, i \in F, \A j \in 1 .. (i - 1) : j \notin F
                 PROVE  FALSE
    OBVIOUS
  <2>2. \A j \in 1 .. (i - 1) : Cnt(outstanding[ep][j]) > size
    BY <1>1, <2>1
  <2>. QED
    BY <1>1, <2>1, <2>2 DEF Applicable
<1>3. F = {}
  <2>1. F \in SUBSET (1 .. n)
    OBVIOUS
  <2>. HIDE DEF F, n
  <2>. QED
    BY <1>1, <1>2, <2>1, NoFirst, Zenon
<1>4. \A i \in 1 .. n : Cnt(outstanding[ep][i]) > size
  BY <1>1, <1>3
<1>. QED
  BY <1>1, <1>4 DEF Range

-----------------------------------------------------------------------------
(***************************************************************************)
(* Type correctness.                                                       *)
(***************************************************************************)
LEMMA AdvanceTyped ==
  ASSUME current \in Request, Advance
  PROVE  current' \in Request \cup {Idle}
<1>1. /\ current[1] \in Values /\ current[2] \in 1 .. Len(Blocks[current[1]])
      /\ Len(Blocks[current[1]]) \in Nat
  BY RequestParts, LenProperties
<1>2. CASE current[2] < Len(Blocks[current[1]])
  <2>1. current[2] + 1 \in 1 .. Len(Blocks[current[1]])
    BY <1>1, <1>2
  <2>2. <<current[1], current[2] + 1>> \in Request
    BY <1>1, <2>1, RequestIntro
  <2>. QED
    BY <1>2, <2>2 DEF Advance
<1>3. CASE ~ (current[2] < Len(Blocks[current[1]]))
  BY <1>3 DEF Advance
<1>. QED
  BY <1>2, <1>3

LEMMA TypeInit == Init => TypeOK
<1>1. \A S : << >> \in Seq(S)
  OBVIOUS
<1>. QED
  BY <1>1 DEF Init, TypeOK

LEMMA TypeNext == TypeOK /\ [Next]_vars => TypeOK'
<1>. SUFFICES ASSUME TypeOK, [Next]_vars PROVE TypeOK'
  OBVIOUS
<1>1. ASSUME NEW v \in Values, Send(v) PROVE TypeOK'
  BY <1>1 DEF Send, TypeOK
<1>2. ASSUME NEW v \in Values, ReceiveValue(v) PROVE TypeOK'
  <2>1. CASE Blocks[v] = << >>
    <3>1. /\ delivered' = [delivered EXCEPT ![v] = @ + 1] /\ wire' = wire \ {v}
          /\ UNCHANGED <<sent, current, manual, outstanding, offered, buffers, transfers,
                         values, nReceived, qd>>
      BY <1>2, <2>1 DEF ReceiveValue
    <3>. QED
      BY <3>1 DEF TypeOK
  <2>2. CASE Blocks[v] # << >>
    <3>1. Blocks[v] \in Seq(Nat)
      BY ZeroCopyAssumption
    <3>2. 1 \in 1 .. Len(Blocks[v])
      BY <2>2, <3>1, EmptySeq, LenProperties
    <3>3. <<v, 1>> \in Request
      BY <3>2, RequestIntro
    <3>. QED
      BY <1>2, <2>2, <3>3 DEF ReceiveValue, TypeOK
  <2>. QED
    BY <2>1, <2>2
<1>3. ASSUME NEW ep \in Endpoints, ManualMode(ep) PROVE TypeOK'
  BY <1>3 DEF ManualMode, TypeOK
<1>4. ASSUME NEW b \in Buffers, PostBuffer(b) PROVE TypeOK'
  <2> DEFINE ep == EpOf[b]
  <2>0. ep \in Endpoints /\ buffers[ep] \in Seq(Buffers) /\ outstanding[ep] \in Seq(Request)
    BY BufferParts DEF TypeOK
  <2>1. CASE buffers' = [buffers EXCEPT ![ep] = Append(@, b)] /\ UNCHANGED <<outstanding, transfers, qd>>
    <3>1. Append(buffers[ep], b) \in Seq(Buffers)
      BY <2>0, AppendProperties
    <3>2. buffers' \in [Endpoints -> Seq(Buffers)]
      BY <2>0, <2>1, <3>1 DEF TypeOK
    <3>. QED
      BY <1>4, <2>1, <3>2 DEF PostBuffer, TypeOK
  <2>2. ASSUME NEW i \in Applicable(ep, Size[b]),
               transfers' = transfers \cup {[req |-> outstanding[ep][i], buf |-> b]},
               outstanding' = [outstanding EXCEPT ![ep] = RemoveAt(@, i)],
               qd' = qd - 1, UNCHANGED buffers
        PROVE  TypeOK'
    <3>1. i \in DOMAIN outstanding[ep] /\ outstanding[ep][i] \in Request
      BY <2>0, LenProperties, ElementOfSeq DEF Applicable
    <3>2. RemoveAt(outstanding[ep], i) \in Seq(Request)
      BY <2>0, <3>1, RemoveAtFacts
    <3>3. outstanding' \in [Endpoints -> Seq(Request)]
      BY <2>0, <2>2, <3>2 DEF TypeOK
    <3>4. transfers' \subseteq Transfer
      BY <2>2, <3>1 DEF TypeOK, Transfer
    <3>. QED
      BY <1>4, <2>2, <3>3, <3>4 DEF PostBuffer, TypeOK
  <2>. QED
    BY <1>4, <2>1, <2>2 DEF PostBuffer
<1>5. ASSUME PollPosted PROVE TypeOK'
  <2>0. current \in Request
    BY <1>5 DEF PollPosted, TypeOK
  <2> DEFINE ep == EpOf[current[1]]
  <2>1. ep \in Endpoints /\ buffers[ep] \in Seq(Buffers)
    BY <2>0, RequestParts DEF TypeOK
  <2>2. PICK i \in LargeEnough(ep, Cnt(current)) :
          /\ transfers' = transfers \cup {[req |-> current, buf |-> buffers[ep][i]]}
          /\ buffers' = [buffers EXCEPT ![ep] = RemoveAt(@, i)]
    BY <1>5 DEF PollPosted
  <2>3. i \in DOMAIN buffers[ep] /\ buffers[ep][i] \in Buffers
    BY <2>1, LenProperties, ElementOfSeq DEF LargeEnough
  <2>4. RemoveAt(buffers[ep], i) \in Seq(Buffers)
    BY <2>1, <2>3, RemoveAtFacts
  <2>5. buffers' \in [Endpoints -> Seq(Buffers)]
    BY <2>1, <2>2, <2>4 DEF TypeOK
  <2>6. transfers' \subseteq Transfer
    BY <2>0, <2>2, <2>3 DEF TypeOK, Transfer
  <2>7. current' \in Request \cup {Idle}
    BY <1>5, <2>0, AdvanceTyped DEF PollPosted
  <2>. QED
    BY <1>5, <2>5, <2>6, <2>7 DEF PollPosted, TypeOK
<1>6. ASSUME PollAllocate PROVE TypeOK'
  <2>0. current \in Request
    BY <1>6 DEF PollAllocate, TypeOK
  <2>1. current' \in Request \cup {Idle}
    BY <1>6, <2>0, AdvanceTyped DEF PollAllocate
  <2>2. transfers' \subseteq Transfer
    BY <1>6, <2>0 DEF PollAllocate, TypeOK, Transfer
  <2>. QED
    BY <1>6, <2>1, <2>2 DEF PollAllocate, TypeOK
<1>7. ASSUME PollWait PROVE TypeOK'
  <2>0. current \in Request
    BY <1>7 DEF PollWait, TypeOK
  <2> DEFINE ep == EpOf[current[1]]
  <2>1. ep \in Endpoints /\ outstanding[ep] \in Seq(Request)
    BY <2>0, RequestParts DEF TypeOK
  <2>2. Append(outstanding[ep], current) \in Seq(Request)
    BY <2>0, <2>1, AppendProperties
  <2>3. outstanding' \in [Endpoints -> Seq(Request)]
    BY <1>7, <2>1, <2>2 DEF PollWait, TypeOK
  <2>4. current' \in Request \cup {Idle}
    BY <1>7, <2>0, AdvanceTyped DEF PollWait
  <2>. QED
    BY <1>7, <2>3, <2>4 DEF PollWait, TypeOK
<1>8. ASSUME NEW t \in transfers, Complete(t) PROVE TypeOK'
  <2>1. t \in Transfer /\ t.req[1] \in Values
    BY RequestParts DEF TypeOK, Transfer
  <2>. QED
    BY <1>8, <2>1 DEF Complete, TypeOK
<1>9. CASE UNCHANGED vars
  BY <1>9 DEF vars, TypeOK
<1>. QED
  BY <1>1, <1>2, <1>3, <1>4, <1>5, <1>6, <1>7, <1>8, <1>9 DEF Next

\* The variables of a locality keep their types, whatever is sent and posted.
THEOREM ZeroCopyTyped == Spec => []TypeOK
<1>1. Init => TypeOK
  BY TypeInit
<1>2. TypeOK /\ [Next]_vars => TypeOK'
  BY TypeNext
<1>. QED
  BY <1>1, <1>2, PTL DEF Spec

-----------------------------------------------------------------------------
(***************************************************************************)
(* No match is missed.                                                     *)
(***************************************************************************)
LEMMA MatchInit == Init => NoMissedMatch
<1>1. Range(<< >>) = {}
  BY DEF Range
<1>. QED
  BY <1>1 DEF Init, NoMissedMatch

LEMMA MatchNext == TypeOK /\ NoMissedMatch /\ [Next]_vars => NoMissedMatch'
<1>. SUFFICES ASSUME TypeOK, NoMissedMatch, [Next]_vars PROVE NoMissedMatch'
  OBVIOUS
<1>1. ASSUME UNCHANGED <<outstanding, buffers>>, manual \subseteq manual' PROVE NoMissedMatch'
  BY <1>1 DEF NoMissedMatch
<1>2. ASSUME NEW b \in Buffers, PostBuffer(b) PROVE NoMissedMatch'
  <2> DEFINE ep == EpOf[b]
  <2>0. /\ ep \in Endpoints /\ buffers[ep] \in Seq(Buffers) /\ outstanding[ep] \in Seq(Request)
        /\ Size[b] \in Nat
    BY BufferParts DEF TypeOK
  <2>1. ASSUME Applicable(ep, Size[b]) = {},
               buffers' = [buffers EXCEPT ![ep] = Append(@, b)], UNCHANGED outstanding
        PROVE  NoMissedMatch'
    <3>1. \A r \in Range(outstanding[ep]) : Cnt(r) > Size[b]
      BY <2>0, <2>1, NoneApplicable
    <3>2. Range(buffers'[ep]) = Range(buffers[ep]) \cup {b}
      BY <2>0, <2>1, RangeOfAppend DEF TypeOK
    <3>3. \A e \in Endpoints : e # ep => buffers'[e] = buffers[e]
      BY <2>1 DEF TypeOK
    <3>4. manual' = manual
      BY <1>2 DEF PostBuffer
    <3>. QED
      BY <2>0, <2>1, <3>1, <3>2, <3>3, <3>4 DEF NoMissedMatch
  <2>2. ASSUME NEW i \in Applicable(ep, Size[b]),
               outstanding' = [outstanding EXCEPT ![ep] = RemoveAt(@, i)], UNCHANGED buffers
        PROVE  NoMissedMatch'
    <3>1. i \in DOMAIN outstanding[ep]
      BY DEF Applicable
    <3>2. Range(outstanding'[ep]) \subseteq Range(outstanding[ep]) /\ outstanding[ep] # << >>
      BY <2>0, <2>2, <3>1, RangeOfRemoveAt DEF TypeOK
    <3>3. \A e \in Endpoints : e # ep => outstanding'[e] = outstanding[e]
      BY <2>2 DEF TypeOK
    <3>4. manual' = manual
      BY <1>2 DEF PostBuffer
    <3>. QED
      BY <2>0, <2>2, <3>2, <3>3, <3>4 DEF NoMissedMatch
  <2>. QED
    BY <1>2, <2>1, <2>2 DEF PostBuffer
<1>3. ASSUME PollPosted PROVE NoMissedMatch'
  <2>0. current \in Request
    BY <1>3 DEF PollPosted, TypeOK
  <2> DEFINE ep == EpOf[current[1]]
  <2>1. ep \in Endpoints /\ buffers[ep] \in Seq(Buffers)
    BY <2>0, RequestParts DEF TypeOK
  <2>2. PICK i \in LargeEnough(ep, Cnt(current)) : buffers' = [buffers EXCEPT ![ep] = RemoveAt(@, i)]
    BY <1>3 DEF PollPosted
  <2>3. i \in DOMAIN buffers[ep]
    BY DEF LargeEnough
  <2>4. Range(buffers'[ep]) \subseteq Range(buffers[ep])
    BY <2>1, <2>2, <2>3, RangeOfRemoveAt DEF TypeOK
  <2>5. \A e \in Endpoints : e # ep => buffers'[e] = buffers[e]
    BY <2>2 DEF TypeOK
  <2>6. manual' = manual /\ outstanding' = outstanding
    BY <1>3 DEF PollPosted
  <2>. QED
    BY <2>1, <2>4, <2>5, <2>6 DEF NoMissedMatch
<1>4. ASSUME PollWait PROVE NoMissedMatch'
  <2>0. current \in Request /\ Cnt(current) \in Nat
    BY <1>4, RequestParts DEF PollWait, TypeOK
  <2> DEFINE ep == EpOf[current[1]]
  <2>1. ep \in Endpoints /\ outstanding[ep] \in Seq(Request)
    BY <2>0, RequestParts DEF TypeOK
  <2>2. /\ LargeEnough(ep, Cnt(current)) = {} /\ ep \in manual
        /\ outstanding' = [outstanding EXCEPT ![ep] = Append(@, current)]
        /\ manual' = manual /\ buffers' = buffers
    BY <1>4 DEF PollWait
  <2>3. \A b \in Range(buffers[ep]) : Cnt(current) > Size[b]
    BY <2>0, <2>1, <2>2, NoneLargeEnough
  <2>4. Range(outstanding'[ep]) = Range(outstanding[ep]) \cup {current}
    BY <2>0, <2>1, <2>2, RangeOfAppend DEF TypeOK
  <2>5. \A e \in Endpoints : e # ep => outstanding'[e] = outstanding[e]
    BY <2>2 DEF TypeOK
  <2>. QED
    BY <2>1, <2>2, <2>3, <2>4, <2>5 DEF NoMissedMatch
<1>5. ASSUME NEW v \in Values, Send(v) \/ ReceiveValue(v) PROVE NoMissedMatch'
  BY <1>1, <1>5 DEF Send, ReceiveValue
<1>6. ASSUME NEW ep \in Endpoints, ManualMode(ep) PROVE NoMissedMatch'
  BY <1>1, <1>6 DEF ManualMode
<1>7. ASSUME PollAllocate PROVE NoMissedMatch'
  BY <1>1, <1>7 DEF PollAllocate
<1>8. ASSUME NEW t \in transfers, Complete(t) PROVE NoMissedMatch'
  BY <1>1, <1>8 DEF Complete
<1>9. CASE UNCHANGED vars
  BY <1>1, <1>9 DEF vars
<1>. QED
  BY <1>2, <1>3, <1>4, <1>5, <1>6, <1>7, <1>8, <1>9 DEF Next

\* post_buffer and poll_buffer never leave a request waiting beside a buffer
\* that it fits into.
THEOREM NoMatchIsMissed == Spec => []NoMissedMatch
<1>1. Init => TypeOK /\ NoMissedMatch
  BY TypeInit, MatchInit
<1>2. TypeOK /\ NoMissedMatch /\ [Next]_vars => (TypeOK /\ NoMissedMatch)'
  BY TypeNext, MatchNext
<1>. QED
  BY <1>1, <1>2, PTL DEF Spec

-----------------------------------------------------------------------------
(***************************************************************************)
(* Requests and buffers are conserved.                                     *)
(***************************************************************************)

\* Queues that hold nothing twice.
Distinct(queues) ==
  \A e \in Endpoints :
    /\ IsInjective(queues[e])
    /\ \A f \in Endpoints : Range(queues[e]) \cap Range(queues[f]) # {} => e = f

\* Only the queue of one endpoint changes.
Replaced(q, q2, ep, seq) ==
  q2[ep] = seq /\ \A e \in Endpoints : e # ep => q2[e] = q[e]

LEMMA PoolAppend ==
  ASSUME NEW S, NEW q \in [Endpoints -> Seq(S)], NEW ep \in Endpoints, NEW x \in S,
         Distinct(q), x \notin Pool(q),
         NEW q2, Replaced(q, q2, ep, Append(q[ep], x))
  PROVE  Pool(q2) = Pool(q) \cup {x} /\ Distinct(q2)
<1>1. q[ep] \in Seq(S) /\ IsInjective(q[ep]) /\ x \notin Range(q[ep])
  BY DEF Distinct, Pool
<1>2. q2[ep] = Append(q[ep], x) /\ \A e \in Endpoints : e # ep => q2[e] = q[e]
  BY DEF Replaced
<1>3. Range(q2[ep]) = Range(q[ep]) \cup {x} /\ IsInjective(q2[ep])
  BY <1>1, <1>2, RangeOfAppend
<1>4. Pool(q2) = Pool(q) \cup {x}
  BY <1>2, <1>3 DEF Pool
<1>5. \A e \in Endpoints : x \notin Range(q[e])
  BY DEF Pool
<1>6. ASSUME NEW e \in Endpoints PROVE IsInjective(q2[e])
  BY <1>2, <1>3 DEF Distinct
<1>7. ASSUME NEW e \in Endpoints, NEW f \in Endpoints, e # f
      PROVE  Range(q2[e]) \cap Range(q2[f]) = {}
  <2>1. Range(q[e]) \cap Range(q[f]) = {}
    BY <1>7 DEF Distinct
  <2>. QED
    BY <1>2, <1>3, <1>5, <1>7, <2>1
<1>. QED
  BY <1>4, <1>6, <1>7 DEF Distinct

LEMMA PoolRemove ==
  ASSUME NEW S, NEW q \in [Endpoints -> Seq(S)], NEW ep \in Endpoints, NEW i \in DOMAIN q[ep],
         Distinct(q),
         NEW q2, Replaced(q, q2, ep, RemoveAt(q[ep], i))
  PROVE  Pool(q2) = Pool(q) \ {q[ep][i]} /\ Distinct(q2) /\ q[ep][i] \in Pool(q)
<1>1. q[ep] \in Seq(S) /\ IsInjective(q[ep]) /\ q[ep][i] \in Range(q[ep])
  BY DEF Distinct, Range
<1>2. q2[ep] = RemoveAt(q[ep], i) /\ \A e \in Endpoints : e # ep => q2[e] = q[e]
  BY DEF Replaced
<1>3. Range(q2[ep]) = Range(q[ep]) \ {q[ep][i]} /\ IsInjective(q2[ep])
  BY <1>1, <1>2, RangeOfRemoveAt
<1>4. \A e \in Endpoints : e # ep => q[ep][i] \notin Range(q[e])
  BY <1>1 DEF Distinct
<1>5. Pool(q2) = Pool(q) \ {q[ep][i]}
  BY <1>2, <1>3, <1>4 DEF Pool
<1>6. ASSUME NEW e \in Endpoints PROVE IsInjective(q2[e])
  BY <1>2, <1>3 DEF Distinct
<1>7. ASSUME NEW e \in Endpoints, NEW f \in Endpoints, e # f
      PROVE  Range(q2[e]) \cap Range(q2[f]) = {}
  <2>1. Range(q[e]) \cap Range(q[f]) = {}
    BY <1>7 DEF Distinct
  <2>2. Range(q2[e]) \subseteq Range(q[e]) /\ Range(q2[f]) \subseteq Range(q[f])
    BY <1>2, <1>3
  <2>. QED
    BY <2>1, <2>2
<1>8. q[ep][i] \in Pool(q)
  BY <1>1 DEF Pool
<1>. QED
  BY <1>5, <1>6, <1>7, <1>8 DEF Distinct

\* Requests and buffers wait at their own endpoints.
Homes ==
  \A ep \in Endpoints :
    /\ \A r \in Range(outstanding[ep]) : EpOf[r[1]] = ep
    /\ \A b \in Range(buffers[ep]) : EpOf[b] = ep

\* The loop of receive_value is at a value that has been received.
LoopOnReceived == current # Idle => current[1] \in sent \ wire

\* The inductive invariant.
Books ==
  /\ Distinct(outstanding) /\ Distinct(buffers) /\ Homes
  /\ LoopOnReceived
  /\ IsFiniteSet(Outstanding)
  /\ BuffersUsedOnce
  /\ RequestsConserved
  /\ QdBalanced
  /\ DeliveredWhole

All == transfers \cup values

\* An iteration of receive_value makes one new request.
LEMMA IssuedAdvance ==
  ASSUME TypeOK, LoopOnReceived, current # Idle, Advance, UNCHANGED <<sent, wire>>
  PROVE  Issued' = Issued \cup {current} /\ current \notin Issued /\ LoopOnReceived'
<1>1. current \in Request /\ current[1] \in sent \ wire
  BY DEF TypeOK, LoopOnReceived
<1> DEFINE v == current[1]
           i == current[2]
           n == Len(Blocks[v])
<1>2. v \in Values /\ i \in 1 .. n /\ n \in Nat /\ current = <<v, i>>
  BY <1>1, RequestParts, LenProperties
<1>3. \A r \in Request : r[1] = v => r[2] \in 1 .. n /\ (r[2] = i <=> r = current)
  BY <1>2, RequestParts
<1>4. \A r \in Request : r \in Issued <=> r[1] \in sent \ wire /\ (r[1] = v => r[2] < i)
  BY DEF Issued
<1>5. Issued \subseteq Request /\ Issued' \subseteq Request
  BY DEF Issued
<1>6. current \notin Issued
  BY <1>1, <1>2, <1>4
<1>7. CASE i < n
  <2>1. current' = <<v, i + 1>> /\ current' # Idle
    BY <1>7 DEF Advance, Idle
  <2>2. \A r \in Request : r \in Issued' <=> r[1] \in sent \ wire /\ (r[1] = v => r[2] < i + 1)
    BY <2>1 DEF Issued
  <2>3. \A r \in Request : r \in Issued' <=> r \in Issued \/ r = current
    <3>. SUFFICES ASSUME NEW r \in Request
                  PROVE  r \in Issued' <=> r \in Issued \/ r = current
      OBVIOUS
    <3>1. CASE r[1] # v
      BY <1>1, <1>4, <2>2, <3>1
    <3>2. CASE r[1] = v
      <4>1. r[2] \in 1 .. n /\ (r[2] = i <=> r = current)
        BY <1>3, <3>2
      <4>2. r[2] < i + 1 <=> r[2] < i \/ r[2] = i
        BY <1>2, <4>1
      <4>. QED
        BY <1>1, <1>4, <2>2, <3>2, <4>1, <4>2
    <3>. QED
      BY <3>1, <3>2
  <2>. QED
    BY <1>1, <1>5, <1>6, <2>1, <2>3 DEF LoopOnReceived
<1>8. CASE ~ (i < n)
  <2>1. current' = Idle
    BY <1>8 DEF Advance
  <2>2. \A r \in Request : r \in Issued' <=> r[1] \in sent \ wire
    BY <2>1 DEF Issued
  <2>3. \A r \in Request : r \in Issued' <=> r \in Issued \/ r = current
    <3>. SUFFICES ASSUME NEW r \in Request
                  PROVE  r \in Issued' <=> r \in Issued \/ r = current
      OBVIOUS
    <3>1. CASE r[1] # v
      BY <1>1, <1>4, <2>2, <3>1
    <3>2. CASE r[1] = v
      <4>1. r[2] \in 1 .. n /\ (r[2] = i <=> r = current)
        BY <1>3, <3>2
      <4>2. r[2] < i \/ r[2] = i
        BY <1>2, <1>8, <4>1
      <4>. QED
        BY <1>1, <1>4, <2>2, <3>2, <4>1, <4>2
    <3>. QED
      BY <3>1, <3>2
  <2>. QED
    BY <1>1, <1>5, <1>6, <2>1, <2>3 DEF LoopOnReceived
<1>. QED
  BY <1>7, <1>8

LEMMA BooksInit == Init => Books
<1>. SUFFICES ASSUME Init PROVE Books
  OBVIOUS
<1>1. Range(<< >>) = {} /\ IsInjective(<< >>)
  BY DEF Range, IsInjective
<1>2. /\ Distinct(outstanding) /\ Distinct(buffers) /\ Homes
      /\ Outstanding = {} /\ Waiting = {}
  BY <1>1 DEF Init, Distinct, Homes, Outstanding, Waiting, Pool
<1>3. IsFiniteSet({}) /\ Cardinality({}) = 0
  BY FS_EmptySet
<1>4. \A v \in Values : Arrived(v) = {}
  BY DEF Init, Arrived
<1>5. Issued = {} /\ Served = {} /\ LoopOnReceived
  BY DEF Init, Issued, Served, LoopOnReceived
<1>6. BuffersUsedOnce
  BY <1>2 DEF Init, BuffersUsedOnce
<1>7. RequestsConserved
  BY <1>2, <1>3, <1>4, <1>5 DEF Init, RequestsConserved
<1>8. QdBalanced
  BY <1>2, <1>3 DEF Init, QdBalanced
<1>9. DeliveredWhole
  BY DEF Init, DeliveredWhole
<1>. QED
  BY <1>2, <1>3, <1>5, <1>6, <1>7, <1>8, <1>9 DEF Books

\* A request that was not served before gets a transfer.
LEMMA TransferAdded ==
  ASSUME RequestsConserved, NEW t, t.req \notin Served,
         transfers' = transfers \cup {t}, values' = values
  PROVE  /\ Served' = Served \cup {t.req}
         /\ All' = All \cup {t}
         /\ transfers' \cap values' = {}
         /\ \A u, w \in All' : u.req = w.req => u = w
         /\ \A v \in Values : Arrived(v)' = Arrived(v)
<1>1. All' = All \cup {t}
  BY DEF All
<1>2. \A u \in All : u.req # t.req
  BY DEF All, Served
<1>3. Served' = Served \cup {t.req}
  BY DEF Served
<1>4. transfers' \cap values' = {}
  BY <1>2 DEF All, RequestsConserved
<1>5. \A u, w \in All' : u.req = w.req => u = w
  BY <1>1, <1>2 DEF All, RequestsConserved
<1>6. \A v \in Values : Arrived(v)' = Arrived(v)
  BY DEF Arrived
<1>. QED
  BY <1>1, <1>3, <1>4, <1>5, <1>6

\* A buffer that no other transfer has becomes the destination of one.
LEMMA BufferTaken ==
  ASSUME BuffersUsedOnce, NEW t, All' = All \cup {t}, Waiting' \subseteq Waiting,
         t.buf # Allocated =>
           /\ Size[t.buf] >= Cnt(t.req) /\ EpOf[t.buf] = EpOf[t.req[1]]
           /\ t.buf \notin Waiting'
           /\ \A u \in All : u.buf # t.buf,
         offered' = Waiting' \cup (({u.buf : u \in All} \cup {t.buf}) \ {Allocated})
  PROVE  BuffersUsedOnce'
<1>1. {u.buf : u \in All'} = {u.buf : u \in All} \cup {t.buf}
  OBVIOUS
<1>2. ASSUME NEW u \in All', u.buf # Allocated
      PROVE  /\ Size[u.buf] >= Cnt(u.req) /\ EpOf[u.buf] = EpOf[u.req[1]]
             /\ u.buf \notin Waiting'
             /\ \A w \in All' : w.buf = u.buf => w = u
  <2>1. CASE u = t
    BY <1>2, <2>1
  <2>2. CASE u \in All
    <3>1. /\ Size[u.buf] >= Cnt(u.req) /\ EpOf[u.buf] = EpOf[u.req[1]]
          /\ u.buf \notin Waiting
          /\ \A w \in All : w.buf = u.buf => w = u
      BY <1>2, <2>2 DEF BuffersUsedOnce, All
    <3>2. t.buf = u.buf => FALSE
      BY <1>2, <2>2
    <3>. QED
      BY <3>1, <3>2
  <2>. QED
    BY <2>1, <2>2
<1>3. \A u : (Cnt(u))' = Cnt(u)
  BY DEF Cnt
<1>. QED
  BY <1>1, <1>2, <1>3 DEF BuffersUsedOnce, All

\* What only depends on variables that a step leaves alone.
LEMMA Frame ==
  ASSUME TypeOK, Books,
         UNCHANGED <<outstanding, buffers, transfers, values, offered, nReceived, qd>>
  PROVE  /\ Distinct(outstanding)' /\ Distinct(buffers)' /\ Homes'
         /\ IsFiniteSet(Outstanding)' /\ BuffersUsedOnce' /\ QdBalanced'
         /\ Served' = Served /\ Outstanding' = Outstanding
         /\ \A v \in Values : Arrived(v)' = Arrived(v)
         /\ Issued' = Issued => RequestsConserved'
<1>1. Outstanding' = Outstanding /\ Waiting' = Waiting
  BY DEF Outstanding, Waiting, Pool
<1>2. Served' = Served /\ \A v \in Values : Arrived(v)' = Arrived(v)
  BY DEF Served, Arrived
<1>3. Distinct(outstanding)' /\ Distinct(buffers)' /\ Homes'
  BY DEF Books, Distinct, Homes
<1>4. BuffersUsedOnce'
  BY <1>1 DEF Books, BuffersUsedOnce, Cnt
<1>5. IsFiniteSet(Outstanding)' /\ QdBalanced'
  BY <1>1 DEF Books, QdBalanced
<1>6. Issued' = Issued => RequestsConserved'
  BY <1>1, <1>2 DEF Books, RequestsConserved
<1>. QED
  BY <1>1, <1>2, <1>3, <1>4, <1>5, <1>6

LEMMA BooksSend ==
  ASSUME TypeOK, Books, NEW v \in Values, Send(v)
  PROVE  Books'
<1>1. sent' \ wire' = sent \ wire /\ current' = current
  BY DEF Send, TypeOK
<1>2. Issued' = Issued
  BY <1>1 DEF Issued
<1>3. LoopOnReceived'
  BY <1>1 DEF Books, LoopOnReceived
<1>4. UNCHANGED <<outstanding, buffers, transfers, values, offered, nReceived, qd, delivered>>
  BY DEF Send
<1>5. \A x \in Values : Arrived(x)' = Arrived(x)
  BY <1>4, Frame
<1>6. DeliveredWhole'
  BY <1>1, <1>4, <1>5 DEF Books, DeliveredWhole
<1>. QED
  BY <1>2, <1>3, <1>4, <1>6, Frame DEF Books

LEMMA BooksReceive ==
  ASSUME TypeOK, Books, NEW v \in Values, ReceiveValue(v)
  PROVE  Books'
<1>1. /\ v \in wire /\ v \in sent /\ wire' = wire \ {v} /\ sent' = sent /\ current = Idle
      /\ UNCHANGED <<outstanding, buffers, transfers, values, offered, nReceived, qd>>
  BY DEF ReceiveValue, TypeOK
<1>2. sent' \ wire' = (sent \ wire) \cup {v} /\ v \notin sent \ wire
  BY <1>1
<1>3. \A x \in Values : Arrived(x)' = Arrived(x)
  BY <1>1, Frame
<1>4. delivered[v] = 0
  BY <1>2 DEF Books, DeliveredWhole
<1>5. Arrived(v) = {}
  <2>1. \A r \in Served : r[1] \in sent \ wire
    BY DEF Books, RequestsConserved, Issued
  <2>2. \A i : <<v, i>>[1] = v
    OBVIOUS
  <2>. QED
    BY <1>2, <2>1, <2>2 DEF Arrived, Served
<1>6. Blocks[v] \in Seq(Nat)
  BY ZeroCopyAssumption
<1>7. CASE Blocks[v] = << >>
  <2>1. current' = Idle /\ delivered' = [delivered EXCEPT ![v] = @ + 1]
    BY <1>1, <1>7 DEF ReceiveValue
  <2>2. DOMAIN Blocks[v] = {}
    BY <1>7
  <2>3. \A r \in Request : r[1] # v
    BY <1>7, <1>6, <2>2, RequestParts, LenProperties
  <2>4. Issued' = Issued
    BY <1>1, <1>2, <2>1, <2>3 DEF Issued
  <2>5. delivered'[v] = 1 /\ \A x \in Values : x # v => delivered'[x] = delivered[x]
    BY <1>4, <2>1 DEF TypeOK
  <2>6. DeliveredWhole'
    BY <1>2, <1>3, <1>5, <2>2, <2>5 DEF Books, DeliveredWhole
  <2>7. LoopOnReceived'
    BY <2>1 DEF LoopOnReceived
  <2>. QED
    BY <1>1, <2>4, <2>6, <2>7, Frame DEF Books
<1>8. CASE Blocks[v] # << >>
  <2>1. current' = <<v, 1>> /\ delivered' = delivered /\ current' # Idle
    BY <1>8 DEF ReceiveValue, Idle
  <2>2. DOMAIN Blocks[v] # {}
    <3>1. DOMAIN Blocks[v] = 1 .. Len(Blocks[v]) /\ 1 \in 1 .. Len(Blocks[v])
      BY <1>6, <1>8, EmptySeq, LenProperties
    <3>. QED
      BY <3>1
  <2>3. \A r \in Request : r[1] = v => ~ (r[2] < 1)
    BY RequestParts
  <2>4. \A r \in Request : r \in Issued <=> r[1] \in sent \ wire
    BY <1>1 DEF Issued
  <2>5. \A r \in Request : r \in Issued' <=> r[1] \in sent' \ wire' /\ (r[1] = v => r[2] < 1)
    BY <2>1 DEF Issued
  <2>6. Issued' = Issued
    <3>1. \A r \in Request : r \in Issued <=> r \in Issued'
      BY <1>2, <2>3, <2>4, <2>5
    <3>. QED
      BY <3>1 DEF Issued
  <2>7. DeliveredWhole'
    BY <1>2, <1>3, <1>4, <1>5, <2>1, <2>2 DEF Books, DeliveredWhole
  <2>8. LoopOnReceived'
    BY <1>2, <2>1 DEF LoopOnReceived
  <2>. QED
    BY <1>1, <2>6, <2>7, <2>8, Frame DEF Books
<1>. QED
  BY <1>7, <1>8

LEMMA BooksPollPosted ==
  ASSUME TypeOK, Books, PollPosted
  PROVE  Books'
<1>0. /\ current \in Request /\ current # Idle /\ Advance
      /\ UNCHANGED <<sent, wire, outstanding, offered, values, nReceived, qd, delivered>>
  BY DEF PollPosted, TypeOK
<1>1. Issued' = Issued \cup {current} /\ current \notin Issued /\ LoopOnReceived'
  BY <1>0, IssuedAdvance DEF Books
<1> DEFINE ep == EpOf[current[1]]
<1>2. ep \in Endpoints /\ buffers \in [Endpoints -> Seq(Buffers)] /\ buffers[ep] \in Seq(Buffers)
  BY <1>0, RequestParts DEF TypeOK
<1>3. PICK i \in LargeEnough(ep, Cnt(current)) :
        /\ transfers' = transfers \cup {[req |-> current, buf |-> buffers[ep][i]]}
        /\ buffers' = [buffers EXCEPT ![ep] = RemoveAt(@, i)]
  BY DEF PollPosted
<1>4. PICK b : b = buffers[ep][i]
  OBVIOUS
<1>5. i \in DOMAIN buffers[ep] /\ Size[b] >= Cnt(current)
  BY <1>4 DEF LargeEnough
<1>6. b \in Buffers /\ b \in Range(buffers[ep]) /\ b # Allocated
  BY <1>2, <1>4, <1>5, LenProperties, ElementOfSeq, ZeroCopyAssumption DEF Range
<1>7. Waiting' = Waiting \ {b} /\ Distinct(buffers)' /\ b \in Waiting
  <2>1. /\ Pool(buffers') = Pool(buffers) \ {buffers[ep][i]} /\ Distinct(buffers')
        /\ buffers[ep][i] \in Pool(buffers)
    <3>1. Distinct(buffers)
      BY DEF Books
    <3>2. Replaced(buffers, buffers', ep, RemoveAt(buffers[ep], i))
      BY <1>2, <1>3 DEF Replaced
    <3>. HIDE DEF ep
    <3>. QED
      BY <1>2, <1>5, <3>1, <3>2, PoolRemove, Zenon
  <2>. QED
    BY <1>4, <2>1 DEF Waiting, Pool, Distinct
<1>8. Distinct(outstanding)' /\ Outstanding' = Outstanding
  BY <1>0 DEF Books, Distinct, Outstanding, Pool
<1>9. Homes'
  <2>1. \A e \in Endpoints : Range(buffers'[e]) \subseteq Range(buffers[e])
    BY <1>2, <1>3, <1>5, RangeOfRemoveAt
  <2>. QED
    BY <1>0, <2>1 DEF Books, Homes
<1>10. PICK t : t = [req |-> current, buf |-> b]
  OBVIOUS
<1>11. t.req = current /\ t.buf = b /\ transfers' = transfers \cup {t}
  BY <1>3, <1>4, <1>10
<1>12. current \notin Served /\ current \notin Outstanding
  BY <1>1 DEF Books, RequestsConserved
<1>13. /\ Served' = Served \cup {current} /\ All' = All \cup {t} /\ transfers' \cap values' = {}
       /\ \A u, w \in All' : u.req = w.req => u = w
       /\ \A v \in Values : Arrived(v)' = Arrived(v)
  BY <1>0, <1>11, <1>12, TransferAdded DEF Books
<1>14. BuffersUsedOnce'
  <2>1. EpOf[b] = ep
    BY <1>2, <1>6 DEF Books, Homes
  <2>2. \A u \in All : u.buf # b
    BY <1>6, <1>7 DEF Books, BuffersUsedOnce, All
  <2>3. offered = Waiting \cup ({u.buf : u \in All} \ {Allocated})
    BY DEF Books, BuffersUsedOnce, All
  <2>4. offered' = Waiting' \cup (({u.buf : u \in All} \cup {b}) \ {Allocated})
    BY <1>0, <1>6, <1>7, <2>3
  <2>. QED
    BY <1>5, <1>7, <1>11, <1>13, <2>1, <2>2, <2>4, BufferTaken DEF Books
<1>15. RequestsConserved'
  BY <1>0, <1>1, <1>8, <1>12, <1>13 DEF Books, RequestsConserved, All
<1>16. QdBalanced' /\ IsFiniteSet(Outstanding)'
  BY <1>0, <1>8 DEF Books, QdBalanced
<1>17. DeliveredWhole'
  BY <1>0, <1>13 DEF Books, DeliveredWhole
<1>. QED
  BY <1>1, <1>7, <1>8, <1>9, <1>14, <1>15, <1>16, <1>17 DEF Books

LEMMA BooksPollAllocate ==
  ASSUME TypeOK, Books, PollAllocate
  PROVE  Books'
<1>0. /\ current \in Request /\ current # Idle /\ Advance
      /\ transfers' = transfers \cup {[req |-> current, buf |-> Allocated]}
      /\ UNCHANGED <<sent, wire, outstanding, offered, buffers, values, nReceived, qd, delivered>>
  BY DEF PollAllocate, TypeOK
<1>1. Issued' = Issued \cup {current} /\ current \notin Issued /\ LoopOnReceived'
  BY <1>0, IssuedAdvance DEF Books
<1>2. /\ Distinct(outstanding)' /\ Distinct(buffers)' /\ Homes'
      /\ Outstanding' = Outstanding /\ Waiting' = Waiting
  BY <1>0 DEF Books, Distinct, Homes, Outstanding, Waiting, Pool
<1>3. PICK t : t = [req |-> current, buf |-> Allocated]
  OBVIOUS
<1>4. t.req = current /\ t.buf = Allocated /\ transfers' = transfers \cup {t}
  BY <1>0, <1>3
<1>5. current \notin Served /\ current \notin Outstanding
  BY <1>1 DEF Books, RequestsConserved
<1>6. /\ Served' = Served \cup {current} /\ All' = All \cup {t} /\ transfers' \cap values' = {}
      /\ \A u, w \in All' : u.req = w.req => u = w
      /\ \A v \in Values : Arrived(v)' = Arrived(v)
  BY <1>0, <1>4, <1>5, TransferAdded DEF Books
<1>7. BuffersUsedOnce'
  <2>1. offered = Waiting \cup ({u.buf : u \in All} \ {Allocated})
    BY DEF Books, BuffersUsedOnce, All
  <2>2. offered' = Waiting' \cup (({u.buf : u \in All} \cup {t.buf}) \ {Allocated})
    BY <1>0, <1>2, <1>4, <2>1
  <2>. QED
    BY <1>2, <1>4, <1>6, <2>2, BufferTaken DEF Books
<1>8. RequestsConserved'
  BY <1>0, <1>1, <1>2, <1>5, <1>6 DEF Books, RequestsConserved, All
<1>9. QdBalanced' /\ IsFiniteSet(Outstanding)'
  BY <1>0, <1>2 DEF Books, QdBalanced
<1>10. DeliveredWhole'
  BY <1>0, <1>6 DEF Books, DeliveredWhole
<1>. QED
  BY <1>1, <1>2, <1>7, <1>8, <1>9, <1>10 DEF Books

LEMMA BooksPollWait ==
  ASSUME TypeOK, Books, PollWait
  PROVE  Books'
<1>0. /\ current \in Request /\ current # Idle /\ Advance /\ qd' = qd + 1
      /\ outstanding' = [outstanding EXCEPT ![EpOf[current[1]]] = Append(@, current)]
      /\ UNCHANGED <<sent, wire, offered, buffers, transfers, values, nReceived, delivered>>
  BY DEF PollWait, TypeOK
<1>1. Issued' = Issued \cup {current} /\ current \notin Issued /\ LoopOnReceived'
  BY <1>0, IssuedAdvance DEF Books
<1> DEFINE ep == EpOf[current[1]]
<1>2. /\ ep \in Endpoints /\ outstanding \in [Endpoints -> Seq(Request)]
      /\ outstanding[ep] \in Seq(Request)
  BY <1>0, RequestParts DEF TypeOK
<1>3. current \notin Served /\ current \notin Outstanding
  BY <1>1 DEF Books, RequestsConserved
<1>4. Outstanding' = Outstanding \cup {current} /\ Distinct(outstanding)'
  <2>1. Pool(outstanding') = Pool(outstanding) \cup {current} /\ Distinct(outstanding')
    <3>1. Distinct(outstanding) /\ current \notin Pool(outstanding) /\ current \in Request
      BY <1>0, <1>3 DEF Books, Outstanding
    <3>2. Replaced(outstanding, outstanding', ep, Append(outstanding[ep], current))
      BY <1>0, <1>2 DEF Replaced
    <3>. HIDE DEF ep
    <3>. QED
      BY <1>2, <3>1, <3>2, PoolAppend, Zenon
  <2>. QED
    BY <2>1 DEF Outstanding, Pool, Distinct
<1>5. Distinct(buffers)' /\ Waiting' = Waiting
  BY <1>0 DEF Books, Distinct, Waiting, Pool
<1>6. Homes'
  <2>1. Range(outstanding'[ep]) = Range(outstanding[ep]) \cup {current}
    BY <1>0, <1>2, RangeOfAppend
  <2>2. \A e \in Endpoints : e # ep => outstanding'[e] = outstanding[e]
    BY <1>0, <1>2
  <2>. QED
    BY <1>0, <2>1, <2>2 DEF Books, Homes
<1>7. Served' = Served /\ \A v \in Values : Arrived(v)' = Arrived(v)
  BY <1>0 DEF Served, Arrived
<1>8. BuffersUsedOnce'
  BY <1>0, <1>5 DEF Books, BuffersUsedOnce, Cnt
<1>9. RequestsConserved'
  BY <1>0, <1>1, <1>3, <1>4, <1>7 DEF Books, RequestsConserved
<1>10. QdBalanced' /\ IsFiniteSet(Outstanding)'
  <2>1. IsFiniteSet(Outstanding) /\ qd = Cardinality(Outstanding)
    BY DEF Books, QdBalanced
  <2>2. /\ IsFiniteSet(Outstanding \cup {current})
        /\ Cardinality(Outstanding \cup {current}) = Cardinality(Outstanding) + 1
    BY <1>3, <2>1, FS_AddElement
  <2>. QED
    BY <1>0, <1>4, <2>1, <2>2 DEF QdBalanced
<1>11. DeliveredWhole'
  BY <1>0, <1>7 DEF Books, DeliveredWhole
<1>. QED
  BY <1>1, <1>4, <1>5, <1>6, <1>8, <1>9, <1>10, <1>11 DEF Books

LEMMA BooksPost ==
  ASSUME TypeOK, Books, NEW b \in Buffers, PostBuffer(b)
  PROVE  Books'
<1> DEFINE ep == EpOf[b]
<1>0. /\ b \notin offered /\ offered' = offered \cup {b} /\ b # Allocated
      /\ UNCHANGED <<sent, wire, current, values, nReceived, delivered>>
  BY ZeroCopyAssumption DEF PostBuffer
<1>1. /\ ep \in Endpoints /\ Size[b] \in Nat
      /\ buffers \in [Endpoints -> Seq(Buffers)] /\ buffers[ep] \in Seq(Buffers)
      /\ outstanding \in [Endpoints -> Seq(Request)] /\ outstanding[ep] \in Seq(Request)
  BY BufferParts DEF TypeOK
<1>2. Issued' = Issued /\ LoopOnReceived'
  BY <1>0 DEF Books, Issued, LoopOnReceived
<1>3. \A v \in Values : Arrived(v)' = Arrived(v)
  BY <1>0 DEF Arrived
<1>4. DeliveredWhole'
  BY <1>0, <1>3 DEF Books, DeliveredWhole
<1>5. offered = Waiting \cup ({u.buf : u \in All} \ {Allocated})
  BY DEF Books, BuffersUsedOnce, All
<1>6. b \notin Waiting /\ \A u \in All : u.buf # b
  BY <1>0, <1>5
<1>7. ASSUME buffers' = [buffers EXCEPT ![ep] = Append(@, b)], UNCHANGED <<outstanding, transfers, qd>>
      PROVE  Books'
  <2>1. Waiting' = Waiting \cup {b} /\ Distinct(buffers)'
    <3>1. Pool(buffers') = Pool(buffers) \cup {b} /\ Distinct(buffers')
      <4>1. Distinct(buffers) /\ b \notin Pool(buffers)
        BY <1>6 DEF Books, Waiting
      <4>2. Replaced(buffers, buffers', ep, Append(buffers[ep], b))
        BY <1>1, <1>7 DEF Replaced
      <4>. HIDE DEF ep
      <4>. QED
        BY <1>1, <4>1, <4>2, PoolAppend, Zenon
    <3>. QED
      BY <3>1 DEF Waiting, Pool, Distinct
  <2>2. Distinct(outstanding)' /\ Outstanding' = Outstanding
    BY <1>7 DEF Books, Distinct, Outstanding, Pool
  <2>3. Homes'
    <3>1. Range(buffers'[ep]) = Range(buffers[ep]) \cup {b}
      BY <1>1, <1>7, RangeOfAppend
    <3>2. \A e \in Endpoints : e # ep => buffers'[e] = buffers[e]
      BY <1>1, <1>7
    <3>. QED
      BY <1>7, <3>1, <3>2 DEF Books, Homes
  <2>4. Served' = Served /\ All' = All
    BY <1>0, <1>7 DEF Served, All
  <2>5. BuffersUsedOnce'
    <3>1. \A t \in All : t.buf # Allocated =>
            /\ Size[t.buf] >= Cnt(t.req) /\ EpOf[t.buf] = EpOf[t.req[1]]
            /\ t.buf \notin Waiting'
            /\ \A u \in All : u.buf = t.buf => u = t
      BY <1>6, <2>1 DEF Books, BuffersUsedOnce, All
    <3>2. offered' = Waiting' \cup ({u.buf : u \in All} \ {Allocated})
      BY <1>0, <1>5, <2>1
    <3>3. \A u : (Cnt(u))' = Cnt(u)
      BY DEF Cnt
    <3>. QED
      BY <2>4, <3>1, <3>2, <3>3 DEF BuffersUsedOnce, All
  <2>6. RequestsConserved'
    BY <1>0, <1>2, <1>3, <1>7, <2>2, <2>4 DEF Books, RequestsConserved
  <2>7. QdBalanced' /\ IsFiniteSet(Outstanding)'
    BY <1>7, <2>2 DEF Books, QdBalanced
  <2>. QED
    BY <1>2, <1>4, <2>1, <2>2, <2>3, <2>5, <2>6, <2>7 DEF Books
<1>8. ASSUME NEW i \in Applicable(ep, Size[b]),
             transfers' = transfers \cup {[req |-> outstanding[ep][i], buf |-> b]},
             outstanding' = [outstanding EXCEPT ![ep] = RemoveAt(@, i)],
             qd' = qd - 1, buffers' = buffers
      PROVE  Books'
  <2>0. PICK r : r = outstanding[ep][i]
    OBVIOUS
  <2>1. i \in DOMAIN outstanding[ep] /\ Cnt(r) <= Size[b]
    BY <2>0 DEF Applicable
  <2>2. r \in Request /\ r \in Range(outstanding[ep]) /\ Cnt(r) \in Nat
    BY <1>1, <2>0, <2>1, LenProperties, ElementOfSeq, RequestParts DEF Range
  <2>3. Outstanding' = Outstanding \ {r} /\ Distinct(outstanding)' /\ r \in Outstanding
    <3>1. /\ Pool(outstanding') = Pool(outstanding) \ {outstanding[ep][i]} /\ Distinct(outstanding')
          /\ outstanding[ep][i] \in Pool(outstanding)
      <4>1. Distinct(outstanding)
        BY DEF Books
      <4>2. Replaced(outstanding, outstanding', ep, RemoveAt(outstanding[ep], i))
        BY <1>1, <1>8 DEF Replaced
      <4>. HIDE DEF ep
      <4>. QED
        BY <1>1, <2>1, <4>1, <4>2, PoolRemove, Zenon
    <3>. QED
      BY <2>0, <3>1 DEF Outstanding, Pool, Distinct
  <2>4. Distinct(buffers)' /\ Waiting' = Waiting
    BY <1>8 DEF Books, Distinct, Waiting, Pool
  <2>5. Homes'
    <3>1. \A e \in Endpoints : Range(outstanding'[e]) \subseteq Range(outstanding[e])
      BY <1>1, <1>8, <2>1, RangeOfRemoveAt
    <3>. QED
      BY <1>8, <3>1 DEF Books, Homes
  <2>6. PICK t : t = [req |-> r, buf |-> b]
    OBVIOUS
  <2>7. t.req = r /\ t.buf = b /\ transfers' = transfers \cup {t}
    BY <1>8, <2>0, <2>6
  <2>8. r \notin Served
    BY <2>3 DEF Books, RequestsConserved
  <2>9. /\ Served' = Served \cup {r} /\ All' = All \cup {t} /\ transfers' \cap values' = {}
        /\ \A u, w \in All' : u.req = w.req => u = w
    BY <1>0, <2>7, <2>8, TransferAdded DEF Books
  <2>10. BuffersUsedOnce'
    <3>1. EpOf[b] = EpOf[r[1]]
      BY <1>1, <2>2 DEF Books, Homes
    <3>2. Size[b] >= Cnt(r)
      BY <1>1, <2>1, <2>2
    <3>3. offered' = Waiting' \cup (({u.buf : u \in All} \cup {b}) \ {Allocated})
      BY <1>0, <1>5, <2>4
    <3>. QED
      BY <1>6, <2>4, <2>7, <2>9, <3>1, <3>2, <3>3, BufferTaken DEF Books
  <2>11. RequestsConserved'
    BY <1>0, <1>2, <1>3, <2>3, <2>8, <2>9 DEF Books, RequestsConserved, All
  <2>12. QdBalanced' /\ IsFiniteSet(Outstanding)'
    <3>1. IsFiniteSet(Outstanding) /\ qd = Cardinality(Outstanding)
      BY DEF Books, QdBalanced
    <3>2. IsFiniteSet(Outstanding \ {r}) /\ Cardinality(Outstanding \ {r}) = Cardinality(Outstanding) - 1
      BY <2>3, <3>1, FS_RemoveElement
    <3>. QED
      BY <1>8, <2>3, <3>1, <3>2 DEF QdBalanced
  <2>. QED
    BY <1>2, <1>4, <2>3, <2>4, <2>5, <2>10, <2>11, <2>12 DEF Books
<1>. QED
  BY <1>7, <1>8 DEF PostBuffer

\* All blocks of a value have arrived when nReceived says so.
LEMMA ArrivedCount ==
  ASSUME NEW v \in Values, NEW A \in SUBSET DOMAIN Blocks[v]
  PROVE  /\ IsFiniteSet(A)
         /\ Cardinality(A) = Len(Blocks[v]) <=> A = DOMAIN Blocks[v]
         /\ Len(Blocks[v]) = 0 => A = {}
<1>1. Blocks[v] \in Seq(Nat)
  BY ZeroCopyAssumption
<1>2. DOMAIN Blocks[v] = 1 .. Len(Blocks[v]) /\ Len(Blocks[v]) \in Nat
  BY <1>1, LenProperties
<1>3. IsFiniteSet(1 .. Len(Blocks[v])) /\ Cardinality(1 .. Len(Blocks[v])) = Len(Blocks[v])
  BY <1>2, FS_Interval
<1>4. IsFiniteSet(A) /\ (Cardinality(1 .. Len(Blocks[v])) = Cardinality(A) => 1 .. Len(Blocks[v]) = A)
  BY <1>2, <1>3, FS_Subset
<1>. QED
  BY <1>2, <1>3, <1>4

LEMMA BooksComplete ==
  ASSUME TypeOK, Books, NEW t \in transfers, Complete(t)
  PROVE  Books'
<1> DEFINE v == t.req[1]
           k == t.req[2]
<1>0. /\ transfers' = transfers \ {t} /\ values' = values \cup {t}
      /\ nReceived' = [nReceived EXCEPT ![v] = @ + 1]
      /\ delivered' = IF Ready(v, nReceived'[v]) THEN [delivered EXCEPT ![v] = @ + 1] ELSE delivered
      /\ UNCHANGED <<sent, wire, current, outstanding, offered, buffers, qd>>
  BY DEF Complete
<1>1. /\ t.req \in Request /\ v \in Values /\ k \in DOMAIN Blocks[v] /\ t.req = <<v, k>>
  <2>1. t.req \in Request
    BY DEF TypeOK, Transfer
  <2>2. v \in Values /\ k \in 1 .. Len(Blocks[v]) /\ t.req = <<v, k>> /\ Blocks[v] \in Seq(Nat)
    BY <2>1, RequestParts
  <2>. QED
    BY <2>1, <2>2, LenProperties
<1>2. /\ Distinct(outstanding)' /\ Distinct(buffers)' /\ Homes'
      /\ Outstanding' = Outstanding /\ Waiting' = Waiting
  BY <1>0 DEF Books, Distinct, Homes, Outstanding, Waiting, Pool
<1>3. Issued' = Issued /\ LoopOnReceived'
  BY <1>0 DEF Books, Issued, LoopOnReceived
<1>4. All' = All /\ Served' = Served /\ transfers' \cap values' = {}
  BY <1>0 DEF All, Served, Books, RequestsConserved
<1>5. BuffersUsedOnce'
  BY <1>0, <1>2, <1>4 DEF Books, BuffersUsedOnce, All, Cnt
<1>6. \A u \in values : u.req # <<v, k>>
  BY <1>1 DEF Books, RequestsConserved
<1>7. /\ k \notin Arrived(v)
      /\ Arrived(v)' = Arrived(v) \cup {k}
      /\ \A x \in Values : x # v => Arrived(x)' = Arrived(x)
  <2>1. k \notin Arrived(v)
    BY <1>6 DEF Arrived
  <2>2. \A i : <<v, i>> = t.req <=> i = k
    BY <1>1
  <2>3. Arrived(v)' = Arrived(v) \cup {k}
    BY <1>0, <1>1, <2>2 DEF Arrived
  <2>4. \A x, i : x # v => <<x, i>> # t.req
    BY <1>1
  <2>5. \A x \in Values : x # v => Arrived(x)' = Arrived(x)
    BY <1>0, <2>4 DEF Arrived
  <2>. QED
    BY <2>1, <2>3, <2>5
<1>8. /\ nReceived'[v] = Cardinality(Arrived(v)')
      /\ \A x \in Values : x # v => nReceived'[x] = nReceived[x]
      /\ nReceived'[v] # 0
  <2>1. Arrived(v) \in SUBSET DOMAIN Blocks[v]
    BY DEF Arrived
  <2>2. IsFiniteSet(Arrived(v))
    BY <1>1, <2>1, ArrivedCount
  <2>3. Cardinality(Arrived(v) \cup {k}) = Cardinality(Arrived(v)) + 1
    BY <1>7, <2>2, FS_AddElement
  <2>4. nReceived[v] = Cardinality(Arrived(v)) /\ nReceived[v] \in Nat
    BY <1>1 DEF Books, RequestsConserved, TypeOK
  <2>5. nReceived'[v] = nReceived[v] + 1 /\ \A x \in Values : x # v => nReceived'[x] = nReceived[x]
    BY <1>0, <1>1 DEF TypeOK
  <2>6. Cardinality(Arrived(v)') = Cardinality(Arrived(v)) + 1
    BY <1>7, <2>3
  <2>. QED
    BY <2>4, <2>5, <2>6
<1>9. RequestsConserved'
  <2>1. \A x \in Values : nReceived'[x] = Cardinality(Arrived(x)')
    BY <1>7, <1>8 DEF Books, RequestsConserved
  <2>. QED
    BY <1>2, <1>3, <1>4, <2>1 DEF Books, RequestsConserved, All
<1>10. QdBalanced' /\ IsFiniteSet(Outstanding)'
  BY <1>0, <1>2 DEF Books, QdBalanced
<1>11. DeliveredWhole'
  <2>1. v \in sent \ wire
    <3>1. t.req \in Served
      BY DEF Served
    <3>. QED
      BY <3>1 DEF Books, RequestsConserved, Issued
  <2>2. delivered[v] = 0
    BY <1>1, <1>7 DEF Books, DeliveredWhole
  <2>3. Ready(v, nReceived'[v]) <=> Arrived(v)' = DOMAIN Blocks[v]
    <3>1. Arrived(v)' \in SUBSET DOMAIN Blocks[v]
      BY <1>1, <1>7 DEF Arrived
    <3>2. Cardinality(Arrived(v)') = Len(Blocks[v]) <=> Arrived(v)' = DOMAIN Blocks[v]
      BY <1>1, <3>1, ArrivedCount
    <3>. QED
      BY <1>8, <3>2 DEF Ready
  <2>4. /\ delivered'[v] = IF Arrived(v)' = DOMAIN Blocks[v] THEN 1 ELSE 0
        /\ \A x \in Values : x # v => delivered'[x] = delivered[x]
    BY <1>0, <1>1, <2>2, <2>3 DEF TypeOK
  <2>. QED
    <3>1. ASSUME NEW x \in Values
          PROVE  /\ delivered'[x] \in {0, 1}
                 /\ delivered'[x] = 1 <=> x \in sent' \ wire' /\ Arrived(x)' = DOMAIN Blocks[x]
      <4>1. CASE x = v
        BY <1>0, <2>1, <2>4, <4>1
      <4>2. CASE x # v
        BY <1>0, <1>7, <2>4, <4>2 DEF Books, DeliveredWhole
      <4>. QED
        BY <4>1, <4>2
    <3>. QED
      BY <3>1 DEF DeliveredWhole
<1>. QED
  BY <1>2, <1>3, <1>5, <1>9, <1>10, <1>11 DEF Books

LEMMA BooksNext == TypeOK /\ Books /\ [Next]_vars => Books'
<1>. SUFFICES ASSUME TypeOK, Books, [Next]_vars PROVE Books'
  OBVIOUS
<1>1. ASSUME UNCHANGED <<outstanding, buffers, transfers, values, offered, nReceived, qd,
                         sent, wire, current, delivered>>
      PROVE  Books'
  <2>1. Issued' = Issued /\ LoopOnReceived'
    BY <1>1 DEF Books, Issued, LoopOnReceived
  <2>2. \A v \in Values : Arrived(v)' = Arrived(v)
    BY <1>1 DEF Arrived
  <2>3. DeliveredWhole'
    BY <1>1, <2>2 DEF Books, DeliveredWhole
  <2>. QED
    BY <1>1, <2>1, <2>3, Frame DEF Books
<1>2. ASSUME NEW ep \in Endpoints, ManualMode(ep) PROVE Books'
  BY <1>1, <1>2 DEF ManualMode
<1>3. CASE UNCHANGED vars
  BY <1>1, <1>3 DEF vars
<1>. QED
  BY <1>2, <1>3, BooksSend, BooksReceive, BooksPost, BooksPollPosted, BooksPollAllocate,
     BooksPollWait, BooksComplete DEF Next

LEMMA BooksAlways == Spec => [](TypeOK /\ Books)
<1>1. Init => TypeOK /\ Books
  BY TypeInit, BooksInit
<1>2. TypeOK /\ Books /\ [Next]_vars => (TypeOK /\ Books)'
  BY TypeNext, BooksNext
<1>. QED
  BY <1>1, <1>2, PTL DEF Spec

\* Each buffer that is posted receives at most one block, of its own endpoint,
\* that fits into it.
THEOREM BuffersAreUsedOnce == Spec => []BuffersUsedOnce
<1>1. Books => BuffersUsedOnce
  BY DEF Books
<1>. QED
  BY <1>1, BooksAlways, PTL

\* No block of a received value is lost or asked for twice.
THEOREM RequestsAreConserved == Spec => []RequestsConserved
<1>1. Books => RequestsConserved
  BY DEF Books
<1>. QED
  BY <1>1, BooksAlways, PTL

\* The endpoint's handler gets a value once, with all of its blocks.
THEOREM ValuesDeliveredWhole == Spec => []DeliveredWhole
<1>1. Books => DeliveredWhole
  BY DEF Books
<1>. QED
  BY <1>1, BooksAlways, PTL

\* With nothing in flight and nothing counted, all is delivered.
LEMMA NothingCounted == TypeOK /\ Books => QuiescenceSound
<1>. SUFFICES ASSUME TypeOK, Books, wire = {}, current = Idle, transfers = {}, qd = 0,
                     NEW v \in sent
              PROVE  delivered[v] = 1
  BY DEF QuiescenceSound
<1>1. v \in Values /\ v \in sent \ wire
  BY DEF TypeOK
<1>2. Outstanding = {}
  BY FS_EmptySet DEF Books, QdBalanced
<1>3. \A r \in Request : r[1] = v => \E t \in values : t.req = r
  <2>1. \A r \in Request : r[1] = v => r \in Issued
    BY <1>1 DEF Issued
  <2>. QED
    BY <1>2, <2>1 DEF Books, RequestsConserved, Served
<1>4. ASSUME NEW i \in DOMAIN Blocks[v]
      PROVE  \E t \in values : t.req = <<v, i>>
  <2>1. <<v, i>> \in Request /\ <<v, i>>[1] = v
    BY <1>1, <1>4 DEF Request
  <2>. QED
    BY <1>3, <2>1
<1>5. Arrived(v) = DOMAIN Blocks[v]
  BY <1>4 DEF Arrived
<1>. QED
  BY <1>1, <1>5 DEF Books, DeliveredWhole

\* The quiescence counter is the number of waiting requests ...
THEOREM QdIsBalanced == Spec => []QdBalanced
<1>1. Books => QdBalanced
  BY DEF Books
<1>. QED
  BY <1>1, BooksAlways, PTL

\* ... so that quiescence means that every value sent was delivered.
THEOREM QuiescenceIsSound == Spec => []QuiescenceSound
BY BooksAlways, NothingCounted, PTL
=============================================================================
