---------------------------- MODULE SerdesProofs ----------------------------
(***************************************************************************)
(* Proofs about Serdes, for any objects, graphs and number of hops: what   *)
(* the receiver holds is what was sent, and no assertion fails, as long as *)
(* the value is one that the serializer supports.                          *)
(*                                                                         *)
(* The three walks (sizing, packing, unpacking) are compared with a fourth *)
(* one, over the objects of the value itself: it lists the pointers in the *)
(* order of pup, with the objects seen so far.  The sizer goes along it,   *)
(* and the packer and the receiver repeat the steps that the sizer took.   *)
(***************************************************************************)
EXTENDS Serdes, FiniteSetTheorems, SequenceTheorems, TLAPS

-----------------------------------------------------------------------------
\* What lies below an object that is on no cycle.
Below(g, o) == CHOOSE S \in SUBSET Objects : HoldsBelow(S, g, o) /\ o \notin S

-----------------------------------------------------------------------------
(***************************************************************************)
(* The walk over the objects of a value v: what is yet to be visited, the  *)
(* objects seen, and the bytes taken so far.                               *)
(***************************************************************************)

ItemKind(o, seen) == IF o = Null THEN "IGNORED"
                     ELSE IF Kind[o] = "buffer" THEN "DEFERRED"
                     ELSE IF o \in seen THEN "REFERENCE" ELSE "INSTANCE"

HeadKind(a) == ItemKind(Head(a.todo), a.seen)

After(v, a) ==
    [todo |-> (IF HeadKind(a) = "INSTANCE" THEN v.kids[Head(a.todo)] ELSE <<>>)
                 \o Tail(a.todo),
     seen |-> a.seen \cup ({Head(a.todo)} \ {Null}),
     size |-> a.size + Width([kind |-> HeadKind(a), obj |-> Head(a.todo)])]

WalkState == [todo : Seq(Objects \cup {Null}), seen : SUBSET Objects, size : Nat]

\* The first N steps, each as it should be, and what they have seen: never the
\* root again, once it has been left.
Walk(v, w, N) ==
    /\ N \in Nat
    /\ w \in [0 .. N -> WalkState]
    /\ w[0] = [todo |-> <<v.root>>, seen |-> {}, size |-> 0]
    /\ \A k \in 0 .. (N - 1) : w[k].todo # <<>> /\ w[k + 1] = After(v, w[k])
    /\ \A k \in 0 .. N : w[k].seen \subseteq w[N].seen
    /\ \A k \in 1 .. N :
         /\ v.root \in w[k].seen
         /\ w[k].size >= InstanceSize
         /\ \A i \in DOMAIN w[k].todo : w[k].todo[i] \in Below(v.kids, v.root) \cup {Null}

FullWalk(v, w, N) == Walk(v, w, N) /\ w[N].todo = <<>>

-----------------------------------------------------------------------------
(***************************************************************************)
(* Lemmas about objects and walks.                                         *)
(***************************************************************************)

\* A value that an application may send.
IsValue(v) == v.kids \in Graphs /\ v.root \in Roots

LEMMA ObjectFacts ==
  /\ Objects \subseteq Nat \ {Null}
  /\ \A o \in Objects : Kind[o] \in {"plain", "poly", "bytes", "buffer"}
  /\ Objects # {} => 1 \in Objects
<1>1. /\ Kind \in [1 .. Len(Kind) -> {"plain", "poly", "bytes", "buffer"}]
      /\ Len(Kind) \in Nat
  BY SerdesAssumption, LenProperties
<1>2. Objects = 1 .. Len(Kind)
  BY <1>1 DEF Objects
<1>. QED
  BY <1>1, <1>2 DEF Null

LEMMA ValueFacts ==
  ASSUME NEW v, IsValue(v), NEW o \in Objects
  PROVE  /\ v.root \in Objects
         /\ v.kids[o] \in Seq(Objects \cup {Null})
         /\ DOMAIN v.kids[o] = 1 .. Len(v.kids[o])
         /\ Len(v.kids[o]) \in Nat
         /\ \A i \in DOMAIN v.kids[o] : v.kids[o][i] \in Objects \cup {Null}
         /\ Kind[o] \in {"bytes", "buffer"} => v.kids[o] = <<>>
<1>1. v.kids \in [Objects -> Seq(Objects \cup {Null})] /\ v.root \in Objects
  BY SerdesAssumption DEF IsValue
<1>2. v.kids[o] \in Seq(Objects \cup {Null})
  BY <1>1
<1>3. Kind[o] \in {"bytes", "buffer"} => v.kids[o] = <<>>
  BY SerdesAssumption DEF IsValue
<1>. QED
  BY <1>1, <1>2, <1>3, LenProperties, ElementOfSeq

LEMMA BelowFacts ==
  ASSUME Supported, NEW v, IsValue(v), NEW o \in Objects,
         Kind[o] # "poly" \/ o = v.root
  PROVE  /\ Below(v.kids, o) \subseteq Objects
         /\ o \notin Below(v.kids, o)
         /\ \A p \in Below(v.kids, o) \cup {o} : \A i \in DOMAIN v.kids[p] :
              v.kids[p][i] \in Below(v.kids, o) \cup {Null}
<1>1. \E S \in SUBSET Objects : HoldsBelow(S, v.kids, o) /\ o \notin S
  BY DEF Supported, IsValue, OnNoCycle
<1>2. /\ Below(v.kids, o) \in SUBSET Objects
      /\ HoldsBelow(Below(v.kids, o), v.kids, o)
      /\ o \notin Below(v.kids, o)
  BY <1>1 DEF Below
<1>. QED
  BY <1>2 DEF HoldsBelow

\* What the members of an object point to.
LEMMA WidthFacts ==
  ASSUME NEW o \in Objects \cup {Null}, NEW kind \in {"IGNORED", "REFERENCE", "DEFERRED", "INSTANCE"}
  PROVE  /\ Width([kind |-> kind, obj |-> o]) \in Nat
         /\ kind \in {"DEFERRED", "INSTANCE"} =>
              Width([kind |-> kind, obj |-> o]) >= InstanceSize
<1>1. Payload(o) \in Nat
  BY DEF Payload
<1>. QED
  BY <1>1 DEF Width, InstanceSize

LEMMA ItemKinds ==
  ASSUME NEW o, NEW seen
  PROVE  ItemKind(o, seen) \in {"IGNORED", "REFERENCE", "DEFERRED", "INSTANCE"}
BY DEF ItemKind

LEMMA HeadTail ==
  ASSUME NEW S, NEW s \in Seq(S), s # <<>>
  PROVE  /\ Head(s) \in S /\ Head(s) = s[1]
         /\ Tail(s) \in Seq(S)
         /\ Len(s) \in Nat \ {0}
         /\ Len(Tail(s)) = Len(s) - 1
         /\ 1 \in DOMAIN s
         /\ DOMAIN s = 1 .. Len(s)
         /\ DOMAIN Tail(s) = 1 .. (Len(s) - 1)
         /\ \A i \in 1 .. (Len(s) - 1) : Tail(s)[i] = s[i + 1] /\ i + 1 \in DOMAIN s
<1>1. /\ Len(s) \in Nat \ {0} /\ DOMAIN s = 1 .. Len(s)
  BY EmptySeq, LenProperties
<1>2. /\ Head(s) \in S /\ Tail(s) \in Seq(S) /\ Len(Tail(s)) = Len(s) - 1
      /\ \A i \in 1 .. Len(Tail(s)) : Tail(s)[i] = s[i + 1]
  BY HeadTailProperties
<1>3. DOMAIN Tail(s) = 1 .. Len(Tail(s))
  BY <1>2, LenProperties
<1>4. Head(s) = s[1]
  OBVIOUS
<1>. QED
  BY <1>1, <1>2, <1>3, <1>4

LEMMA AfterFacts ==
  ASSUME NEW v, IsValue(v), NEW a \in WalkState, a.todo # <<>>
  PROVE  /\ After(v, a) \in WalkState
         /\ After(v, a).seen = a.seen \cup ({Head(a.todo)} \ {Null})
         /\ After(v, a).size >= a.size
         /\ Head(a.todo) \in Objects \cup {Null}
         /\ \A i \in DOMAIN After(v, a).todo :
              \/ \E j \in DOMAIN a.todo : After(v, a).todo[i] = a.todo[j]
              \/ /\ Head(a.todo) \in Objects
                 /\ \E j \in DOMAIN v.kids[Head(a.todo)] :
                      After(v, a).todo[i] = v.kids[Head(a.todo)][j]
<1> DEFINE o == Head(a.todo)
           new == IF HeadKind(a) = "INSTANCE" THEN v.kids[o] ELSE <<>>
<1>. HIDE DEF new
<1>1. a.todo \in Seq(Objects \cup {Null}) /\ a.seen \subseteq Objects /\ a.size \in Nat
  BY DEF WalkState
<1>2. /\ o \in Objects \cup {Null}
      /\ Tail(a.todo) \in Seq(Objects \cup {Null})
      /\ \A i \in 1 .. Len(Tail(a.todo)) : Tail(a.todo)[i] = a.todo[i + 1] /\ i + 1 \in DOMAIN a.todo
  BY <1>1, HeadTail
<1>3. HeadKind(a) = "INSTANCE" => o \in Objects
  BY <1>2 DEF HeadKind, ItemKind
<1>4. new \in Seq(Objects \cup {Null})
  BY <1>3, ValueFacts, EmptySeq DEF new
<1>5. Width([kind |-> HeadKind(a), obj |-> o]) \in Nat
  BY <1>2, WidthFacts, ItemKinds DEF HeadKind
<1>6. /\ After(v, a).todo = new \o Tail(a.todo)
      /\ After(v, a).seen = a.seen \cup ({o} \ {Null})
      /\ After(v, a).size = a.size + Width([kind |-> HeadKind(a), obj |-> o])
      /\ After(v, a) = [todo |-> After(v, a).todo, seen |-> After(v, a).seen, size |-> After(v, a).size]
  BY DEF After, new
<1>7. /\ new \o Tail(a.todo) \in Seq(Objects \cup {Null})
      /\ Len(new \o Tail(a.todo)) = Len(new) + Len(Tail(a.todo))
      /\ \A i \in 1 .. (Len(new) + Len(Tail(a.todo))) :
           (new \o Tail(a.todo))[i] = IF i <= Len(new) THEN new[i] ELSE Tail(a.todo)[i - Len(new)]
  BY <1>2, <1>4, ConcatProperties
<1>8. After(v, a) \in WalkState
  <2>1. /\ After(v, a).todo \in Seq(Objects \cup {Null})
        /\ After(v, a).seen \in SUBSET Objects
        /\ After(v, a).size \in Nat
    BY <1>1, <1>2, <1>5, <1>6, <1>7
  <2>. QED
    BY <2>1, <1>6 DEF WalkState
<1>9. ASSUME NEW i \in DOMAIN After(v, a).todo
      PROVE  \/ \E j \in DOMAIN a.todo : After(v, a).todo[i] = a.todo[j]
             \/ /\ o \in Objects
                /\ \E j \in DOMAIN v.kids[o] : After(v, a).todo[i] = v.kids[o][j]
  <2>1. /\ Len(new) \in Nat /\ Len(Tail(a.todo)) \in Nat
        /\ i \in 1 .. (Len(new) + Len(Tail(a.todo)))
    BY <1>2, <1>4, <1>6, <1>7, LenProperties
  <2>2. CASE i <= Len(new)
    <3>1. new # <<>>
      BY <2>1, <2>2, EmptySeq
    <3>2. new = v.kids[o] /\ o \in Objects
      BY <3>1, <1>3 DEF new
    <3>3. i \in DOMAIN v.kids[o]
      BY <3>2, <2>1, <2>2, ValueFacts
    <3>. QED
      BY <3>2, <3>3, <2>1, <2>2, <1>6, <1>7
  <2>3. CASE ~(i <= Len(new))
    <3>1. i - Len(new) \in 1 .. Len(Tail(a.todo))
      BY <2>1, <2>3
    <3>2. After(v, a).todo[i] = Tail(a.todo)[i - Len(new)]
      BY <2>1, <2>3, <1>6, <1>7
    <3>. QED
      BY <3>1, <3>2, <1>2
  <2>. QED
    BY <2>2, <2>3
<1>10. After(v, a).size >= a.size
  <2>. DEFINE d == Width([kind |-> HeadKind(a), obj |-> o])
  <2>1. d \in Nat /\ a.size \in Nat /\ After(v, a).size = a.size + d
    BY <1>1, <1>5, <1>6
  <2>. HIDE DEF d
  <2>. QED
    BY <2>1
<1>. QED
  BY <1>2, <1>6, <1>8, <1>9, <1>10

\* The walk that has only begun, and a walk that goes one step further.
LEMMA WalkBegins ==
  ASSUME NEW v, IsValue(v)
  PROVE  \E w : /\ Walk(v, w, 0)
                /\ w[0] = [todo |-> <<v.root>>, seen |-> {}, size |-> 0]
<1> DEFINE w == [k \in 0 .. 0 |-> [todo |-> <<v.root>>, seen |-> {}, size |-> 0]]
<1>1. v.root \in Objects
  BY SerdesAssumption DEF IsValue
<1>2. <<v.root>> \in Seq(Objects \cup {Null})
  BY <1>1
<1>3. w[0] = [todo |-> <<v.root>>, seen |-> {}, size |-> 0]
  OBVIOUS
<1>4. w \in [0 .. 0 -> WalkState]
  BY <1>2 DEF WalkState
<1>. HIDE DEF w
<1>5. Walk(v, w, 0)
  BY <1>3, <1>4 DEF Walk
<1>. QED
  BY <1>3, <1>5

LEMMA WalkGoesOn ==
  ASSUME Supported, NEW v, IsValue(v), NEW w, NEW N, Walk(v, w, N), w[N].todo # <<>>
  PROVE  \E x : /\ Walk(v, x, N + 1)
                /\ x[N + 1] = After(v, w[N])
<1> DEFINE x == [k \in 0 .. (N + 1) |-> IF k <= N THEN w[k] ELSE After(v, w[N])]
<1>1. /\ N \in Nat
      /\ w \in [0 .. N -> WalkState]
      /\ w[0] = [todo |-> <<v.root>>, seen |-> {}, size |-> 0]
      /\ \A k \in 0 .. (N - 1) : w[k].todo # <<>> /\ w[k + 1] = After(v, w[k])
      /\ \A k \in 0 .. N : w[k].seen \subseteq w[N].seen
      /\ \A k \in 1 .. N :
           /\ v.root \in w[k].seen
           /\ w[k].size >= InstanceSize
           /\ \A i \in DOMAIN w[k].todo : w[k].todo[i] \in Below(v.kids, v.root) \cup {Null}
  BY DEF Walk
<1>2. w[N] \in WalkState
  BY <1>1
<1>3. /\ After(v, w[N]) \in WalkState
      /\ After(v, w[N]).seen = w[N].seen \cup ({Head(w[N].todo)} \ {Null})
      /\ After(v, w[N]).size >= w[N].size
      /\ \A i \in DOMAIN After(v, w[N]).todo :
           \/ \E j \in DOMAIN w[N].todo : After(v, w[N]).todo[i] = w[N].todo[j]
           \/ /\ Head(w[N].todo) \in Objects
              /\ \E j \in DOMAIN v.kids[Head(w[N].todo)] :
                   After(v, w[N]).todo[i] = v.kids[Head(w[N].todo)][j]
  BY <1>2, AfterFacts
<1>4. \A k \in 0 .. N : x[k] = w[k]
  BY <1>1
<1>5. x[N + 1] = After(v, w[N])
  BY <1>1
<1>6. x \in [0 .. (N + 1) -> WalkState]
  BY <1>1, <1>3
<1>. HIDE DEF x
<1>7. v.root \in Objects
  BY SerdesAssumption DEF IsValue
<1>8. /\ Below(v.kids, v.root) \subseteq Objects
      /\ \A p \in Below(v.kids, v.root) \cup {v.root} : \A i \in DOMAIN v.kids[p] :
           v.kids[p][i] \in Below(v.kids, v.root) \cup {Null}
  BY <1>7, BelowFacts
<1>9. /\ v.root \in After(v, w[N]).seen
      /\ After(v, w[N]).size >= InstanceSize
      /\ \A i \in DOMAIN After(v, w[N]).todo :
           After(v, w[N]).todo[i] \in Below(v.kids, v.root) \cup {Null}
  <2>1. CASE N = 0
    <3>1. w[N].todo = <<v.root>> /\ w[N].seen = {} /\ w[N].size = 0
      BY <2>1, <1>1
    <3>2. Head(w[N].todo) = v.root /\ DOMAIN w[N].todo = {1} /\ w[N].todo[1] = v.root
      BY <3>1
    <3>3. v.root # Null
      BY <1>7, ObjectFacts
    <3>4. HeadKind(w[N]) \in {"INSTANCE", "DEFERRED"}
      BY <3>1, <3>2, <3>3 DEF HeadKind, ItemKind
    <3>5. /\ After(v, w[N]).todo = (IF HeadKind(w[N]) = "INSTANCE" THEN v.kids[v.root] ELSE <<>>) \o <<>>
          /\ After(v, w[N]).size = 0 + Width([kind |-> HeadKind(w[N]), obj |-> v.root])
      BY <3>1, <3>2 DEF After
    <3>6. v.kids[v.root] \in Seq(Objects \cup {Null})
      BY <1>7, ValueFacts
    <3>7. /\ v.kids[v.root] \o <<>> = v.kids[v.root]
          /\ <<>> \o <<>> = <<>>
      BY <3>6, ConcatEmptySeq
    <3>8. After(v, w[N]).todo = v.kids[v.root] \/ After(v, w[N]).todo = <<>>
      BY <3>5, <3>7
    <3>9. Width([kind |-> HeadKind(w[N]), obj |-> v.root]) \in Nat /\
          Width([kind |-> HeadKind(w[N]), obj |-> v.root]) >= InstanceSize
      BY <3>4, <1>7, WidthFacts
    <3>. QED
      BY <3>1, <3>2, <3>3, <3>5, <3>8, <3>9, <1>3, <1>8 DEF InstanceSize
  <2>2. CASE N > 0
    <3>1. N \in 1 .. N /\ Head(w[N].todo) = w[N].todo[1] /\ 1 \in DOMAIN w[N].todo
      BY <2>2, <1>1, <1>2, HeadTail DEF WalkState
    <3>2. Head(w[N].todo) \in Below(v.kids, v.root) \cup {Null}
      BY <3>1, <1>1
    <3>3. Null \notin Objects
      BY ObjectFacts
    <3>4. w[N].size \in Nat /\ After(v, w[N]).size \in Nat /\ w[N].size >= InstanceSize
      BY <3>1, <1>1, <1>2, <1>3 DEF WalkState
    <3>5. After(v, w[N]).size >= InstanceSize
      BY <3>4, <1>3 DEF InstanceSize
    <3>. QED
      BY <3>1, <3>2, <3>3, <3>5, <1>1, <1>3, <1>8
  <2>. QED
    BY <2>1, <2>2, <1>1
<1>10. \A k \in 0 .. N : x[k].todo # <<>> /\ x[k + 1] = After(v, x[k])
  <2>. TAKE k \in 0 .. N
  <2>1. CASE k = N
    BY <2>1, <1>1, <1>4, <1>5
  <2>2. CASE k # N
    <3>1. k \in 0 .. (N - 1) /\ k + 1 \in 0 .. N
      BY <2>2, <1>1
    <3>. QED
      BY <3>1, <1>1, <1>4
  <2>. QED
    BY <2>1, <2>2
<1>11. Walk(v, x, N + 1)
  <2>1. /\ N + 1 \in Nat /\ (N + 1) - 1 = N /\ 0 \in 0 .. N
        /\ \A k \in 0 .. (N + 1) : k \in 0 .. N \/ k = N + 1
        /\ \A k \in 1 .. (N + 1) : k \in 1 .. N \/ k = N + 1
        /\ \A k \in 1 .. N : k \in 0 .. N
    BY <1>1
  <2>2. \A k \in 0 .. (N + 1) : x[k].seen \subseteq x[N + 1].seen
    BY <2>1, <1>1, <1>3, <1>4, <1>5
  <2>3. \A k \in 1 .. (N + 1) :
         /\ v.root \in x[k].seen
         /\ x[k].size >= InstanceSize
         /\ \A i \in DOMAIN x[k].todo : x[k].todo[i] \in Below(v.kids, v.root) \cup {Null}
    BY <2>1, <1>1, <1>4, <1>5, <1>9
  <2>4. x[0] = w[0]
    BY <2>1, <1>4
  <2>. QED
    BY <2>1, <2>2, <2>3, <2>4, <1>1, <1>6, <1>10 DEF Walk
<1>. QED
  BY <1>5, <1>11

-----------------------------------------------------------------------------
(***************************************************************************)
(* The inductive invariant.  w, N is the walk, k the step that the packer  *)
(* or the receiver has come to.                                            *)
(***************************************************************************)

Obj(h, n) == IF n = Null THEN Null ELSE h[n].obj
Objs(h, s) == [i \in DOMAIN s |-> Obj(h, s[i])]

\* The nodes in the sender's memory are the graph that was sent.
NodesOK ==
    /\ \A n \in DOMAIN heap :
         /\ n \in Nat \ {Null}
         /\ heap[n].obj \in Objects
         /\ heap[n].kids \in Seq(DOMAIN heap \cup {Null})
         /\ value.kids[heap[n].obj] = Objs(heap, heap[n].kids)
    /\ \A m, n \in DOMAIN heap : heap[m].obj = heap[n].obj => m = n
    /\ root \in DOMAIN heap
    /\ heap[root].obj = value.root

\* No two nodes share a control block.
OwnersDiffer ==
    /\ \A n \in DOMAIN heap : heap[n].owner \in Nat
    /\ \A m, n \in DOMAIN heap : heap[m].owner = heap[n].owner => m = n

\* A node that the receiver built owns itself, or is part of the message.
CopiesOwned ==
    \A n \in DOMAIN heap : \/ heap[n].owner = n
                           \/ heap[n].owner = Message /\ Kind[heap[n].obj] = "bytes"

\* The table of records: the nodes met in this walk, and those it knows of
\* from any walk.  Every id is given once.
Record == [id : Nat, kind : {"INSTANCE", "REFERENCE", "DEFERRED"},
           progenitor : {"sizing", "packing"}]

RecordsOK(met, known) ==
    /\ IsFiniteSet(DOMAIN records)
    /\ \A x \in DOMAIN records : /\ records[x] \in Record
                                 /\ records[x].id <= Cardinality(DOMAIN records)
    /\ \A x, y \in DOMAIN records : records[x].id = records[y].id => x = y
    /\ met \subseteq known /\ known \subseteq DOMAIN heap
    /\ \A n \in DOMAIN heap : Owner(n) \in DOMAIN records <=> n \in known
    /\ \A n \in known :
         /\ records[Owner(n)].progenitor = phase <=> n \in met
         /\ n \in met => (records[Owner(n)].kind = "DEFERRED" <=> Kind[heap[n].obj] = "buffer")

\* The sender is where the walk is; gap is the size that it left out.
SenderAt(a, gap) ==
    /\ todo \in Seq(DOMAIN heap \cup {Null})
    /\ a.todo = Objs(heap, todo)
    /\ size = a.size - gap

AllHere(objs) == \A o \in objs : \E n \in DOMAIN heap : heap[n].obj = o

\* What the sizer deferred: the buffers it met, each under the id of its own.
SizedBuffers(met) ==
    /\ deferred = [d \in DOMAIN deferred |-> deferred[d]]
    /\ \A n \in met : Kind[heap[n].obj] = "buffer" =>
         /\ records[Owner(n)].id \in DOMAIN deferred
         /\ deferred[records[Owner(n)].id] = {heap[n].obj}
    /\ \A d \in DOMAIN deferred :
         \E n \in met : Kind[heap[n].obj] = "buffer" /\ d = records[Owner(n)].id

SizingOK(w, N, met) ==
    /\ Walk(value, w, N)
    /\ SenderAt(w[N], 0)
    /\ met = {n \in DOMAIN heap : heap[n].obj \in w[N].seen}
    /\ RecordsOK(met, met)
    /\ NoOwner \notin DOMAIN records
    /\ AllHere(w[N].seen)
    /\ SizedBuffers(met)
    /\ buffers = <<>>

\* Without buffers the root is not packed, but built in place by the receiver:
\* the walk of the packer and of the receiver starts at its second step.
Skipped == IF buffers = <<>> THEN {value.root} ELSE {}
Offset == IF buffers = <<>> THEN 1 ELSE 0
Gap == IF buffers = <<>> THEN InstanceSize ELSE 0

\* The buffers of the message are those of the value, each of them once.
BuffersOK(seen) ==
    /\ buffers \in Seq(Objects)
    /\ \A i \in DOMAIN buffers : buffers[i] \in seen /\ Kind[buffers[i]] = "buffer"
    /\ \A i, j \in DOMAIN buffers : buffers[i] = buffers[j] => i = j
    /\ \A o \in seen : Kind[o] = "buffer" => \E i \in DOMAIN buffers : buffers[i] = o

\* They are in the order of the ids that they are packed with.
BuffersSorted(known) ==
    \A i, j \in DOMAIN buffers : \A p, q \in DOMAIN heap :
      i < j /\ heap[p].obj = buffers[i] /\ heap[q].obj = buffers[j] =>
        /\ p \in known /\ q \in known
        /\ records[Owner(p)].id < records[Owner(q)].id

Item == [kind : {"IGNORED", "REFERENCE", "DEFERRED", "INSTANCE"}, id : Nat,
         obj : Objects \cup {Null}]

\* What has been packed is what the walk went through.
PackedOK(w, k, met) ==
    /\ stream \in Seq(Item)
    /\ Len(stream) = k - Offset
    /\ \A i \in 1 .. Len(stream) :
         /\ stream[i].obj = Head(w[i + Offset - 1].todo)
         /\ stream[i].kind = HeadKind(w[i + Offset - 1])
         /\ stream[i].obj # Null =>
              \E n \in met : heap[n].obj = stream[i].obj /\ stream[i].id = records[Owner(n)].id

PackingOK(w, N, k, met, known) ==
    /\ FullWalk(value, w, N)
    /\ k \in Offset .. N
    /\ SenderAt(w[k], Gap)
    /\ sized = w[N].size - Gap
    /\ met = {n \in DOMAIN heap : heap[n].obj \in w[k].seen \ Skipped}
    /\ known = {n \in DOMAIN heap : /\ heap[n].obj \in w[N].seen
                                    /\ n = root /\ inline => n \in met}
    /\ RecordsOK(met, known)
    /\ AllHere(w[N].seen)
    /\ BuffersOK(w[N].seen)
    /\ BuffersSorted(known)
    /\ PackedOK(w, k, met)

\* The object that belongs into a slot of the receiver, whose nodes are h; the
\* slots that are open, in order, are those of the pointers yet to be visited.
Slot == [put : BOOLEAN, node : Nat, at : Nat]
Wanted(v, h, slot) == IF slot.node = Null THEN v.root
                      ELSE v.kids[h[slot.node].obj][slot.at]

Places(v, h, objs, slots, f) ==
    /\ f \in [1 .. Len(objs) -> 1 .. Len(slots)]
    /\ \A i, j \in 1 .. Len(objs) : i < j => f[i] < f[j]
    /\ \A i \in 1 .. Len(objs) : ~slots[f[i]].put /\ Wanted(v, h, slots[f[i]]) = objs[i]
    /\ \A m \in 1 .. Len(slots) : ~slots[m].put => \E i \in 1 .. Len(objs) : f[i] = m

Matches(v, h, objs, slots) == \E f : Places(v, h, objs, slots, f)

\* The ids of the objects, as the packer gave them.
IdsOK(seen, ids) ==
    /\ ids \in [Objects -> Nat]
    /\ \A p, q \in seen \ Skipped : ids[p] = ids[q] => p = q
    /\ \A i, j \in DOMAIN buffers : i < j => ids[buffers[i]] < ids[buffers[j]]

\* What is still to be read is what the walk has still to go through.
StreamOK(w, N, k, ids) ==
    /\ stream \in Seq(Item)
    /\ Len(stream) = N - k
    /\ \A i \in 1 .. Len(stream) :
         /\ stream[i].obj = Head(w[k + i - 1].todo)
         /\ stream[i].kind = HeadKind(w[k + i - 1])
         /\ stream[i].obj # Null => stream[i].id = ids[stream[i].obj]

SlotsOK(k) ==
    /\ todo \in Seq(Slot)
    /\ \A j \in DOMAIN todo : ~todo[j].put =>
         \/ todo[j].node = Null /\ k = 0
         \/ /\ todo[j].node \in DOMAIN heap
            /\ todo[j].at \in DOMAIN value.kids[heap[todo[j].node].obj]
    /\ k = 0 => heap = <<>> /\ Len(todo) = 1

Built == [obj : Objects, kids : Seq(Nat), owner : Nat]

\* The nodes that the receiver has built: the objects seen, but for buffers.
BuiltOK(seen) ==
    /\ heap \in Seq(Built)
    /\ CopiesOwned
    /\ \A m, n \in DOMAIN heap : heap[m].obj = heap[n].obj => m = n
    /\ \A n \in DOMAIN heap : heap[n].obj \in seen /\ Kind[heap[n].obj] # "buffer"
    /\ \A o \in seen : Kind[o] # "buffer" => \E n \in DOMAIN heap : heap[n].obj = o
    /\ heap # <<>> => heap[1].obj = value.root
    /\ root = 1

\* Every slot holds the right node, or is still open, or waits for its buffer.
FilledOK(ids) ==
    \A n \in DOMAIN heap :
      /\ DOMAIN heap[n].kids = DOMAIN value.kids[heap[n].obj]
      /\ \A i \in DOMAIN heap[n].kids :
           /\ heap[n].kids[i] # Null =>
                /\ heap[n].kids[i] \in DOMAIN heap
                /\ heap[heap[n].kids[i]].obj = value.kids[heap[n].obj][i]
           /\ \/ \E j \in DOMAIN todo : ~todo[j].put /\ todo[j].node = n /\ todo[j].at = i
              \/ value.kids[heap[n].obj][i] = Null
              \/ heap[n].kids[i] # Null
              \/ /\ Kind[value.kids[heap[n].obj][i]] = "buffer"
                 /\ ids[value.kids[heap[n].obj][i]] \in DOMAIN deferred
                 /\ <<n, i>> \in deferred[ids[value.kids[heap[n].obj][i]]]

\* A marker stands for an object that enters the table when its members are
\* complete: it has not entered it yet, and all that is open above the marker
\* lies below the object, so that nothing refers to it too early.
MarkersOK(ids) ==
    \A j \in DOMAIN todo : todo[j].put =>
      /\ todo[j].node \in DOMAIN heap
      /\ Kind[heap[todo[j].node].obj] # "poly"
      /\ heap[todo[j].node].obj \notin Skipped
      /\ todo[j].at = ids[heap[todo[j].node].obj]
      /\ todo[j].at \notin DOMAIN instances
      /\ \A i \in DOMAIN todo : todo[i].put /\ todo[i].node = todo[j].node => i = j
      /\ \A i \in DOMAIN todo : i < j /\ ~todo[i].put =>
           Wanted(value, heap, todo[i]) \in Below(value.kids, heap[todo[j].node].obj) \cup {Null}

\* The table of instances: every node but those with a marker.
InstancesOK(ids) ==
    /\ \A n \in DOMAIN heap : heap[n].obj \notin Skipped =>
         \/ \E j \in DOMAIN todo : todo[j].put /\ todo[j].node = n
         \/ /\ ids[heap[n].obj] \in DOMAIN instances
            /\ instances[ids[heap[n].obj]] = n
    /\ \A d \in DOMAIN instances :
         \E n \in DOMAIN heap : heap[n].obj \notin Skipped /\ d = ids[heap[n].obj]

\* The deferred ids are those of the buffers seen; only their slots wait.
DeferredOK(seen, ids) ==
    /\ \A o \in seen : Kind[o] = "buffer" => ids[o] \in DOMAIN deferred
    /\ \A d \in DOMAIN deferred : \E o \in seen : Kind[o] = "buffer" /\ d = ids[o]
    /\ \A d \in DOMAIN deferred : \A n, i \in Nat : <<n, i>> \in deferred[d] /\ n # Null =>
         /\ n \in DOMAIN heap /\ i \in DOMAIN value.kids[heap[n].obj]
         /\ value.kids[heap[n].obj][i] \in seen
         /\ value.kids[heap[n].obj][i] # Null
         /\ Kind[value.kids[heap[n].obj][i]] = "buffer"
         /\ d = ids[value.kids[heap[n].obj][i]]

UnpackingOK(w, N, k, ids) ==
    /\ FullWalk(value, w, N)
    /\ k \in Offset .. N
    /\ BuffersOK(w[N].seen)
    /\ IdsOK(w[N].seen, ids)
    /\ StreamOK(w, N, k, ids)
    /\ SlotsOK(k)
    /\ Matches(value, heap, w[k].todo, todo)
    /\ BuiltOK(w[k].seen)
    /\ FilledOK(ids)
    /\ MarkersOK(ids)
    /\ InstancesOK(ids)
    /\ DeferredOK(w[k].seen, ids)

StateOK ==
    /\ IsValue(value)
    /\ hop \in 1 .. MaxHops
    /\ inline \in BOOLEAN
    /\ phase \in {"sizing", "packing", "unpacking", "done"}
    /\ error = "none"

IInv ==
    /\ StateOK
    /\ phase \in {"sizing", "packing"} => NodesOK /\ OwnersDiffer
    /\ phase = "sizing" => \E w, N, met : SizingOK(w, N, met)
    /\ phase = "packing" => \E w, N, k, met, known : PackingOK(w, N, k, met, known)
    /\ phase = "unpacking" => \E w, N, k, ids : UnpackingOK(w, N, k, ids)
    /\ phase = "done" => NodesOK /\ CopiesOwned

-----------------------------------------------------------------------------
(***************************************************************************)
(* ById lists the keys of a map in their order, each of them once.         *)
(***************************************************************************)

LEMMA ByIdSorts ==
  ASSUME NEW f, IsFiniteSet(DOMAIN f), DOMAIN f \subseteq Nat
  PROVE  /\ Cardinality(DOMAIN f) \in Nat
         /\ DOMAIN ById(f) = 1 .. Cardinality(DOMAIN f)
         /\ \A i \in DOMAIN ById(f) : ById(f)[i] \in DOMAIN f
         /\ \A i, j \in DOMAIN ById(f) : i < j => ById(f)[i] < ById(f)[j]
         /\ \A d \in DOMAIN f : \E i \in DOMAIN ById(f) : ById(f)[i] = d
<1> DEFINE D == DOMAIN f
           n == Cardinality(D)
           UpTo(d) == {k \in D : k <= d}
           rank == [d \in D |-> Cardinality(UpTo(d))]
<1>1. n \in Nat
  BY FS_CardinalityType
<1>2. \A d \in D : IsFiniteSet(UpTo(d)) /\ Cardinality(UpTo(d)) \in 1 .. n
  <2>. TAKE d \in D
  <2>1. UpTo(d) \in SUBSET D /\ d \in UpTo(d)
    OBVIOUS
  <2>2. IsFiniteSet(UpTo(d)) /\ Cardinality(UpTo(d)) <= n
    BY <2>1, FS_Subset
  <2>3. Cardinality(UpTo(d)) \in Nat /\ Cardinality(UpTo(d)) # 0
    BY <2>1, <2>2, FS_CardinalityType, FS_EmptySet
  <2>. QED
    BY <2>2, <2>3, <1>1
<1>3. ASSUME NEW d \in D, NEW e \in D, d < e
      PROVE  rank[d] < rank[e]
  <2>1. UpTo(d) \in SUBSET UpTo(e) /\ UpTo(d) # UpTo(e)
    <3>1. e \in UpTo(e) /\ e \notin UpTo(d)
      BY <1>3
    <3>2. UpTo(d) \in SUBSET UpTo(e)
      BY <1>3
    <3>. QED
      BY <3>1, <3>2
  <2>. HIDE DEF UpTo
  <2>2. Cardinality(UpTo(d)) <= Cardinality(UpTo(e)) /\ Cardinality(UpTo(d)) # Cardinality(UpTo(e))
    BY <2>1, <1>2, FS_Subset
  <2>. QED
    BY <2>2, <1>2
<1>4. rank \in [D -> 1 .. n]
  BY <1>2
<1>5. rank \in Injection(D, 1 .. n)
  <2>. HIDE DEF rank
  <2>1. ASSUME NEW a \in D, NEW b \in D, rank[a] = rank[b]
        PROVE  a = b
    <3>1. a \in Nat /\ b \in Nat /\ rank[a] \in Nat
      BY <1>4
    <3>. QED
      BY <3>1, <2>1, <1>3
  <2>. QED
    BY <2>1, <1>4 DEF Injection, IsInjective
<1>6. rank \in Surjection(D, 1 .. n)
  <2>1. IsFiniteSet(1 .. n) /\ Cardinality(1 .. n) = n
    BY <1>1, FS_Interval
  <2>. QED
    BY <2>1, <1>5, FS_Injection
<1>7. \A i \in 1 .. n : \E d \in D : rank[d] = i
  BY <1>6 DEF Surjection
<1>8. /\ DOMAIN ById(f) = 1 .. n
      /\ \A i \in 1 .. n : ById(f)[i] = CHOOSE d \in D : rank[d] = i
  BY DEF ById
<1>. HIDE DEF rank
<1>9. \A i \in 1 .. n : ById(f)[i] \in D /\ rank[ById(f)[i]] = i
  BY <1>7, <1>8
<1>10. ASSUME NEW i \in 1 .. n, NEW j \in 1 .. n, i < j
       PROVE  ById(f)[i] < ById(f)[j]
  <2>1. ById(f)[i] \in Nat /\ ById(f)[j] \in Nat
    BY <1>9
  <2>2. ~(ById(f)[j] < ById(f)[i]) /\ ById(f)[i] # ById(f)[j]
    BY <1>9, <1>3, <1>10
  <2>. QED
    BY <2>1, <2>2
<1>11. ASSUME NEW d \in D
       PROVE  \E i \in 1 .. n : ById(f)[i] = d
  <2>1. rank[d] \in 1 .. n
    BY <1>4
  <2>2. ById(f)[rank[d]] \in D /\ rank[ById(f)[rank[d]]] = rank[d]
    BY <2>1, <1>9
  <2>3. ById(f)[rank[d]] = d
    BY <2>2, <1>5 DEF Injection, IsInjective
  <2>. QED
    BY <2>1, <2>3
<1>. QED
  BY <1>1, <1>8, <1>9, <1>10, <1>11

\* A list of all keys in their order is that list.
LEMMA ByIdUnique ==
  ASSUME NEW f, DOMAIN f \subseteq Nat, NEW n \in Nat, NEW s \in [1 .. n -> DOMAIN f],
         \A i, j \in 1 .. n : i < j => s[i] < s[j],
         \A d \in DOMAIN f : \E i \in 1 .. n : s[i] = d
  PROVE  /\ Cardinality(DOMAIN f) = n
         /\ DOMAIN ById(f) = 1 .. n
         /\ \A i \in 1 .. n : ById(f)[i] = s[i]
<1> DEFINE D == DOMAIN f
<1>1. \A i, j \in 1 .. n : s[i] = s[j] => i = j
  <2>. TAKE i, j \in 1 .. n
  <2>1. s[i] \in Nat /\ s[j] \in Nat
    OBVIOUS
  <2>. QED
    BY <2>1
<1>2. s \in Bijection(1 .. n, D)
  BY <1>1 DEF Bijection, Injection, IsInjective, Surjection
<1>3. IsFiniteSet(1 .. n) /\ Cardinality(1 .. n) = n
  BY FS_Interval
<1>4. IsFiniteSet(D) /\ Cardinality(D) = n
  BY <1>2, <1>3, FS_Bijection DEF ExistsBijection
<1>5. /\ DOMAIN ById(f) = 1 .. n
      /\ \A i \in 1 .. n : ById(f)[i] = CHOOSE d \in D : Cardinality({k \in D : k <= d}) = i
  BY <1>4 DEF ById
<1>6. ASSUME NEW i \in 1 .. n
      PROVE  Cardinality({k \in D : k <= s[i]}) = i
  <2> DEFINE U == {k \in D : k <= s[i]}
             t == [j \in 1 .. i |-> s[j]]
  <2>1. \A j \in 1 .. i : j \in 1 .. n
    OBVIOUS
  <2>2. \A j \in 1 .. i : s[j] \in U
    <3>. TAKE j \in 1 .. i
    <3>1. s[j] \in Nat /\ s[i] \in Nat /\ s[j] \in D
      BY <2>1
    <3>2. s[j] < s[i] \/ s[j] = s[i]
      BY <2>1
    <3>. QED
      BY <3>1, <3>2
  <2>3. \A d \in U : \E j \in 1 .. i : s[j] = d
    <3>. TAKE d \in U
    <3>1. PICK j \in 1 .. n : s[j] = d
      OBVIOUS
    <3>2. s[j] \in Nat /\ s[i] \in Nat /\ ~(s[i] < s[j])
      BY <3>1
    <3>3. ~(i < j)
      BY <3>2
    <3>. QED
      BY <3>1, <3>3
  <2>. HIDE DEF U
  <2>4. t \in Bijection(1 .. i, U)
    BY <2>1, <2>2, <2>3, <1>1 DEF Bijection, Injection, IsInjective, Surjection
  <2>5. IsFiniteSet(1 .. i) /\ Cardinality(1 .. i) = i
    BY FS_Interval
  <2>6. Cardinality(U) = i
    BY <2>4, <2>5, FS_Bijection DEF ExistsBijection
  <2>. QED
    BY <2>6 DEF U
<1>7. ASSUME NEW i \in 1 .. n
      PROVE  ById(f)[i] = s[i]
  <2>1. s[i] \in D /\ Cardinality({k \in D : k <= s[i]}) = i
    BY <1>6
  <2>2. ById(f)[i] \in D /\ Cardinality({k \in D : k <= ById(f)[i]}) = i
    BY <2>1, <1>5
  <2>3. PICK j \in 1 .. n : s[j] = ById(f)[i]
    BY <2>2
  <2>4. Cardinality({k \in D : k <= s[j]}) = j
    BY <1>6
  <2>. QED
    BY <2>2, <2>3, <2>4
<1>. QED
  BY <1>4, <1>5, <1>7

-----------------------------------------------------------------------------
(***************************************************************************)
(* Lemmas about the pointers and the slots that are yet to be visited.     *)
(***************************************************************************)

LEMMA ObjsFacts ==
  ASSUME NEW h, \A n \in DOMAIN h : h[n].obj \in Objects,
         NEW s \in Seq(DOMAIN h \cup {Null})
  PROVE  /\ Objs(h, s) \in Seq(Objects \cup {Null})
         /\ Len(Objs(h, s)) = Len(s)
         /\ DOMAIN Objs(h, s) = DOMAIN s
         /\ \A i \in 1 .. Len(s) : Objs(h, s)[i] = Obj(h, s[i])
<1>1. /\ Len(s) \in Nat /\ DOMAIN s = 1 .. Len(s)
      /\ \A i \in 1 .. Len(s) : s[i] \in DOMAIN h \cup {Null}
  BY LenProperties, ElementOfSeq
<1>2. \A i \in 1 .. Len(s) : Obj(h, s[i]) \in Objects \cup {Null}
  BY <1>1 DEF Obj
<1>3. Objs(h, s) = [i \in 1 .. Len(s) |-> Obj(h, s[i])]
  BY <1>1 DEF Objs
<1>. QED
  BY <1>1, <1>2, <1>3

LEMMA ObjsConcat ==
  ASSUME NEW h, \A n \in DOMAIN h : h[n].obj \in Objects,
         NEW s \in Seq(DOMAIN h \cup {Null}), NEW t \in Seq(DOMAIN h \cup {Null})
  PROVE  /\ s \o t \in Seq(DOMAIN h \cup {Null})
         /\ Objs(h, s \o t) = Objs(h, s) \o Objs(h, t)
<1>1. /\ s \o t \in Seq(DOMAIN h \cup {Null})
      /\ Len(s \o t) = Len(s) + Len(t)
      /\ Len(s) \in Nat /\ Len(t) \in Nat
      /\ \A i \in 1 .. (Len(s) + Len(t)) :
           (s \o t)[i] = IF i <= Len(s) THEN s[i] ELSE t[i - Len(s)]
  BY ConcatProperties, LenProperties
<1>2. /\ Objs(h, s) \in Seq(Objects \cup {Null}) /\ Len(Objs(h, s)) = Len(s)
      /\ Objs(h, t) \in Seq(Objects \cup {Null}) /\ Len(Objs(h, t)) = Len(t)
      /\ Objs(h, s \o t) \in Seq(Objects \cup {Null})
      /\ Len(Objs(h, s \o t)) = Len(s) + Len(t)
      /\ \A i \in 1 .. Len(s) : Objs(h, s)[i] = Obj(h, s[i])
      /\ \A i \in 1 .. Len(t) : Objs(h, t)[i] = Obj(h, t[i])
      /\ \A i \in 1 .. (Len(s) + Len(t)) : Objs(h, s \o t)[i] = Obj(h, (s \o t)[i])
  BY <1>1, ObjsFacts
<1>3. /\ Objs(h, s) \o Objs(h, t) \in Seq(Objects \cup {Null})
      /\ Len(Objs(h, s) \o Objs(h, t)) = Len(s) + Len(t)
      /\ \A i \in 1 .. (Len(s) + Len(t)) :
           (Objs(h, s) \o Objs(h, t))[i] =
              IF i <= Len(s) THEN Objs(h, s)[i] ELSE Objs(h, t)[i - Len(s)]
  <2>1. /\ Objs(h, s) \o Objs(h, t) \in Seq(Objects \cup {Null})
        /\ Len(Objs(h, s) \o Objs(h, t)) = Len(Objs(h, s)) + Len(Objs(h, t))
        /\ \A i \in 1 .. (Len(Objs(h, s)) + Len(Objs(h, t))) :
             (Objs(h, s) \o Objs(h, t))[i] =
                IF i <= Len(Objs(h, s)) THEN Objs(h, s)[i] ELSE Objs(h, t)[i - Len(Objs(h, s))]
    BY <1>2, ConcatProperties
  <2>. QED
    BY <2>1, <1>2
<1>4. ASSUME NEW i \in 1 .. (Len(s) + Len(t))
      PROVE  Objs(h, s \o t)[i] = (Objs(h, s) \o Objs(h, t))[i]
  <2>1. CASE i <= Len(s)
    BY <2>1, <1>1, <1>2, <1>3
  <2>2. CASE ~(i <= Len(s))
    <3>1. i - Len(s) \in 1 .. Len(t)
      BY <2>2, <1>1
    <3>. QED
      BY <3>1, <2>2, <1>1, <1>2, <1>3
  <2>. QED
    BY <2>1, <2>2
<1>5. Objs(h, s \o t) = Objs(h, s) \o Objs(h, t)
  BY <1>2, <1>3, <1>4, SeqEqual
<1>. QED
  BY <1>1, <1>5

LEMMA ObjsTail ==
  ASSUME NEW h, \A n \in DOMAIN h : h[n].obj \in Objects,
         NEW s \in Seq(DOMAIN h \cup {Null}), s # <<>>
  PROVE  /\ Objs(h, s) # <<>>
         /\ Head(Objs(h, s)) = Obj(h, Head(s))
         /\ Tail(s) \in Seq(DOMAIN h \cup {Null})
         /\ Tail(Objs(h, s)) = Objs(h, Tail(s))
<1>1. /\ Head(s) \in DOMAIN h \cup {Null} /\ Head(s) = s[1]
      /\ Tail(s) \in Seq(DOMAIN h \cup {Null})
      /\ Len(s) \in Nat \ {0}
      /\ Len(Tail(s)) = Len(s) - 1
      /\ \A i \in 1 .. (Len(s) - 1) : Tail(s)[i] = s[i + 1]
  BY HeadTail
<1>2. /\ Objs(h, s) \in Seq(Objects \cup {Null}) /\ Len(Objs(h, s)) = Len(s)
      /\ \A i \in 1 .. Len(s) : Objs(h, s)[i] = Obj(h, s[i])
  BY ObjsFacts
<1>3. /\ Objs(h, Tail(s)) \in Seq(Objects \cup {Null})
      /\ Len(Objs(h, Tail(s))) = Len(s) - 1
      /\ \A i \in 1 .. (Len(s) - 1) : Objs(h, Tail(s))[i] = Obj(h, Tail(s)[i])
  <2>1. /\ Objs(h, Tail(s)) \in Seq(Objects \cup {Null})
        /\ Len(Objs(h, Tail(s))) = Len(Tail(s))
        /\ \A i \in 1 .. Len(Tail(s)) : Objs(h, Tail(s))[i] = Obj(h, Tail(s)[i])
    BY <1>1, ObjsFacts
  <2>. QED
    BY <2>1, <1>1
<1>4. Objs(h, s) # <<>>
  BY <1>1, <1>2, EmptySeq
<1>5. /\ Head(Objs(h, s)) = Objs(h, s)[1]
      /\ Tail(Objs(h, s)) \in Seq(Objects \cup {Null})
      /\ Len(Tail(Objs(h, s))) = Len(s) - 1
      /\ \A i \in 1 .. (Len(s) - 1) : Tail(Objs(h, s))[i] = Objs(h, s)[i + 1]
  BY <1>2, <1>4, HeadTail
<1>6. \A i \in 1 .. (Len(s) - 1) : i + 1 \in 1 .. Len(s)
  BY <1>1
<1>7. \A i \in 1 .. (Len(s) - 1) : Tail(Objs(h, s))[i] = Objs(h, Tail(s))[i]
  BY <1>1, <1>2, <1>3, <1>5, <1>6
<1>8. Tail(Objs(h, s)) = Objs(h, Tail(s))
  BY <1>3, <1>5, <1>7, SeqEqual
<1>9. 1 \in 1 .. Len(s)
  BY <1>1
<1>. QED
  BY <1>1, <1>2, <1>4, <1>5, <1>8, <1>9

\* A marker that is popped leaves the open slots as they are.
LEMMA MarkerPopped ==
  ASSUME NEW v, NEW h, NEW objs \in Seq(Objects \cup {Null}),
         NEW slots \in Seq(Slot), slots # <<>>,
         Head(slots).put, Matches(v, h, objs, slots)
  PROVE  Matches(v, h, objs, Tail(slots))
<1>1. PICK f : Places(v, h, objs, slots, f)
  BY DEF Matches
<1> DEFINE n == Len(slots)
           m == Len(objs)
           g == [i \in 1 .. m |-> f[i] - 1]
<1>2. /\ n \in Nat \ {0} /\ Head(slots) = slots[1]
      /\ Len(Tail(slots)) = n - 1
      /\ \A i \in 1 .. (n - 1) : Tail(slots)[i] = slots[i + 1]
  BY HeadTail
<1>3. m \in Nat
  BY LenProperties
<1>4. \A i \in 1 .. m : f[i] \in 1 .. n /\ f[i] # 1
  BY <1>1, <1>2 DEF Places
<1>5. g \in [1 .. m -> 1 .. (n - 1)]
  BY <1>2, <1>4
<1>6. \A i \in 1 .. m : g[i] \in 1 .. (n - 1) /\ g[i] + 1 = f[i] /\ Tail(slots)[g[i]] = slots[f[i]]
  BY <1>2, <1>4, <1>5
<1>7. \A i, j \in 1 .. m : i < j => g[i] < g[j]
  <2>. TAKE i, j \in 1 .. m
  <2>1. i < j => f[i] < f[j]
    BY <1>1 DEF Places
  <2>2. f[i] \in Int /\ f[j] \in Int /\ g[i] = f[i] - 1 /\ g[j] = f[j] - 1
    BY <1>2, <1>4
  <2>. HIDE DEF g
  <2>. QED
    BY <2>1, <2>2
<1>8. ASSUME NEW k \in 1 .. (n - 1), ~Tail(slots)[k].put
      PROVE  \E i \in 1 .. m : g[i] = k
  <2>1. k + 1 \in 1 .. n /\ ~slots[k + 1].put
    BY <1>2, <1>8
  <2>2. PICK i \in 1 .. m : f[i] = k + 1
    BY <2>1, <1>1 DEF Places
  <2>. QED
    BY <2>2, <1>2
<1>. HIDE DEF g
<1>9. \A i \in 1 .. m : ~slots[f[i]].put /\ Wanted(v, h, slots[f[i]]) = objs[i]
  BY <1>1 DEF Places
<1>10. Places(v, h, objs, Tail(slots), g)
  BY <1>2, <1>5, <1>6, <1>7, <1>8, <1>9 DEF Places
<1>. QED
  BY <1>10 DEF Matches

\* A slot that is popped is that of the next pointer.
LEMMA SlotPopped ==
  ASSUME NEW v, NEW h, NEW objs \in Seq(Objects \cup {Null}),
         NEW slots \in Seq(Slot), slots # <<>>,
         ~Head(slots).put, Matches(v, h, objs, slots)
  PROVE  /\ objs # <<>>
         /\ Head(objs) = Wanted(v, h, Head(slots))
         /\ Matches(v, h, Tail(objs), Tail(slots))
<1>1. PICK f : Places(v, h, objs, slots, f)
  BY DEF Matches
<1> DEFINE n == Len(slots)
           m == Len(objs)
           g == [i \in 1 .. (m - 1) |-> f[i + 1] - 1]
<1>2. /\ n \in Nat \ {0} /\ Head(slots) = slots[1] /\ 1 \in 1 .. n
      /\ Len(Tail(slots)) = n - 1
      /\ \A i \in 1 .. (n - 1) : Tail(slots)[i] = slots[i + 1]
  BY HeadTail
<1>3. m \in Nat
  BY LenProperties
<1>4. PICK one \in 1 .. m : f[one] = 1
  BY <1>1, <1>2 DEF Places
<1>5. 1 \in 1 .. m /\ m # 0
  BY <1>3
<1>6. f[1] = 1
  <2>1. f[1] \in 1 .. n /\ (1 < one => f[1] < f[one])
    BY <1>1, <1>5 DEF Places
  <2>. QED
    BY <2>1, <1>2, <1>4, <1>5
<1>7. objs # <<>>
  BY <1>5, EmptySeq
<1>8. /\ Head(objs) = objs[1]
      /\ Len(Tail(objs)) = m - 1
      /\ \A i \in 1 .. (m - 1) : Tail(objs)[i] = objs[i + 1]
  BY <1>7, HeadTail
<1>9. Head(objs) = Wanted(v, h, Head(slots))
  BY <1>1, <1>2, <1>5, <1>6, <1>8 DEF Places
<1>10. \A i \in 1 .. (m - 1) : i + 1 \in 1 .. m /\ 1 < i + 1
  BY <1>3
<1>11. \A i \in 1 .. (m - 1) : f[i + 1] \in 1 .. n /\ f[i + 1] - 1 \in 1 .. (n - 1)
  <2>. TAKE i \in 1 .. (m - 1)
  <2>1. f[i + 1] \in 1 .. n /\ f[1] < f[i + 1]
    BY <1>1, <1>5, <1>10 DEF Places
  <2>. QED
    BY <2>1, <1>2, <1>6
<1>12. g \in [1 .. (m - 1) -> 1 .. (n - 1)]
  BY <1>11
<1>13. \A i \in 1 .. (m - 1) : Tail(slots)[g[i]] = slots[f[i + 1]]
  <2>. TAKE i \in 1 .. (m - 1)
  <2>1. g[i] \in 1 .. (n - 1) /\ g[i] + 1 = f[i + 1]
    BY <1>2, <1>11
  <2>. HIDE DEF g
  <2>. QED
    BY <2>1, <1>2
<1>14. \A i, j \in 1 .. (m - 1) : i < j => g[i] < g[j]
  <2>. TAKE i, j \in 1 .. (m - 1)
  <2>1. i < j => f[i + 1] < f[j + 1]
    BY <1>1, <1>10 DEF Places
  <2>2. f[i + 1] \in Int /\ f[j + 1] \in Int /\ g[i] = f[i + 1] - 1 /\ g[j] = f[j + 1] - 1
    BY <1>2, <1>11
  <2>. HIDE DEF g
  <2>. QED
    BY <2>1, <2>2
<1>15. ASSUME NEW k \in 1 .. (n - 1), ~Tail(slots)[k].put
       PROVE  \E i \in 1 .. (m - 1) : g[i] = k
  <2>1. k + 1 \in 1 .. n /\ ~slots[k + 1].put /\ k + 1 # 1
    BY <1>2, <1>15
  <2>2. PICK i \in 1 .. m : f[i] = k + 1
    BY <2>1, <1>1 DEF Places
  <2>3. i # 1
    BY <2>1, <2>2, <1>6
  <2>4. i - 1 \in 1 .. (m - 1) /\ (i - 1) + 1 = i
    BY <2>3, <1>3
  <2>5. g[i - 1] = k
    BY <2>2, <2>4, <1>2
  <2>. QED
    BY <2>4, <2>5
<1>. HIDE DEF g
<1>16. \A i \in 1 .. (m - 1) : ~slots[f[i + 1]].put /\ Wanted(v, h, slots[f[i + 1]]) = objs[i + 1]
  BY <1>1, <1>10 DEF Places
<1>17. Places(v, h, Tail(objs), Tail(slots), g)
  <2>1. \A i \in 1 .. (m - 1) :
          ~Tail(slots)[g[i]].put /\ Wanted(v, h, Tail(slots)[g[i]]) = Tail(objs)[i]
    BY <1>8, <1>13, <1>16
  <2>2. Len(Tail(objs)) = m - 1 /\ Len(Tail(slots)) = n - 1
    BY <1>2, <1>8
  <2>. HIDE DEF m, n
  <2>. QED
    BY <2>1, <2>2, <1>12, <1>14, <1>15 DEF Places
<1>. QED
  BY <1>7, <1>9, <1>17 DEF Matches

\* Slots that are pushed are those of the pointers pushed.
LEMMA SlotsPushed ==
  ASSUME NEW v, NEW h, NEW objs \in Seq(Objects \cup {Null}), NEW slots \in Seq(Slot),
         NEW kids \in Seq(Objects \cup {Null}), NEW new \in Seq(Slot),
         Len(new) = Len(kids),
         \A i \in 1 .. Len(kids) : ~new[i].put /\ Wanted(v, h, new[i]) = kids[i],
         Matches(v, h, objs, slots)
  PROVE  Matches(v, h, kids \o objs, new \o slots)
<1>1. PICK f : Places(v, h, objs, slots, f)
  BY DEF Matches
<1> DEFINE n == Len(slots)
           m == Len(objs)
           c == Len(kids)
           g == [i \in 1 .. (c + m) |-> IF i <= c THEN i ELSE f[i - c] + c]
<1>2. n \in Nat /\ m \in Nat /\ c \in Nat
  BY LenProperties
<1>3. /\ Len(kids \o objs) = c + m
      /\ \A i \in 1 .. (c + m) : (kids \o objs)[i] = IF i <= c THEN kids[i] ELSE objs[i - c]
  BY ConcatProperties
<1>4. /\ Len(new \o slots) = c + n
      /\ \A i \in 1 .. (c + n) : (new \o slots)[i] = IF i <= c THEN new[i] ELSE slots[i - c]
  <2>1. new \in Seq(Slot) /\ slots \in Seq(Slot)
    OBVIOUS
  <2>2. /\ Len(new \o slots) = Len(new) + Len(slots)
        /\ \A i \in 1 .. (Len(new) + Len(slots)) :
             (new \o slots)[i] = IF i <= Len(new) THEN new[i] ELSE slots[i - Len(new)]
    BY ONLY <2>1, ConcatProperties
  <2>. QED
    BY <2>2
<1>. HIDE DEF n, m, c
<1>5. \A i \in 1 .. m : f[i] \in 1 .. n
  BY <1>1 DEF Places, n, m
<1>6. ASSUME NEW i \in 1 .. (c + m)
      PROVE  /\ g[i] \in 1 .. (c + n)
             /\ ~(new \o slots)[g[i]].put
             /\ Wanted(v, h, (new \o slots)[g[i]]) = (kids \o objs)[i]
  <2>1. CASE i <= c
    <3>1. g[i] = i /\ i \in 1 .. (c + n) /\ i \in 1 .. c
      BY <2>1, <1>2
    <3>. HIDE DEF g
    <3>. QED
      BY <3>1, <2>1, <1>3, <1>4 DEF c
  <2>2. CASE ~(i <= c)
    <3>1. i - c \in 1 .. m
      BY <2>2, <1>2
    <3>2. f[i - c] \in 1 .. n /\ g[i] = f[i - c] + c
      BY <3>1, <2>2, <1>5
    <3>3. g[i] \in 1 .. (c + n) /\ ~(g[i] <= c) /\ g[i] - c = f[i - c]
      BY <3>2, <1>2
    <3>4. ~slots[f[i - c]].put /\ Wanted(v, h, slots[f[i - c]]) = objs[i - c]
      BY <3>1, <1>1 DEF Places, m
    <3>. HIDE DEF g
    <3>. QED
      BY <3>3, <3>4, <2>2, <1>3, <1>4
  <2>. QED
    BY <2>1, <2>2
<1>7. ASSUME NEW i \in 1 .. (c + m), NEW j \in 1 .. (c + m), i < j
      PROVE  g[i] < g[j]
  <2>1. CASE j <= c
    BY <2>1, <1>7, <1>2
  <2>2. CASE i <= c /\ ~(j <= c)
    <3>1. j - c \in 1 .. m /\ f[j - c] \in 1 .. n
      BY <2>2, <1>2, <1>5
    <3>. QED
      BY <3>1, <2>2, <1>2
  <2>3. CASE ~(i <= c)
    <3>1. i - c \in 1 .. m /\ j - c \in 1 .. m /\ i - c < j - c /\ ~(j <= c)
      BY <2>3, <1>2, <1>7
    <3>2. f[i - c] < f[j - c] /\ f[i - c] \in 1 .. n /\ f[j - c] \in 1 .. n
      BY <3>1, <1>1, <1>5 DEF Places, m
    <3>. QED
      BY <3>1, <3>2, <2>3, <1>2
  <2>. QED
    BY <2>1, <2>2, <2>3
<1>8. ASSUME NEW k \in 1 .. (c + n), ~(new \o slots)[k].put
      PROVE  \E i \in 1 .. (c + m) : g[i] = k
  <2>1. CASE k <= c
    <3>1. k \in 1 .. (c + m) /\ g[k] = k
      BY <2>1, <1>2
    <3>. QED
      BY <3>1
  <2>2. CASE ~(k <= c)
    <3>1. k - c \in 1 .. n /\ ~slots[k - c].put
      <4>1. k - c \in 1 .. n
        BY <2>2, <1>2
      <4>2. (new \o slots)[k] = slots[k - c]
        BY <2>2, <1>4
      <4>. QED
        BY <4>1, <4>2, <1>8
    <3>2. PICK i \in 1 .. m : f[i] = k - c
      BY <3>1, <1>1 DEF Places, n, m
    <3>3. i + c \in 1 .. (c + m) /\ ~(i + c <= c) /\ (i + c) - c = i
      BY <1>2
    <3>4. g[i + c] = k
      BY <3>2, <3>3, <1>2
    <3>. QED
      BY <3>3, <3>4
  <2>. QED
    BY <2>1, <2>2
<1>9. g \in [1 .. (c + m) -> 1 .. (c + n)]
  <2>1. g = [i \in 1 .. (c + m) |-> g[i]]
    OBVIOUS
  <2>. HIDE DEF g
  <2>. QED
    BY <2>1, <1>6
<1>. HIDE DEF g
<1>10. Places(v, h, kids \o objs, new \o slots, g)
  BY <1>3, <1>4, <1>6, <1>7, <1>8, <1>9 DEF Places
<1>. QED
  BY <1>10 DEF Matches

\* A marker that is pushed leaves the open slots as they are.
LEMMA MarkerPushed ==
  ASSUME NEW v, NEW h, NEW objs \in Seq(Objects \cup {Null}), NEW slots \in Seq(Slot),
         NEW put \in Slot, put.put, Matches(v, h, objs, slots)
  PROVE  Matches(v, h, objs, <<put>> \o slots)
<1>1. PICK f : Places(v, h, objs, slots, f)
  BY DEF Matches
<1> DEFINE n == Len(slots)
           m == Len(objs)
           all == <<put>> \o slots
           g == [i \in 1 .. m |-> f[i] + 1]
<1>2. n \in Nat /\ m \in Nat
  BY LenProperties
<1>3. <<put>> \in Seq(Slot) /\ Len(<<put>>) = 1 /\ <<put>>[1] = put
  OBVIOUS
<1>4. /\ Len(all) = 1 + n
      /\ \A i \in 1 .. (1 + n) : all[i] = IF i <= 1 THEN <<put>>[i] ELSE slots[i - 1]
  BY <1>3, ConcatProperties
<1>. HIDE DEF n, m, all
<1>5. \A i \in 1 .. m : f[i] \in 1 .. n
  BY <1>1 DEF Places, n, m
<1>6. \A i \in 1 .. m : g[i] = f[i] + 1 /\ g[i] \in 1 .. (1 + n) /\ all[g[i]] = slots[f[i]]
  <2>. TAKE i \in 1 .. m
  <2>1. f[i] \in 1 .. n /\ g[i] = f[i] + 1
    BY <1>5
  <2>2. g[i] \in 1 .. (1 + n) /\ ~(g[i] <= 1) /\ g[i] - 1 = f[i]
    BY <2>1, <1>2
  <2>. HIDE DEF g
  <2>. QED
    BY <2>1, <2>2, <1>4
<1>7. g \in [1 .. m -> 1 .. (1 + n)]
  BY <1>6
<1>. HIDE DEF g
<1>8. ASSUME NEW i \in 1 .. m, NEW j \in 1 .. m, i < j
      PROVE  g[i] < g[j]
  <2>1. f[i] < f[j] /\ f[i] \in 1 .. n /\ f[j] \in 1 .. n
    BY <1>1, <1>5, <1>8 DEF Places, m
  <2>. QED
    BY <2>1, <1>2, <1>6
<1>9. ASSUME NEW k \in 1 .. (1 + n), ~all[k].put
      PROVE  \E i \in 1 .. m : g[i] = k
  <2>1. ~(k <= 1)
    BY <1>3, <1>4, <1>9
  <2>2. k - 1 \in 1 .. n /\ ~slots[k - 1].put
    BY <2>1, <1>2, <1>4, <1>9
  <2>3. PICK i \in 1 .. m : f[i] = k - 1
    BY <2>2, <1>1 DEF Places, n, m
  <2>. QED
    BY <2>3, <1>2, <1>6
<1>10. \A i \in 1 .. m : ~slots[f[i]].put /\ Wanted(v, h, slots[f[i]]) = objs[i]
  BY <1>1 DEF Places, m
<1>11. Places(v, h, objs, all, g)
  BY <1>4, <1>6, <1>7, <1>8, <1>9, <1>10 DEF Places, m
<1>. QED
  BY <1>11 DEF Matches, all

\* The walk is complete when nothing is left to be filled.
LEMMA NothingOpen ==
  ASSUME NEW v, NEW h, NEW objs \in Seq(Objects \cup {Null}), Matches(v, h, objs, <<>>)
  PROVE  objs = <<>>
<1>1. PICK f : Places(v, h, objs, <<>>, f)
  BY DEF Matches
<1>2. Len(objs) \in Nat /\ (objs # <<>> => Len(objs) # 0)
  BY LenProperties, EmptySeq
<1>3. 1 \notin 1 .. Len(objs)
  <2>. SUFFICES ASSUME 1 \in 1 .. Len(objs) PROVE FALSE
    OBVIOUS
  <2>1. f[1] \in 1 .. Len(<<>>)
    BY <1>1 DEF Places
  <2>. QED
    BY <2>1
<1>. QED
  BY <1>2, <1>3

\* The nodes may change, as long as the open slots stay what they are.
LEMMA SlotsKept ==
  ASSUME NEW v, NEW h, NEW h2, NEW objs \in Seq(Objects \cup {Null}), NEW slots \in Seq(Slot),
         \A m \in 1 .. Len(slots) : ~slots[m].put => Wanted(v, h2, slots[m]) = Wanted(v, h, slots[m]),
         Matches(v, h, objs, slots)
  PROVE  Matches(v, h2, objs, slots)
<1>1. PICK f : Places(v, h, objs, slots, f)
  BY DEF Matches
<1>2. Places(v, h2, objs, slots, f)
  BY <1>1 DEF Places
<1>. QED
  BY <1>2 DEF Matches

-----------------------------------------------------------------------------
(***************************************************************************)
(* The sender.                                                             *)
(***************************************************************************)

\* The record that a pointer is packed as, and whether it is then deferred.
Defers(n) == GetRecord(n).kind = "INSTANCE" /\ Kind[heap[n].obj] = "buffer" /\ Deferrable
Packed(n) == IF Defers(n) THEN [GetRecord(n) EXCEPT !.kind = "DEFERRED"] ELSE GetRecord(n)
PackedItem(n) == [kind |-> Packed(n).kind, id |-> Packed(n).id, obj |-> heap[n].obj]

LEMMA PackPointerFacts ==
  ASSUME PackPointer, NEW n, n = Head(todo)
  PROVE  /\ Walking /\ n # Null
         /\ records' = SetAt(records, Owner(n), Packed(n))
         /\ size' = size + Width(PackedItem(n))
         /\ stream' = Append(stream, PackedItem(n))
         /\ deferred' = IF Defers(n) THEN PutDeferred(Packed(n).id, heap[n].obj) ELSE deferred
         /\ todo' = (IF Packed(n).kind = "INSTANCE" THEN heap[n].kids ELSE <<>>) \o Tail(todo)
         /\ UNCHANGED <<value, hop, phase, error, heap, root, inline, sized, buffers, instances>>
BY DEF PackPointer, Emit, Packed, Defers, PackedItem

LEMMA OwnersOfNodes ==
  ASSUME NodesOK, OwnersDiffer
  PROVE  \A m, n \in DOMAIN heap : Owner(m) = Owner(n) => m = n
<1>. TAKE m, n \in DOMAIN heap
<1>1. heap[m].owner \in Nat /\ heap[n].owner \in Nat
      /\ (heap[m].owner = heap[n].owner => m = n)
  BY DEF OwnersDiffer
<1>2. \A x \in Nat : x # Value /\ x # NoOwner
  BY DEF Value, NoOwner
<1>. QED
  BY <1>1, <1>2 DEF Owner

LEMMA PackedFacts ==
  ASSUME NodesOK, OwnersDiffer, phase \in {"sizing", "packing"},
         NEW met, NEW known, RecordsOK(met, known),
         NEW n \in DOMAIN heap, Kind[heap[n].obj] = "buffer" => Deferrable,
         NEW seen, heap[n].obj \in seen <=> n \in met
  PROVE  /\ Packed(n) \in Record
         /\ Packed(n).kind = ItemKind(heap[n].obj, seen)
         /\ Packed(n).progenitor = phase
         /\ Packed(n).id = IF n \in known THEN records[Owner(n)].id
                           ELSE Cardinality(DOMAIN records) + 1
         /\ Defers(n) <=> n \notin met /\ Kind[heap[n].obj] = "buffer"
         /\ Cardinality(DOMAIN records) \in Nat
<1> DEFINE obj == heap[n].obj
           x == Owner(n)
<1>1. Cardinality(DOMAIN records) \in Nat
  BY FS_CardinalityType DEF RecordsOK
<1>2. obj # Null
  BY ObjectFacts DEF NodesOK
<1>3. x \in DOMAIN records <=> n \in known
  BY DEF RecordsOK
<1>4. CASE n \notin known
  <2>1. GetRecord(n) = [id |-> Cardinality(DOMAIN records) + 1, kind |-> "INSTANCE",
                        progenitor |-> phase]
    BY <1>3, <1>4 DEF GetRecord
  <2>2. n \notin met
    BY <1>4 DEF RecordsOK
  <2>. QED
    BY <2>1, <2>2, <1>1, <1>2, <1>4 DEF Defers, Packed, ItemKind, Record
<1>5. CASE n \in known
  <2>1. /\ records[x] \in Record
        /\ records[x].progenitor = phase <=> n \in met
        /\ n \in met => (records[x].kind = "DEFERRED" <=> Kind[obj] = "buffer")
    BY <1>3, <1>5 DEF RecordsOK
  <2>2. records[x] = [id |-> records[x].id, kind |-> records[x].kind,
                      progenitor |-> records[x].progenitor]
        /\ records[x].id \in Nat
        /\ records[x].kind \in {"INSTANCE", "REFERENCE", "DEFERRED"}
    BY <2>1 DEF Record
  <2>3. CASE n \notin met
    <3>1. GetRecord(n) = [records[x] EXCEPT !.progenitor = phase, !.kind = "INSTANCE"]
      BY <2>1, <2>3, <1>3, <1>5 DEF GetRecord
    <3>2. GetRecord(n) = [id |-> records[x].id, kind |-> "INSTANCE", progenitor |-> phase]
      BY <3>1, <2>2
    <3>. HIDE DEF x
    <3>. QED
      BY <3>2, <2>2, <2>3, <1>1, <1>2, <1>5 DEF Defers, Packed, ItemKind, Record, x
  <2>4. CASE n \in met
    <3>1. GetRecord(n) = IF records[x].kind = "INSTANCE"
                         THEN [records[x] EXCEPT !.kind = "REFERENCE"] ELSE records[x]
      BY <2>1, <2>4, <1>3, <1>5 DEF GetRecord
    <3>2. /\ GetRecord(n).kind = IF records[x].kind = "INSTANCE" THEN "REFERENCE" ELSE records[x].kind
          /\ GetRecord(n).id = records[x].id
          /\ GetRecord(n).progenitor = phase
          /\ GetRecord(n) \in Record
      BY <3>1, <2>1, <2>2, <2>4 DEF Record
    <3>3. ~Defers(n) /\ Packed(n) = GetRecord(n)
      BY <3>2 DEF Defers, Packed
    <3>. HIDE DEF x
    <3>. QED
      BY <3>2, <3>3, <2>1, <2>2, <2>4, <1>1, <1>2, <1>5 DEF ItemKind, x
  <2>. QED
    BY <2>3, <2>4
<1>. QED
  BY <1>4, <1>5

\* The table of records after a pointer has been packed.
LEMMA RecordsGrow ==
  ASSUME NodesOK, OwnersDiffer, phase \in {"sizing", "packing"},
         NEW met, NEW known, RecordsOK(met, known),
         NEW n \in DOMAIN heap,
         Packed(n) \in Record,
         Packed(n).kind = "DEFERRED" <=> Kind[heap[n].obj] = "buffer",
         Packed(n).progenitor = phase,
         Packed(n).id = (IF n \in known THEN records[Owner(n)].id
                         ELSE Cardinality(DOMAIN records) + 1),
         records' = SetAt(records, Owner(n), Packed(n)),
         UNCHANGED <<heap, root, inline, phase>>
  PROVE  /\ RecordsOK(met \cup {n}, known \cup {n})'
         /\ \A m \in DOMAIN heap : Owner(m)' = Owner(m)
         /\ \A m \in known : records'[Owner(m)].id = records[Owner(m)].id
         /\ records'[Owner(n)] = Packed(n)
<1> DEFINE x == Owner(n)
           rec == Packed(n)
           card == Cardinality(DOMAIN records)
           new == IF x \in DOMAIN records THEN card ELSE card + 1
<1>1. \A m \in DOMAIN heap : Owner(m)' = Owner(m)
  BY DEF Owner
<1>2. /\ IsFiniteSet(DOMAIN records)
      /\ \A y \in DOMAIN records : records[y] \in Record /\ records[y].id <= card
      /\ \A y, z \in DOMAIN records : records[y].id = records[z].id => y = z
      /\ met \subseteq known /\ known \subseteq DOMAIN heap
      /\ \A m \in DOMAIN heap : Owner(m) \in DOMAIN records <=> m \in known
      /\ \A m \in known :
           /\ records[Owner(m)].progenitor = phase <=> m \in met
           /\ m \in met => (records[Owner(m)].kind = "DEFERRED" <=> Kind[heap[m].obj] = "buffer")
  BY DEF RecordsOK
<1>3. card \in Nat
  BY <1>2, FS_CardinalityType
<1>4. /\ DOMAIN records' = DOMAIN records \cup {x}
      /\ \A y \in DOMAIN records \cup {x} : records'[y] = IF y = x THEN rec ELSE records[y]
  BY DEF SetAt
<1>5. IsFiniteSet(DOMAIN records') /\ Cardinality(DOMAIN records') = new
  BY <1>2, <1>4, FS_AddElement
<1>6. \A m, k \in DOMAIN heap : Owner(m) = Owner(k) => m = k
  BY OwnersOfNodes
<1>7. \A y \in DOMAIN records : records[y].id \in Nat
  BY <1>2 DEF Record
<1>8. rec.id \in Nat /\ rec.id <= new /\ card <= new /\ new \in Nat
  BY <1>2, <1>3, <1>7 DEF Record
<1>9. \A y \in DOMAIN records : y # x => records[y].id # rec.id
  <2>. TAKE y \in DOMAIN records
  <2>1. CASE n \in known
    BY <2>1, <1>2
  <2>2. CASE n \notin known
    <3>1. rec.id = card + 1 /\ records[y].id <= card /\ records[y].id \in Nat
      BY <2>2, <1>2, <1>7
    <3>. QED
      BY <3>1, <1>3
  <2>. QED
    BY <2>1, <2>2
<1>10. \A y \in DOMAIN records' : records'[y] \in Record /\ records'[y].id <= new
  <2>. TAKE y \in DOMAIN records'
  <2>1. CASE y = x
    BY <2>1, <1>4, <1>8
  <2>2. CASE y # x
    <3>1. y \in DOMAIN records /\ records'[y] = records[y]
      BY <2>2, <1>4
    <3>2. records[y].id <= card /\ records[y].id \in Nat
      BY <3>1, <1>2, <1>7
    <3>. HIDE DEF new, card
    <3>. QED
      BY <3>1, <3>2, <1>2, <1>3, <1>8
  <2>. QED
    BY <2>1, <2>2
<1>11. \A y, z \in DOMAIN records' : records'[y].id = records'[z].id => y = z
  BY <1>2, <1>4, <1>9
<1>12. \A m \in DOMAIN heap : Owner(m) \in DOMAIN records' <=> m \in known \cup {n}
  BY <1>2, <1>4, <1>6
<1>13. \A m \in known \cup {n} :
         /\ records'[Owner(m)].progenitor = phase <=> m \in met \cup {n}
         /\ m \in met \cup {n} =>
              (records'[Owner(m)].kind = "DEFERRED" <=> Kind[heap[m].obj] = "buffer")
  <2>. TAKE m \in known \cup {n}
  <2>1. CASE m = n
    BY <2>1, <1>4
  <2>2. CASE m # n
    <3>1. m \in known /\ Owner(m) # x /\ Owner(m) \in DOMAIN records
      BY <2>2, <1>2, <1>6
    <3>2. records'[Owner(m)] = records[Owner(m)]
      BY <3>1, <1>4
    <3>. QED
      BY <3>1, <3>2, <2>2, <1>2
  <2>. QED
    BY <2>1, <2>2
<1>14. RecordsOK(met \cup {n}, known \cup {n})'
  <2>1. heap' = heap /\ phase' = phase
    OBVIOUS
  <2>2. /\ IsFiniteSet(DOMAIN records')
        /\ \A y \in DOMAIN records' : /\ records'[y] \in Record
                                      /\ records'[y].id <= Cardinality(DOMAIN records')
        /\ met \cup {n} \subseteq known \cup {n} /\ known \cup {n} \subseteq DOMAIN heap
    BY <1>2, <1>5, <1>10
  <2>3. \A m \in DOMAIN heap : Owner(m)' \in DOMAIN records' <=> m \in known \cup {n}
    BY <1>1, <1>12
  <2>4. \A m \in known \cup {n} :
         /\ records'[Owner(m)'].progenitor = phase <=> m \in met \cup {n}
         /\ m \in met \cup {n} =>
              (records'[Owner(m)'].kind = "DEFERRED" <=> Kind[heap[m].obj] = "buffer")
    BY <1>1, <1>13, <2>2
  <2>. QED
    BY <2>1, <2>2, <2>3, <2>4, <1>11 DEF RecordsOK
<1>15. \A m \in known : records'[Owner(m)].id = records[Owner(m)].id
  <2>. TAKE m \in known
  <2>1. CASE m = n
    BY <2>1, <1>4
  <2>2. CASE m # n
    BY <2>2, <1>2, <1>4, <1>6
  <2>. QED
    BY <2>1, <2>2
<1>16. records'[x] = rec
  BY <1>4
<1>. QED
  BY <1>1, <1>14, <1>15, <1>16

\* The stack and the size follow the walk.
LEMMA SenderMoves ==
  ASSUME IsValue(value), NodesOK, NEW a \in WalkState, NEW gap, SenderAt(a, gap), gap \in Nat,
         todo # <<>>, value' = value, heap' = heap,
         todo' = (IF Head(todo) # Null /\ HeadKind(a) = "INSTANCE"
                  THEN heap[Head(todo)].kids ELSE <<>>) \o Tail(todo),
         size' = size + Width([kind |-> HeadKind(a), obj |-> Obj(heap, Head(todo))])
  PROVE  /\ a.todo # <<>>
         /\ Head(a.todo) = Obj(heap, Head(todo))
         /\ SenderAt(After(value, a), gap)'
<1> DEFINE n == Head(todo)
           kids == IF n # Null /\ HeadKind(a) = "INSTANCE" THEN heap[n].kids ELSE <<>>
<1>1. todo \in Seq(DOMAIN heap \cup {Null}) /\ a.todo = Objs(heap, todo) /\ size = a.size - gap
  BY DEF SenderAt
<1>2. \A m \in DOMAIN heap : /\ heap[m].obj \in Objects
                             /\ heap[m].kids \in Seq(DOMAIN heap \cup {Null})
                             /\ value.kids[heap[m].obj] = Objs(heap, heap[m].kids)
  BY DEF NodesOK
<1>3. /\ a.todo # <<>>
      /\ Head(a.todo) = Obj(heap, n)
      /\ Tail(todo) \in Seq(DOMAIN heap \cup {Null})
      /\ Tail(a.todo) = Objs(heap, Tail(todo))
  <2>1. \A m \in DOMAIN heap : heap[m].obj \in Objects
    BY <1>2
  <2>2. /\ Objs(heap, todo) # <<>>
        /\ Head(Objs(heap, todo)) = Obj(heap, Head(todo))
        /\ Tail(todo) \in Seq(DOMAIN heap \cup {Null})
        /\ Tail(Objs(heap, todo)) = Objs(heap, Tail(todo))
    BY <1>1, <2>1, ObjsTail
  <2>. QED
    BY <2>2, <1>1
<1>4. n \in DOMAIN heap \cup {Null}
  BY <1>1, HeadTail
<1>5. HeadKind(a) = "INSTANCE" => n # Null
  BY <1>3 DEF HeadKind, ItemKind, Obj
<1>6. Objs(heap, <<>>) = <<>> /\ <<>> \in Seq(DOMAIN heap \cup {Null})
  BY DEF Objs
<1>7. /\ kids \in Seq(DOMAIN heap \cup {Null})
      /\ Objs(heap, kids) = IF HeadKind(a) = "INSTANCE" THEN value.kids[Head(a.todo)] ELSE <<>>
  <2>1. CASE HeadKind(a) = "INSTANCE"
    <3>1. n \in DOMAIN heap /\ Head(a.todo) = heap[n].obj /\ kids = heap[n].kids
      BY <2>1, <1>3, <1>4, <1>5 DEF Obj
    <3>. QED
      BY <3>1, <2>1, <1>2
  <2>2. CASE HeadKind(a) # "INSTANCE"
    BY <2>2, <1>6
  <2>. QED
    BY <2>1, <2>2
<1>. HIDE DEF kids
<1>8. /\ kids \o Tail(todo) \in Seq(DOMAIN heap \cup {Null})
      /\ Objs(heap, kids \o Tail(todo)) = Objs(heap, kids) \o Tail(a.todo)
  <2>1. \A m \in DOMAIN heap : heap[m].obj \in Objects
    BY <1>2
  <2>2. /\ kids \o Tail(todo) \in Seq(DOMAIN heap \cup {Null})
        /\ Objs(heap, kids \o Tail(todo)) = Objs(heap, kids) \o Objs(heap, Tail(todo))
    BY <1>3, <1>7, <2>1, ObjsConcat
  <2>. QED
    BY <2>2, <1>3
<1>9. todo' = kids \o Tail(todo)
  BY DEF kids
<1>10. After(value, a).todo = Objs(heap, todo')
  BY <1>7, <1>8, <1>9 DEF After
<1>11. size' = After(value, a).size - gap
  <2> DEFINE d == Width([kind |-> HeadKind(a), obj |-> Head(a.todo)])
  <2>1. Head(a.todo) \in Objects \cup {Null}
    BY <1>2, <1>3, <1>4 DEF Obj
  <2>2. d \in Nat /\ a.size \in Nat
    BY <2>1, WidthFacts, ItemKinds DEF HeadKind, WalkState
  <2>3. After(value, a).size = a.size + d /\ size' = size + d
    BY <1>3 DEF After
  <2>. HIDE DEF d
  <2>. QED
    BY <2>2, <2>3, <1>1
<1>12. SenderAt(After(value, a), gap)'
  BY <1>8, <1>9, <1>10, <1>11 DEF SenderAt, After, Objs, Obj, HeadKind
<1>. QED
  BY <1>3, <1>12

\* What the sender keeps while it walks.
LEMMA NodesKept ==
  ASSUME NodesOK, OwnersDiffer, UNCHANGED <<value, heap, root>>
  PROVE  NodesOK' /\ OwnersDiffer'
<1>1. heap' = heap /\ value' = value /\ root' = root
  OBVIOUS
<1>2. NodesOK'
  BY <1>1 DEF NodesOK
<1>3. OwnersDiffer'
  BY <1>1 DEF OwnersDiffer
<1>. QED
  BY <1>2, <1>3

LEMMA StateKept ==
  ASSUME StateOK, UNCHANGED <<value, hop, phase, inline, error>>
  PROVE  StateOK'
BY DEF StateOK, IsValue

\* The id of a new record is not among the deferred ones.
LEMMA SizedBuffersGrow ==
  ASSUME NodesOK, OwnersDiffer, phase \in {"sizing", "packing"},
         NEW met, RecordsOK(met, met), SizedBuffers(met),
         NEW n \in DOMAIN heap,
         Packed(n).id = (IF n \in met THEN records[Owner(n)].id
                         ELSE Cardinality(DOMAIN records) + 1),
         Defers(n) <=> n \notin met /\ Kind[heap[n].obj] = "buffer",
         deferred' = IF Defers(n) THEN PutDeferred(Packed(n).id, heap[n].obj) ELSE deferred,
         \A m \in DOMAIN heap : Owner(m)' = Owner(m),
         \A m \in met : records'[Owner(m)].id = records[Owner(m)].id,
         records'[Owner(n)] = Packed(n),
         heap' = heap
  PROVE  SizedBuffers(met \cup {n})'
<1> DEFINE id == Packed(n).id
           obj == heap[n].obj
           Id(m) == records[Owner(m)].id
           NewId(m) == records'[Owner(m)'].id
<1>1. /\ \A m \in met : Kind[heap[m].obj] = "buffer" =>
           Id(m) \in DOMAIN deferred /\ deferred[Id(m)] = {heap[m].obj}
      /\ \A d \in DOMAIN deferred : \E m \in met : Kind[heap[m].obj] = "buffer" /\ d = Id(m)
  BY DEF SizedBuffers
<1>2. met \subseteq DOMAIN heap
  BY DEF RecordsOK
<1>3. \A m \in met : NewId(m) = Id(m)
  BY <1>2
<1>4. NewId(n) = id
  OBVIOUS
<1>5. CASE ~Defers(n)
  <2>1. deferred' = deferred
    BY <1>5
  <2>2. n \in met \/ Kind[obj] # "buffer"
    BY <1>5
  <2>3. \A m \in met \cup {n} : Kind[heap[m].obj] = "buffer" => m \in met
    BY <2>2
  <2>4. \A m \in met \cup {n} : Kind[heap'[m].obj] = "buffer" =>
           NewId(m) \in DOMAIN deferred' /\ deferred'[NewId(m)] = {heap'[m].obj}
    <3>. HIDE DEF NewId, Id
    <3>. QED
      BY <2>1, <2>3, <1>1, <1>3
  <2>5. \A d \in DOMAIN deferred' :
           \E m \in met \cup {n} : Kind[heap'[m].obj] = "buffer" /\ d = NewId(m)
    <3>. HIDE DEF NewId, Id
    <3>. QED
      BY <2>1, <1>1, <1>3
  <2>. QED
    BY <2>1, <2>4, <2>5 DEF SizedBuffers
<1>6. CASE Defers(n)
  <2>1. n \notin met /\ Kind[obj] = "buffer" /\ id = Cardinality(DOMAIN records) + 1
    BY <1>6
  <2>2. id \notin DOMAIN deferred
    <3>1. ASSUME NEW m \in met
          PROVE  Id(m) # id
      <4>1. Owner(m) \in DOMAIN records /\ IsFiniteSet(DOMAIN records)
        BY <1>2 DEF RecordsOK
      <4>2. Id(m) <= Cardinality(DOMAIN records) /\ Id(m) \in Nat
        BY <4>1 DEF RecordsOK, Record
      <4>3. Cardinality(DOMAIN records) \in Nat
        BY <4>1, FS_CardinalityType
      <4>. QED
        BY <4>2, <4>3, <2>1
    <3>. QED
      BY <3>1, <1>1
  <2>3. deferred' = SetAt(deferred, id, {} \cup {obj})
    BY <1>6, <2>2 DEF PutDeferred
  <2>4. /\ DOMAIN deferred' = DOMAIN deferred \cup {id}
        /\ deferred'[id] = {obj}
        /\ \A d \in DOMAIN deferred : deferred'[d] = deferred[d]
    BY <2>2, <2>3 DEF SetAt
  <2>5. \A m \in met \cup {n} : Kind[heap'[m].obj] = "buffer" =>
           NewId(m) \in DOMAIN deferred' /\ deferred'[NewId(m)] = {heap'[m].obj}
    <3>. HIDE DEF NewId, Id
    <3>. QED
      BY <2>4, <1>1, <1>3, <1>4
  <2>6. \A d \in DOMAIN deferred' :
           \E m \in met \cup {n} : Kind[heap'[m].obj] = "buffer" /\ d = NewId(m)
    <3>. HIDE DEF NewId, Id
    <3>. QED
      BY <2>1, <2>4, <1>1, <1>3, <1>4
  <2>7. deferred' = [d \in DOMAIN deferred' |-> deferred'[d]]
    BY <2>3 DEF SetAt
  <2>. QED
    BY <2>5, <2>6, <2>7 DEF SizedBuffers
<1>. QED
  BY <1>5, <1>6

LEMMA SizingPackNull ==
  ASSUME Supported, StateOK, NodesOK, OwnersDiffer, phase = "sizing",
         NEW w, NEW N, NEW met, SizingOK(w, N, met), PackNull
  PROVE  IInv'
<1>1. /\ Walking /\ Head(todo) = Null
      /\ size' = size + Width([kind |-> "IGNORED", id |-> 0, obj |-> Null])
      /\ todo' = Tail(todo)
      /\ UNCHANGED <<value, hop, phase, error, heap, root, inline, records,
                     deferred, sized, buffers, instances>>
  BY DEF PackNull, Emit
<1>2. /\ Walk(value, w, N) /\ SenderAt(w[N], 0) /\ RecordsOK(met, met) /\ NoOwner \notin DOMAIN records
      /\ met = {n \in DOMAIN heap : heap[n].obj \in w[N].seen}
      /\ AllHere(w[N].seen) /\ SizedBuffers(met) /\ buffers = <<>>
  BY DEF SizingOK
<1>3. IsValue(value) /\ w[N] \in WalkState
  BY <1>2 DEF StateOK, Walk
<1>4. todo # <<>> /\ Obj(heap, Head(todo)) = Null
  BY <1>1 DEF Walking, Obj
<1>5. w[N].todo = Objs(heap, todo) /\ todo \in Seq(DOMAIN heap \cup {Null})
  BY <1>2 DEF SenderAt
<1>6. w[N].todo # <<>> /\ Head(w[N].todo) = Null
  BY <1>4, <1>5, ObjsTail DEF NodesOK
<1>7. HeadKind(w[N]) = "IGNORED"
  BY <1>6 DEF HeadKind, ItemKind
<1>8. todo' = <<>> \o Tail(todo)
  <2>1. Tail(todo) \in Seq(DOMAIN heap \cup {Null})
    BY <1>4, <1>5, HeadTail
  <2>. QED
    BY <2>1, <1>1, ConcatEmptySeq
<1>9. SenderAt(After(value, w[N]), 0)'
  <2>1. Width([kind |-> "IGNORED", id |-> 0, obj |-> Null]) =
        Width([kind |-> HeadKind(w[N]), obj |-> Obj(heap, Head(todo))])
    BY <1>7 DEF Width
  <2>. QED
    BY <2>1, <1>1, <1>2, <1>3, <1>4, <1>7, <1>8, SenderMoves
<1>10. PICK x : Walk(value, x, N + 1) /\ x[N + 1] = After(value, w[N])
  BY <1>2, <1>3, <1>6, WalkGoesOn
<1>11. x[N + 1].seen = w[N].seen
  BY <1>6, <1>10 DEF After
<1>12. RecordsOK(met, met)'
  BY <1>1, <1>2 DEF RecordsOK, Owner
<1>13. SizedBuffers(met)'
  BY <1>1, <1>2 DEF SizedBuffers, Owner
<1>14. SizingOK(x, N + 1, met)'
  <2>1. Walk(value, x, N + 1)'
    BY <1>1, <1>10
  <2>2. SenderAt(x[N + 1], 0)'
    <3>1. value' = value
      BY <1>1
    <3>. QED
      BY <3>1, <1>9, <1>10
  <2>3. AllHere(x[N + 1].seen)'
    BY <1>1, <1>2, <1>11 DEF AllHere
  <2>. QED
    BY <2>1, <2>2, <2>3, <1>1, <1>2, <1>11, <1>12, <1>13 DEF SizingOK
<1>. QED
  BY <1>1, <1>14, NodesKept, StateKept DEF IInv

LEMMA SizingPackPointer ==
  ASSUME Supported, StateOK, NodesOK, OwnersDiffer, phase = "sizing",
         NEW w, NEW N, NEW met, SizingOK(w, N, met), PackPointer
  PROVE  IInv'
<1> DEFINE a == w[N]
<1>0. PICK n : n = Head(todo)
  OBVIOUS
<1>1. /\ Walking /\ n # Null
      /\ records' = SetAt(records, Owner(n), Packed(n))
      /\ size' = size + Width(PackedItem(n))
      /\ deferred' = IF Defers(n) THEN PutDeferred(Packed(n).id, heap[n].obj) ELSE deferred
      /\ todo' = (IF Packed(n).kind = "INSTANCE" THEN heap[n].kids ELSE <<>>) \o Tail(todo)
      /\ UNCHANGED <<value, hop, phase, error, heap, root, inline, sized, buffers, instances>>
  BY <1>0, PackPointerFacts
<1>2. /\ Walk(value, w, N) /\ SenderAt(a, 0) /\ RecordsOK(met, met) /\ NoOwner \notin DOMAIN records
      /\ met = {m \in DOMAIN heap : heap[m].obj \in a.seen}
      /\ AllHere(a.seen) /\ SizedBuffers(met) /\ buffers = <<>>
  BY DEF SizingOK
<1>3. IsValue(value) /\ a \in WalkState
  BY <1>2 DEF StateOK, Walk
<1>4. todo # <<>> /\ a.todo = Objs(heap, todo) /\ todo \in Seq(DOMAIN heap \cup {Null})
  BY <1>1, <1>2 DEF Walking, SenderAt
<1>5. n \in DOMAIN heap
  BY <1>0, <1>1, <1>4, HeadTail
<1>6. Obj(heap, n) = heap[n].obj
  BY <1>1 DEF Obj
<1>7. a.todo # <<>> /\ Head(a.todo) = heap[n].obj
  BY <1>0, <1>4, <1>6, ObjsTail DEF NodesOK
<1>8. Deferrable
  BY DEF Deferrable
<1>9. /\ Packed(n) \in Record
      /\ Packed(n).kind = HeadKind(a)
      /\ Packed(n).progenitor = phase
      /\ Packed(n).id = IF n \in met THEN records[Owner(n)].id
                        ELSE Cardinality(DOMAIN records) + 1
      /\ Defers(n) <=> n \notin met /\ Kind[heap[n].obj] = "buffer"
  BY <1>2, <1>5, <1>7, <1>8, PackedFacts DEF HeadKind
<1>10. Packed(n).kind = "DEFERRED" <=> Kind[heap[n].obj] = "buffer"
  BY <1>5, <1>7, <1>9, ObjectFacts DEF HeadKind, ItemKind, NodesOK
<1>11. /\ RecordsOK(met \cup {n}, met \cup {n})'
       /\ \A m \in DOMAIN heap : Owner(m)' = Owner(m)
       /\ \A m \in met : records'[Owner(m)].id = records[Owner(m)].id
       /\ records'[Owner(n)] = Packed(n)
  BY <1>1, <1>2, <1>5, <1>9, <1>10, RecordsGrow
<1>12. SizedBuffers(met \cup {n})'
  BY <1>1, <1>2, <1>5, <1>9, <1>11, SizedBuffersGrow
<1>13. SenderAt(After(value, a), 0)'
  <2>1. Width(PackedItem(n)) = Width([kind |-> HeadKind(a), obj |-> Obj(heap, n)])
    BY <1>6, <1>9 DEF Width, PackedItem
  <2>2. todo' = (IF n # Null /\ HeadKind(a) = "INSTANCE" THEN heap[n].kids ELSE <<>>) \o Tail(todo)
    BY <1>1, <1>9
  <2>. QED
    BY <2>1, <2>2, <1>0, <1>1, <1>2, <1>3, <1>4, SenderMoves
<1>14. PICK x : Walk(value, x, N + 1) /\ x[N + 1] = After(value, a)
  BY <1>2, <1>3, <1>7, WalkGoesOn
<1>15. x[N + 1].seen = a.seen \cup {heap[n].obj}
  <2>1. heap[n].obj # Null
    BY <1>5, ObjectFacts DEF NodesOK
  <2>. QED
    BY <2>1, <1>7, <1>14 DEF After
<1>16. met \cup {n} = {m \in DOMAIN heap : heap[m].obj \in x[N + 1].seen}
  <2>1. \A m \in DOMAIN heap : heap[m].obj = heap[n].obj => m = n
    BY <1>5 DEF NodesOK
  <2>. QED
    BY <2>1, <1>2, <1>5, <1>15
<1>17. SizingOK(x, N + 1, met \cup {n})'
  <2>1. Walk(value, x, N + 1)'
    BY <1>1, <1>14
  <2>2. SenderAt(x[N + 1], 0)'
    <3>1. value' = value
      BY <1>1
    <3>. QED
      BY <3>1, <1>13, <1>14
  <2>3. AllHere(x[N + 1].seen)'
    BY <1>1, <1>2, <1>5, <1>15 DEF AllHere
  <2>4. NoOwner \notin DOMAIN records'
    <3>1. heap[n].owner \in Nat
      BY <1>5 DEF OwnersDiffer
    <3>2. Owner(n) # NoOwner
      BY <3>1 DEF Owner, NoOwner, Value
    <3>. QED
      BY <3>2, <1>1, <1>2 DEF SetAt
  <2>. QED
    BY <2>1, <2>2, <2>3, <2>4, <1>1, <1>2, <1>11, <1>12, <1>16 DEF SizingOK
<1>18. NodesOK' /\ OwnersDiffer' /\ StateOK'
  BY <1>1, NodesKept, StateKept
<1>. QED
  BY <1>1, <1>17, <1>18 DEF IInv

\* The first step of a walk, over the root.
LEMMA WalkFirst ==
  ASSUME NEW v, IsValue(v), NEW w, NEW N, FullWalk(v, w, N)
  PROVE  /\ N \in Nat /\ 1 \in 0 .. N
         /\ w[1].seen = {v.root}
         /\ Kind[v.root] = "buffer" => N = 1
         /\ Kind[v.root] # "buffer" => /\ w[1].todo = v.kids[v.root]
                                       /\ w[1].size = InstanceSize + Payload(v.root)
<1>1. /\ N \in Nat
      /\ w[0] = [todo |-> <<v.root>>, seen |-> {}, size |-> 0]
      /\ \A k \in 0 .. (N - 1) : w[k].todo # <<>> /\ w[k + 1] = After(v, w[k])
      /\ w[N].todo = <<>>
  BY DEF FullWalk, Walk
<1>2. N # 0
  <2>1. Len(<<v.root>>) = 1 /\ Len(<<>>) = 0
    OBVIOUS
  <2>2. <<v.root>> # <<>>
    BY <2>1
  <2>. QED
    BY <2>2, <1>1
<1>3. 0 \in 0 .. (N - 1) /\ 1 \in 0 .. N
  BY <1>1, <1>2
<1>4. w[1] = After(v, w[0])
  BY <1>1, <1>3
<1>5. v.root \in Objects /\ v.root # Null
  BY SerdesAssumption, ObjectFacts DEF IsValue
<1>6. Head(w[0].todo) = v.root /\ Tail(w[0].todo) = <<>> /\ w[0].seen = {} /\ w[0].size = 0
  BY <1>1
<1>7. HeadKind(w[0]) = IF Kind[v.root] = "buffer" THEN "DEFERRED" ELSE "INSTANCE"
  BY <1>5, <1>6 DEF HeadKind, ItemKind
<1>8. w[1].seen = {v.root}
  BY <1>4, <1>5, <1>6 DEF After
<1>9. CASE Kind[v.root] = "buffer"
  <2>1. w[1].todo = <<>>
    BY <1>4, <1>6, <1>7, <1>9 DEF After
  <2>2. N = 1
    <3>1. N # 1 => 1 \in 0 .. (N - 1)
      BY <1>1, <1>2
    <3>. QED
      BY <3>1, <2>1, <1>1
  <2>. QED
    BY <2>2, <1>1, <1>3, <1>8, <1>9
<1>10. CASE Kind[v.root] # "buffer"
  <2>1. v.kids[v.root] \in Seq(Objects \cup {Null})
    BY <1>5, ValueFacts
  <2>2. w[1].todo = v.kids[v.root] \o <<>>
    <3>1. HeadKind(w[0]) = "INSTANCE"
      BY <1>7, <1>10
    <3>2. w[1].todo = (IF HeadKind(w[0]) = "INSTANCE" THEN v.kids[Head(w[0].todo)] ELSE <<>>)
                         \o Tail(w[0].todo)
      <4>1. After(v, w[0]).todo = (IF HeadKind(w[0]) = "INSTANCE"
                                   THEN v.kids[Head(w[0].todo)] ELSE <<>>) \o Tail(w[0].todo)
        BY ONLY DEF After
      <4>. QED
        BY ONLY <4>1, <1>4
    <3>3. w[1].todo = v.kids[Head(w[0].todo)] \o Tail(w[0].todo)
      BY <3>1, <3>2
    <3>4. Head(w[0].todo) = v.root /\ Tail(w[0].todo) = <<>>
      BY <1>6
    <3>. QED
      BY ONLY <3>3, <3>4
  <2>3. w[1].todo = v.kids[v.root]
    BY <2>1, <2>2, ConcatEmptySeq
  <2>4. w[1].size = 0 + Width([kind |-> "INSTANCE", obj |-> v.root])
    BY <1>4, <1>6, <1>7, <1>10 DEF After
  <2>5. Width([kind |-> "INSTANCE", obj |-> v.root]) = InstanceSize + Payload(v.root)
    BY DEF Width
  <2>6. InstanceSize + Payload(v.root) \in Nat
    BY DEF InstanceSize, Payload
  <2>. QED
    BY <2>3, <2>4, <2>5, <2>6, <1>1, <1>3, <1>8, <1>10
<1>. QED
  BY <1>9, <1>10

\* The buffers of the message are what the sizer deferred, by their ids.
LEMMA DeferredBuffers ==
  ASSUME NodesOK, NEW met, RecordsOK(met, met), SizedBuffers(met),
         NEW c, c = Cardinality(DOMAIN deferred)
  PROVE  /\ c \in Nat /\ DOMAIN GetDeferred = 1 .. c
         /\ GetDeferred \in Seq(Objects)
         /\ \A i \in 1 .. c : \E m \in met : /\ Kind[heap[m].obj] = "buffer"
                                             /\ GetDeferred[i] = heap[m].obj
                                             /\ ById(deferred)[i] = records[Owner(m)].id
         /\ \A m \in met : Kind[heap[m].obj] = "buffer" =>
              \E i \in 1 .. c : GetDeferred[i] = heap[m].obj
         /\ \A i, j \in 1 .. c : i < j => ById(deferred)[i] < ById(deferred)[j]
         /\ deferred = Emptied <=> GetDeferred = <<>>
<1> DEFINE Id(m) == records[Owner(m)].id
           ids == ById(deferred)
<1>1. /\ met \subseteq DOMAIN heap
      /\ \A m \in met : Owner(m) \in DOMAIN records
      /\ IsFiniteSet(DOMAIN records)
      /\ \A x \in DOMAIN records : records[x].id \in Nat /\ records[x].id <= Cardinality(DOMAIN records)
      /\ \A x, y \in DOMAIN records : records[x].id = records[y].id => x = y
  BY DEF RecordsOK, Record
<1>2. /\ \A m \in met : Kind[heap[m].obj] = "buffer" =>
           Id(m) \in DOMAIN deferred /\ deferred[Id(m)] = {heap[m].obj}
      /\ \A d \in DOMAIN deferred : \E m \in met : Kind[heap[m].obj] = "buffer" /\ d = Id(m)
      /\ deferred = [d \in DOMAIN deferred |-> deferred[d]]
  BY DEF SizedBuffers
<1>3. IsFiniteSet(DOMAIN deferred) /\ DOMAIN deferred \subseteq Nat
  <2>1. Cardinality(DOMAIN records) \in Nat
    BY <1>1, FS_CardinalityType
  <2>2. DOMAIN deferred \subseteq 0 .. Cardinality(DOMAIN records)
    BY <2>1, <1>1, <1>2
  <2>3. IsFiniteSet(0 .. Cardinality(DOMAIN records))
    BY <2>1, FS_Interval
  <2>. QED
    BY <2>1, <2>2, <2>3, FS_Subset
<1>4. /\ c \in Nat
      /\ DOMAIN ids = 1 .. c
      /\ \A i \in 1 .. c : ids[i] \in DOMAIN deferred
      /\ \A i, j \in 1 .. c : i < j => ids[i] < ids[j]
      /\ \A d \in DOMAIN deferred : \E i \in 1 .. c : ids[i] = d
  BY <1>3, ByIdSorts
<1>. HIDE DEF ids
<1>5. GetDeferred = [i \in 1 .. c |-> CHOOSE o \in deferred[ids[i]] : TRUE]
  BY <1>4 DEF GetDeferred, ids
<1>6. ASSUME NEW m \in met, Kind[heap[m].obj] = "buffer", NEW i \in 1 .. c, ids[i] = Id(m)
      PROVE  GetDeferred[i] = heap[m].obj
  <2>1. deferred[ids[i]] = {heap[m].obj}
    BY <1>2, <1>6
  <2>2. GetDeferred[i] = CHOOSE o \in {heap[m].obj} : TRUE
    BY <2>1, <1>5
  <2>. QED
    BY <2>2
<1>7. \A i \in 1 .. c : \E m \in met : /\ Kind[heap[m].obj] = "buffer"
                                       /\ GetDeferred[i] = heap[m].obj
                                       /\ ids[i] = Id(m)
  <2>. TAKE i \in 1 .. c
  <2>1. PICK m \in met : Kind[heap[m].obj] = "buffer" /\ ids[i] = Id(m)
    BY <1>2, <1>4
  <2>2. GetDeferred[i] = heap[m].obj
    BY <2>1, <1>6
  <2>. QED
    BY <2>1, <2>2
<1>8. ASSUME NEW m \in met, Kind[heap[m].obj] = "buffer"
      PROVE  \E i \in 1 .. c : GetDeferred[i] = heap[m].obj
  <2>1. Id(m) \in DOMAIN deferred
    BY <1>2, <1>8
  <2>2. PICK i \in 1 .. c : ids[i] = Id(m)
    BY <2>1, <1>4
  <2>3. GetDeferred[i] = heap[m].obj
    BY <2>2, <1>6, <1>8
  <2>. QED
    BY <2>3
<1>9. \A i \in 1 .. c : GetDeferred[i] \in Objects
  BY <1>1, <1>7 DEF NodesOK
<1>10. GetDeferred \in Seq(Objects)
  <2>1. GetDeferred \in [1 .. c -> Objects]
    BY <1>5, <1>9
  <2>. QED
    BY <2>1, <1>4, SeqDef
<1>11. deferred = Emptied <=> GetDeferred = <<>>
  <2>1. CASE c = 0
    <3>1. DOMAIN deferred = {}
      BY <2>1, <1>3, FS_EmptySet
    <3>2. deferred = Emptied
      BY <3>1, <1>2 DEF Emptied
    <3>. QED
      BY <3>2, <2>1, <1>5
  <2>2. CASE c # 0
    <3>1. 1 \in 1 .. c
      BY <2>2, <1>4
    <3>2. DOMAIN deferred # {}
      BY <3>1, <1>4
    <3>3. deferred # Emptied
      BY <3>2 DEF Emptied
    <3>4. GetDeferred # <<>>
      <4>1. DOMAIN GetDeferred = 1 .. c
        BY <1>5
      <4>2. DOMAIN GetDeferred = 1 .. Len(GetDeferred)
        BY <1>10, LenProperties
      <4>3. Len(<<>>) = 0 /\ 1 \notin 1 .. 0
        OBVIOUS
      <4>4. 1 \in 1 .. Len(GetDeferred)
        BY <4>1, <4>2, <3>1
      <4>. QED
        BY <4>3, <4>4
    <3>. QED
      BY <3>3, <3>4
  <2>. QED
    BY <2>1, <2>2
<1>. QED
  BY <1>4, <1>5, <1>7, <1>8, <1>10, <1>11 DEF ids

LEMMA PackDeferrableStep ==
  ASSUME Supported, StateOK, NodesOK, OwnersDiffer, phase = "sizing",
         NEW w, NEW N, NEW met, SizingOK(w, N, met), PackDeferrable
  PROVE  IInv'
<1>1. /\ todo = <<>>
      /\ buffers' = GetDeferred
      /\ sized' = IF deferred # Emptied THEN size ELSE size - InstanceSize
      /\ todo' = IF deferred # Emptied THEN <<root>> ELSE heap[root].kids
      /\ size' = IF deferred # Emptied THEN 0 ELSE Payload(heap[root].obj)
      /\ error' = error
      /\ phase' = "packing"
      /\ stream' = <<>>
      /\ UNCHANGED <<value, hop, heap, root, inline, records, instances>>
  BY DEF PackDeferrable, Supported
<1>2. /\ Walk(value, w, N) /\ SenderAt(w[N], 0) /\ RecordsOK(met, met) /\ NoOwner \notin DOMAIN records
      /\ met = {n \in DOMAIN heap : heap[n].obj \in w[N].seen}
      /\ AllHere(w[N].seen) /\ SizedBuffers(met)
  BY DEF SizingOK
<1>3. IsValue(value) /\ value.root \in Objects /\ inline \in BOOLEAN
  BY SerdesAssumption DEF StateOK, IsValue
<1>4. FullWalk(value, w, N)
  <2>1. Objs(heap, <<>>) = <<>>
    BY DEF Objs
  <2>. QED
    BY <2>1, <1>1, <1>2 DEF SenderAt, FullWalk
<1>5. /\ N \in Nat /\ 1 \in 0 .. N
      /\ w[1].seen = {value.root}
      /\ Kind[value.root] = "buffer" => N = 1
      /\ Kind[value.root] # "buffer" => /\ w[1].todo = value.kids[value.root]
                                        /\ w[1].size = InstanceSize + Payload(value.root)
  BY <1>3, <1>4, WalkFirst
<1>6. /\ w[0] = [todo |-> <<value.root>>, seen |-> {}, size |-> 0]
      /\ w[1].seen \subseteq w[N].seen
  BY <1>2, <1>5 DEF Walk
<1>7. /\ root \in DOMAIN heap /\ heap[root].obj = value.root
      /\ heap[root].kids \in Seq(DOMAIN heap \cup {Null})
      /\ value.kids[value.root] = Objs(heap, heap[root].kids)
      /\ \A m, n \in DOMAIN heap : heap[m].obj = heap[n].obj => m = n
  BY DEF NodesOK
<1>8. root \in met
  BY <1>2, <1>5, <1>6, <1>7
<1> DEFINE c == Cardinality(DOMAIN deferred)
<1>9. /\ c \in Nat /\ DOMAIN GetDeferred = 1 .. c
      /\ GetDeferred \in Seq(Objects)
      /\ \A i \in 1 .. c : \E m \in met : /\ Kind[heap[m].obj] = "buffer"
                                          /\ GetDeferred[i] = heap[m].obj
                                          /\ ById(deferred)[i] = records[Owner(m)].id
      /\ \A m \in met : Kind[heap[m].obj] = "buffer" =>
           \E i \in 1 .. c : GetDeferred[i] = heap[m].obj
      /\ \A i, j \in 1 .. c : i < j => ById(deferred)[i] < ById(deferred)[j]
      /\ deferred = Emptied <=> GetDeferred = <<>>
  BY <1>2, DeferredBuffers
<1>10. PICK k : k = IF deferred = Emptied THEN 1 ELSE 0
  OBVIOUS
<1>11. k = Offset' /\ k \in 0 .. N /\ Skipped' = IF deferred = Emptied THEN {value.root} ELSE {}
  BY <1>1, <1>5, <1>9, <1>10 DEF Offset, Skipped
<1>12. Gap' = IF deferred = Emptied THEN InstanceSize ELSE 0
  BY <1>1, <1>9 DEF Gap
<1>13. ASSUME deferred = Emptied
       PROVE  Kind[value.root] # "buffer"
  <2>1. c = 0
    <3>1. DOMAIN GetDeferred = {}
      <4>1. DOMAIN <<>> = {}
        OBVIOUS
      <4>. QED
        BY <4>1, <1>9, <1>13
    <3>. QED
      BY <3>1, <1>9
  <2>. QED
    BY <2>1, <1>7, <1>8, <1>9
<1>14. SenderAt(w[k], Gap)'
  <2>1. CASE deferred = Emptied
    <3>1. k = 1 /\ Gap' = InstanceSize /\ todo' = heap[root].kids /\ size' = Payload(value.root)
      BY <2>1, <1>1, <1>7, <1>10, <1>12
    <3>2. w[1].todo = Objs(heap, heap[root].kids) /\ w[1].size = InstanceSize + Payload(value.root)
      BY <2>1, <1>5, <1>7, <1>13
    <3>3. Payload(value.root) = (InstanceSize + Payload(value.root)) - InstanceSize
      BY DEF Payload, InstanceSize
    <3>. QED
      BY <3>1, <3>2, <3>3, <1>1, <1>7 DEF SenderAt
  <2>2. CASE deferred # Emptied
    <3>1. k = 0 /\ Gap' = 0 /\ todo' = <<root>> /\ size' = 0
      BY <2>2, <1>1, <1>10, <1>12
    <3>2. root # Null
      BY <1>7 DEF NodesOK
    <3>3. Objs(heap, <<root>>) = <<value.root>> /\ <<root>> \in Seq(DOMAIN heap \cup {Null})
      BY <3>2, <1>7 DEF Objs, Obj
    <3>4. w[0].todo = <<value.root>> /\ w[0].size = 0
      BY <1>6
    <3>. QED
      BY <3>1, <3>3, <3>4, <1>1 DEF SenderAt
  <2>. QED
    BY <2>1, <2>2
<1>15. sized' = w[N].size - Gap'
  <2>1. w[N].size \in Nat /\ size = w[N].size - 0
    BY <1>2, <1>5 DEF Walk, WalkState, SenderAt
  <2>. QED
    BY <2>1, <1>1, <1>12
<1>16. w[k].seen \ Skipped' = {}
  BY <1>5, <1>6, <1>10, <1>11
<1>17. PICK known : known = {n \in met : ~(n = root /\ inline)}
  OBVIOUS
<1>18. /\ known = {n \in DOMAIN heap' : heap'[n].obj \in w[N].seen /\ (n = root' /\ inline' => n \in {})}
       /\ {} = {n \in DOMAIN heap' : heap'[n].obj \in w[k].seen \ Skipped'}
  BY <1>1, <1>2, <1>16, <1>17
<1>19. \A n \in DOMAIN heap : Owner(n)' = IF n = root /\ inline THEN NoOwner ELSE Owner(n)
  BY <1>1 DEF Owner
<1>20. RecordsOK({}, known)'
  <2>1. /\ IsFiniteSet(DOMAIN records)
        /\ \A x \in DOMAIN records : /\ records[x] \in Record
                                     /\ records[x].id <= Cardinality(DOMAIN records)
        /\ \A x, y \in DOMAIN records : records[x].id = records[y].id => x = y
        /\ met \subseteq DOMAIN heap
        /\ \A n \in DOMAIN heap : Owner(n) \in DOMAIN records <=> n \in met
        /\ \A n \in met : records[Owner(n)].progenitor = "sizing"
    BY <1>2 DEF RecordsOK
  <2>2. \A n \in DOMAIN heap : Owner(n)' \in DOMAIN records <=> n \in known
    BY <2>1, <1>2, <1>17, <1>19
  <2>3. \A n \in known : records[Owner(n)'].progenitor # "packing"
    BY <2>1, <1>17, <1>19
  <2>4. heap' = heap /\ records' = records /\ phase' = "packing"
    BY <1>1
  <2>. QED
    BY <2>1, <2>2, <2>3, <2>4, <1>17 DEF RecordsOK
<1>21. BuffersOK(w[N].seen)'
  <2>1. DOMAIN buffers' = 1 .. c
    BY <1>1, <1>9
  <2>2. \A i \in 1 .. c : GetDeferred[i] \in w[N].seen /\ Kind[GetDeferred[i]] = "buffer"
    BY <1>2, <1>9
  <2>3. ASSUME NEW i \in 1 .. c, NEW j \in 1 .. c, GetDeferred[i] = GetDeferred[j]
        PROVE  i = j
    <3>1. PICK m \in met : GetDeferred[i] = heap[m].obj /\ ById(deferred)[i] = records[Owner(m)].id
      BY <1>9
    <3>2. PICK n \in met : GetDeferred[j] = heap[n].obj /\ ById(deferred)[j] = records[Owner(n)].id
      BY <1>9
    <3>3. m = n
      BY <3>1, <3>2, <2>3, <1>2, <1>7
    <3>4. ById(deferred)[i] = ById(deferred)[j] /\ ById(deferred)[i] \in Nat
      <4>1. Owner(m) \in DOMAIN records
        BY <1>2 DEF RecordsOK
      <4>. QED
        BY <4>1, <3>1, <3>2, <3>3, <1>2 DEF RecordsOK, Record
    <3>5. ~(i < j) /\ ~(j < i)
      BY <3>4, <1>9
    <3>. QED
      BY <3>5
  <2>4. \A o \in w[N].seen : Kind[o] = "buffer" => \E i \in 1 .. c : GetDeferred[i] = o
    BY <1>2, <1>9 DEF AllHere
  <2>. QED
    BY <2>1, <2>2, <2>3, <2>4, <1>1, <1>9 DEF BuffersOK
<1>22. BuffersSorted(known)'
  <2>1. ASSUME NEW i \in 1 .. c, NEW j \in 1 .. c, NEW p \in DOMAIN heap, NEW q \in DOMAIN heap,
               i < j, heap[p].obj = GetDeferred[i], heap[q].obj = GetDeferred[j]
        PROVE  /\ p \in known /\ q \in known
               /\ records[Owner(p)'].id < records[Owner(q)'].id
    <3>1. PICK m \in met : GetDeferred[i] = heap[m].obj /\ ById(deferred)[i] = records[Owner(m)].id
      BY <1>9
    <3>2. PICK n \in met : GetDeferred[j] = heap[n].obj /\ ById(deferred)[j] = records[Owner(n)].id
      BY <1>9
    <3>3. p = m /\ q = n
      BY <3>1, <3>2, <2>1, <1>2, <1>7
    <3>4. records[Owner(p)].id < records[Owner(q)].id
      BY <3>1, <3>2, <3>3, <2>1, <1>9
    <3>5. /\ GetDeferred[i] \in w[N].seen /\ Kind[GetDeferred[i]] = "buffer"
          /\ GetDeferred[j] \in w[N].seen /\ Kind[GetDeferred[j]] = "buffer"
      BY <1>1, <1>9, <1>21 DEF BuffersOK
    <3>6. p # q
      <4>1. i # j
        BY <2>1
      <4>2. GetDeferred[i] # GetDeferred[j]
        BY <4>1, <1>1, <1>9, <1>21 DEF BuffersOK
      <4>. QED
        BY <4>2, <2>1
    <3>7. ASSUME p = root \/ q = root
          PROVE  FALSE
      <4>1. Kind[value.root] = "buffer"
        BY <3>5, <3>7, <2>1, <1>7
      <4>2. w[N].seen = {value.root}
        BY <4>1, <1>5
      <4>. QED
        BY <4>2, <3>5, <3>6, <2>1, <1>7
    <3>8. p \in known /\ q \in known /\ Owner(p)' = Owner(p) /\ Owner(q)' = Owner(q)
      BY <3>3, <3>7, <1>17, <1>19
    <3>. QED
      BY <3>4, <3>8
  <2>2. heap' = heap /\ records' = records /\ buffers' = GetDeferred /\ DOMAIN buffers' = 1 .. c
    BY <1>1, <1>9
  <2>. HIDE DEF c
  <2>. QED
    BY <2>1, <2>2 DEF BuffersSorted
<1>23. PackedOK(w, k, {})'
  <2>1. k - Offset' = 0
    <3>1. k = Offset'
      BY <1>11
    <3>2. k = 0 \/ k = 1
      BY <1>10
    <3>3. k - k = 0
      BY ONLY <3>2
    <3>. QED
      BY ONLY <3>1, <3>3
  <2>2. stream' = <<>> /\ Len(<<>>) = 0 /\ <<>> \in Seq(Item)
    BY <1>1
  <2>. QED
    BY <2>1, <2>2 DEF PackedOK
<1>24. PackingOK(w, N, k, {}, known)'
  <2>1. FullWalk(value, w, N)'
    BY <1>1, <1>4
  <2>2. k \in Offset' .. N
    BY <1>5, <1>11 DEF Offset
  <2>3. AllHere(w[N].seen)'
    BY <1>1, <1>2 DEF AllHere
  <2>. QED
    BY <2>1, <2>2, <2>3, <1>14, <1>15, <1>18, <1>20, <1>21, <1>22, <1>23 DEF PackingOK
<1>25. StateOK'
  BY <1>1 DEF StateOK, IsValue
<1>26. NodesOK' /\ OwnersDiffer'
  BY <1>1, NodesKept
<1>. QED
  BY <1>1, <1>24, <1>25, <1>26 DEF IInv

\* The step of a full walk from a state that has pointers left.
LEMMA WalkStep ==
  ASSUME Supported, NEW v, IsValue(v), NEW w, NEW N, FullWalk(v, w, N),
         NEW k \in 0 .. N, w[k].todo # <<>>
  PROVE  /\ N \in Nat /\ k \in 0 .. (N - 1) /\ k + 1 \in 0 .. N
         /\ w[k] \in WalkState /\ w[k + 1] \in WalkState
         /\ w[k + 1] = After(v, w[k])
         /\ w[k + 1].seen = w[k].seen \cup ({Head(w[k].todo)} \ {Null})
         /\ w[k].seen \subseteq w[N].seen
         /\ Head(w[k].todo) \in Objects \cup {Null}
         /\ Head(w[k].todo) # Null => Head(w[k].todo) \in w[N].seen
         /\ k > 0 => Head(w[k].todo) # v.root
<1>1. /\ N \in Nat
      /\ w \in [0 .. N -> WalkState]
      /\ \A i \in 0 .. (N - 1) : w[i].todo # <<>> /\ w[i + 1] = After(v, w[i])
      /\ \A i \in 0 .. N : w[i].seen \subseteq w[N].seen
      /\ \A i \in 1 .. N : \A j \in DOMAIN w[i].todo :
           w[i].todo[j] \in Below(v.kids, v.root) \cup {Null}
      /\ w[N].todo = <<>>
  BY DEF FullWalk, Walk
<1>2. k # N
  BY <1>1
<1>3. k \in 0 .. (N - 1) /\ k + 1 \in 0 .. N
  BY <1>1, <1>2
<1>4. w[k] \in WalkState /\ w[k + 1] \in WalkState /\ w[k + 1] = After(v, w[k])
  BY <1>1, <1>3
<1>5. /\ w[k + 1].seen = w[k].seen \cup ({Head(w[k].todo)} \ {Null})
      /\ Head(w[k].todo) \in Objects \cup {Null}
  BY <1>4, AfterFacts
<1>6. w[k].seen \subseteq w[N].seen /\ w[k + 1].seen \subseteq w[N].seen
  BY <1>1, <1>3
<1>7. ASSUME k > 0
      PROVE  Head(w[k].todo) # v.root
  <2>1. 1 \in DOMAIN w[k].todo /\ Head(w[k].todo) = w[k].todo[1]
    BY <1>4, HeadTail DEF WalkState
  <2>2. k \in 1 .. N
    BY <1>7, <1>1
  <2>3. Head(w[k].todo) \in Below(v.kids, v.root) \cup {Null}
    BY <2>1, <2>2, <1>1
  <2>4. v.root \in Objects
    BY SerdesAssumption DEF IsValue
  <2>5. v.root \notin Below(v.kids, v.root) /\ v.root # Null
    BY <2>4, BelowFacts, ObjectFacts
  <2>. QED
    BY <2>3, <2>5
<1>. QED
  BY <1>1, <1>3, <1>4, <1>5, <1>6, <1>7

LEMMA PackedAppend ==
  ASSUME NEW w, NEW k \in Nat, NEW met, NEW met2, PackedOK(w, k, met), k >= Offset,
         NEW item \in Item, stream' = Append(stream, item),
         item.obj = Head(w[k].todo), item.kind = HeadKind(w[k]),
         item.obj # Null => \E n \in met2 : heap[n].obj = item.obj /\ item.id = records'[Owner(n)'].id,
         met \subseteq met2, heap' = heap, buffers' = buffers,
         \A n \in met : records'[Owner(n)'].id = records[Owner(n)].id
  PROVE  PackedOK(w, k + 1, met2)'
<1>0. PICK off : off = Offset
  OBVIOUS
<1>1. /\ off \in {0, 1} /\ off <= k
      /\ stream \in Seq(Item)
      /\ Len(stream) = k - off
      /\ \A i \in 1 .. Len(stream) :
           /\ stream[i].obj = Head(w[i + off - 1].todo)
           /\ stream[i].kind = HeadKind(w[i + off - 1])
           /\ stream[i].obj # Null =>
                \E n \in met : heap[n].obj = stream[i].obj /\ stream[i].id = records[Owner(n)].id
  BY <1>0 DEF PackedOK, Offset
<1>2. off = Offset'
  BY <1>0 DEF Offset
<1>3. /\ stream' \in Seq(Item)
      /\ Len(stream') = Len(stream) + 1
      /\ \A i \in 1 .. Len(stream) : stream'[i] = stream[i]
      /\ stream'[Len(stream) + 1] = item
      /\ Len(stream) \in Nat
  BY <1>1, AppendProperties, LenProperties
<1>4. ASSUME NEW i \in 1 .. Len(stream')
      PROVE  /\ stream'[i].obj = Head(w[i + off - 1].todo)
             /\ stream'[i].kind = HeadKind(w[i + off - 1])
             /\ stream'[i].obj # Null =>
                  \E n \in met2 : heap'[n].obj = stream'[i].obj
                                  /\ stream'[i].id = records'[Owner(n)'].id
  <2>1. CASE i \in 1 .. Len(stream)
    BY <2>1, <1>1, <1>3
  <2>2. CASE i \notin 1 .. Len(stream)
    <3>1. i = Len(stream) + 1
      BY <2>2, <1>3
    <3>2. i + off - 1 = k
      BY <3>1, <1>1
    <3>3. stream'[i] = item
      BY <3>1, <1>3
    <3>4. w[i + off - 1] = w[k]
      BY <3>2
    <3>. QED
      BY <3>3, <3>4
  <2>. QED
    BY <2>1, <2>2
<1>5. Len(stream') = (k + 1) - off
  BY <1>1, <1>3
<1>. QED
  BY <1>2, <1>3, <1>4, <1>5 DEF PackedOK

LEMMA PackingPackNull ==
  ASSUME Supported, StateOK, NodesOK, OwnersDiffer, phase = "packing",
         NEW w, NEW N, NEW k, NEW met, NEW known, PackingOK(w, N, k, met, known), PackNull
  PROVE  IInv'
<1> DEFINE item == [kind |-> "IGNORED", id |-> 0, obj |-> Null]
<1>1. /\ Walking /\ Head(todo) = Null
      /\ size' = size + Width(item)
      /\ stream' = Append(stream, item)
      /\ todo' = Tail(todo)
      /\ UNCHANGED <<value, hop, phase, error, heap, root, inline, records,
                     deferred, sized, buffers, instances>>
  BY DEF PackNull, Emit
<1>2. /\ FullWalk(value, w, N) /\ k \in Offset .. N /\ SenderAt(w[k], Gap)
      /\ sized = w[N].size - Gap /\ RecordsOK(met, known)
      /\ met = {n \in DOMAIN heap : heap[n].obj \in w[k].seen \ Skipped}
      /\ known = {n \in DOMAIN heap : heap[n].obj \in w[N].seen /\ (n = root /\ inline => n \in met)}
      /\ AllHere(w[N].seen) /\ BuffersOK(w[N].seen) /\ BuffersSorted(known)
      /\ PackedOK(w, k, met)
  BY DEF PackingOK
<1>3. N \in Nat
  BY <1>2 DEF FullWalk, Walk
<1>4. Offset \in {0, 1} /\ Gap \in Nat
  BY DEF Offset, Gap, InstanceSize
<1>5. k \in 0 .. N /\ k \in Nat /\ k >= Offset
  BY <1>2, <1>3, <1>4
<1>6. IsValue(value) /\ w[k] \in WalkState
  BY <1>2, <1>5 DEF StateOK, FullWalk, Walk
<1>7. todo # <<>> /\ Obj(heap, Head(todo)) = Null
      /\ w[k].todo = Objs(heap, todo) /\ todo \in Seq(DOMAIN heap \cup {Null})
  BY <1>1, <1>2 DEF Walking, Obj, SenderAt
<1>8. w[k].todo # <<>> /\ Head(w[k].todo) = Null
  BY <1>7, ObjsTail DEF NodesOK
<1>9. HeadKind(w[k]) = "IGNORED"
  BY <1>8 DEF HeadKind, ItemKind
<1>10. /\ k + 1 \in 0 .. N /\ w[k + 1] = After(value, w[k])
       /\ w[k + 1].seen = w[k].seen
  <2>1. /\ k + 1 \in 0 .. N /\ w[k + 1] = After(value, w[k])
        /\ w[k + 1].seen = w[k].seen \cup ({Head(w[k].todo)} \ {Null})
    BY <1>2, <1>5, <1>6, <1>8, WalkStep
  <2>. QED
    BY <2>1, <1>8
<1>11. SenderAt(w[k + 1], Gap)'
  <2>1. todo' = <<>> \o Tail(todo)
    <3>1. Tail(todo) \in Seq(DOMAIN heap \cup {Null})
      BY <1>7, HeadTail
    <3>. QED
      BY <3>1, <1>1, ConcatEmptySeq
  <2>2. Width(item) = Width([kind |-> HeadKind(w[k]), obj |-> Obj(heap, Head(todo))])
    BY <1>9 DEF Width
  <2>3. PICK gap : gap = Gap
    OBVIOUS
  <2>4. SenderAt(After(value, w[k]), gap)'
    BY <2>1, <2>2, <2>3, <1>1, <1>2, <1>4, <1>6, <1>7, <1>9, SenderMoves
  <2>5. gap = Gap' /\ value' = value
    BY <2>3, <1>1 DEF Gap
  <2>. QED
    BY <2>4, <2>5, <1>10
<1>12. PackedOK(w, k + 1, met)'
  <2>1. item \in Item
    BY DEF Item
  <2>2. \A n \in met : records'[Owner(n)'].id = records[Owner(n)].id
    BY <1>1 DEF Owner
  <2>. QED
    BY <2>1, <2>2, <1>1, <1>2, <1>5, <1>8, <1>9, PackedAppend
<1>13. PackingOK(w, N, k + 1, met, known)'
  <2>1. FullWalk(value, w, N)'
    BY <1>1, <1>2
  <2>2. k + 1 \in Offset' .. N /\ Skipped' = Skipped /\ Gap' = Gap
    BY <1>1, <1>4, <1>5, <1>10 DEF Offset, Skipped, Gap
  <2>3. RecordsOK(met, known)' /\ BuffersSorted(known)'
    BY <1>1, <1>2 DEF RecordsOK, BuffersSorted, Owner
  <2>4. AllHere(w[N].seen)' /\ BuffersOK(w[N].seen)'
    BY <1>1, <1>2 DEF AllHere, BuffersOK
  <2>. QED
    BY <2>1, <2>2, <2>3, <2>4, <1>1, <1>2, <1>10, <1>11, <1>12 DEF PackingOK
<1>14. NodesOK' /\ OwnersDiffer' /\ StateOK'
  BY <1>1, NodesKept, StateKept
<1>. QED
  BY <1>1, <1>13, <1>14 DEF IInv

LEMMA PackingPackPointer ==
  ASSUME Supported, StateOK, NodesOK, OwnersDiffer, phase = "packing",
         NEW w, NEW N, NEW k, NEW met, NEW known, PackingOK(w, N, k, met, known), PackPointer
  PROVE  IInv'
<1>0. PICK n : n = Head(todo)
  OBVIOUS
<1> DEFINE a == w[k]
           obj == heap[n].obj
<1>1. /\ Walking /\ n # Null
      /\ records' = SetAt(records, Owner(n), Packed(n))
      /\ size' = size + Width(PackedItem(n))
      /\ stream' = Append(stream, PackedItem(n))
      /\ todo' = (IF Packed(n).kind = "INSTANCE" THEN heap[n].kids ELSE <<>>) \o Tail(todo)
      /\ UNCHANGED <<value, hop, phase, error, heap, root, inline, sized, buffers, instances>>
  BY <1>0, PackPointerFacts
<1>2. /\ FullWalk(value, w, N) /\ k \in Offset .. N /\ SenderAt(a, Gap)
      /\ sized = w[N].size - Gap /\ RecordsOK(met, known)
      /\ met = {m \in DOMAIN heap : heap[m].obj \in a.seen \ Skipped}
      /\ known = {m \in DOMAIN heap : heap[m].obj \in w[N].seen /\ (m = root /\ inline => m \in met)}
      /\ AllHere(w[N].seen) /\ BuffersOK(w[N].seen) /\ BuffersSorted(known)
      /\ PackedOK(w, k, met)
  BY DEF PackingOK
<1>3. N \in Nat
  BY <1>2 DEF FullWalk, Walk
<1>4. Offset \in {0, 1} /\ Gap \in Nat
  BY DEF Offset, Gap, InstanceSize
<1>5. k \in 0 .. N /\ k \in Nat /\ k >= Offset
  BY <1>2, <1>3, <1>4
<1>6. IsValue(value) /\ a \in WalkState
  BY <1>2, <1>5 DEF StateOK, FullWalk, Walk
<1>7. todo # <<>> /\ a.todo = Objs(heap, todo) /\ todo \in Seq(DOMAIN heap \cup {Null})
  BY <1>1, <1>2 DEF Walking, SenderAt
<1>8. n \in DOMAIN heap /\ Obj(heap, n) = obj
  BY <1>0, <1>1, <1>7, HeadTail DEF Obj
<1>9. a.todo # <<>> /\ Head(a.todo) = obj
  BY <1>0, <1>7, <1>8, ObjsTail DEF NodesOK
<1>10. obj \in Objects /\ obj # Null
  BY <1>8, ObjectFacts DEF NodesOK
<1>11. /\ k + 1 \in 0 .. N /\ w[k + 1] = After(value, a)
       /\ w[k + 1].seen = a.seen \cup {obj}
       /\ obj \in w[N].seen
       /\ k > 0 => obj # value.root
  <2>1. {obj} \ {Null} = {obj}
    BY <1>10
  <2>. QED
    BY <2>1, <1>2, <1>5, <1>6, <1>9, <1>10, WalkStep
<1>12. obj \notin Skipped
  <2>1. buffers = <<>> => k > 0
    BY <1>5 DEF Offset
  <2>. QED
    BY <2>1, <1>11 DEF Skipped
<1>13. obj \in a.seen <=> n \in met
  BY <1>2, <1>8, <1>12
<1>14. Kind[obj] = "buffer" => Deferrable
  <2>1. Kind[obj] = "buffer" => \E i \in DOMAIN buffers : buffers[i] = obj
    BY <1>2, <1>11 DEF BuffersOK
  <2>2. DOMAIN <<>> = {}
    OBVIOUS
  <2>. QED
    BY <2>1, <2>2 DEF Deferrable
<1>15. /\ Packed(n) \in Record
       /\ Packed(n).kind = HeadKind(a)
       /\ Packed(n).progenitor = phase
       /\ Packed(n).id = IF n \in known THEN records[Owner(n)].id
                         ELSE Cardinality(DOMAIN records) + 1
  <2>1. HeadKind(a) = ItemKind(obj, a.seen)
    BY <1>9 DEF HeadKind
  <2>. QED
    BY <2>1, <1>2, <1>8, <1>13, <1>14, PackedFacts
<1>16. Packed(n).kind = "DEFERRED" <=> Kind[obj] = "buffer"
  BY <1>9, <1>10, <1>15 DEF HeadKind, ItemKind
<1>17. /\ RecordsOK(met \cup {n}, known \cup {n})'
       /\ \A m \in DOMAIN heap : Owner(m)' = Owner(m)
       /\ \A m \in known : records'[Owner(m)].id = records[Owner(m)].id
       /\ records'[Owner(n)] = Packed(n)
  BY <1>1, <1>2, <1>8, <1>15, <1>16, RecordsGrow
<1>18. met \subseteq known /\ known \subseteq DOMAIN heap
  BY <1>2 DEF RecordsOK
<1>19. SenderAt(w[k + 1], Gap)'
  <2>1. Width(PackedItem(n)) = Width([kind |-> HeadKind(a), obj |-> Obj(heap, n)])
    BY <1>8, <1>15 DEF Width, PackedItem
  <2>2. todo' = (IF n # Null /\ HeadKind(a) = "INSTANCE" THEN heap[n].kids ELSE <<>>) \o Tail(todo)
    BY <1>1, <1>15
  <2>3. PICK gap : gap = Gap
    OBVIOUS
  <2>4. SenderAt(After(value, a), gap)'
    BY <2>1, <2>2, <2>3, <1>0, <1>1, <1>2, <1>4, <1>6, <1>7, SenderMoves
  <2>5. gap = Gap' /\ value' = value
    BY <2>3, <1>1 DEF Gap
  <2>. QED
    BY <2>4, <2>5, <1>11
<1>20. PackedOK(w, k + 1, met \cup {n})'
  <2>1. PackedItem(n) \in Item
    BY <1>10, <1>15 DEF Item, PackedItem, Record
  <2>2. PackedItem(n).obj = Head(a.todo) /\ PackedItem(n).kind = HeadKind(a)
    BY <1>9, <1>15 DEF PackedItem
  <2>3. PackedItem(n).id = records'[Owner(n)'].id
    BY <1>8, <1>17 DEF PackedItem
  <2>4. \A m \in met : records'[Owner(m)'].id = records[Owner(m)].id
    BY <1>17, <1>18
  <2>5. heap[n].obj = PackedItem(n).obj
    BY DEF PackedItem
  <2>. HIDE DEF obj
  <2>. QED
    BY <2>1, <2>2, <2>3, <2>4, <2>5, <1>1, <1>2, <1>5, PackedAppend
<1>21. /\ Offset' = Offset /\ Skipped' = Skipped /\ Gap' = Gap
       /\ k + 1 \in Offset .. N
  BY <1>1, <1>4, <1>5, <1>11 DEF Offset, Skipped, Gap
<1>22. \A m \in DOMAIN heap : heap[m].obj = obj => m = n
  BY <1>8 DEF NodesOK
<1>23. met \cup {n} = {m \in DOMAIN heap : heap[m].obj \in w[k + 1].seen \ Skipped}
  BY <1>2, <1>8, <1>11, <1>12, <1>22
<1>24. known \cup {n} = {m \in DOMAIN heap : /\ heap[m].obj \in w[N].seen
                                             /\ m = root /\ inline => m \in met \cup {n}}
  BY <1>2, <1>8, <1>11
<1>25. BuffersSorted(known \cup {n})'
  <2>1. ASSUME NEW i \in DOMAIN buffers, NEW j \in DOMAIN buffers,
               NEW p \in DOMAIN heap, NEW q \in DOMAIN heap,
               i < j, heap[p].obj = buffers[i], heap[q].obj = buffers[j]
        PROVE  /\ p \in known \cup {n} /\ q \in known \cup {n}
               /\ records'[Owner(p)'].id < records'[Owner(q)'].id
    <3>1. p \in known /\ q \in known /\ records[Owner(p)].id < records[Owner(q)].id
      BY <2>1, <1>2 DEF BuffersSorted
    <3>. QED
      BY <3>1, <1>17
  <2>. QED
    BY <2>1, <1>1 DEF BuffersSorted
<1>26. PackingOK(w, N, k + 1, met \cup {n}, known \cup {n})'
  <2>1. FullWalk(value, w, N)' /\ AllHere(w[N].seen)' /\ BuffersOK(w[N].seen)'
    BY <1>1, <1>2 DEF AllHere, BuffersOK
  <2>2. /\ met \cup {n} = {m \in DOMAIN heap' : heap'[m].obj \in w[k + 1].seen \ Skipped'}
        /\ known \cup {n} = {m \in DOMAIN heap' : /\ heap'[m].obj \in w[N].seen
                                                  /\ m = root' /\ inline' => m \in met \cup {n}}
    BY <1>1, <1>21, <1>23, <1>24
  <2>3. sized' = w[N].size - Gap' /\ k + 1 \in Offset' .. N
    BY <1>1, <1>2, <1>21
  <2>. QED
    BY <2>1, <2>2, <2>3, <1>17, <1>19, <1>20, <1>25 DEF PackingOK
<1>27. NodesOK' /\ OwnersDiffer' /\ StateOK'
  BY <1>1, NodesKept, StateKept
<1>. QED
  BY <1>1, <1>26, <1>27 DEF IInv


-----------------------------------------------------------------------------
(***************************************************************************)
(* The message is delivered: what was packed is what is to be unpacked.    *)
(***************************************************************************)

LEMMA SlotsFacts ==
  ASSUME IsValue(value), NEW o \in Objects, NEW n \in Nat \ {Null}, NEW h, h[n].obj = o
  PROVE  /\ Slots(n, o) \in Seq(Slot)
         /\ Len(Slots(n, o)) = Len(value.kids[o])
         /\ DOMAIN Slots(n, o) = DOMAIN value.kids[o]
         /\ DOMAIN value.kids[o] = 1 .. Len(value.kids[o])
         /\ \A i \in DOMAIN value.kids[o] :
              /\ ~Slots(n, o)[i].put /\ Slots(n, o)[i].node = n /\ Slots(n, o)[i].at = i
              /\ Wanted(value, h, Slots(n, o)[i]) = value.kids[o][i]
<1>1. Len(value.kids[o]) \in Nat /\ DOMAIN value.kids[o] = 1 .. Len(value.kids[o])
  BY ValueFacts
<1>2. PICK c \in Nat : c = Len(value.kids[o])
  BY <1>1
<1>3. Slots(n, o) = [i \in 1 .. c |-> [put |-> FALSE, node |-> n, at |-> i]]
  BY <1>1, <1>2 DEF Slots
<1>4. Slots(n, o) \in [1 .. c -> Slot]
  BY <1>3 DEF Slot
<1>5. Slots(n, o) \in Seq(Slot)
  BY <1>2, <1>4, SeqDef
<1>6. Len(Slots(n, o)) = c
  BY <1>2, <1>3, <1>5, LenProperties
<1>7. ASSUME NEW i \in 1 .. c
      PROVE  /\ ~Slots(n, o)[i].put /\ Slots(n, o)[i].node = n /\ Slots(n, o)[i].at = i
             /\ Wanted(value, h, Slots(n, o)[i]) = value.kids[o][i]
  <2>1. PICK slot : slot = [put |-> FALSE, node |-> n, at |-> i]
    OBVIOUS
  <2>2. Slots(n, o)[i] = slot
    BY <2>1, <1>3, <1>7
  <2>3. ~slot.put /\ slot.node = n /\ slot.at = i
    BY <2>1
  <2>4. Wanted(value, h, slot) = value.kids[h[n].obj][i]
    BY <2>3 DEF Wanted, Null
  <2>. QED
    BY <2>2, <2>3, <2>4
<1>. QED
  BY <1>1, <1>2, <1>3, <1>5, <1>6, <1>7

LEMMA NodeFacts ==
  ASSUME IsValue(value), NEW o \in Objects, NEW owner \in Nat
  PROVE  /\ Node(o, owner) \in Built
         /\ Node(o, owner).obj = o
         /\ Node(o, owner).owner = owner
         /\ DOMAIN Node(o, owner).kids = DOMAIN value.kids[o]
         /\ \A i \in DOMAIN value.kids[o] : Node(o, owner).kids[i] = Null
<1>1. Len(value.kids[o]) \in Nat /\ DOMAIN value.kids[o] = 1 .. Len(value.kids[o])
  BY ValueFacts
<1>2. PICK c \in Nat : c = Len(value.kids[o])
  BY <1>1
<1>3. Node(o, owner).kids = [i \in 1 .. c |-> Null]
  BY <1>1, <1>2 DEF Node
<1>4. Node(o, owner).kids \in [1 .. c -> Nat]
  BY <1>3 DEF Null
<1>5. Node(o, owner).kids \in Seq(Nat)
  BY <1>2, <1>4, SeqDef
<1>6. Node(o, owner) \in Built
  BY <1>5 DEF Node, Built
<1>. QED
  BY <1>1, <1>2, <1>3, <1>6 DEF Node

LEMMA NothingMatches ==
  ASSUME NEW v, NEW h
  PROVE  Matches(v, h, <<>>, <<>>)
<1> DEFINE f == [i \in 1 .. 0 |-> 1]
<1>1. Len(<<>>) = 0 /\ 1 .. 0 = {}
  OBVIOUS
<1>2. f \in [1 .. 0 -> 1 .. 0]
  BY <1>1
<1>. HIDE DEF f
<1>3. Places(v, h, <<>>, <<>>, f)
  BY <1>1, <1>2 DEF Places
<1>. QED
  BY <1>3 DEF Matches

\* The slots of the first node, or of the pointer to it, are the whole stack.
LEMMA SlotsMatch ==
  ASSUME NEW v, NEW h, NEW kids \in Seq(Objects \cup {Null}), NEW new \in Seq(Slot),
         Len(new) = Len(kids),
         \A i \in 1 .. Len(kids) : ~new[i].put /\ Wanted(v, h, new[i]) = kids[i]
  PROVE  Matches(v, h, kids, new)
<1>1. <<>> \in Seq(Objects \cup {Null}) /\ <<>> \in Seq(Slot)
  OBVIOUS
<1>2. Matches(v, h, kids \o <<>>, new \o <<>>)
  BY <1>1, NothingMatches, SlotsPushed
<1>3. kids \o <<>> = kids /\ new \o <<>> = new
  BY ConcatEmptySeq
<1>. QED
  BY <1>2, <1>3

\* A walk that has no pointers left is at its end.
LEMMA WalkEnds ==
  ASSUME NEW v, NEW w, NEW N, FullWalk(v, w, N), NEW k \in 0 .. N, w[k].todo = <<>>
  PROVE  k = N
<1>1. N \in Nat /\ \A i \in 0 .. (N - 1) : w[i].todo # <<>>
  BY DEF FullWalk, Walk
<1>. QED
  BY <1>1

\* The ids that the objects were packed with.
LEMMA IdsOfPacked ==
  ASSUME NodesOK, OwnersDiffer, NEW seen, NEW met, NEW known, RecordsOK(met, known),
         seen \subseteq Objects,
         met = {n \in DOMAIN heap : heap[n].obj \in seen \ Skipped},
         AllHere(seen), BuffersOK(seen), BuffersSorted(known)
  PROVE  \E ids : /\ IdsOK(seen, ids)
                  /\ \A n \in met : ids[heap[n].obj] = records[Owner(n)].id
<1> DEFINE Id(n) == records[Owner(n)].id
           Of(o) == CHOOSE n \in met : heap[n].obj = o
           ids == [o \in Objects |-> IF \E n \in met : heap[n].obj = o THEN Id(Of(o)) ELSE 0]
<1>1. /\ met \subseteq known /\ met \subseteq DOMAIN heap
      /\ \A n \in met : Owner(n) \in DOMAIN records /\ Id(n) \in Nat
      /\ \A x, y \in DOMAIN records : records[x].id = records[y].id => x = y
  BY DEF RecordsOK, Record
<1>2. \A m, n \in DOMAIN heap : heap[m].obj = heap[n].obj => m = n
  BY DEF NodesOK
<1>3. \A n \in met : heap[n].obj \in Objects
  BY <1>1 DEF NodesOK
<1>4. ASSUME NEW n \in met
      PROVE  ids[heap[n].obj] = Id(n)
  <2>1. Of(heap[n].obj) \in met /\ heap[Of(heap[n].obj)].obj = heap[n].obj
    OBVIOUS
  <2>2. Of(heap[n].obj) = n
    BY <2>1, <1>1, <1>2
  <2>3. ids[heap[n].obj] = Id(Of(heap[n].obj))
    BY <1>3
  <2>. QED
    BY <2>2, <2>3
<1>5. ids \in [Objects -> Nat]
  <2>. SUFFICES ASSUME NEW o \in Objects
                PROVE  (IF \E n \in met : heap[n].obj = o THEN Id(Of(o)) ELSE 0) \in Nat
    OBVIOUS
  <2>1. CASE \E n \in met : heap[n].obj = o
    <3>1. Of(o) \in met
      BY <2>1
    <3>. HIDE DEF Of
    <3>. QED
      BY <3>1, <1>1
  <2>. QED
    BY <2>1
<1>. HIDE DEF ids
<1>6. \A m, n \in met : Id(m) = Id(n) => m = n
  <2>1. \A m, n \in DOMAIN heap : Owner(m) = Owner(n) => m = n
    BY OwnersOfNodes
  <2>. QED
    BY <2>1, <1>1
<1>7. \A o \in seen \ Skipped : \E n \in met : heap[n].obj = o
  BY DEF AllHere
<1>8. \A p, q \in seen \ Skipped : ids[p] = ids[q] => p = q
  <2>. TAKE p, q \in seen \ Skipped
  <2>1. PICK m \in met : heap[m].obj = p
    BY <1>7
  <2>2. PICK n \in met : heap[n].obj = q
    BY <1>7
  <2>. QED
    BY <2>1, <2>2, <1>4, <1>6
<1>9. ASSUME NEW i \in DOMAIN buffers, NEW j \in DOMAIN buffers, i < j
      PROVE  ids[buffers[i]] < ids[buffers[j]]
  <2>1. Skipped = {}
    <3>1. DOMAIN <<>> = {}
      OBVIOUS
    <3>. QED
      BY <3>1 DEF Skipped
  <2>2. buffers[i] \in seen \ Skipped /\ buffers[j] \in seen \ Skipped
    BY <2>1 DEF BuffersOK
  <2>3. PICK m \in met : heap[m].obj = buffers[i]
    BY <2>2, <1>7
  <2>4. PICK n \in met : heap[n].obj = buffers[j]
    BY <2>2, <1>7
  <2>5. Id(m) < Id(n)
    BY <2>3, <2>4, <1>1, <1>9 DEF BuffersSorted
  <2>6. ids[buffers[i]] = Id(m) /\ ids[buffers[j]] = Id(n)
    BY <2>3, <2>4, <1>4
  <2>. QED
    BY <2>5, <2>6
<1>10. IdsOK(seen, ids)
  BY <1>5, <1>8, <1>9 DEF IdsOK
<1>. QED
  BY <1>4, <1>10

LEMMA DeliverStep ==
  ASSUME Supported, StateOK, NodesOK, OwnersDiffer, phase = "packing",
         NEW w, NEW N, NEW k, NEW met, NEW known, PackingOK(w, N, k, met, known), Deliver
  PROVE  IInv'
<1>0. PICK off : off = Offset
  OBVIOUS
<1>1. /\ todo = <<>>
      /\ error' = IF size = sized THEN error ELSE "size mismatch!"
      /\ phase' = "unpacking"
      /\ buffers # <<>> => heap' = <<>> /\ todo' = << [put |-> FALSE, node |-> Null, at |-> 0] >>
      /\ buffers = <<>> => /\ heap' = << Node(heap[root].obj, 1) >>
                           /\ todo' = Slots(1, heap[root].obj)
      /\ root' = 1
      /\ inline' = (buffers = <<>>)
      /\ deferred' = Emptied /\ instances' = Emptied
      /\ UNCHANGED <<value, hop, stream, size, sized, buffers>>
  BY DEF Deliver
<1>2. /\ FullWalk(value, w, N) /\ k \in Offset .. N /\ SenderAt(w[k], Gap)
      /\ sized = w[N].size - Gap /\ RecordsOK(met, known)
      /\ met = {n \in DOMAIN heap : heap[n].obj \in w[k].seen \ Skipped}
      /\ AllHere(w[N].seen) /\ BuffersOK(w[N].seen) /\ BuffersSorted(known)
      /\ PackedOK(w, k, met)
  BY DEF PackingOK
<1>3. N \in Nat /\ w \in [0 .. N -> WalkState]
  BY <1>2 DEF FullWalk, Walk
<1>4. off \in {0, 1} /\ k \in 0 .. N /\ off \in 0 .. N
  BY <1>0, <1>2, <1>3 DEF Offset
<1>5. w[k].todo = <<>>
  <2>1. w[k].todo = Objs(heap, todo)
    BY <1>2 DEF SenderAt
  <2>2. DOMAIN <<>> = {} /\ <<>> = [i \in {} |-> Obj(heap, <<>>[i])]
    OBVIOUS
  <2>. QED
    BY <2>1, <2>2, <1>1 DEF Objs
<1>6. k = N
  BY <1>2, <1>4, <1>5, WalkEnds
<1>7. error' = error
  BY <1>1, <1>2, <1>6 DEF SenderAt
<1>8. IsValue(value) /\ value.root \in Objects /\ heap[root].obj = value.root
  BY SerdesAssumption DEF StateOK, IsValue, NodesOK
<1>9. /\ w[1].seen = {value.root} /\ 1 \in 0 .. N
      /\ Kind[value.root] # "buffer" => w[1].todo = value.kids[value.root]
      /\ w[0].seen = {} /\ w[0].todo = <<value.root>>
      /\ value.root \in w[N].seen
  <2>1. \A i \in 0 .. N : w[i].seen \subseteq w[N].seen
    BY <1>2 DEF FullWalk, Walk
  <2>2. w[0].seen = {} /\ w[0].todo = <<value.root>>
    BY <1>2 DEF FullWalk, Walk
  <2>. QED
    BY <2>1, <2>2, <1>2, <1>8, WalkFirst
<1>10. buffers = <<>> => Kind[value.root] # "buffer"
  <2>1. DOMAIN <<>> = {}
    OBVIOUS
  <2>. QED
    BY <2>1, <1>2, <1>9 DEF BuffersOK
<1>11. PICK ids : /\ IdsOK(w[N].seen, ids)
                  /\ \A n \in met : ids[heap[n].obj] = records[Owner(n)].id
  <2>1. w[N].seen \subseteq Objects
    BY <1>3 DEF WalkState
  <2>. QED
    BY <2>1, <1>2, <1>6, IdsOfPacked
<1>12. StreamOK(w, N, off, ids)'
  <2>1. /\ stream \in Seq(Item) /\ Len(stream) = N - off
        /\ \A i \in 1 .. Len(stream) :
             /\ stream[i].obj = Head(w[i + off - 1].todo)
             /\ stream[i].kind = HeadKind(w[i + off - 1])
             /\ stream[i].obj # Null =>
                  \E n \in met : heap[n].obj = stream[i].obj /\ stream[i].id = records[Owner(n)].id
    BY <1>0, <1>2, <1>6 DEF PackedOK
  <2>2. \A i \in 1 .. Len(stream) : i + off - 1 = off + i - 1
    BY <2>1, <1>3, <1>4
  <2>3. \A i \in 1 .. Len(stream) : stream[i].obj # Null => stream[i].id = ids[stream[i].obj]
    BY <2>1, <1>11
  <2>4. stream' = stream
    BY <1>1
  <2>. QED
    BY <2>1, <2>2, <2>3, <2>4 DEF StreamOK
<1>13. /\ BuffersOK(w[N].seen)' /\ IdsOK(w[N].seen, ids)' /\ FullWalk(value, w, N)'
       /\ off = Offset' /\ off \in Offset' .. N
  <2>1. off \in off .. N
    BY <1>3, <1>4
  <2>. QED
    BY <2>1, <1>0, <1>1, <1>2, <1>11 DEF BuffersOK, IdsOK, Skipped, Offset
<1>14. /\ SlotsOK(off)' /\ Matches(value, heap, w[off].todo, todo)'
       /\ BuiltOK(w[off].seen)' /\ FilledOK(ids)' /\ MarkersOK(ids)' /\ InstancesOK(ids)'
       /\ DeferredOK(w[off].seen, ids)'
  <2>1. CASE buffers # <<>>
    <3>1. PICK slot : slot = [put |-> FALSE, node |-> Null, at |-> 0]
      OBVIOUS
    <3>2. /\ off = 0 /\ heap' = <<>> /\ todo' = <<slot>> /\ buffers' # <<>>
      BY <3>1, <2>1, <1>0, <1>1 DEF Offset
    <3>3. slot \in Slot /\ ~slot.put /\ slot.node = Null
      BY <3>1 DEF Slot, Null
    <3>4. /\ <<slot>> \in Seq(Slot) /\ Len(<<slot>>) = 1 /\ DOMAIN <<slot>> = {1}
          /\ <<slot>>[1] = slot /\ 1 .. 1 = {1} /\ DOMAIN <<>> = {}
          /\ <<>> \in Seq(Built)
      BY <3>3
    <3>5. SlotsOK(off)'
      BY <3>2, <3>3, <3>4 DEF SlotsOK
    <3>6. Matches(value, heap', <<value.root>>, <<slot>>)
      <4>1. Wanted(value, heap', slot) = value.root
        BY <3>3 DEF Wanted
      <4>2. /\ <<value.root>> \in Seq(Objects \cup {Null}) /\ Len(<<value.root>>) = 1
            /\ <<value.root>>[1] = value.root
        BY <1>8
      <4>3. \A i \in 1 .. Len(<<value.root>>) :
              ~<<slot>>[i].put /\ Wanted(value, heap', <<slot>>[i]) = <<value.root>>[i]
        BY <4>1, <4>2, <3>3, <3>4
      <4>. QED
        BY <4>2, <4>3, <3>4, SlotsMatch
    <3>7. Matches(value, heap, w[off].todo, todo)'
      BY <3>2, <3>6, <1>1, <1>9
    <3>8. BuiltOK(w[off].seen)'
      BY <3>2, <3>4, <1>1, <1>9 DEF BuiltOK, CopiesOwned
    <3>9. FilledOK(ids)' /\ InstancesOK(ids)'
      BY <3>2, <3>4, <1>1 DEF FilledOK, InstancesOK, Emptied
    <3>10. MarkersOK(ids)'
      BY <3>2, <3>3, <3>4 DEF MarkersOK
    <3>11. DeferredOK(w[off].seen, ids)'
      BY <3>2, <1>1, <1>9 DEF DeferredOK, Emptied
    <3>. QED
      BY <3>5, <3>7, <3>8, <3>9, <3>10, <3>11
  <2>2. CASE buffers = <<>>
    <3>1. PICK o : o = value.root
      OBVIOUS
    <3>2. PICK node : node = Node(o, 1)
      OBVIOUS
    <3>3. /\ off = 1 /\ heap' = <<node>> /\ todo' = Slots(1, o) /\ buffers' = <<>>
          /\ o \in Objects /\ Kind[o] # "buffer" /\ w[1].todo = value.kids[o] /\ w[1].seen = {o}
      BY <3>1, <3>2, <2>2, <1>0, <1>1, <1>8, <1>9, <1>10 DEF Offset
    <3>4. /\ node \in Built /\ node.obj = o /\ node.owner = 1
          /\ DOMAIN node.kids = DOMAIN value.kids[o]
          /\ \A i \in DOMAIN value.kids[o] : node.kids[i] = Null
      BY <3>2, <3>3, <1>8, NodeFacts
    <3>5. /\ <<node>> \in Seq(Built) /\ DOMAIN <<node>> = {1} /\ <<node>>[1] = node
          /\ <<node>> # <<>>
      BY <3>4
    <3>6. 1 \in Nat \ {Null} /\ <<node>>[1].obj = o
      BY <3>4, <3>5 DEF Null
    <3>7. /\ Slots(1, o) \in Seq(Slot)
          /\ Len(Slots(1, o)) = Len(value.kids[o])
          /\ DOMAIN Slots(1, o) = DOMAIN value.kids[o]
          /\ DOMAIN value.kids[o] = 1 .. Len(value.kids[o])
          /\ \A i \in DOMAIN value.kids[o] :
               /\ ~Slots(1, o)[i].put /\ Slots(1, o)[i].node = 1 /\ Slots(1, o)[i].at = i
               /\ Wanted(value, <<node>>, Slots(1, o)[i]) = value.kids[o][i]
      BY <3>3, <3>6, <1>8, SlotsFacts
    <3>8. SlotsOK(off)'
      <4>1. /\ todo' \in Seq(Slot) /\ off # 0
            /\ \A j \in DOMAIN todo' : /\ todo'[j].node \in DOMAIN heap'
                                      /\ todo'[j].at \in DOMAIN value'.kids[heap'[todo'[j].node].obj]
        <5>1. DOMAIN heap' = {1} /\ heap'[1] = node /\ value' = value
          BY <3>3, <3>5, <1>1
        <5>2. off = 1
          BY <3>3
        <5>3. off # 0
          BY ONLY <5>2
        <5>. QED
          BY <5>1, <5>3, <3>3, <3>4, <3>7
      <4>. QED
        BY <4>1 DEF SlotsOK
    <3>9. Matches(value, <<node>>, value.kids[o], Slots(1, o))
      <4>1. value.kids[o] \in Seq(Objects \cup {Null})
        BY <3>3, <1>8, ValueFacts
      <4>2. \A i \in 1 .. Len(value.kids[o]) :
              ~Slots(1, o)[i].put /\ Wanted(value, <<node>>, Slots(1, o)[i]) = value.kids[o][i]
        BY <3>7
      <4>. QED
        BY <4>1, <4>2, <3>7, SlotsMatch
    <3>10. Matches(value, heap, w[off].todo, todo)'
      BY <3>3, <3>9, <1>1
    <3>11. BuiltOK(w[off].seen)'
      BY <3>1, <3>3, <3>4, <3>5, <1>1 DEF BuiltOK, CopiesOwned
    <3>12. FilledOK(ids)'
      <4>1. DOMAIN heap' = {1} /\ heap'[1] = node /\ value' = value /\ DOMAIN todo' = DOMAIN value.kids[o]
        BY <3>3, <3>5, <3>7, <1>1
      <4>2. \A i \in DOMAIN node.kids : /\ node.kids[i] = Null
                                        /\ i \in DOMAIN todo'
                                        /\ ~todo'[i].put /\ todo'[i].node = 1 /\ todo'[i].at = i
        BY <3>3, <3>4, <3>7
      <4>3. ASSUME NEW n \in DOMAIN heap'
            PROVE  /\ DOMAIN heap'[n].kids = DOMAIN value'.kids[heap'[n].obj]
                   /\ \A i \in DOMAIN heap'[n].kids :
                        /\ heap'[n].kids[i] = Null
                        /\ \E j \in DOMAIN todo' : ~todo'[j].put /\ todo'[j].node = n /\ todo'[j].at = i
        <5>1. n = 1 /\ heap'[n] = node /\ heap'[n].obj = o
          BY <4>1, <3>4
        <5>. QED
          BY <5>1, <4>1, <4>2, <3>4
      <4>. QED
        BY <4>3 DEF FilledOK
    <3>13. MarkersOK(ids)'
      <4>1. \A j \in DOMAIN todo' : ~todo'[j].put
        BY <3>3, <3>7
      <4>. QED
        BY <4>1 DEF MarkersOK
    <3>14. InstancesOK(ids)'
      BY <3>1, <3>3, <3>4, <3>5, <1>1 DEF InstancesOK, Emptied, Skipped
    <3>15. DeferredOK(w[off].seen, ids)'
      BY <3>3, <1>1 DEF DeferredOK, Emptied
    <3>. QED
      BY <3>8, <3>10, <3>11, <3>12, <3>13, <3>14, <3>15
  <2>. QED
    BY <2>1, <2>2
<1>15. UnpackingOK(w, N, off, ids)'
  BY <1>12, <1>13, <1>14 DEF UnpackingOK
<1>16. StateOK'
  BY <1>1, <1>7 DEF StateOK, IsValue
<1>. QED
  BY <1>1, <1>15, <1>16 DEF IInv

-----------------------------------------------------------------------------
(***************************************************************************)
(* The receiver: lemmas about the next record and the slot it belongs to.  *)
(***************************************************************************)

\* The next record is that of the next pointer, which belongs into the slot
\* on top of the stack.
LEMMA ReadFacts ==
  ASSUME Supported, StateOK, NEW w, NEW N, NEW k, NEW ids, UnpackingOK(w, N, k, ids),
         todo # <<>>, NEW slot, slot = Head(todo), ~slot.put,
         NEW o, o = Head(w[k].todo)
  PROVE  /\ k \in Nat /\ N \in Nat /\ k < N /\ k \in 0 .. N /\ k + 1 \in 0 .. N
         /\ w[k] \in WalkState /\ w[k].todo # <<>>
         /\ slot \in Slot
         /\ o = Wanted(value, heap, slot)
         /\ Matches(value, heap, Tail(w[k].todo), Tail(todo))
         /\ o \in Objects \cup {Null}
         /\ w[k + 1] = After(value, w[k])
         /\ w[k + 1].seen = w[k].seen \cup ({o} \ {Null})
         /\ w[k].seen \subseteq w[N].seen /\ w[k + 1].seen \subseteq w[N].seen
         /\ o # Null => o \in w[N].seen /\ o \notin Skipped
         /\ stream # <<>> /\ stream \in Seq(Item)
         /\ Head(stream) \in Item
         /\ Head(stream).obj = o
         /\ Head(stream).kind = ItemKind(o, w[k].seen)
         /\ o # Null => Head(stream).id = ids[o]
         /\ \/ /\ slot.node \in DOMAIN heap /\ slot.node # Null
               /\ slot.at \in DOMAIN value.kids[heap[slot.node].obj]
               /\ o = value.kids[heap[slot.node].obj][slot.at]
            \/ slot.node = Null /\ k = 0 /\ heap = <<>> /\ Len(todo) = 1 /\ o = value.root
<1>1. /\ FullWalk(value, w, N) /\ k \in Offset .. N /\ StreamOK(w, N, k, ids) /\ SlotsOK(k)
      /\ Matches(value, heap, w[k].todo, todo) /\ BuiltOK(w[k].seen) /\ IsValue(value)
  BY DEF UnpackingOK, StateOK
<1>2. /\ N \in Nat /\ w \in [0 .. N -> WalkState]
      /\ \A i \in 0 .. N : w[i].seen \subseteq w[N].seen
  BY <1>1 DEF FullWalk, Walk
<1>3. k \in 0 .. N /\ k \in Nat /\ (buffers = <<>> => k > 0)
  BY <1>1, <1>2 DEF Offset
<1>4. w[k] \in WalkState /\ w[k].todo \in Seq(Objects \cup {Null})
  BY <1>2, <1>3 DEF WalkState
<1>5. todo \in Seq(Slot)
  BY <1>1 DEF SlotsOK
<1>6. /\ slot \in Slot /\ slot = todo[1] /\ 1 \in DOMAIN todo
  BY <1>5, HeadTail
<1>7. /\ w[k].todo # <<>>
      /\ o = Wanted(value, heap, slot)
      /\ Matches(value, heap, Tail(w[k].todo), Tail(todo))
  <2>1. ~Head(todo).put
    OBVIOUS
  <2>2. /\ w[k].todo # <<>>
        /\ Head(w[k].todo) = Wanted(value, heap, Head(todo))
        /\ Matches(value, heap, Tail(w[k].todo), Tail(todo))
    BY <2>1, <1>1, <1>4, <1>5, SlotPopped
  <2>. QED
    BY <2>2
<1>8. /\ k \in 0 .. (N - 1) /\ k + 1 \in 0 .. N
      /\ w[k + 1] = After(value, w[k])
      /\ w[k + 1].seen = w[k].seen \cup ({o} \ {Null})
      /\ o \in Objects \cup {Null}
      /\ o # Null => o \in w[N].seen
      /\ k > 0 => o # value.root
  BY <1>1, <1>3, <1>7, WalkStep
<1>9. o # Null => o \notin Skipped
  BY <1>3, <1>8 DEF Skipped
<1>10. /\ stream \in Seq(Item) /\ Len(stream) = N - k
       /\ \A i \in 1 .. Len(stream) :
            /\ stream[i].obj = Head(w[k + i - 1].todo)
            /\ stream[i].kind = HeadKind(w[k + i - 1])
            /\ stream[i].obj # Null => stream[i].id = ids[stream[i].obj]
  BY <1>1 DEF StreamOK
<1>11. Len(stream) # 0 /\ 1 \in 1 .. Len(stream) /\ k + 1 - 1 = k
  BY <1>2, <1>8, <1>10
<1>12. stream # <<>>
  <2>1. Len(<<>>) = 0
    OBVIOUS
  <2>. QED
    BY <2>1, <1>11
<1>13. Head(stream) \in Item /\ Head(stream) = stream[1]
  BY <1>10, <1>12, HeadTail
<1>14. stream[1].obj = o /\ stream[1].kind = HeadKind(w[k]) /\ (o # Null => stream[1].id = ids[o])
  BY <1>10, <1>11
<1>15. HeadKind(w[k]) = ItemKind(o, w[k].seen)
  BY DEF HeadKind
<1>16. \/ /\ slot.node \in DOMAIN heap
          /\ slot.at \in DOMAIN value.kids[heap[slot.node].obj]
       \/ slot.node = Null /\ k = 0
  BY <1>1, <1>6 DEF SlotsOK
<1>17. k = 0 => heap = <<>> /\ Len(todo) = 1
  BY <1>1 DEF SlotsOK
<1>18. \A n \in DOMAIN heap : n # Null
  <2>1. DOMAIN heap = 1 .. Len(heap)
    BY <1>1, LenProperties DEF BuiltOK
  <2>. QED
    BY <2>1 DEF Null
<1>19. \/ /\ slot.node \in DOMAIN heap /\ slot.node # Null
          /\ slot.at \in DOMAIN value.kids[heap[slot.node].obj]
          /\ o = value.kids[heap[slot.node].obj][slot.at]
       \/ slot.node = Null /\ k = 0 /\ heap = <<>> /\ Len(todo) = 1 /\ o = value.root
  BY <1>7, <1>16, <1>17, <1>18 DEF Wanted
<1>20. k < N
  BY <1>2, <1>8
<1>21. w[k].seen \subseteq w[N].seen /\ w[k + 1].seen \subseteq w[N].seen
  BY <1>2, <1>3, <1>8
<1>. QED
  BY <1>2, <1>3, <1>4, <1>6, <1>7, <1>8, <1>9, <1>10, <1>12, <1>13, <1>14, <1>15, <1>19, <1>20, <1>21

LEMMA StreamRead ==
  ASSUME NEW w, NEW N \in Nat, NEW k \in Nat, NEW ids, StreamOK(w, N, k, ids), k < N,
         stream # <<>>, stream' = Tail(stream)
  PROVE  StreamOK(w, N, k + 1, ids)'
<1>1. /\ stream \in Seq(Item) /\ Len(stream) = N - k
      /\ \A i \in 1 .. Len(stream) :
           /\ stream[i].obj = Head(w[k + i - 1].todo)
           /\ stream[i].kind = HeadKind(w[k + i - 1])
           /\ stream[i].obj # Null => stream[i].id = ids[stream[i].obj]
  BY DEF StreamOK
<1>2. /\ stream' \in Seq(Item) /\ Len(stream') = Len(stream) - 1 /\ Len(stream) \in Nat
      /\ \A i \in 1 .. (Len(stream) - 1) : stream'[i] = stream[i + 1]
  BY <1>1, HeadTail
<1>3. Len(stream') = N - (k + 1)
  BY <1>1, <1>2
<1>4. ASSUME NEW i \in 1 .. Len(stream')
      PROVE  /\ stream'[i].obj = Head(w[(k + 1) + i - 1].todo)
             /\ stream'[i].kind = HeadKind(w[(k + 1) + i - 1])
             /\ stream'[i].obj # Null => stream'[i].id = ids[stream'[i].obj]
  <2>1. i \in 1 .. (Len(stream) - 1) /\ i + 1 \in 1 .. Len(stream)
    BY <1>2
  <2>2. k + (i + 1) - 1 = (k + 1) + i - 1
    BY <2>1, <1>2
  <2>3. stream'[i] = stream[i + 1]
    BY <2>1, <1>2
  <2>4. PICK j : j = i + 1
    OBVIOUS
  <2>5. j \in 1 .. Len(stream) /\ k + j - 1 = (k + 1) + i - 1 /\ stream'[i] = stream[j]
    BY <2>1, <2>2, <2>3, <2>4
  <2>. QED
    BY <2>5, <1>1
<1>. QED
  BY <1>2, <1>3, <1>4 DEF StreamOK

\* What filling a slot changes.
LEMMA FillFacts ==
  ASSUME IsValue(value), NEW h \in Seq(Built), NEW slot \in Slot, NEW m \in Nat,
         slot.node \in DOMAIN h, slot.node # Null, slot.at \in DOMAIN h[slot.node].kids
  PROVE  /\ Fill(h, slot, m) \in Seq(Built)
         /\ Len(Fill(h, slot, m)) = Len(h)
         /\ DOMAIN Fill(h, slot, m) = DOMAIN h
         /\ \A n \in DOMAIN h :
              /\ Fill(h, slot, m)[n].obj = h[n].obj
              /\ Fill(h, slot, m)[n].owner = h[n].owner
              /\ DOMAIN Fill(h, slot, m)[n].kids = DOMAIN h[n].kids
              /\ \A i \in DOMAIN h[n].kids :
                   Fill(h, slot, m)[n].kids[i] =
                     IF n = slot.node /\ i = slot.at THEN m ELSE h[n].kids[i]
<1>1. PICK p : p = slot.node
  OBVIOUS
<1>2. PICK a : a = slot.at
  OBVIOUS
<1>3. Fill(h, slot, m) = [h EXCEPT ![p] = [h[p] EXCEPT !.kids = [h[p].kids EXCEPT ![a] = m]]]
  BY <1>1, <1>2 DEF Fill
<1>4. PICK c \in Nat : h \in [1 .. c -> Built] /\ c = Len(h) /\ DOMAIN h = 1 .. c
  BY LenProperties
<1>5. h[p] \in Built
  BY <1>1, <1>4
<1>6. PICK kids \in Seq(Nat) : kids = [h[p].kids EXCEPT ![a] = m] /\ DOMAIN kids = DOMAIN h[p].kids
  <2>1. h[p].kids \in Seq(Nat)
    BY <1>5 DEF Built
  <2>2. PICK d \in Nat : h[p].kids \in [1 .. d -> Nat] /\ DOMAIN h[p].kids = 1 .. d
    BY <2>1, LenProperties
  <2>3. [h[p].kids EXCEPT ![a] = m] \in [1 .. d -> Nat]
    BY <2>2
  <2>4. [h[p].kids EXCEPT ![a] = m] \in Seq(Nat)
    BY <2>2, <2>3, SeqDef
  <2>. QED
    BY <2>2, <2>4
<1>7. PICK node \in Built : /\ node = [h[p] EXCEPT !.kids = kids]
                            /\ node.obj = h[p].obj /\ node.owner = h[p].owner /\ node.kids = kids
  <2>1. h[p] = [obj |-> h[p].obj, kids |-> h[p].kids, owner |-> h[p].owner]
        /\ h[p].obj \in Objects /\ h[p].owner \in Nat
    BY <1>5 DEF Built
  <2>2. PICK node : node = [obj |-> h[p].obj, kids |-> kids, owner |-> h[p].owner]
    OBVIOUS
  <2>3. node \in Built
    BY <2>1, <2>2 DEF Built
  <2>4. node = [h[p] EXCEPT !.kids = kids]
    BY <2>1, <2>2
  <2>. QED
    BY <2>2, <2>3, <2>4
<1>8. Fill(h, slot, m) = [h EXCEPT ![p] = node]
  BY <1>3, <1>6, <1>7
<1>9. Fill(h, slot, m) \in [1 .. c -> Built]
  BY <1>4, <1>7, <1>8
<1>10. Fill(h, slot, m) \in Seq(Built)
  BY <1>9, <1>4, SeqDef
<1>11. /\ DOMAIN Fill(h, slot, m) = 1 .. c
       /\ Len(Fill(h, slot, m)) = c
  BY <1>9, <1>10, <1>4, LenProperties
<1>12. ASSUME NEW n \in DOMAIN h
       PROVE  /\ Fill(h, slot, m)[n].obj = h[n].obj
              /\ Fill(h, slot, m)[n].owner = h[n].owner
              /\ DOMAIN Fill(h, slot, m)[n].kids = DOMAIN h[n].kids
              /\ \A i \in DOMAIN h[n].kids :
                   Fill(h, slot, m)[n].kids[i] =
                     IF n = slot.node /\ i = slot.at THEN m ELSE h[n].kids[i]
  <2>1. CASE n = p
    <3>1. Fill(h, slot, m)[n] = node
      BY <2>1, <1>8
    <3>2. \A i \in DOMAIN h[p].kids : kids[i] = IF i = a THEN m ELSE h[p].kids[i]
      BY <1>6
    <3>. QED
      BY <3>1, <3>2, <2>1, <1>1, <1>2, <1>6, <1>7
  <2>2. CASE n # p
    <3>1. Fill(h, slot, m)[n] = h[n]
      BY <2>2, <1>8
    <3>. QED
      BY <3>1, <2>2, <1>1
  <2>. QED
    BY <2>1, <2>2
<1>. QED
  BY <1>4, <1>10, <1>11, <1>12

\* t is the stack s after its top has been popped and c new slots have been
\* pushed.
Restack(s, new, t, c) ==
    /\ t \in Seq(Slot) /\ c \in Nat /\ DOMAIN new = 1 .. c
    /\ DOMAIN s = 1 .. Len(s) /\ Len(s) \in Nat \ {0}
    /\ DOMAIN t = 1 .. (c + (Len(s) - 1))
    /\ \A j \in 1 .. c : j \in DOMAIN t /\ t[j] = new[j]
    /\ \A j \in DOMAIN t : j > c => j - c + 1 \in DOMAIN s /\ j - c + 1 # 1 /\ t[j] = s[j - c + 1]
    /\ \A j \in DOMAIN s : j # 1 => j - 1 + c \in DOMAIN t /\ t[j - 1 + c] = s[j]

LEMMA Restacked ==
  ASSUME NEW s \in Seq(Slot), s # <<>>, NEW new \in Seq(Slot), NEW t, t = new \o Tail(s),
         NEW c, c = Len(new)
  PROVE  Restack(s, new, t, c)
<1>1. /\ Tail(s) \in Seq(Slot) /\ Len(s) \in Nat \ {0} /\ Len(Tail(s)) = Len(s) - 1
      /\ DOMAIN s = 1 .. Len(s)
      /\ \A i \in 1 .. (Len(s) - 1) : Tail(s)[i] = s[i + 1]
  BY HeadTail
<1>2. PICK n \in Nat \ {0} : n = Len(s)
  BY <1>1
<1>3. c \in Nat /\ DOMAIN new = 1 .. c
  BY LenProperties
<1>4. /\ t \in Seq(Slot) /\ Len(t) = c + (n - 1)
      /\ \A i \in 1 .. (c + (n - 1)) : t[i] = IF i <= c THEN new[i] ELSE Tail(s)[i - c]
  BY <1>1, <1>2, ConcatProperties
<1>5. DOMAIN t = 1 .. (c + (n - 1))
  BY <1>4, LenProperties
<1>6. \A i \in 1 .. (n - 1) : Tail(s)[i] = s[i + 1] /\ i + 1 \in 1 .. n
  BY <1>1, <1>2
<1>7. ASSUME NEW j \in 1 .. (c + (n - 1)), j > c
      PROVE  j - c + 1 \in 1 .. n /\ j - c + 1 # 1 /\ t[j] = s[j - c + 1]
  <2>1. PICK i : i = j - c
    OBVIOUS
  <2>2. i \in 1 .. (n - 1) /\ j - c + 1 = i + 1 /\ ~(j <= c)
    BY <2>1, <1>3, <1>7
  <2>3. t[j] = Tail(s)[i]
    BY <2>1, <2>2, <1>4
  <2>4. PICK p : p = i + 1
    OBVIOUS
  <2>5. p \in 1 .. n /\ p # 1
    BY <2>2, <2>4
  <2>6. Tail(s)[i] = s[p]
    BY <2>2, <2>4, <1>6
  <2>7. j - c + 1 = p
    BY <2>2, <2>4
  <2>. QED
    BY <2>3, <2>5, <2>6, <2>7
<1>8. ASSUME NEW j \in 1 .. n, j # 1
      PROVE  j - 1 + c \in 1 .. (c + (n - 1)) /\ j - 1 + c > c /\ t[j - 1 + c] = s[j]
  <2>1. PICK i : i = j - 1 + c
    OBVIOUS
  <2>2. i \in 1 .. (c + (n - 1)) /\ i > c /\ i - c + 1 = j
    BY <2>1, <1>3, <1>8
  <2>3. t[i] = s[i - c + 1]
    BY <2>2, <1>7
  <2>. QED
    BY <2>1, <2>2, <2>3
<1>9. \A j \in 1 .. c : j \in DOMAIN t /\ t[j] = new[j]
  <2>. TAKE j \in 1 .. c
  <2>1. j \in 1 .. (c + (n - 1)) /\ j <= c
    BY <1>3
  <2>. QED
    BY <2>1, <1>4, <1>5
<1>. QED
  BY <1>1, <1>2, <1>3, <1>4, <1>5, <1>7, <1>8, <1>9 DEF Restack

\* t is the stack s after its top has been popped.
Popped(s, t) ==
    /\ t \in Seq(Slot)
    /\ DOMAIN s = 1 .. Len(s) /\ Len(s) \in Nat \ {0}
    /\ DOMAIN t = 1 .. (Len(s) - 1) /\ Len(t) = Len(s) - 1
    /\ \A j \in DOMAIN t : j + 1 \in DOMAIN s /\ j + 1 # 1 /\ t[j] = s[j + 1]
    /\ \A j \in DOMAIN s : j # 1 => j - 1 \in DOMAIN t /\ t[j - 1] = s[j]

LEMMA TopPopped ==
  ASSUME NEW s \in Seq(Slot), s # <<>>, NEW t, t = Tail(s)
  PROVE  Popped(s, t)
<1>1. /\ t \in Seq(Slot) /\ Len(s) \in Nat \ {0} /\ Len(t) = Len(s) - 1
      /\ DOMAIN s = 1 .. Len(s) /\ DOMAIN t = 1 .. (Len(s) - 1)
      /\ \A i \in 1 .. (Len(s) - 1) : t[i] = s[i + 1]
  BY HeadTail
<1>2. PICK n \in Nat \ {0} : n = Len(s)
  BY <1>1
<1>3. \A i \in 1 .. (n - 1) : t[i] = s[i + 1]
  BY <1>1, <1>2
<1>4. \A i \in 1 .. (n - 1) : i + 1 \in 1 .. n /\ i + 1 # 1
  OBVIOUS
<1>5. ASSUME NEW j \in 1 .. n, j # 1
      PROVE  j - 1 \in 1 .. (n - 1) /\ t[j - 1] = s[j]
  <2>1. PICK i \in 1 .. (n - 1) : i = j - 1 /\ i + 1 = j
    BY <1>5
  <2>. QED
    BY <2>1, <1>3
<1>. QED
  BY <1>1, <1>2, <1>3, <1>4, <1>5 DEF Popped

\* The nodes stay what they are, but for the slot that is filled.
Refilled(slot, o) ==
    /\ heap' \in Seq(Built)
    /\ DOMAIN heap' = DOMAIN heap
    /\ \A n \in DOMAIN heap :
         /\ heap'[n].obj = heap[n].obj /\ heap'[n].owner = heap[n].owner
         /\ DOMAIN heap'[n].kids = DOMAIN heap[n].kids
         /\ \A i \in DOMAIN heap[n].kids :
              \/ heap'[n].kids[i] = heap[n].kids[i]
              \/ /\ n = slot.node /\ i = slot.at
                 /\ heap'[n].kids[i] \in DOMAIN heap
                 /\ heap[heap'[n].kids[i]].obj = o

\* The slot is not open any more.
Resolved(slot, o, ids) ==
    /\ slot.node # Null =>
         \/ o = Null
         \/ heap'[slot.node].kids[slot.at] # Null
         \/ /\ Kind[o] = "buffer"
            /\ ids[o] \in DOMAIN deferred'
            /\ <<slot.node, slot.at>> \in deferred'[ids[o]]
    /\ \A d \in DOMAIN deferred : d \in DOMAIN deferred' /\ deferred[d] \subseteq deferred'[d]

\* A pointer that is read without a new node: it is null, refers to a node
\* that is there, or waits for its buffer.
LEMMA SlotRead ==
  ASSUME Supported, StateOK, phase = "unpacking",
         NEW w, NEW N, NEW k, NEW ids, UnpackingOK(w, N, k, ids),
         todo # <<>>, NEW slot, slot = Head(todo), ~slot.put,
         NEW o, o = Head(w[k].todo),
         todo' = Tail(todo), stream' = Tail(stream),
         UNCHANGED <<value, hop, phase, error, root, inline, instances, buffers>>,
         Refilled(slot, o), Resolved(slot, o, ids),
         o = Null \/ o \in w[k].seen \/ Kind[o] = "buffer",
         DeferredOK(w[k + 1].seen, ids)'
  PROVE  IInv'
<1>a. /\ heap' \in Seq(Built) /\ DOMAIN heap' = DOMAIN heap
      /\ \A n \in DOMAIN heap : /\ heap'[n].obj = heap[n].obj /\ heap'[n].owner = heap[n].owner
                                /\ DOMAIN heap'[n].kids = DOMAIN heap[n].kids
  BY DEF Refilled
<1>b. \A n \in DOMAIN heap : \A i \in DOMAIN heap[n].kids :
        \/ heap'[n].kids[i] = heap[n].kids[i]
        \/ /\ n = slot.node /\ i = slot.at
           /\ heap'[n].kids[i] \in DOMAIN heap
           /\ heap[heap'[n].kids[i]].obj = o
  BY DEF Refilled
<1>c. slot.node # Null =>
        \/ o = Null
        \/ heap'[slot.node].kids[slot.at] # Null
        \/ /\ Kind[o] = "buffer"
           /\ ids[o] \in DOMAIN deferred'
           /\ <<slot.node, slot.at>> \in deferred'[ids[o]]
  BY DEF Resolved
<1>d. \A d \in DOMAIN deferred : d \in DOMAIN deferred' /\ deferred[d] \subseteq deferred'[d]
  BY DEF Resolved
<1>1. /\ FullWalk(value, w, N) /\ k \in Offset .. N /\ BuffersOK(w[N].seen)
      /\ IdsOK(w[N].seen, ids) /\ StreamOK(w, N, k, ids) /\ SlotsOK(k)
      /\ BuiltOK(w[k].seen) /\ FilledOK(ids) /\ MarkersOK(ids) /\ InstancesOK(ids)
  BY DEF UnpackingOK
<1>2. /\ k \in Nat /\ N \in Nat /\ k < N
      /\ Matches(value, heap, Tail(w[k].todo), Tail(todo))
      /\ w[k] \in WalkState /\ w[k].todo # <<>>
      /\ o \in Objects \cup {Null}
      /\ w[k + 1] = After(value, w[k])
      /\ w[k + 1].seen = w[k].seen \cup ({o} \ {Null})
      /\ stream # <<>>
      /\ \/ /\ slot.node \in DOMAIN heap /\ slot.node # Null
            /\ slot.at \in DOMAIN value.kids[heap[slot.node].obj]
            /\ o = value.kids[heap[slot.node].obj][slot.at]
         \/ slot.node = Null /\ k = 0 /\ heap = <<>> /\ Len(todo) = 1 /\ o = value.root
  BY ReadFacts
<1>3. todo \in Seq(Slot) /\ slot = todo[1] /\ 1 \in DOMAIN todo
  BY <1>1, HeadTail DEF SlotsOK
<1>4. /\ todo' \in Seq(Slot)
      /\ DOMAIN todo = 1 .. Len(todo) /\ Len(todo) \in Nat \ {0}
      /\ DOMAIN todo' = 1 .. (Len(todo) - 1) /\ Len(todo') = Len(todo) - 1
      /\ \A j \in DOMAIN todo' : j + 1 \in DOMAIN todo /\ j + 1 # 1 /\ todo'[j] = todo[j + 1]
      /\ \A j \in DOMAIN todo : j # 1 => j - 1 \in DOMAIN todo' /\ todo'[j - 1] = todo[j]
  <2>1. Popped(todo, todo')
    BY <1>3, TopPopped
  <2>. QED
    BY <2>1 DEF Popped
<1>5. heap \in Seq(Built) /\ DOMAIN heap = 1 .. Len(heap) /\ DOMAIN <<>> = {}
  BY <1>1, LenProperties DEF BuiltOK
<1>6. \A j \in DOMAIN todo : ~todo[j].put =>
         \/ todo[j].node = Null /\ k = 0
         \/ /\ todo[j].node \in DOMAIN heap
            /\ todo[j].at \in DOMAIN value.kids[heap[todo[j].node].obj]
  BY <1>1 DEF SlotsOK
<1>7. \A j \in DOMAIN todo : ~todo[j].put =>
         Wanted(value, heap', todo[j]) = Wanted(value, heap, todo[j])
  BY <1>6, <1>a DEF Wanted
<1>8. k = 0 => DOMAIN todo' = {}
  <2>1. k = 0 => Len(todo) = 1
    BY <1>1 DEF SlotsOK
  <2>. QED
    BY <2>1, <1>4
<1>9. SlotsOK(k + 1)'
  <2>1. ASSUME NEW j \in DOMAIN todo', ~todo'[j].put
        PROVE  /\ todo'[j].node \in DOMAIN heap'
               /\ todo'[j].at \in DOMAIN value'.kids[heap'[todo'[j].node].obj]
    <3>1. j + 1 \in DOMAIN todo /\ todo'[j] = todo[j + 1] /\ k # 0
      BY <2>1, <1>4, <1>8
    <3>2. /\ todo'[j].node \in DOMAIN heap
          /\ todo'[j].at \in DOMAIN value.kids[heap[todo'[j].node].obj]
      BY <3>1, <2>1, <1>6
    <3>. QED
      BY <3>2, <1>a
  <2>2. k + 1 # 0
    BY <1>2
  <2>. QED
    BY <2>1, <2>2, <1>4 DEF SlotsOK
<1>10. Matches(value, heap, w[k + 1].todo, todo)'
  <2>1. w[k + 1].todo = Tail(w[k].todo)
    <3>1. Tail(w[k].todo) \in Seq(Objects \cup {Null})
      BY <1>2, HeadTail DEF WalkState
    <3>2. HeadKind(w[k]) # "INSTANCE"
      BY DEF HeadKind, ItemKind
    <3>3. w[k + 1].todo = <<>> \o Tail(w[k].todo)
      BY <3>2, <1>2 DEF After
    <3>. QED
      BY <3>1, <3>3, ConcatEmptySeq
  <2>2. Tail(w[k].todo) \in Seq(Objects \cup {Null})
    BY <1>2, HeadTail DEF WalkState
  <2>3. \A j \in 1 .. Len(todo') : ~todo'[j].put =>
          Wanted(value, heap', todo'[j]) = Wanted(value, heap, todo'[j])
    <3>1. \A j \in DOMAIN todo' : ~todo'[j].put =>
            Wanted(value, heap', todo'[j]) = Wanted(value, heap, todo'[j])
      BY <1>4, <1>7
    <3>2. DOMAIN todo' = 1 .. Len(todo')
      BY <1>4
    <3>. QED
      BY <3>1, <3>2
  <2>4. Matches(value, heap', Tail(w[k].todo), todo')
    <3>1. PICK t : t = todo'
      OBVIOUS
    <3>2. PICK h : h = heap'
      OBVIOUS
    <3>3. /\ t \in Seq(Slot) /\ Matches(value, heap, Tail(w[k].todo), t)
          /\ \A j \in 1 .. Len(t) : ~t[j].put => Wanted(value, h, t[j]) = Wanted(value, heap, t[j])
      BY <3>1, <3>2, <2>3, <1>2, <1>4
    <3>4. Matches(value, h, Tail(w[k].todo), t)
      BY ONLY <3>3, <2>2, SlotsKept
    <3>. QED
      BY <3>1, <3>2, <3>4
  <2>. QED
    BY <2>1, <2>4
<1>11. BuiltOK(w[k + 1].seen)'
  <2>1. /\ CopiesOwned
        /\ \A m, n \in DOMAIN heap : heap[m].obj = heap[n].obj => m = n
        /\ \A n \in DOMAIN heap : heap[n].obj \in w[k].seen /\ Kind[heap[n].obj] # "buffer"
        /\ \A x \in w[k].seen : Kind[x] # "buffer" => \E n \in DOMAIN heap : heap[n].obj = x
        /\ heap # <<>> => heap[1].obj = value.root
        /\ root = 1
    BY <1>1 DEF BuiltOK
  <2>2. CopiesOwned'
    BY <2>1, <1>a DEF CopiesOwned
  <2>3. \A x \in w[k + 1].seen : Kind[x] # "buffer" => \E n \in DOMAIN heap' : heap'[n].obj = x
    BY <2>1, <1>2, <1>a
  <2>4. heap' # <<>> => heap'[1].obj = value'.root
    <3>1. heap' # <<>> => 1 \in DOMAIN heap
      BY EmptySeq, LenProperties, <1>a
    <3>. QED
      BY <3>1, <2>1, <1>5, <1>a
  <2>. QED
    BY <2>1, <2>2, <2>3, <2>4, <1>2, <1>a DEF BuiltOK
<1>12. FilledOK(ids)'
  <2>. SUFFICES ASSUME NEW n \in DOMAIN heap'
                PROVE  /\ DOMAIN heap'[n].kids = DOMAIN value'.kids[heap'[n].obj]
                       /\ \A i \in DOMAIN heap'[n].kids :
                            /\ heap'[n].kids[i] # Null =>
                                 /\ heap'[n].kids[i] \in DOMAIN heap'
                                 /\ heap'[heap'[n].kids[i]].obj = value'.kids[heap'[n].obj][i]
                            /\ \/ \E j \in DOMAIN todo' : ~todo'[j].put /\ todo'[j].node = n /\ todo'[j].at = i
                               \/ value'.kids[heap'[n].obj][i] = Null
                               \/ heap'[n].kids[i] # Null
                               \/ /\ Kind[value'.kids[heap'[n].obj][i]] = "buffer"
                                  /\ ids[value'.kids[heap'[n].obj][i]] \in DOMAIN deferred'
                                  /\ <<n, i>> \in deferred'[ids[value'.kids[heap'[n].obj][i]]]
    BY DEF FilledOK
  <2>0. n \in DOMAIN heap /\ heap'[n].obj = heap[n].obj /\ value' = value
    BY <1>a
  <2>1. /\ DOMAIN heap'[n].kids = DOMAIN heap[n].kids
        /\ DOMAIN heap[n].kids = DOMAIN value.kids[heap[n].obj]
    BY <2>0, <1>1, <1>a DEF FilledOK
  <2>2. ASSUME NEW i \in DOMAIN heap[n].kids
        PROVE  /\ heap'[n].kids[i] # Null =>
                    /\ heap'[n].kids[i] \in DOMAIN heap
                    /\ heap[heap'[n].kids[i]].obj = value.kids[heap[n].obj][i]
               /\ \/ \E j \in DOMAIN todo' : ~todo'[j].put /\ todo'[j].node = n /\ todo'[j].at = i
                  \/ value.kids[heap[n].obj][i] = Null
                  \/ heap'[n].kids[i] # Null
                  \/ /\ Kind[value.kids[heap[n].obj][i]] = "buffer"
                     /\ ids[value.kids[heap[n].obj][i]] \in DOMAIN deferred'
                     /\ <<n, i>> \in deferred'[ids[value.kids[heap[n].obj][i]]]
    <3>1. PICK x : x = value.kids[heap[n].obj][i]
      OBVIOUS
    <3>2. /\ heap[n].kids[i] # Null => heap[n].kids[i] \in DOMAIN heap /\ heap[heap[n].kids[i]].obj = x
          /\ \/ \E j \in DOMAIN todo : ~todo[j].put /\ todo[j].node = n /\ todo[j].at = i
             \/ x = Null
             \/ heap[n].kids[i] # Null
             \/ Kind[x] = "buffer" /\ ids[x] \in DOMAIN deferred /\ <<n, i>> \in deferred[ids[x]]
      BY <3>1, <2>0, <1>1 DEF FilledOK
    <3>3. n # Null
      BY <2>0, <1>5 DEF Null
    <3>4. CASE n = slot.node /\ i = slot.at
      <4>1. x = o
        BY <3>1, <3>3, <3>4, <1>2
      <4>2. heap'[n].kids[i] # Null => heap'[n].kids[i] \in DOMAIN heap /\ heap[heap'[n].kids[i]].obj = o
        BY <4>1, <3>2, <2>0, <1>b
      <4>3. \/ o = Null
            \/ heap'[n].kids[i] # Null
            \/ /\ Kind[o] = "buffer"
               /\ ids[o] \in DOMAIN deferred'
               /\ <<n, i>> \in deferred'[ids[o]]
        BY <3>3, <3>4, <1>c
      <4>. QED
        BY <4>1, <4>2, <4>3, <3>1
    <3>5. CASE ~(n = slot.node /\ i = slot.at)
      <4>1. heap'[n].kids[i] = heap[n].kids[i]
        BY <3>5, <2>0, <1>b
      <4>2. ASSUME NEW j \in DOMAIN todo, ~todo[j].put, todo[j].node = n, todo[j].at = i
            PROVE  \E j2 \in DOMAIN todo' : ~todo'[j2].put /\ todo'[j2].node = n /\ todo'[j2].at = i
        <5>1. j # 1
          BY <4>2, <3>5, <1>3
        <5>2. j - 1 \in DOMAIN todo' /\ todo'[j - 1] = todo[j]
          BY <5>1, <1>4
        <5>. QED
          BY <5>2, <4>2
      <4>. QED
        BY <4>1, <4>2, <3>1, <3>2, <1>d
    <3>. QED
      BY <3>4, <3>5
  <2>3. \A i \in DOMAIN heap[n].kids : heap'[n].kids[i] \in DOMAIN heap =>
          heap'[heap'[n].kids[i]].obj = heap[heap'[n].kids[i]].obj
    BY <1>a
  <2>4. ASSUME NEW i \in DOMAIN heap'[n].kids
        PROVE  /\ heap'[n].kids[i] # Null =>
                    /\ heap'[n].kids[i] \in DOMAIN heap'
                    /\ heap'[heap'[n].kids[i]].obj = value'.kids[heap'[n].obj][i]
               /\ \/ \E j \in DOMAIN todo' : ~todo'[j].put /\ todo'[j].node = n /\ todo'[j].at = i
                  \/ value'.kids[heap'[n].obj][i] = Null
                  \/ heap'[n].kids[i] # Null
                  \/ /\ Kind[value'.kids[heap'[n].obj][i]] = "buffer"
                     /\ ids[value'.kids[heap'[n].obj][i]] \in DOMAIN deferred'
                     /\ <<n, i>> \in deferred'[ids[value'.kids[heap'[n].obj][i]]]
    <3>1. PICK x : x = value.kids[heap[n].obj][i]
      OBVIOUS
    <3>2. i \in DOMAIN heap[n].kids /\ value'.kids[heap'[n].obj][i] = x
      BY <3>1, <2>0, <2>1
    <3>3. /\ heap'[n].kids[i] # Null => heap'[n].kids[i] \in DOMAIN heap /\ heap[heap'[n].kids[i]].obj = x
          /\ \/ \E j \in DOMAIN todo' : ~todo'[j].put /\ todo'[j].node = n /\ todo'[j].at = i
             \/ x = Null
             \/ heap'[n].kids[i] # Null
             \/ Kind[x] = "buffer" /\ ids[x] \in DOMAIN deferred' /\ <<n, i>> \in deferred'[ids[x]]
      BY <3>1, <3>2, <2>2
    <3>4. heap'[n].kids[i] # Null => heap'[n].kids[i] \in DOMAIN heap' /\ heap'[heap'[n].kids[i]].obj = x
      BY <3>2, <3>3, <2>3, <1>a
    <3>. QED
      BY ONLY <3>2, <3>3, <3>4
  <2>. QED
    BY <2>0, <2>1, <2>4, <1>a
<1>13. MarkersOK(ids)'
  <2>. SUFFICES ASSUME NEW j \in DOMAIN todo', todo'[j].put
                PROVE  /\ todo'[j].node \in DOMAIN heap'
                       /\ Kind[heap'[todo'[j].node].obj] # "poly"
                       /\ heap'[todo'[j].node].obj \notin Skipped'
                       /\ todo'[j].at = ids[heap'[todo'[j].node].obj]
                       /\ todo'[j].at \notin DOMAIN instances'
                       /\ \A i \in DOMAIN todo' : todo'[i].put /\ todo'[i].node = todo'[j].node => i = j
                       /\ \A i \in DOMAIN todo' : i < j /\ ~todo'[i].put =>
                            Wanted(value', heap', todo'[i]) \in
                              Below(value'.kids, heap'[todo'[j].node].obj) \cup {Null}
    BY DEF MarkersOK
  <2>1. PICK m \in DOMAIN todo : m = j + 1 /\ todo'[j] = todo[m]
    BY <1>4
  <2>2. /\ todo[m].node \in DOMAIN heap
        /\ Kind[heap[todo[m].node].obj] # "poly"
        /\ heap[todo[m].node].obj \notin Skipped
        /\ todo[m].at = ids[heap[todo[m].node].obj]
        /\ todo[m].at \notin DOMAIN instances
        /\ \A i \in DOMAIN todo : todo[i].put /\ todo[i].node = todo[m].node => i = m
        /\ \A i \in DOMAIN todo : i < m /\ ~todo[i].put =>
             Wanted(value, heap, todo[i]) \in Below(value.kids, heap[todo[m].node].obj) \cup {Null}
    BY <2>1, <1>1 DEF MarkersOK
  <2>3. Skipped' = Skipped
    BY DEF Skipped
  <2>4. ASSUME NEW i \in DOMAIN todo', todo'[i].put, todo'[i].node = todo'[j].node
        PROVE  i = j
    <3>1. i + 1 \in DOMAIN todo /\ todo'[i] = todo[i + 1]
      BY <1>4
    <3>2. i + 1 = m
      BY <3>1, <2>1, <2>2, <2>4
    <3>3. i \in Int /\ j \in Int
      BY <1>4
    <3>. QED
      BY <3>2, <3>3, <2>1
  <2>5. ASSUME NEW i \in DOMAIN todo', i < j, ~todo'[i].put
        PROVE  Wanted(value', heap', todo'[i]) \in
                 Below(value'.kids, heap'[todo'[j].node].obj) \cup {Null}
    <3>1. PICK i2 \in DOMAIN todo : i2 = i + 1 /\ todo'[i] = todo[i2]
      BY <1>4
    <3>2. i2 < m
      <4>1. i \in Int /\ j \in Int
        BY <1>4
      <4>. QED
        BY <4>1, <3>1, <2>1, <2>5
    <3>3. Wanted(value, heap, todo[i2]) \in Below(value.kids, heap[todo[m].node].obj) \cup {Null}
      BY <3>1, <3>2, <2>2, <2>5
    <3>4. Wanted(value, heap', todo[i2]) = Wanted(value, heap, todo[i2])
      BY <3>1, <2>5, <1>7
    <3>. QED
      BY <3>1, <3>3, <3>4, <2>1, <2>2, <1>a
  <2>. QED
    BY <2>1, <2>2, <2>3, <2>4, <2>5, <1>a
<1>14. InstancesOK(ids)'
  <2>1. Skipped' = Skipped
    BY DEF Skipped
  <2>2. /\ \A n \in DOMAIN heap : heap[n].obj \notin Skipped =>
             \/ \E j \in DOMAIN todo : todo[j].put /\ todo[j].node = n
             \/ ids[heap[n].obj] \in DOMAIN instances /\ instances[ids[heap[n].obj]] = n
        /\ \A d \in DOMAIN instances :
             \E n \in DOMAIN heap : heap[n].obj \notin Skipped /\ d = ids[heap[n].obj]
    BY <1>1 DEF InstancesOK
  <2>3. ASSUME NEW n, NEW j \in DOMAIN todo, todo[j].put, todo[j].node = n
        PROVE  \E j2 \in DOMAIN todo' : todo'[j2].put /\ todo'[j2].node = n
    <3>1. j # 1
      BY <2>3, <1>3
    <3>2. j - 1 \in DOMAIN todo' /\ todo'[j - 1] = todo[j]
      BY <3>1, <1>4
    <3>. QED
      BY <3>2, <2>3
  <2>4. \A n \in DOMAIN heap' : heap'[n].obj \notin Skipped' =>
           \/ \E j \in DOMAIN todo' : todo'[j].put /\ todo'[j].node = n
           \/ ids[heap'[n].obj] \in DOMAIN instances' /\ instances'[ids[heap'[n].obj]] = n
    BY <2>1, <2>2, <2>3, <1>a
  <2>5. \A d \in DOMAIN instances' :
           \E n \in DOMAIN heap' : heap'[n].obj \notin Skipped' /\ d = ids[heap'[n].obj]
    BY <2>1, <2>2, <1>a
  <2>. QED
    BY <2>4, <2>5 DEF InstancesOK
<1>15. StreamOK(w, N, k + 1, ids)'
  BY <1>1, <1>2, StreamRead
<1>16. UnpackingOK(w, N, k + 1, ids)'
  <2>1. k + 1 \in Offset' .. N
    BY <1>1, <1>2 DEF Offset
  <2>2. FullWalk(value, w, N)' /\ BuffersOK(w[N].seen)' /\ IdsOK(w[N].seen, ids)'
    BY <1>1 DEF BuffersOK, IdsOK, Skipped
  <2>. QED
    BY <2>1, <2>2, <1>9, <1>10, <1>11, <1>12, <1>13, <1>14, <1>15 DEF UnpackingOK
<1>17. StateOK'
  BY StateKept
<1>. QED
  BY <1>16, <1>17 DEF IInv

LEMMA DeferredKept ==
  ASSUME NEW seen, NEW ids, DeferredOK(seen, ids),
         value' = value, deferred' = deferred, DOMAIN heap \subseteq DOMAIN heap',
         \A n \in DOMAIN heap : heap'[n].obj = heap[n].obj
  PROVE  DeferredOK(seen, ids)'
<1>1. /\ \A o \in seen : Kind[o] = "buffer" => ids[o] \in DOMAIN deferred
      /\ \A d \in DOMAIN deferred : \E o \in seen : Kind[o] = "buffer" /\ d = ids[o]
  BY DEF DeferredOK
<1>2. ASSUME NEW d \in DOMAIN deferred, NEW n \in Nat, NEW i \in Nat, <<n, i>> \in deferred[d], n # Null
      PROVE  /\ n \in DOMAIN heap' /\ i \in DOMAIN value'.kids[heap'[n].obj]
             /\ value'.kids[heap'[n].obj][i] \in seen
             /\ value'.kids[heap'[n].obj][i] # Null
             /\ Kind[value'.kids[heap'[n].obj][i]] = "buffer"
             /\ d = ids[value'.kids[heap'[n].obj][i]]
  <2>1. /\ n \in DOMAIN heap /\ i \in DOMAIN value.kids[heap[n].obj]
        /\ value.kids[heap[n].obj][i] \in seen
        /\ value.kids[heap[n].obj][i] # Null
        /\ Kind[value.kids[heap[n].obj][i]] = "buffer"
        /\ d = ids[value.kids[heap[n].obj][i]]
    BY <1>2 DEF DeferredOK
  <2>. QED
    BY <2>1
<1>. QED
  BY <1>1, <1>2 DEF DeferredOK

LEMMA UnpackNullStep ==
  ASSUME Supported, StateOK, phase = "unpacking",
         NEW w, NEW N, NEW k, NEW ids, UnpackingOK(w, N, k, ids), UnpackNull
  PROVE  IInv'
<1>0. PICK slot : slot = Head(todo)
  OBVIOUS
<1>1. PICK o : o = Head(w[k].todo)
  OBVIOUS
<1>2. /\ todo # <<>> /\ ~slot.put /\ Head(stream).kind = "IGNORED"
      /\ todo' = Tail(todo) /\ stream' = Tail(stream)
      /\ UNCHANGED <<value, hop, phase, error, heap, root, inline, records,
                     deferred, size, sized, buffers, instances>>
  BY <1>0 DEF UnpackNull, Reading, Unpacking
<1>3. /\ Head(stream).kind = ItemKind(o, w[k].seen)
      /\ w[k + 1].seen = w[k].seen \cup ({o} \ {Null})
  BY <1>0, <1>1, <1>2, ReadFacts
<1>4. o = Null
  BY <1>2, <1>3 DEF ItemKind
<1>5. DeferredOK(w[k + 1].seen, ids)'
  <2>1. w[k + 1].seen = w[k].seen
    BY <1>3, <1>4
  <2>2. DeferredOK(w[k].seen, ids)
    BY DEF UnpackingOK
  <2>. QED
    BY <2>1, <2>2, <1>2, DeferredKept
<1>6. Refilled(slot, o) /\ Resolved(slot, o, ids)
  BY <1>2, <1>4 DEF UnpackingOK, BuiltOK, Refilled, Resolved
<1>. QED
  BY <1>0, <1>1, <1>2, <1>4, <1>5, <1>6, SlotRead

\* The node that a reference finds in the table: that of an object which has
\* been seen, and whose marker, if it had one, is not on the stack any more.
LEMMA ReferenceFound ==
  ASSUME Supported, StateOK, NEW w, NEW N, NEW k, NEW ids, UnpackingOK(w, N, k, ids),
         todo # <<>>, NEW slot, slot = Head(todo), ~slot.put,
         NEW o, o = Head(w[k].todo), o # Null, Kind[o] # "buffer", o \in w[k].seen
  PROVE  /\ GetInstance(Head(stream).id) \in DOMAIN heap
         /\ heap[GetInstance(Head(stream).id)].obj = o
<1>1. BuiltOK(w[k].seen) /\ MarkersOK(ids) /\ InstancesOK(ids) /\ SlotsOK(k)
  BY DEF UnpackingOK
<1>2. o = Wanted(value, heap, slot) /\ o \notin Skipped /\ Head(stream).id = ids[o] /\ o \in Objects
  BY ReadFacts
<1>3. PICK n \in DOMAIN heap : heap[n].obj = o
  BY <1>1 DEF BuiltOK
<1>4. slot = todo[1] /\ DOMAIN todo = 1 .. Len(todo) /\ Len(todo) \in Nat \ {0}
  BY <1>1, HeadTail DEF SlotsOK
<1>5. ASSUME NEW j \in DOMAIN todo, todo[j].put, todo[j].node = n
      PROVE  FALSE
  <2>1. j # 1 /\ 1 < j /\ 1 \in DOMAIN todo
    BY <1>4, <1>5
  <2>2. Kind[o] # "poly"
    BY <1>1, <1>3, <1>5 DEF MarkersOK
  <2>3. Wanted(value, heap, todo[1]) \in Below(value.kids, o) \cup {Null}
    BY <2>1, <1>1, <1>3, <1>4, <1>5 DEF MarkersOK
  <2>4. o \notin Below(value.kids, o)
    BY <2>2, <1>2, BelowFacts DEF StateOK
  <2>. QED
    BY <2>3, <2>4, <1>2, <1>4
<1>6. ids[o] \in DOMAIN instances /\ instances[ids[o]] = n
  BY <1>1, <1>2, <1>3, <1>5 DEF InstancesOK
<1>. QED
  BY <1>2, <1>3, <1>6 DEF GetInstance

LEMMA UnpackReferenceStep ==
  ASSUME Supported, StateOK, phase = "unpacking",
         NEW w, NEW N, NEW k, NEW ids, UnpackingOK(w, N, k, ids), UnpackReference
  PROVE  IInv'
<1>0. PICK slot : slot = Head(todo)
  OBVIOUS
<1>1. PICK o : o = Head(w[k].todo)
  OBVIOUS
<1>2. PICK m : m = GetInstance(Head(stream).id)
  OBVIOUS
<1>3. /\ todo # <<>> /\ ~slot.put /\ Head(stream).kind = "REFERENCE"
      /\ heap' = Fill(heap, slot, m)
      /\ todo' = Tail(todo) /\ stream' = Tail(stream)
      /\ UNCHANGED <<value, hop, phase, error, root, inline, records,
                     deferred, size, sized, buffers, instances>>
  BY <1>0, <1>2 DEF UnpackReference, Reading, Unpacking
<1>4. /\ Head(stream).kind = ItemKind(o, w[k].seen)
      /\ w[k + 1].seen = w[k].seen \cup ({o} \ {Null})
      /\ slot \in Slot
      /\ \/ /\ slot.node \in DOMAIN heap /\ slot.node # Null
            /\ slot.at \in DOMAIN value.kids[heap[slot.node].obj]
         \/ k = 0
  BY <1>0, <1>1, <1>3, ReadFacts
<1>5. o # Null /\ Kind[o] # "buffer" /\ o \in w[k].seen
  BY <1>3, <1>4 DEF ItemKind
<1>6. /\ slot.node \in DOMAIN heap /\ slot.node # Null
      /\ slot.at \in DOMAIN value.kids[heap[slot.node].obj]
  <2>1. w[0].seen = {}
    BY DEF UnpackingOK, FullWalk, Walk
  <2>. QED
    BY <2>1, <1>4, <1>5
<1>7. m \in DOMAIN heap /\ heap[m].obj = o
  BY <1>0, <1>1, <1>2, <1>3, <1>5, ReferenceFound
<1>8. heap \in Seq(Built) /\ slot.at \in DOMAIN heap[slot.node].kids
  BY <1>6 DEF UnpackingOK, BuiltOK, FilledOK
<1>9. m \in Nat /\ m # Null
  <2>1. DOMAIN heap = 1 .. Len(heap)
    BY <1>8, LenProperties
  <2>. QED
    BY <2>1, <1>7 DEF Null
<1>10. /\ heap' \in Seq(Built)
       /\ DOMAIN heap' = DOMAIN heap
       /\ \A n \in DOMAIN heap :
            /\ heap'[n].obj = heap[n].obj
            /\ heap'[n].owner = heap[n].owner
            /\ DOMAIN heap'[n].kids = DOMAIN heap[n].kids
            /\ \A i \in DOMAIN heap[n].kids :
                 heap'[n].kids[i] = IF n = slot.node /\ i = slot.at THEN m ELSE heap[n].kids[i]
  <2>1. IsValue(value)
    BY DEF StateOK
  <2>. QED
    BY <2>1, <1>3, <1>4, <1>6, <1>8, <1>9, FillFacts
<1>11. DeferredOK(w[k + 1].seen, ids)'
  <2>1. w[k + 1].seen = w[k].seen
    BY <1>4, <1>5
  <2>2. DeferredOK(w[k].seen, ids)
    BY DEF UnpackingOK
  <2>. QED
    BY <2>1, <2>2, <1>3, <1>10, DeferredKept
<1>12. \A n \in DOMAIN heap : \A i \in DOMAIN heap[n].kids :
           \/ heap'[n].kids[i] = heap[n].kids[i]
           \/ /\ n = slot.node /\ i = slot.at
              /\ heap'[n].kids[i] \in DOMAIN heap
              /\ heap[heap'[n].kids[i]].obj = o
  BY <1>7, <1>10
<1>13. heap'[slot.node].kids[slot.at] # Null
  BY <1>6, <1>8, <1>9, <1>10
<1>14. Refilled(slot, o)
  BY <1>10, <1>12 DEF Refilled
<1>15. Resolved(slot, o, ids)
  BY <1>3, <1>13 DEF Resolved
<1>. QED
  BY <1>0, <1>1, <1>3, <1>5, <1>11, <1>14, <1>15, SlotRead

LEMMA UnpackDeferredStep ==
  ASSUME Supported, StateOK, phase = "unpacking",
         NEW w, NEW N, NEW k, NEW ids, UnpackingOK(w, N, k, ids), UnpackDeferred
  PROVE  IInv'
<1>0. PICK slot : slot = Head(todo)
  OBVIOUS
<1>1. PICK o : o = Head(w[k].todo)
  OBVIOUS
<1>2. PICK id : id = Head(stream).id
  OBVIOUS
<1>3. /\ todo # <<>> /\ ~slot.put /\ Head(stream).kind = "DEFERRED"
      /\ deferred' = PutDeferred(id, <<slot.node, slot.at>>)
      /\ todo' = Tail(todo) /\ stream' = Tail(stream)
      /\ UNCHANGED <<value, hop, phase, error, heap, root, inline, records,
                     size, sized, buffers, instances>>
  BY <1>0, <1>2 DEF UnpackDeferred, Reading, Unpacking
<1>4. /\ Head(stream).kind = ItemKind(o, w[k].seen)
      /\ w[k + 1].seen = w[k].seen \cup ({o} \ {Null})
      /\ o # Null => id = ids[o]
      /\ \/ /\ slot.node \in DOMAIN heap /\ slot.node # Null
            /\ slot.at \in DOMAIN value.kids[heap[slot.node].obj]
            /\ o = value.kids[heap[slot.node].obj][slot.at]
         \/ slot.node = Null
  BY <1>0, <1>1, <1>2, <1>3, ReadFacts
<1>5. o # Null /\ Kind[o] = "buffer" /\ id = ids[o]
  BY <1>3, <1>4 DEF ItemKind
<1>6. PICK ptr : ptr = <<slot.node, slot.at>>
  OBVIOUS
<1>7. /\ DOMAIN deferred' = DOMAIN deferred \cup {id}
      /\ \A d \in DOMAIN deferred \cup {id} :
           deferred'[d] = IF d = id
                          THEN (IF id \in DOMAIN deferred THEN deferred[id] ELSE {}) \cup {ptr}
                          ELSE deferred[d]
  BY <1>3, <1>6 DEF PutDeferred, SetAt
<1>8. DeferredOK(w[k].seen, ids)
  BY DEF UnpackingOK
<1>9. DeferredOK(w[k + 1].seen, ids)'
  <2>1. w[k + 1].seen = w[k].seen \cup {o}
    BY <1>4, <1>5
  <2>2. \A x \in w[k + 1].seen : Kind[x] = "buffer" => ids[x] \in DOMAIN deferred'
    BY <2>1, <1>5, <1>7, <1>8 DEF DeferredOK
  <2>3. \A d \in DOMAIN deferred' : \E x \in w[k + 1].seen : Kind[x] = "buffer" /\ d = ids[x]
    BY <2>1, <1>5, <1>7, <1>8 DEF DeferredOK
  <2>4. ASSUME NEW d \in DOMAIN deferred', NEW n \in Nat, NEW i \in Nat,
               <<n, i>> \in deferred'[d], n # Null
        PROVE  /\ n \in DOMAIN heap /\ i \in DOMAIN value.kids[heap[n].obj]
               /\ value.kids[heap[n].obj][i] \in w[k + 1].seen
               /\ value.kids[heap[n].obj][i] # Null
               /\ Kind[value.kids[heap[n].obj][i]] = "buffer"
               /\ d = ids[value.kids[heap[n].obj][i]]
    <3>1. (d \in DOMAIN deferred /\ <<n, i>> \in deferred[d]) \/ (d = id /\ <<n, i>> = ptr)
      BY <2>4, <1>7
    <3>2. CASE d \in DOMAIN deferred /\ <<n, i>> \in deferred[d]
      BY <3>2, <2>1, <2>4, <1>8 DEF DeferredOK
    <3>3. CASE d = id /\ <<n, i>> = ptr
      <4>1. n = slot.node /\ i = slot.at
        BY <3>3, <1>6
      <4>. QED
        BY <4>1, <3>3, <2>1, <2>4, <1>4, <1>5
    <3>. QED
      BY <3>1, <3>2, <3>3
  <2>5. value' = value /\ heap' = heap
    BY <1>3
  <2>. QED
    BY <2>2, <2>3, <2>4, <2>5 DEF DeferredOK
<1>10. Refilled(slot, o)
  BY <1>3 DEF UnpackingOK, BuiltOK, Refilled
<1>11. Resolved(slot, o, ids)
  BY <1>5, <1>6, <1>7 DEF Resolved
<1>. QED
  BY <1>0, <1>1, <1>3, <1>5, <1>9, <1>10, <1>11, SlotRead

-----------------------------------------------------------------------------
(***************************************************************************)
(* An object that is unpacked for the first time: a new node, in the slot  *)
(* that was open, with slots of its own and, unless it is a polymorph, a   *)
(* marker behind them.                                                     *)
(***************************************************************************)

\* The nodes are joined by n, the object o, whose slots are empty.
Grown(slot, o, n) ==
    /\ heap' \in Seq(Built)
    /\ n \in Nat \ {Null} /\ n \notin DOMAIN heap
    /\ DOMAIN heap' = DOMAIN heap \cup {n}
    /\ heap = <<>> => n = 1
    /\ heap'[n].obj = o
    /\ \/ heap'[n].owner = n
       \/ heap'[n].owner = Message /\ Kind[o] = "bytes"
    /\ DOMAIN heap'[n].kids = DOMAIN value.kids[o]
    /\ \A i \in DOMAIN value.kids[o] : heap'[n].kids[i] = Null
    /\ \A m \in DOMAIN heap :
         /\ heap'[m].obj = heap[m].obj /\ heap'[m].owner = heap[m].owner
         /\ DOMAIN heap'[m].kids = DOMAIN heap[m].kids
         /\ \A i \in DOMAIN heap[m].kids :
              heap'[m].kids[i] = IF m = slot.node /\ i = slot.at THEN n ELSE heap[m].kids[i]

LEMMA NodeGrown ==
  ASSUME IsValue(value), heap \in Seq(Built), NEW slot \in Slot,
         \/ /\ slot.node \in DOMAIN heap /\ slot.node # Null
            /\ slot.at \in DOMAIN heap[slot.node].kids
         \/ slot.node = Null /\ heap = <<>>,
         NEW o \in Objects, Kind[o] # "buffer",
         NEW n, n = Len(heap) + 1,
         NEW owner, owner = (IF Kind[o] \in {"bytes", "buffer"} THEN Message ELSE n),
         heap' = Append(Fill(heap, slot, n), Node(o, owner))
  PROVE  Grown(slot, o, n)
<1>1. /\ Len(heap) \in Nat /\ DOMAIN heap = 1 .. Len(heap)
      /\ heap = <<>> => Len(heap) = 0 /\ DOMAIN heap = {}
  BY LenProperties, EmptySeq
<1>2. n \in Nat /\ n # Null /\ n \notin DOMAIN heap /\ (heap = <<>> => n = 1)
      /\ 1 .. n = DOMAIN heap \cup {n}
  BY <1>1 DEF Null
<1>3. PICK h : h = Fill(heap, slot, n)
  OBVIOUS
<1>4. /\ h \in Seq(Built) /\ Len(h) = Len(heap) /\ DOMAIN h = DOMAIN heap
      /\ \A m \in DOMAIN heap :
           /\ h[m].obj = heap[m].obj
           /\ h[m].owner = heap[m].owner
           /\ DOMAIN h[m].kids = DOMAIN heap[m].kids
           /\ \A i \in DOMAIN heap[m].kids :
                h[m].kids[i] = IF m = slot.node /\ i = slot.at THEN n ELSE heap[m].kids[i]
  <2>1. CASE slot.node = Null /\ heap = <<>>
    <3>1. h = heap
      BY <2>1, <1>3 DEF Fill
    <3>. QED
      BY <3>1, <2>1, <1>1
  <2>2. CASE /\ slot.node \in DOMAIN heap /\ slot.node # Null
             /\ slot.at \in DOMAIN heap[slot.node].kids
    BY <2>2, <1>2, <1>3, FillFacts
  <2>. QED
    BY <2>1, <2>2
<1>5. owner \in Nat /\ (owner = n \/ (owner = Message /\ Kind[o] = "bytes"))
  <2>1. Kind[o] \in {"bytes", "buffer"} <=> Kind[o] = "bytes"
    OBVIOUS
  <2>2. Message \in Nat
    BY DEF Message
  <2>. QED
    BY <2>1, <2>2, <1>2
<1>6. PICK node : node = Node(o, owner)
  OBVIOUS
<1>7. /\ node \in Built /\ node.obj = o /\ node.owner = owner
      /\ DOMAIN node.kids = DOMAIN value.kids[o]
      /\ \A i \in DOMAIN value.kids[o] : node.kids[i] = Null
  BY <1>5, <1>6, NodeFacts
<1>8. heap' = Append(h, node)
  BY <1>3, <1>6
<1>9. /\ heap' \in Seq(Built)
      /\ Len(heap') = n
      /\ \A m \in DOMAIN heap : heap'[m] = h[m]
      /\ heap'[n] = node
  <2>1. /\ Append(h, node) \in Seq(Built)
        /\ Len(Append(h, node)) = Len(h) + 1
        /\ \A m \in 1 .. Len(h) : Append(h, node)[m] = h[m]
        /\ Append(h, node)[Len(h) + 1] = node
    BY <1>4, <1>7, AppendProperties
  <2>. QED
    BY <2>1, <1>1, <1>4, <1>8
<1>10. DOMAIN heap' = DOMAIN heap \cup {n}
  BY <1>2, <1>9, LenProperties
<1>. QED
  BY <1>2, <1>4, <1>5, <1>7, <1>9, <1>10 DEF Grown

\* The slots of n are open, and behind them is its marker, if it has one.
Pushed(new, o, n, id) ==
    /\ new \in Seq(Slot)
    /\ \A j \in DOMAIN new :
         /\ new[j].node = n
         /\ ~new[j].put => new[j].at \in DOMAIN value.kids[o]
         /\ new[j].put => new[j].at = id /\ Kind[o] # "poly"
    /\ \A i, j \in DOMAIN new : new[i].put /\ new[j].put => i = j
    /\ \A i \in DOMAIN value.kids[o] : \E j \in DOMAIN new : ~new[j].put /\ new[j].at = i
    /\ Kind[o] # "poly" => \E j \in DOMAIN new : new[j].put

NewStack(n, o, id) ==
    Slots(n, o) \o (IF Kind[o] \in {"poly"} THEN <<>>
                    ELSE << [put |-> TRUE, node |-> n, at |-> id] >>)

LEMMA NewSlots ==
  ASSUME IsValue(value), NEW o \in Objects, NEW n \in Nat \ {Null}, NEW id \in Nat,
         NEW h, h[n].obj = o,
         NEW objs \in Seq(Objects \cup {Null}), NEW slots \in Seq(Slot),
         Matches(value, h, objs, slots)
  PROVE  /\ Pushed(NewStack(n, o, id), o, n, id)
         /\ Matches(value, h, value.kids[o] \o objs, NewStack(n, o, id) \o slots)
<1>a. PICK put : put = [put |-> TRUE, node |-> n, at |-> id]
  OBVIOUS
<1>b. PICK new : new = NewStack(n, o, id)
  OBVIOUS
<1>c. new = Slots(n, o) \o (IF Kind[o] \in {"poly"} THEN <<>> ELSE <<put>>)
  BY <1>a, <1>b DEF NewStack
<1>1. PICK s : s = Slots(n, o)
  OBVIOUS
<1>2. PICK c : c = Len(value.kids[o])
  OBVIOUS
<1>3. /\ s \in Seq(Slot) /\ Len(s) = c /\ DOMAIN s = 1 .. c /\ c \in Nat
      /\ DOMAIN value.kids[o] = 1 .. c
      /\ value.kids[o] \in Seq(Objects \cup {Null})
      /\ \A i \in 1 .. c : /\ ~s[i].put /\ s[i].node = n /\ s[i].at = i
                           /\ Wanted(value, h, s[i]) = value.kids[o][i]
  BY <1>1, <1>2, SlotsFacts, ValueFacts
<1>4. put \in Slot /\ put.put /\ put.node = n /\ put.at = id
  BY <1>a DEF Slot
<1>5. CASE Kind[o] = "poly"
  <2>1. new = s
    BY <1>c, <1>1, <1>3, <1>5, ConcatEmptySeq
  <2>2. Pushed(new, o, n, id)
    <3>1. \A j \in DOMAIN s : /\ s[j].node = n /\ ~s[j].put
                              /\ s[j].at \in DOMAIN value.kids[o]
      BY <1>3
    <3>2. \A i \in DOMAIN value.kids[o] : \E j \in DOMAIN s : ~s[j].put /\ s[j].at = i
      BY <1>3
    <3>3. \A j \in DOMAIN s : s[j].put => s[j].at = id /\ Kind[o] # "poly"
      BY <3>1
    <3>4. \A i, j \in DOMAIN s : s[i].put /\ s[j].put => i = j
      BY <3>1
    <3>5. Pushed(s, o, n, id)
      BY <3>1, <3>2, <3>3, <3>4, <1>3, <1>5 DEF Pushed
    <3>. QED
      BY <3>5, <2>1
  <2>3. Matches(value, h, value.kids[o] \o objs, s \o slots)
    BY <1>2, <1>3, SlotsPushed
  <2>. QED
    BY <1>b, <2>1, <2>2, <2>3
<1>6. CASE Kind[o] # "poly"
  <2>1. new = s \o <<put>>
    BY <1>c, <1>1, <1>6
  <2>2. <<put>> \in Seq(Slot) /\ Len(<<put>>) = 1 /\ <<put>>[1] = put
    BY <1>4
  <2>3. /\ new \in Seq(Slot) /\ Len(new) = c + 1
        /\ \A i \in 1 .. (c + 1) : new[i] = IF i <= c THEN s[i] ELSE <<put>>[i - c]
    <3>1. PICK t : t = <<put>>
      OBVIOUS
    <3>2. t \in Seq(Slot) /\ Len(t) = 1 /\ s \in Seq(Slot) /\ Len(s) = c
      BY <3>1, <2>2, <1>3
    <3>3. /\ s \o t \in Seq(Slot) /\ Len(s \o t) = Len(s) + Len(t)
          /\ \A i \in 1 .. (Len(s) + Len(t)) : (s \o t)[i] = IF i <= Len(s) THEN s[i] ELSE t[i - Len(s)]
      BY ONLY <3>2, ConcatProperties
    <3>4. new = s \o t
      BY <3>1, <2>1
    <3>. QED
      BY ONLY <3>1, <3>2, <3>3, <3>4
  <2>4. DOMAIN new = 1 .. (c + 1) /\ c + 1 \in 1 .. (c + 1)
    BY <2>3, <1>3, LenProperties
  <2>5. \A i \in 1 .. c : i \in DOMAIN new /\ new[i] = s[i]
    BY <2>3, <2>4, <1>3
  <2>6. new[c + 1] = put
    <3>1. PICK j : j = c + 1
      OBVIOUS
    <3>2. j \in 1 .. (c + 1) /\ ~(j <= c) /\ j - c = 1
      BY <3>1, <1>3
    <3>. QED
      BY <3>1, <3>2, <2>2, <2>3
  <2>7. \A j \in DOMAIN new : j \in 1 .. c \/ j = c + 1
    BY <2>4, <1>3
  <2>8. Pushed(new, o, n, id)
    <3>1. PICK last \in DOMAIN new : /\ new[last] = put
                                     /\ \A j \in DOMAIN new : j \in 1 .. c \/ j = last
      BY <2>4, <2>6, <2>7
    <3>2. \A j \in 1 .. c : /\ j \in DOMAIN new /\ new[j].node = n /\ ~new[j].put
                            /\ new[j].at = j /\ j \in DOMAIN value.kids[o]
      BY <2>5, <1>3
    <3>3. \A j \in DOMAIN new : /\ new[j].node = n
                                /\ ~new[j].put => new[j].at \in DOMAIN value.kids[o]
                                /\ new[j].put => new[j].at = id /\ Kind[o] # "poly"
      BY <3>1, <3>2, <1>4, <1>6
    <3>4. \A i, j \in DOMAIN new : new[i].put /\ new[j].put => i = j
      BY <3>1, <3>2
    <3>5. \A i \in DOMAIN value.kids[o] : \E j \in DOMAIN new : ~new[j].put /\ new[j].at = i
      BY <3>2, <1>3
    <3>6. \E j \in DOMAIN new : new[j].put
      BY <3>1, <1>4
    <3>. QED
      BY <3>3, <3>4, <3>5, <3>6, <2>3 DEF Pushed
  <2>9. Matches(value, h, value.kids[o] \o objs, s \o (<<put>> \o slots))
    <3>1. Matches(value, h, objs, <<put>> \o slots)
      BY <1>4, MarkerPushed
    <3>2. <<put>> \o slots \in Seq(Slot)
      BY <2>2, ConcatProperties
    <3>. QED
      BY <3>1, <3>2, <1>2, <1>3, SlotsPushed
  <2>10. (s \o <<put>>) \o slots = s \o (<<put>> \o slots)
    BY <2>2, <1>3, ConcatAssociative
  <2>. QED
    BY <1>b, <2>1, <2>8, <2>9, <2>10
<1>. QED
  BY <1>5, <1>6

LEMMA UnpackInstanceStep ==
  ASSUME Supported, StateOK, phase = "unpacking",
         NEW w, NEW N, NEW k, NEW ids, UnpackingOK(w, N, k, ids), UnpackInstance
  PROVE  IInv'
<1>0. PICK slot : slot = Head(todo)
  OBVIOUS
<1>1. PICK o : o = Head(w[k].todo)
  OBVIOUS
<1>2. PICK id : id = Head(stream).id
  OBVIOUS
<1>3. PICK n : n = Len(heap) + 1
  OBVIOUS
<1>4. /\ todo # <<>> /\ ~slot.put /\ Head(stream).kind = "INSTANCE" /\ stream' = Tail(stream)
      /\ UNCHANGED <<value, hop, phase, root, inline, records, deferred, size, sized, buffers>>
  BY <1>0 DEF UnpackInstance, UnpackAs, Reading, Unpacking
<1>5. /\ k \in Nat /\ N \in Nat /\ k < N
      /\ w[k] \in WalkState /\ w[k].todo # <<>>
      /\ slot \in Slot
      /\ o = Wanted(value, heap, slot)
      /\ Matches(value, heap, Tail(w[k].todo), Tail(todo))
      /\ o \in Objects \cup {Null}
      /\ w[k + 1] = After(value, w[k])
      /\ w[k + 1].seen = w[k].seen \cup ({o} \ {Null})
      /\ w[k].seen \subseteq w[N].seen
      /\ o # Null => o \in w[N].seen /\ o \notin Skipped
      /\ stream # <<>> /\ Head(stream) \in Item
      /\ Head(stream).obj = o
      /\ Head(stream).kind = ItemKind(o, w[k].seen)
      /\ o # Null => id = ids[o]
      /\ \/ /\ slot.node \in DOMAIN heap /\ slot.node # Null
            /\ slot.at \in DOMAIN value.kids[heap[slot.node].obj]
            /\ o = value.kids[heap[slot.node].obj][slot.at]
         \/ slot.node = Null /\ k = 0 /\ heap = <<>> /\ Len(todo) = 1 /\ o = value.root
  BY <1>0, <1>1, <1>2, <1>4, ReadFacts
<1>6. /\ o \in Objects /\ o # Null /\ Kind[o] # "buffer" /\ o \notin w[k].seen
      /\ o \in w[N].seen /\ o \notin Skipped /\ id = ids[o] /\ id \in Nat
  BY <1>2, <1>4, <1>5 DEF ItemKind, Item
<1>7. /\ FullWalk(value, w, N) /\ k \in Offset .. N /\ BuffersOK(w[N].seen)
      /\ IdsOK(w[N].seen, ids) /\ StreamOK(w, N, k, ids) /\ SlotsOK(k)
      /\ BuiltOK(w[k].seen) /\ FilledOK(ids) /\ MarkersOK(ids) /\ InstancesOK(ids)
      /\ DeferredOK(w[k].seen, ids) /\ IsValue(value)
  BY DEF UnpackingOK, StateOK
<1>9. PICK owner : owner = IF Kind[o] \in {"bytes", "buffer"} THEN Message ELSE n
  OBVIOUS
<1>10. PICK new : new = NewStack(n, o, id)
  OBVIOUS
<1>11. /\ heap' = Append(Fill(heap, slot, n), Node(o, owner))
       /\ todo' = new \o Tail(todo)
       /\ Kind[o] = "poly" => PutInstance(id, n)
       /\ Kind[o] # "poly" => instances' = instances /\ error' = error
  BY <1>0, <1>2, <1>3, <1>5, <1>9, <1>10 DEF UnpackInstance, UnpackAs, NewStack
<1>12. Skipped' = Skipped /\ Offset' = Offset
  BY <1>4 DEF Skipped, Offset
\* The id is new to the table.
<1>13. \A m \in DOMAIN heap : heap[m].obj \in w[k].seen /\ heap[m].obj # o
  BY <1>6, <1>7 DEF BuiltOK
<1>14. \A m \in DOMAIN heap : heap[m].obj \notin Skipped => ids[heap[m].obj] # id
  BY <1>5, <1>6, <1>7, <1>13 DEF IdsOK
<1>15. id \notin DOMAIN instances
  BY <1>7, <1>14 DEF InstancesOK
<1>16. /\ error' = error
       /\ Kind[o] = "poly" => instances' = SetAt(instances, id, n)
       /\ Kind[o] # "poly" => instances' = instances
  BY <1>11, <1>15 DEF PutInstance
<1>17. Grown(slot, o, n)
  <2>1. heap \in Seq(Built)
    BY <1>7 DEF BuiltOK
  <2>2. \/ /\ slot.node \in DOMAIN heap /\ slot.node # Null
           /\ slot.at \in DOMAIN heap[slot.node].kids
        \/ slot.node = Null /\ heap = <<>>
    BY <1>5, <1>7 DEF FilledOK
  <2>. QED
    BY <2>1, <2>2, <1>3, <1>5, <1>6, <1>7, <1>9, <1>11, NodeGrown
<1>18. /\ heap' \in Seq(Built)
       /\ n \in Nat \ {Null} /\ n \notin DOMAIN heap
       /\ DOMAIN heap' = DOMAIN heap \cup {n}
       /\ heap = <<>> => n = 1
       /\ heap'[n].obj = o
       /\ \/ heap'[n].owner = n
          \/ heap'[n].owner = Message /\ Kind[o] = "bytes"
       /\ DOMAIN heap'[n].kids = DOMAIN value.kids[o]
       /\ \A i \in DOMAIN value.kids[o] : heap'[n].kids[i] = Null
       /\ \A m \in DOMAIN heap :
            /\ heap'[m].obj = heap[m].obj /\ heap'[m].owner = heap[m].owner
            /\ DOMAIN heap'[m].kids = DOMAIN heap[m].kids
            /\ \A i \in DOMAIN heap[m].kids :
                 heap'[m].kids[i] = IF m = slot.node /\ i = slot.at THEN n ELSE heap[m].kids[i]
  BY <1>17 DEF Grown
<1>19. todo \in Seq(Slot) /\ slot = todo[1] /\ 1 \in DOMAIN todo /\ Tail(todo) \in Seq(Slot)
  BY <1>0, <1>4, <1>7, HeadTail DEF SlotsOK
<1>20. \A j \in DOMAIN todo : ~todo[j].put =>
         /\ Wanted(value, heap', todo[j]) = Wanted(value, heap, todo[j])
         /\ \/ todo[j].node = Null /\ k = 0
            \/ /\ todo[j].node \in DOMAIN heap
               /\ todo[j].at \in DOMAIN value.kids[heap[todo[j].node].obj]
  <2>1. \A j \in DOMAIN todo : ~todo[j].put =>
         \/ todo[j].node = Null /\ k = 0
         \/ /\ todo[j].node \in DOMAIN heap
            /\ todo[j].at \in DOMAIN value.kids[heap[todo[j].node].obj]
    BY <1>7 DEF SlotsOK
  <2>. QED
    BY <2>1, <1>18 DEF Wanted
<1>21. Tail(w[k].todo) \in Seq(Objects \cup {Null})
  BY <1>5, HeadTail DEF WalkState
<1>22. Matches(value, heap', Tail(w[k].todo), Tail(todo))
  <2>1. PICK t : t = Tail(todo)
    OBVIOUS
  <2>2. \A j \in 1 .. Len(t) : \E m \in DOMAIN todo : t[j] = todo[m]
    BY <2>1, <1>4, <1>19, HeadTail
  <2>3. PICK h : h = heap'
    OBVIOUS
  <2>4. \A j \in 1 .. Len(t) : ~t[j].put => Wanted(value, h, t[j]) = Wanted(value, heap, t[j])
    BY <2>2, <2>3, <1>20
  <2>5. t \in Seq(Slot) /\ Matches(value, heap, Tail(w[k].todo), t)
    BY <2>1, <1>5, <1>19
  <2>6. Matches(value, h, Tail(w[k].todo), t)
    BY ONLY <2>4, <2>5, <1>21, SlotsKept
  <2>. QED
    BY <2>1, <2>3, <2>6
<1>23. Pushed(new, o, n, id) /\ Matches(value, heap', value.kids[o] \o Tail(w[k].todo), todo')
  <2>1. PICK h : h = heap'
    OBVIOUS
  <2>2. PICK t : t = Tail(todo)
    OBVIOUS
  <2>3. PICK objs : objs = Tail(w[k].todo)
    OBVIOUS
  <2>4. h[n].obj = o /\ t \in Seq(Slot) /\ objs \in Seq(Objects \cup {Null}) /\ Matches(value, h, objs, t)
    BY <2>1, <2>2, <2>3, <1>18, <1>19, <1>21, <1>22
  <2>5. n \in Nat \ {Null}
    BY <1>18
  <2>6. Pushed(new, o, n, id) /\ Matches(value, h, value.kids[o] \o objs, new \o t)
    <3>1. IsValue(value) /\ o \in Objects /\ id \in Nat
      BY <1>6, <1>7
    <3>. QED
      BY ONLY <3>1, <2>4, <2>5, <1>10, NewSlots
  <2>. QED
    BY <2>1, <2>2, <2>3, <2>6, <1>11
<1>24. /\ new \in Seq(Slot)
       /\ \A j \in DOMAIN new :
            /\ new[j].node = n
            /\ ~new[j].put => new[j].at \in DOMAIN value.kids[o]
            /\ new[j].put => new[j].at = id /\ Kind[o] # "poly"
       /\ \A i, j \in DOMAIN new : new[i].put /\ new[j].put => i = j
       /\ \A i \in DOMAIN value.kids[o] : \E j \in DOMAIN new : ~new[j].put /\ new[j].at = i
       /\ Kind[o] # "poly" => \E j \in DOMAIN new : new[j].put
  BY <1>23 DEF Pushed
<1>25. PICK c : c = Len(new)
  OBVIOUS
<1>26. /\ todo' \in Seq(Slot) /\ c \in Nat /\ DOMAIN new = 1 .. c
       /\ DOMAIN todo = 1 .. Len(todo) /\ Len(todo) \in Nat \ {0}
       /\ DOMAIN todo' = 1 .. (c + (Len(todo) - 1))
       /\ \A j \in DOMAIN new : j \in DOMAIN todo' /\ todo'[j] = new[j]
       /\ \A j \in DOMAIN todo' : j \notin DOMAIN new => j > c
       /\ \A j \in DOMAIN todo' : j > c =>
            j - c + 1 \in DOMAIN todo /\ j - c + 1 # 1 /\ todo'[j] = todo[j - c + 1]
       /\ \A j \in DOMAIN todo : j # 1 =>
            j - 1 + c \in DOMAIN todo' /\ todo'[j - 1 + c] = todo[j]
  <2>1. PICK t : t = todo'
    OBVIOUS
  <2>2. t = new \o Tail(todo)
    BY <2>1, <1>11
  <2>3. /\ t \in Seq(Slot) /\ c \in Nat /\ DOMAIN new = 1 .. c
        /\ DOMAIN todo = 1 .. Len(todo) /\ Len(todo) \in Nat \ {0}
        /\ DOMAIN t = 1 .. (c + (Len(todo) - 1))
        /\ \A j \in 1 .. c : j \in DOMAIN t /\ t[j] = new[j]
        /\ \A j \in DOMAIN t : j > c => j - c + 1 \in DOMAIN todo /\ j - c + 1 # 1 /\ t[j] = todo[j - c + 1]
        /\ \A j \in DOMAIN todo : j # 1 => j - 1 + c \in DOMAIN t /\ t[j - 1 + c] = todo[j]
    <3>1. todo \in Seq(Slot) /\ todo # <<>> /\ new \in Seq(Slot)
      BY <1>4, <1>19, <1>24
    <3>2. Restack(todo, new, t, c)
      BY ONLY <3>1, <2>2, <1>25, Restacked
    <3>. QED
      BY <3>2 DEF Restack
  <2>4. \A j \in DOMAIN t : j \notin DOMAIN new => j > c
    BY <2>3
  <2>. QED
    BY <2>1, <2>3, <2>4
\* What is on the stack is new, or was on it, behind the slot.
<1>27. \A j \in DOMAIN new : ~new[j].put => Wanted(value, heap', new[j]) = value.kids[o][new[j].at]
  BY <1>18, <1>24 DEF Wanted
<1>28. \A j \in DOMAIN todo : j # 1 => \E j2 \in DOMAIN todo' : todo'[j2] = todo[j]
  BY <1>26
<1>29. SlotsOK(k + 1)'
  <2>1. ASSUME NEW j \in DOMAIN todo', ~todo'[j].put
        PROVE  /\ todo'[j].node \in DOMAIN heap'
               /\ todo'[j].at \in DOMAIN value.kids[heap'[todo'[j].node].obj]
    <3>1. CASE j \in DOMAIN new
      BY <3>1, <2>1, <1>18, <1>24, <1>26
    <3>2. CASE j \notin DOMAIN new
      <4>1. PICK m \in DOMAIN todo : m # 1 /\ todo'[j] = todo[m]
        BY <3>2, <1>26
      <4>2. k # 0
        <5>1. k = 0 => Len(todo) = 1
          BY <1>7 DEF SlotsOK
        <5>. QED
          BY <5>1, <4>1, <1>26
      <4>3. /\ todo[m].node \in DOMAIN heap
            /\ todo[m].at \in DOMAIN value.kids[heap[todo[m].node].obj]
        BY <4>1, <4>2, <2>1, <1>20
      <4>. QED
        BY <4>1, <4>3, <1>18
    <3>. QED
      BY <3>1, <3>2
  <2>2. k + 1 # 0 /\ value' = value
    BY <1>4, <1>5
  <2>. QED
    BY <2>1, <2>2, <1>26 DEF SlotsOK
<1>30. Matches(value, heap, w[k + 1].todo, todo)'
  <2>1. HeadKind(w[k]) = "INSTANCE"
    BY <1>1, <1>4, <1>5 DEF HeadKind
  <2>2. w[k + 1].todo = value.kids[o] \o Tail(w[k].todo)
    <3>1. w[k + 1].todo = (IF HeadKind(w[k]) = "INSTANCE" THEN value.kids[Head(w[k].todo)] ELSE <<>>)
                             \o Tail(w[k].todo)
      <4>1. After(value, w[k]).todo =
              (IF HeadKind(w[k]) = "INSTANCE" THEN value.kids[Head(w[k].todo)] ELSE <<>>)
                 \o Tail(w[k].todo)
        BY ONLY DEF After
      <4>. QED
        BY ONLY <4>1, <1>5
    <3>. QED
      BY ONLY <3>1, <2>1, <1>1
  <2>. QED
    BY <2>2, <1>4, <1>23
<1>31. w[k + 1].seen = w[k].seen \cup {o}
  BY <1>5, <1>6
<1>32. BuiltOK(w[k + 1].seen)'
  <2>1. /\ CopiesOwned
        /\ \A m, p \in DOMAIN heap : heap[m].obj = heap[p].obj => m = p
        /\ \A m \in DOMAIN heap : heap[m].obj \in w[k].seen /\ Kind[heap[m].obj] # "buffer"
        /\ \A x \in w[k].seen : Kind[x] # "buffer" => \E m \in DOMAIN heap : heap[m].obj = x
        /\ heap # <<>> => heap[1].obj = value.root
        /\ root = 1
    BY <1>7 DEF BuiltOK
  <2>2. CopiesOwned'
    BY <2>1, <1>18 DEF CopiesOwned
  <2>3. \A m, p \in DOMAIN heap' : heap'[m].obj = heap'[p].obj => m = p
    BY <2>1, <1>13, <1>18
  <2>4. \A m \in DOMAIN heap' : heap'[m].obj \in w[k + 1].seen /\ Kind[heap'[m].obj] # "buffer"
    BY <2>1, <1>6, <1>18, <1>31
  <2>5. \A x \in w[k + 1].seen : Kind[x] # "buffer" => \E m \in DOMAIN heap' : heap'[m].obj = x
    BY <2>1, <1>18, <1>31
  <2>6. heap'[1].obj = value'.root
    <3>1. CASE heap = <<>>
      <4>1. DOMAIN <<>> = {}
        OBVIOUS
      <4>2. o = value.root
        BY <4>1, <3>1, <1>5
      <4>. QED
        BY <4>2, <3>1, <1>4, <1>18
    <3>2. CASE heap # <<>>
      <4>1. heap \in Seq(Built)
        BY <1>7 DEF BuiltOK
      <4>2. 1 \in DOMAIN heap
        BY <4>1, <3>2, HeadTail
      <4>. QED
        BY <4>2, <3>2, <2>1, <1>4, <1>18
    <3>. QED
      BY <3>1, <3>2
  <2>. QED
    BY <2>1, <2>2, <2>3, <2>4, <2>5, <2>6, <1>4, <1>18 DEF BuiltOK
<1>33. FilledOK(ids)'
  <2>. SUFFICES ASSUME NEW m \in DOMAIN heap'
                PROVE  /\ DOMAIN heap'[m].kids = DOMAIN value'.kids[heap'[m].obj]
                       /\ \A i \in DOMAIN heap'[m].kids :
                            /\ heap'[m].kids[i] # Null =>
                                 /\ heap'[m].kids[i] \in DOMAIN heap'
                                 /\ heap'[heap'[m].kids[i]].obj = value'.kids[heap'[m].obj][i]
                            /\ \/ \E j \in DOMAIN todo' : ~todo'[j].put /\ todo'[j].node = m /\ todo'[j].at = i
                               \/ value'.kids[heap'[m].obj][i] = Null
                               \/ heap'[m].kids[i] # Null
                               \/ /\ Kind[value'.kids[heap'[m].obj][i]] = "buffer"
                                  /\ ids[value'.kids[heap'[m].obj][i]] \in DOMAIN deferred'
                                  /\ <<m, i>> \in deferred'[ids[value'.kids[heap'[m].obj][i]]]
    BY DEF FilledOK
  <2>1. value' = value /\ deferred' = deferred
    BY <1>4
  <2>2. CASE m = n
    <3>1. ASSUME NEW i \in DOMAIN heap'[n].kids
          PROVE  /\ heap'[n].kids[i] = Null
                 /\ \E j \in DOMAIN todo' : ~todo'[j].put /\ todo'[j].node = n /\ todo'[j].at = i
      <4>1. i \in DOMAIN value.kids[o] /\ heap'[n].kids[i] = Null
        BY <1>18
      <4>2. PICK j \in DOMAIN new : ~new[j].put /\ new[j].at = i
        BY <4>1, <1>24
      <4>. QED
        BY <4>1, <4>2, <1>24, <1>26
    <3>2. DOMAIN heap'[n].kids = DOMAIN value'.kids[heap'[n].obj]
      BY <2>1, <1>18
    <3>. QED
      BY <3>1, <3>2, <2>2
  <2>3. CASE m # n
    <3>1. m \in DOMAIN heap /\ heap'[m].obj = heap[m].obj /\ m # Null
      <4>1. DOMAIN heap = 1 .. Len(heap)
        BY <1>7, LenProperties DEF BuiltOK
      <4>. QED
        BY <4>1, <2>3, <1>18 DEF Null
    <3>2. DOMAIN heap'[m].kids = DOMAIN heap[m].kids /\ DOMAIN heap[m].kids = DOMAIN value.kids[heap[m].obj]
      BY <3>1, <1>7, <1>18 DEF FilledOK
    <3>3. ASSUME NEW i \in DOMAIN heap'[m].kids
          PROVE  /\ heap'[m].kids[i] # Null =>
                      /\ heap'[m].kids[i] \in DOMAIN heap'
                      /\ heap'[heap'[m].kids[i]].obj = value'.kids[heap'[m].obj][i]
                 /\ \/ \E j \in DOMAIN todo' : ~todo'[j].put /\ todo'[j].node = m /\ todo'[j].at = i
                    \/ value'.kids[heap'[m].obj][i] = Null
                    \/ heap'[m].kids[i] # Null
                    \/ /\ Kind[value'.kids[heap'[m].obj][i]] = "buffer"
                       /\ ids[value'.kids[heap'[m].obj][i]] \in DOMAIN deferred'
                       /\ <<m, i>> \in deferred'[ids[value'.kids[heap'[m].obj][i]]]
      <4>1. PICK x : x = value.kids[heap[m].obj][i]
        OBVIOUS
      <4>2. i \in DOMAIN heap[m].kids /\ value'.kids[heap'[m].obj][i] = x
        BY <4>1, <3>1, <3>2, <2>1
      <4>3. heap'[m].kids[i] = IF m = slot.node /\ i = slot.at THEN n ELSE heap[m].kids[i]
        BY <4>2, <3>1, <1>18
      <4>4. /\ heap[m].kids[i] # Null => heap[m].kids[i] \in DOMAIN heap /\ heap[heap[m].kids[i]].obj = x
            /\ \/ \E j \in DOMAIN todo : ~todo[j].put /\ todo[j].node = m /\ todo[j].at = i
               \/ x = Null
               \/ heap[m].kids[i] # Null
               \/ Kind[x] = "buffer" /\ ids[x] \in DOMAIN deferred /\ <<m, i>> \in deferred[ids[x]]
        BY <4>1, <4>2, <3>1, <1>7 DEF FilledOK
      <4>5. CASE m = slot.node /\ i = slot.at
        <5>1. heap'[m].kids[i] = n /\ x = o
          BY <4>1, <4>3, <4>5, <3>1, <1>5
        <5>2. n # Null /\ n \in DOMAIN heap' /\ heap'[n].obj = o
          BY <1>18
        <5>. QED
          BY ONLY <5>1, <5>2, <4>2
      <4>6. CASE ~(m = slot.node /\ i = slot.at)
        <5>1. heap'[m].kids[i] = heap[m].kids[i]
          BY <4>3, <4>6
        <5>2. heap[m].kids[i] # Null =>
                /\ heap[m].kids[i] \in DOMAIN heap'
                /\ heap'[heap[m].kids[i]].obj = x
          BY <4>4, <1>18
        <5>3. ASSUME NEW j \in DOMAIN todo, ~todo[j].put, todo[j].node = m, todo[j].at = i
              PROVE  \E j2 \in DOMAIN todo' : ~todo'[j2].put /\ todo'[j2].node = m /\ todo'[j2].at = i
          <6>1. j # 1
            BY <5>3, <4>6, <1>19
          <6>2. PICK j2 \in DOMAIN todo' : todo'[j2] = todo[j]
            BY <6>1, <1>28
          <6>. QED
            BY <6>2, <5>3
        <5>4. \/ \E j \in DOMAIN todo' : ~todo'[j].put /\ todo'[j].node = m /\ todo'[j].at = i
              \/ x = Null
              \/ heap[m].kids[i] # Null
              \/ Kind[x] = "buffer" /\ ids[x] \in DOMAIN deferred' /\ <<m, i>> \in deferred'[ids[x]]
          BY <5>3, <4>4, <2>1
        <5>. QED
          BY ONLY <5>1, <5>2, <5>4, <4>2
      <4>. QED
        BY <4>5, <4>6
    <3>. QED
      BY <3>1, <3>2, <3>3, <2>1
  <2>. QED
    BY <2>2, <2>3
<1>34. MarkersOK(ids)'
  <2>. SUFFICES ASSUME NEW j \in DOMAIN todo', todo'[j].put
                PROVE  /\ todo'[j].node \in DOMAIN heap'
                       /\ Kind[heap'[todo'[j].node].obj] # "poly"
                       /\ heap'[todo'[j].node].obj \notin Skipped'
                       /\ todo'[j].at = ids[heap'[todo'[j].node].obj]
                       /\ todo'[j].at \notin DOMAIN instances'
                       /\ \A i \in DOMAIN todo' : todo'[i].put /\ todo'[i].node = todo'[j].node => i = j
                       /\ \A i \in DOMAIN todo' : i < j /\ ~todo'[i].put =>
                            Wanted(value', heap', todo'[i]) \in
                              Below(value'.kids, heap'[todo'[j].node].obj) \cup {Null}
    BY DEF MarkersOK
  <2>1. value' = value /\ DOMAIN instances' \subseteq DOMAIN instances \cup {id}
    BY <1>4, <1>16 DEF SetAt
  <2>2. CASE j \in DOMAIN new
    <3>1. /\ todo'[j].node = n /\ todo'[j].at = id /\ Kind[o] # "poly" /\ heap'[n].obj = o
          /\ new[j].put
      BY <2>2, <1>18, <1>24, <1>26
    <3>2. id \notin DOMAIN instances'
      BY <3>1, <1>15, <1>16
    <3>3. ASSUME NEW i \in DOMAIN todo', todo'[i].put, todo'[i].node = n
          PROVE  i = j
      <4>1. CASE i \in DOMAIN new
        BY <4>1, <3>3, <3>1, <2>2, <1>24, <1>26
      <4>2. CASE i \notin DOMAIN new
        <5>1. PICK m \in DOMAIN todo : todo'[i] = todo[m]
          BY <4>2, <1>26
        <5>2. todo[m].node \in DOMAIN heap
          BY <5>1, <3>3, <1>7 DEF MarkersOK
        <5>. QED
          BY <5>1, <5>2, <3>3, <1>18
      <4>. QED
        BY <4>1, <4>2
    <3>4. ASSUME NEW i \in DOMAIN todo', i < j, ~todo'[i].put
          PROVE  Wanted(value, heap', todo'[i]) \in Below(value.kids, o) \cup {Null}
      <4>1. i \in DOMAIN new
        BY <3>4, <2>2, <1>26
      <4>2. Wanted(value, heap', todo'[i]) = value.kids[o][new[i].at] /\ new[i].at \in DOMAIN value.kids[o]
        BY <4>1, <3>4, <1>24, <1>26, <1>27
      <4>3. \A x \in DOMAIN value.kids[o] : value.kids[o][x] \in Below(value.kids, o) \cup {Null}
        BY <3>1, <1>6, <1>7, BelowFacts
      <4>. QED
        BY <4>2, <4>3
    <3>. QED
      BY <3>1, <3>2, <3>3, <3>4, <2>1, <1>6, <1>12, <1>18
  <2>3. CASE j \notin DOMAIN new
    <3>1. PICK m \in DOMAIN todo : m = j - c + 1 /\ m # 1 /\ todo'[j] = todo[m] /\ j > c
      BY <2>3, <1>26
    <3>2. PICK p : p = heap[todo[m].node].obj
      OBVIOUS
    <3>3. /\ todo[m].node \in DOMAIN heap
          /\ Kind[p] # "poly"
          /\ p \notin Skipped
          /\ todo[m].at = ids[p]
          /\ todo[m].at \notin DOMAIN instances
          /\ \A i \in DOMAIN todo : todo[i].put /\ todo[i].node = todo[m].node => i = m
          /\ \A i \in DOMAIN todo : i < m /\ ~todo[i].put =>
               Wanted(value, heap, todo[i]) \in Below(value.kids, p) \cup {Null}
      BY <3>1, <3>2, <1>7 DEF MarkersOK
    <3>4. heap'[todo'[j].node].obj = p /\ todo'[j].node \in DOMAIN heap'
      BY <3>1, <3>2, <3>3, <1>18
    <3>5. todo'[j].at \notin DOMAIN instances'
      BY <3>1, <3>2, <3>3, <2>1, <1>14
    <3>6. ASSUME NEW i \in DOMAIN todo', todo'[i].put, todo'[i].node = todo'[j].node
          PROVE  i = j
      <4>1. i \notin DOMAIN new
        BY <3>6, <3>1, <3>3, <1>18, <1>24, <1>26
      <4>2. i - c + 1 \in DOMAIN todo /\ todo'[i] = todo[i - c + 1]
        BY <4>1, <1>26
      <4>3. i - c + 1 = j - c + 1
        BY <4>2, <3>6, <3>1, <3>3
      <4>4. i \in Int /\ j \in Int
        BY <1>26
      <4>5. c \in Int
        BY <1>26
      <4>. QED
        BY ONLY <4>3, <4>4, <4>5
    <3>7. p \in Objects /\ p \in DOMAIN Kind
      BY <3>2, <3>3, <1>5, <1>13 DEF WalkState, Objects
    <3>8. /\ \A x \in Below(value.kids, p) : \A i \in DOMAIN value.kids[x] :
               value.kids[x][i] \in Below(value.kids, p) \cup {Null}
      BY <3>3, <3>7, <1>7, BelowFacts
    <3>9. o \in Below(value.kids, p)
      <4>1. 1 < m
        BY <3>1, <1>26
      <4>2. Wanted(value, heap, todo[1]) \in Below(value.kids, p) \cup {Null}
        BY <4>1, <3>3, <1>4, <1>19
      <4>. QED
        BY <4>2, <1>5, <1>6, <1>19
    <3>10. ASSUME NEW i \in DOMAIN todo', i < j, ~todo'[i].put
           PROVE  Wanted(value, heap', todo'[i]) \in Below(value.kids, p) \cup {Null}
      <4>1. CASE i \in DOMAIN new
        <5>1. Wanted(value, heap', todo'[i]) = value.kids[o][new[i].at] /\ new[i].at \in DOMAIN value.kids[o]
          BY <4>1, <3>10, <1>24, <1>26, <1>27
        <5>. QED
          BY <5>1, <3>8, <3>9
      <4>2. CASE i \notin DOMAIN new
        <5>1. PICK i2 \in DOMAIN todo : i2 = i - c + 1 /\ todo'[i] = todo[i2]
          BY <4>2, <1>26
        <5>2. i2 < m
          <6>1. i \in Int /\ j \in Int
            BY <1>26
          <6>2. c \in Int
            BY <1>26
          <6>3. i2 = i - c + 1 /\ m = j - c + 1 /\ i < j
            BY <5>1, <3>1, <3>10
          <6>. QED
            BY ONLY <6>1, <6>2, <6>3
        <5>3. Wanted(value, heap, todo[i2]) \in Below(value.kids, p) \cup {Null}
          BY <5>1, <5>2, <3>3, <3>10
        <5>. QED
          BY <5>1, <5>3, <3>10, <1>20
      <4>. QED
        BY <4>1, <4>2
    <3>. QED
      BY <3>1, <3>3, <3>4, <3>5, <3>6, <3>10, <2>1, <1>12
  <2>. QED
    BY <2>2, <2>3
<1>35. InstancesOK(ids)'
  <2>1. /\ \A m \in DOMAIN heap : heap[m].obj \notin Skipped =>
             \/ \E j \in DOMAIN todo : todo[j].put /\ todo[j].node = m
             \/ ids[heap[m].obj] \in DOMAIN instances /\ instances[ids[heap[m].obj]] = m
        /\ \A d \in DOMAIN instances :
             \E m \in DOMAIN heap : heap[m].obj \notin Skipped /\ d = ids[heap[m].obj]
    BY <1>7 DEF InstancesOK
  <2>2. ASSUME NEW m, NEW j \in DOMAIN todo, todo[j].put, todo[j].node = m
        PROVE  \E j2 \in DOMAIN todo' : todo'[j2].put /\ todo'[j2].node = m
    <3>1. j # 1
      BY <2>2, <1>4, <1>19
    <3>2. PICK j2 \in DOMAIN todo' : todo'[j2] = todo[j]
      BY <3>1, <1>28
    <3>. QED
      BY <3>2, <2>2
  <2>3. \A d \in DOMAIN instances : d \in DOMAIN instances' /\ instances'[d] = instances[d]
    BY <1>15, <1>16 DEF SetAt
  <2>4. \/ \E j \in DOMAIN todo' : todo'[j].put /\ todo'[j].node = n
        \/ id \in DOMAIN instances' /\ instances'[id] = n
    <3>1. CASE Kind[o] = "poly"
      BY <3>1, <1>16 DEF SetAt
    <3>2. CASE Kind[o] # "poly"
      <4>1. PICK j \in DOMAIN new : new[j].put
        BY <3>2, <1>24
      <4>. QED
        BY <4>1, <1>24, <1>26
    <3>. QED
      BY <3>1, <3>2
  <2>5. DOMAIN instances' \subseteq DOMAIN instances \cup {id}
    BY <1>16 DEF SetAt
  <2>6. ASSUME NEW m \in DOMAIN heap', heap'[m].obj \notin Skipped
        PROVE  \/ \E j \in DOMAIN todo' : todo'[j].put /\ todo'[j].node = m
               \/ ids[heap'[m].obj] \in DOMAIN instances' /\ instances'[ids[heap'[m].obj]] = m
    <3>1. CASE m = n
      BY <3>1, <2>4, <1>6, <1>18
    <3>2. CASE m # n
      <4>1. m \in DOMAIN heap /\ heap'[m].obj = heap[m].obj
        BY <3>2, <1>18
      <4>. QED
        BY <4>1, <2>1, <2>2, <2>3, <2>6
    <3>. QED
      BY <3>1, <3>2
  <2>7. ASSUME NEW d \in DOMAIN instances'
        PROVE  \E m \in DOMAIN heap' : heap'[m].obj \notin Skipped /\ d = ids[heap'[m].obj]
    <3>1. CASE d = id
      BY <3>1, <1>6, <1>18
    <3>2. CASE d \in DOMAIN instances
      BY <3>2, <2>1, <1>18
    <3>. QED
      BY <3>1, <3>2, <2>5
  <2>. QED
    BY <2>6, <2>7, <1>12 DEF InstancesOK
<1>36. DeferredOK(w[k + 1].seen, ids)'
  <2>1. DeferredOK(w[k].seen, ids)'
    BY <1>4, <1>7, <1>18, DeferredKept
  <2>. QED
    BY <2>1, <1>6, <1>31 DEF DeferredOK
<1>37. StreamOK(w, N, k + 1, ids)'
  BY <1>4, <1>5, <1>7, StreamRead
<1>38. UnpackingOK(w, N, k + 1, ids)'
  <2>1. k + 1 \in Offset' .. N
    BY <1>5, <1>7, <1>12 DEF Offset
  <2>2. FullWalk(value, w, N)' /\ BuffersOK(w[N].seen)' /\ IdsOK(w[N].seen, ids)'
    BY <1>4, <1>7 DEF BuffersOK, IdsOK, Skipped
  <2>. QED
    BY <2>1, <2>2, <1>29, <1>30, <1>32, <1>33, <1>34, <1>35, <1>36, <1>37 DEF UnpackingOK
<1>39. StateOK'
  BY <1>4, <1>16, StateKept
<1>. QED
  BY <1>4, <1>38, <1>39 DEF IInv

\* The members of an object are complete, and it enters the table.
LEMMA InstanceUnpackedStep ==
  ASSUME Supported, StateOK, phase = "unpacking",
         NEW w, NEW N, NEW k, NEW ids, UnpackingOK(w, N, k, ids), InstanceUnpacked
  PROVE  IInv'
<1>0. PICK n : n = Head(todo).node
  OBVIOUS
<1>1. PICK id : id = Head(todo).at
  OBVIOUS
<1>2. /\ todo # <<>> /\ Head(todo).put /\ PutInstance(id, n) /\ todo' = Tail(todo)
      /\ UNCHANGED <<value, hop, phase, heap, root, inline, records, deferred,
                     stream, size, sized, buffers>>
  BY <1>0, <1>1 DEF InstanceUnpacked, Unpacking
<1>3. /\ FullWalk(value, w, N) /\ k \in Offset .. N /\ BuffersOK(w[N].seen)
      /\ IdsOK(w[N].seen, ids) /\ StreamOK(w, N, k, ids) /\ SlotsOK(k)
      /\ Matches(value, heap, w[k].todo, todo)
      /\ BuiltOK(w[k].seen) /\ FilledOK(ids) /\ MarkersOK(ids) /\ InstancesOK(ids)
      /\ DeferredOK(w[k].seen, ids)
  BY DEF UnpackingOK
<1>4. N \in Nat /\ k \in 0 .. N /\ w[k] \in WalkState /\ w[k].seen \subseteq w[N].seen
  <2>1. N \in Nat /\ w \in [0 .. N -> WalkState] /\ \A i \in 0 .. N : w[i].seen \subseteq w[N].seen
    BY <1>3 DEF FullWalk, Walk
  <2>2. k \in 0 .. N
    BY <2>1, <1>3 DEF Offset
  <2>. QED
    BY <2>1, <2>2
<1>5. todo \in Seq(Slot) /\ Head(todo) = todo[1] /\ 1 \in DOMAIN todo
  BY <1>2, <1>3, HeadTail DEF SlotsOK
<1>6. /\ todo' \in Seq(Slot)
      /\ DOMAIN todo = 1 .. Len(todo) /\ Len(todo) \in Nat \ {0}
      /\ DOMAIN todo' = 1 .. (Len(todo) - 1)
      /\ \A j \in DOMAIN todo' : j + 1 \in DOMAIN todo /\ j + 1 # 1 /\ todo'[j] = todo[j + 1]
      /\ \A j \in DOMAIN todo : j # 1 => j - 1 \in DOMAIN todo' /\ todo'[j - 1] = todo[j]
  <2>1. Popped(todo, todo')
    BY <1>2, <1>5, TopPopped
  <2>. QED
    BY <2>1 DEF Popped
<1>7. PICK p : p = heap[n].obj
  OBVIOUS
<1>8. /\ n \in DOMAIN heap /\ p \notin Skipped /\ id = ids[p] /\ id \notin DOMAIN instances
      /\ \A i \in DOMAIN todo : todo[i].put /\ todo[i].node = n => i = 1
  BY <1>0, <1>1, <1>2, <1>3, <1>5, <1>7 DEF MarkersOK
<1>9. error' = error /\ instances' = SetAt(instances, id, n)
  BY <1>2, <1>8 DEF PutInstance
<1>10. /\ DOMAIN instances' = DOMAIN instances \cup {id}
       /\ instances'[id] = n
       /\ \A d \in DOMAIN instances : instances'[d] = instances[d]
  BY <1>8, <1>9 DEF SetAt
<1>11. /\ \A m \in DOMAIN heap : heap[m].obj \in w[N].seen
       /\ \A m \in DOMAIN heap : heap[m].obj = p => m = n
  BY <1>3, <1>4, <1>7, <1>8 DEF BuiltOK
<1>12. Skipped' = Skipped /\ Offset' = Offset
  BY <1>2 DEF Skipped, Offset
<1>13. SlotsOK(k)'
  <2>1. k # 0
    <3>1. DOMAIN <<>> = {}
      OBVIOUS
    <3>. QED
      BY <3>1, <1>3, <1>8 DEF SlotsOK
  <2>2. \A j \in DOMAIN todo' : ~todo'[j].put =>
            /\ todo'[j].node \in DOMAIN heap
            /\ todo'[j].at \in DOMAIN value.kids[heap[todo'[j].node].obj]
    BY <2>1, <1>3, <1>6 DEF SlotsOK
  <2>. QED
    BY <2>1, <2>2, <1>2, <1>6 DEF SlotsOK
<1>14. Matches(value, heap, w[k].todo, todo)'
  <2>1. w[k].todo \in Seq(Objects \cup {Null})
    BY <1>4 DEF WalkState
  <2>2. Matches(value, heap, w[k].todo, Tail(todo))
    BY <2>1, <1>2, <1>3, <1>5, MarkerPopped
  <2>. QED
    BY <2>2, <1>2
<1>15. BuiltOK(w[k].seen)' /\ DeferredOK(w[k].seen, ids)' /\ StreamOK(w, N, k, ids)'
  BY <1>2, <1>3 DEF BuiltOK, CopiesOwned, DeferredOK, StreamOK
\* The rest of the stack is as it was.
<1>16. ASSUME NEW j \in DOMAIN todo, ~todo[j].put \/ todo[j].node # n
       PROVE  \E j2 \in DOMAIN todo' : todo'[j2] = todo[j]
  <2>1. j # 1
    BY <1>0, <1>2, <1>5, <1>16
  <2>. QED
    BY <2>1, <1>6
<1>17. FilledOK(ids)'
  <2>1. ASSUME NEW m \in DOMAIN heap, NEW i \in DOMAIN heap[m].kids,
               \E j \in DOMAIN todo : ~todo[j].put /\ todo[j].node = m /\ todo[j].at = i
        PROVE  \E j \in DOMAIN todo' : ~todo'[j].put /\ todo'[j].node = m /\ todo'[j].at = i
    BY <2>1, <1>16
  <2>2. heap' = heap /\ value' = value /\ deferred' = deferred
    BY <1>2
  <2>3. ASSUME NEW m \in DOMAIN heap
        PROVE  /\ DOMAIN heap[m].kids = DOMAIN value.kids[heap[m].obj]
               /\ \A i \in DOMAIN heap[m].kids :
                    /\ heap[m].kids[i] # Null =>
                         /\ heap[m].kids[i] \in DOMAIN heap
                         /\ heap[heap[m].kids[i]].obj = value.kids[heap[m].obj][i]
                    /\ \/ \E j \in DOMAIN todo' : ~todo'[j].put /\ todo'[j].node = m /\ todo'[j].at = i
                       \/ value.kids[heap[m].obj][i] = Null
                       \/ heap[m].kids[i] # Null
                       \/ /\ Kind[value.kids[heap[m].obj][i]] = "buffer"
                          /\ ids[value.kids[heap[m].obj][i]] \in DOMAIN deferred
                          /\ <<m, i>> \in deferred[ids[value.kids[heap[m].obj][i]]]
    BY <2>1, <1>3 DEF FilledOK
  <2>. QED
    BY <2>2, <2>3 DEF FilledOK
<1>18. MarkersOK(ids)'
  <2>. SUFFICES ASSUME NEW j \in DOMAIN todo', todo'[j].put
                PROVE  /\ todo'[j].node \in DOMAIN heap'
                       /\ Kind[heap'[todo'[j].node].obj] # "poly"
                       /\ heap'[todo'[j].node].obj \notin Skipped'
                       /\ todo'[j].at = ids[heap'[todo'[j].node].obj]
                       /\ todo'[j].at \notin DOMAIN instances'
                       /\ \A i \in DOMAIN todo' : todo'[i].put /\ todo'[i].node = todo'[j].node => i = j
                       /\ \A i \in DOMAIN todo' : i < j /\ ~todo'[i].put =>
                            Wanted(value', heap', todo'[i]) \in
                              Below(value'.kids, heap'[todo'[j].node].obj) \cup {Null}
    BY DEF MarkersOK
  <2>1. PICK m \in DOMAIN todo : m = j + 1 /\ m # 1 /\ todo'[j] = todo[m]
    BY <1>6
  <2>2. PICK q : q = heap[todo[m].node].obj
    OBVIOUS
  <2>3. /\ todo[m].node \in DOMAIN heap
        /\ Kind[q] # "poly"
        /\ q \notin Skipped
        /\ todo[m].at = ids[q]
        /\ todo[m].at \notin DOMAIN instances
        /\ \A i \in DOMAIN todo : todo[i].put /\ todo[i].node = todo[m].node => i = m
        /\ \A i \in DOMAIN todo : i < m /\ ~todo[i].put =>
             Wanted(value, heap, todo[i]) \in Below(value.kids, q) \cup {Null}
    BY <2>1, <2>2, <1>3 DEF MarkersOK
  <2>4. todo[m].at # id
    <3>1. todo[m].node # n
      BY <2>1, <1>8
    <3>2. q # p /\ q \in w[N].seen /\ p \in w[N].seen
      BY <3>1, <2>2, <2>3, <1>7, <1>8, <1>11
    <3>. QED
      BY <3>2, <2>3, <1>3, <1>8 DEF IdsOK
  <2>5. j \in Int
    BY <1>6
  <2>6. ASSUME NEW i \in DOMAIN todo', todo'[i].put, todo'[i].node = todo'[j].node
        PROVE  i = j
    <3>1. i + 1 \in DOMAIN todo /\ todo'[i] = todo[i + 1] /\ i \in Int
      BY <1>6
    <3>2. i + 1 = m
      BY <3>1, <2>1, <2>3, <2>6
    <3>. QED
      BY <3>1, <3>2, <2>1, <2>5
  <2>7. ASSUME NEW i \in DOMAIN todo', i < j, ~todo'[i].put
        PROVE  Wanted(value, heap, todo'[i]) \in Below(value.kids, q) \cup {Null}
    <3>1. PICK i2 \in DOMAIN todo : i2 = i + 1 /\ todo'[i] = todo[i2]
      BY <1>6
    <3>2. i2 < m
      <4>1. i \in Int
        BY <1>6
      <4>. QED
        BY <4>1, <3>1, <2>1, <2>5, <2>7
    <3>. QED
      BY <3>1, <3>2, <2>3, <2>7
  <2>. QED
    BY <2>1, <2>2, <2>3, <2>4, <2>6, <2>7, <1>2, <1>10, <1>12
<1>19. InstancesOK(ids)'
  <2>1. /\ \A m \in DOMAIN heap : heap[m].obj \notin Skipped =>
             \/ \E j \in DOMAIN todo : todo[j].put /\ todo[j].node = m
             \/ ids[heap[m].obj] \in DOMAIN instances /\ instances[ids[heap[m].obj]] = m
        /\ \A d \in DOMAIN instances :
             \E m \in DOMAIN heap : heap[m].obj \notin Skipped /\ d = ids[heap[m].obj]
    BY <1>3 DEF InstancesOK
  <2>2. ASSUME NEW m \in DOMAIN heap, heap[m].obj \notin Skipped
        PROVE  \/ \E j \in DOMAIN todo' : todo'[j].put /\ todo'[j].node = m
               \/ ids[heap[m].obj] \in DOMAIN instances' /\ instances'[ids[heap[m].obj]] = m
    <3>1. CASE m = n
      BY <3>1, <1>7, <1>8, <1>10
    <3>2. CASE m # n
      BY <3>2, <2>1, <2>2, <1>10, <1>16
    <3>. QED
      BY <3>1, <3>2
  <2>3. \A d \in DOMAIN instances' :
          \E m \in DOMAIN heap : heap[m].obj \notin Skipped /\ d = ids[heap[m].obj]
    BY <2>1, <1>7, <1>8, <1>10
  <2>4. heap' = heap
    BY <1>2
  <2>. QED
    BY <2>2, <2>3, <2>4, <1>12 DEF InstancesOK
<1>20. UnpackingOK(w, N, k, ids)'
  <2>1. FullWalk(value, w, N)' /\ BuffersOK(w[N].seen)' /\ IdsOK(w[N].seen, ids)' /\ k \in Offset' .. N
    BY <1>2, <1>3, <1>12 DEF BuffersOK, IdsOK
  <2>. QED
    BY <2>1, <1>13, <1>14, <1>15, <1>17, <1>18, <1>19 DEF UnpackingOK
<1>21. StateOK'
  BY <1>2, <1>9, StateKept
<1>. QED
  BY <1>2, <1>20, <1>21 DEF IInv
-----------------------------------------------------------------------------
(***************************************************************************)
(* The buffers arrive: the i-th of them goes where the i-th deferred id    *)
(* waits for it, and the graph is complete.                                *)
(***************************************************************************)

\* The receiver that has no slot left has gone through the whole walk.
LEMMA WalkIsOver ==
  ASSUME NEW w, NEW N, NEW k, NEW ids, UnpackingOK(w, N, k, ids), todo = <<>>
  PROVE  k = N
<1>1. /\ FullWalk(value, w, N) /\ k \in Offset .. N
      /\ Matches(value, heap, w[k].todo, <<>>)
  BY DEF UnpackingOK
<1>2. N \in Nat /\ w \in [0 .. N -> WalkState]
  BY <1>1 DEF FullWalk, Walk
<1>3. k \in 0 .. N
  BY <1>1, <1>2 DEF Offset
<1>4. w[k].todo \in Seq(Objects \cup {Null})
  BY <1>2, <1>3 DEF WalkState
<1>5. w[k].todo = <<>>
  BY <1>1, <1>4, NothingOpen
<1>. QED
  BY <1>1, <1>3, <1>5, WalkEnds

\* The ids that are deferred are those of the buffers, in their order.
LEMMA DeferredIds ==
  ASSUME NEW w, NEW N, NEW ids, UnpackingOK(w, N, N, ids)
  PROVE  /\ Len(buffers) \in Nat
         /\ DOMAIN buffers = 1 .. Len(buffers)
         /\ Cardinality(DOMAIN deferred) = Len(buffers)
         /\ DOMAIN ById(deferred) = 1 .. Len(buffers)
         /\ \A i \in 1 .. Len(buffers) : /\ ById(deferred)[i] = ids[buffers[i]]
                                         /\ ids[buffers[i]] \in DOMAIN deferred
<1>1. BuffersOK(w[N].seen) /\ IdsOK(w[N].seen, ids) /\ DeferredOK(w[N].seen, ids)
  BY DEF UnpackingOK
<1>2. /\ buffers \in Seq(Objects)
      /\ \A i \in DOMAIN buffers : buffers[i] \in w[N].seen /\ Kind[buffers[i]] = "buffer"
      /\ \A o \in w[N].seen : Kind[o] = "buffer" => \E i \in DOMAIN buffers : buffers[i] = o
  BY <1>1 DEF BuffersOK
<1>3. PICK c \in Nat : c = Len(buffers) /\ DOMAIN buffers = 1 .. c
  BY <1>2, LenProperties
<1>4. \A i \in 1 .. c : buffers[i] \in Objects
  BY <1>2, <1>3, ElementOfSeq
<1>5. ids \in [Objects -> Nat] /\ \A i, j \in 1 .. c : i < j => ids[buffers[i]] < ids[buffers[j]]
  BY <1>1, <1>3 DEF IdsOK
<1>6. /\ \A o \in w[N].seen : Kind[o] = "buffer" => ids[o] \in DOMAIN deferred
      /\ \A d \in DOMAIN deferred : \E o \in w[N].seen : Kind[o] = "buffer" /\ d = ids[o]
  BY <1>1 DEF DeferredOK
<1>7. PICK s : s = [i \in 1 .. c |-> ids[buffers[i]]]
  OBVIOUS
<1>8. s \in [1 .. c -> DOMAIN deferred]
  BY <1>2, <1>3, <1>6, <1>7
<1>9. \A d \in DOMAIN deferred : d \in Nat /\ \E i \in 1 .. c : s[i] = d
  BY <1>2, <1>3, <1>4, <1>5, <1>6, <1>7
<1>10. \A i, j \in 1 .. c : i < j => s[i] < s[j]
  BY <1>5, <1>7
<1>11. /\ Cardinality(DOMAIN deferred) = c
       /\ DOMAIN ById(deferred) = 1 .. c
       /\ \A i \in 1 .. c : ById(deferred)[i] = s[i]
  <2>1. DOMAIN deferred \subseteq Nat
    BY <1>9
  <2>2. c \in Nat /\ \A d \in DOMAIN deferred : \E i \in 1 .. c : s[i] = d
    BY <1>3, <1>9
  <2>. QED
    BY ONLY <2>1, <2>2, <1>8, <1>10, ByIdUnique
<1>. QED
  BY <1>3, <1>7, <1>8, <1>11

\* The slot j of node n waits for the buffer i.
WaitsFor(ids, n, j, i) == <<n, j>> \in deferred[ids[buffers[i]]]

\* A slot waits for no buffer but its own, and one that waits for none is done.
LEMMA Waiting ==
  ASSUME StateOK, NEW w, NEW N, NEW ids, UnpackingOK(w, N, N, ids), todo = <<>>,
         NEW n \in DOMAIN heap, NEW j \in DOMAIN heap[n].kids,
         NEW x, x = value.kids[heap[n].obj][j]
  PROVE  /\ j \in DOMAIN value.kids[heap[n].obj]
         /\ \A i \in DOMAIN buffers : WaitsFor(ids, n, j, i) => x = buffers[i]
         /\ (\A i \in DOMAIN buffers : ~WaitsFor(ids, n, j, i)) =>
              \/ x = Null /\ heap[n].kids[j] = Null
              \/ /\ heap[n].kids[j] # Null /\ heap[n].kids[j] \in DOMAIN heap
                 /\ heap[heap[n].kids[j]].obj = x
<1>1. /\ BuffersOK(w[N].seen) /\ IdsOK(w[N].seen, ids) /\ DeferredOK(w[N].seen, ids)
      /\ BuiltOK(w[N].seen) /\ FilledOK(ids) /\ FullWalk(value, w, N)
  BY DEF UnpackingOK
<1>2. DOMAIN <<>> = {}
  OBVIOUS
<1>3. /\ j \in DOMAIN value.kids[heap[n].obj]
      /\ heap[n].kids[j] # Null => /\ heap[n].kids[j] \in DOMAIN heap
                                   /\ heap[heap[n].kids[j]].obj = x
      /\ \/ x = Null
         \/ heap[n].kids[j] # Null
         \/ Kind[x] = "buffer" /\ ids[x] \in DOMAIN deferred /\ <<n, j>> \in deferred[ids[x]]
  BY <1>1, <1>2 DEF FilledOK
<1>4. heap \in Seq(Built) /\ n \in Nat \ {Null} /\ heap[n].obj \in Objects
  <2>1. heap \in Seq(Built)
    BY <1>1 DEF BuiltOK
  <2>2. heap[n] \in Built /\ n \in Nat \ {Null}
    BY <2>1, ElementOfSeq, LenProperties DEF Null
  <2>. QED
    BY <2>1, <2>2 DEF Built
<1>5. j \in Nat /\ x \in Objects \cup {Null} /\ IsValue(value)
  BY <1>3, <1>4, ValueFacts DEF StateOK
<1>6. ASSUME NEW i \in DOMAIN buffers, WaitsFor(ids, n, j, i)
      PROVE  x = buffers[i]
  <2>1. buffers[i] \in w[N].seen /\ Kind[buffers[i]] = "buffer" /\ buffers # <<>>
    BY <1>1, <1>2 DEF BuffersOK
  <2>2. ids[buffers[i]] \in DOMAIN deferred
    BY <2>1, <1>1 DEF DeferredOK
  <2>3. x \in w[N].seen /\ ids[buffers[i]] = ids[x]
    BY <2>2, <1>1, <1>4, <1>5, <1>6 DEF DeferredOK, WaitsFor
  <2>. QED
    BY <2>1, <2>3, <1>1 DEF IdsOK, Skipped
<1>7. ASSUME \A i \in DOMAIN buffers : ~WaitsFor(ids, n, j, i)
      PROVE  \/ x = Null /\ heap[n].kids[j] = Null
             \/ /\ heap[n].kids[j] # Null /\ heap[n].kids[j] \in DOMAIN heap
                /\ heap[heap[n].kids[j]].obj = x
  <2>1. CASE heap[n].kids[j] # Null
    BY <2>1, <1>3
  <2>2. CASE heap[n].kids[j] = Null
    <3>1. SUFFICES ASSUME x # Null
                   PROVE  FALSE
      BY <2>2
    <3>2. Kind[x] = "buffer" /\ ids[x] \in DOMAIN deferred /\ <<n, j>> \in deferred[ids[x]]
      BY <3>1, <2>2, <1>3
    <3>3. x \in w[N].seen
      BY <3>2, <1>1, <1>4, <1>5 DEF DeferredOK
    <3>4. \E i \in DOMAIN buffers : buffers[i] = x
      BY <3>2, <3>3, <1>1 DEF BuffersOK
    <3>. QED
      BY <3>2, <3>4, <1>7 DEF WaitsFor
  <2>. QED
    BY <2>1, <2>2
<1>. QED
  BY <1>3, <1>6, <1>7

\* It points to the buffer that it waits for, or is left alone.
SlotReset(ids, b, n, j) ==
    \/ \E i \in DOMAIN buffers : WaitsFor(ids, n, j, i) /\ heap'[n].kids[j] = b + i
    \/ /\ \A i \in DOMAIN buffers : ~WaitsFor(ids, n, j, i)
       /\ heap'[n].kids[j] = heap[n].kids[j]

IsAFunction(f) == f = [x \in DOMAIN f |-> f[x]]

\* What the receiver's memory becomes: the nodes of the buffers are added, and
\* the slots that waited for one point to its node.
LEMMA ResetMemory ==
  ASSUME StateOK, NEW w, NEW N, NEW ids, UnpackingOK(w, N, N, ids), ResetDeferred,
         NEW b, b = Len(heap), NEW c, c = Len(buffers)
  PROVE  /\ b \in Nat /\ c \in Nat /\ heap \in Seq(Built) /\ DOMAIN heap = 1 .. b
         /\ DOMAIN buffers = 1 .. c
         /\ DOMAIN heap' = 1 .. (b + c)
         /\ \A n \in 1 .. b :
              /\ heap'[n].obj = heap[n].obj /\ heap'[n].owner = heap[n].owner
              /\ DOMAIN heap'[n].kids = DOMAIN heap[n].kids
              /\ IsAFunction(heap'[n].kids)
              /\ \A j \in DOMAIN heap[n].kids : SlotReset(ids, b, n, j)
         /\ \A i \in 1 .. c :
              /\ heap'[b + i].obj = buffers[i] /\ heap'[b + i].owner = b + i
              /\ DOMAIN heap'[b + i].kids = {} /\ IsAFunction(heap'[b + i].kids)
              /\ buffers[i] \in Objects /\ value.kids[buffers[i]] = <<>>
<1>1. heap \in Seq(Built) /\ BuffersOK(w[N].seen) /\ IsValue(value)
  BY DEF UnpackingOK, BuiltOK, StateOK
<1>2. b \in Nat /\ DOMAIN heap = 1 .. b
  BY <1>1, LenProperties
<1>3. /\ c \in Nat /\ DOMAIN buffers = 1 .. c
      /\ DOMAIN ById(deferred) = 1 .. c
      /\ \A i \in 1 .. c : ById(deferred)[i] = ids[buffers[i]]
  BY DeferredIds
<1>4. \A i \in 1 .. c : /\ buffers[i] \in Objects /\ Kind[buffers[i]] = "buffer"
                        /\ value.kids[buffers[i]] = <<>>
  <2>. TAKE i \in 1 .. c
  <2>1. buffers[i] \in Objects /\ Kind[buffers[i]] = "buffer"
    BY <1>1, <1>3, ElementOfSeq DEF BuffersOK
  <2>. QED
    BY <2>1, <1>1, ValueFacts
<1>5. PICK added : added = [i \in DOMAIN buffers |-> Node(buffers[i], b + i)]
  OBVIOUS
<1>6. PICK grown : grown = heap \o added
  OBVIOUS
<1>7. PICK sorted : sorted = ById(deferred)
  OBVIOUS
<1> DEFINE Target(n, j) == {i \in DOMAIN sorted : <<n, j>> \in deferred[sorted[i]]}
<1>8. heap' = [n \in DOMAIN grown |->
                 [grown[n] EXCEPT !.kids =
                    [j \in DOMAIN grown[n].kids |->
                       IF Target(n, j) = {} THEN grown[n].kids[j]
                       ELSE b + (CHOOSE i \in Target(n, j) : TRUE)]]]
  <2>0. \E t \in {ById(deferred)}, base \in {Len(heap)} : heap' = WithBuffers(t, base)
    BY Zenon DEF ResetDeferred
  <2>1. heap' = WithBuffers(sorted, b)
    BY <2>0, <1>7
  <2>. QED
    BY <2>1, <1>5, <1>6, <1>7 DEF WithBuffers
<1>9. added \in Seq(Built) /\ Len(added) = c /\ \A i \in 1 .. c : added[i] = Node(buffers[i], b + i)
  <2>1. \A i \in 1 .. c : Node(buffers[i], b + i) \in Built
    <3>. TAKE i \in 1 .. c
    <3>1. b + i \in Nat
      BY <1>2, <1>3
    <3>. QED
      BY <3>1, <1>1, <1>4, NodeFacts
  <2>2. added \in [1 .. c -> Built]
    BY <2>1, <1>3, <1>5
  <2>3. added \in Seq(Built)
    BY <2>2, <1>3, SeqDef
  <2>4. Len(added) = c
    BY <2>2, <2>3, <1>3, LenProperties
  <2>. QED
    BY <2>3, <2>4, <1>3, <1>5
<1>10. /\ grown \in Seq(Built) /\ DOMAIN grown = 1 .. (b + c)
       /\ \A n \in 1 .. b : grown[n] = heap[n]
       /\ \A i \in 1 .. c : grown[b + i] = Node(buffers[i], b + i)
  <2>1. /\ grown \in Seq(Built) /\ Len(grown) = b + c
        /\ \A n \in 1 .. (b + c) : grown[n] = IF n <= b THEN heap[n] ELSE added[n - b]
    <3>1. /\ heap \o added \in Seq(Built)
          /\ Len(heap \o added) = Len(heap) + Len(added)
          /\ \A n \in 1 .. (Len(heap) + Len(added)) :
               (heap \o added)[n] = IF n <= Len(heap) THEN heap[n] ELSE added[n - Len(heap)]
      BY <1>1, <1>9, ConcatProperties
    <3>2. Len(heap) = b /\ Len(added) = c
      BY <1>9
    <3>. QED
      BY ONLY <3>1, <3>2, <1>6
  <2>2. DOMAIN grown = 1 .. (b + c)
    BY <2>1, LenProperties
  <2>3. \A n \in 1 .. b : n \in 1 .. (b + c) /\ n <= b
    BY <1>2, <1>3
  <2>4. \A i \in 1 .. c : b + i \in 1 .. (b + c) /\ ~(b + i <= b) /\ (b + i) - b = i
    BY <1>2, <1>3
  <2>5. \A n \in 1 .. b : grown[n] = heap[n]
    BY ONLY <2>1, <2>3
  <2>6. \A i \in 1 .. c : grown[b + i] = Node(buffers[i], b + i)
    <3>. TAKE i \in 1 .. c
    <3>1. grown[b + i] = added[(b + i) - b]
      BY <2>1, <2>4
    <3>. QED
      BY <3>1, <2>4, <1>9
  <2>. QED
    BY <2>1, <2>2, <2>5, <2>6
<1>11. \A n \in DOMAIN grown :
         /\ n \in DOMAIN heap'
         /\ heap'[n].obj = grown[n].obj /\ heap'[n].owner = grown[n].owner
         /\ heap'[n].kids = [j \in DOMAIN grown[n].kids |->
                               IF Target(n, j) = {} THEN grown[n].kids[j]
                               ELSE b + (CHOOSE i \in Target(n, j) : TRUE)]
  <2>. TAKE n \in DOMAIN grown
  <2>1. PICK g \in Built : g = grown[n]
    BY <1>10, ElementOfSeq, LenProperties
  <2>2. PICK kids : kids = [j \in DOMAIN g.kids |->
                              IF Target(n, j) = {} THEN g.kids[j]
                              ELSE b + (CHOOSE i \in Target(n, j) : TRUE)]
    OBVIOUS
  <2>3. heap'[n] = [g EXCEPT !.kids = kids]
    BY <2>1, <2>2, <1>8
  <2>4. /\ [g EXCEPT !.kids = kids].obj = g.obj
        /\ [g EXCEPT !.kids = kids].owner = g.owner
        /\ [g EXCEPT !.kids = kids].kids = kids
    BY <2>1 DEF Built
  <2>5. n \in DOMAIN heap'
    BY <1>8
  <2>. HIDE DEF Target
  <2>. QED
    BY <2>1, <2>2, <2>3, <2>4, <2>5
<1>12. \A n, j : \A i \in 1 .. c : i \in Target(n, j) <=> WaitsFor(ids, n, j, i)
  BY <1>3, <1>7 DEF WaitsFor
<1>13. \A n, j : Target(n, j) \subseteq 1 .. c
  BY <1>3, <1>7
<1>14. DOMAIN heap' = 1 .. (b + c)
  BY <1>8, <1>10
<1>15. \A n \in 1 .. b : n \in DOMAIN grown /\ n \in DOMAIN heap
  BY <1>2, <1>3, <1>10
<1>. HIDE DEF Target
<1>16. ASSUME NEW n \in 1 .. b
       PROVE  /\ heap'[n].obj = heap[n].obj /\ heap'[n].owner = heap[n].owner
              /\ DOMAIN heap'[n].kids = DOMAIN heap[n].kids
              /\ IsAFunction(heap'[n].kids)
              /\ \A j \in DOMAIN heap[n].kids : SlotReset(ids, b, n, j)
  <2>1. /\ heap'[n].obj = heap[n].obj /\ heap'[n].owner = heap[n].owner
        /\ heap'[n].kids = [j \in DOMAIN heap[n].kids |->
                              IF Target(n, j) = {} THEN heap[n].kids[j]
                              ELSE b + (CHOOSE i \in Target(n, j) : TRUE)]
    <3>1. n \in DOMAIN grown /\ grown[n] = heap[n]
      BY <1>10, <1>15
    <3>2. /\ heap'[n].obj = grown[n].obj /\ heap'[n].owner = grown[n].owner
          /\ heap'[n].kids = [j \in DOMAIN grown[n].kids |->
                               IF Target(n, j) = {} THEN grown[n].kids[j]
                               ELSE b + (CHOOSE i \in Target(n, j) : TRUE)]
      BY <3>1, <1>11
    <3>. QED
      BY <3>1, <3>2
  <2>3. IsAFunction(heap'[n].kids)
    BY <2>1 DEF IsAFunction
  <2>2. ASSUME NEW j \in DOMAIN heap[n].kids
        PROVE  SlotReset(ids, b, n, j)
    <3>1. CASE Target(n, j) = {}
      BY <3>1, <2>1, <2>2, <1>3, <1>12 DEF SlotReset
    <3>2. CASE Target(n, j) # {}
      <4>1. PICK i : i = CHOOSE t \in Target(n, j) : TRUE
        OBVIOUS
      <4>2. i \in Target(n, j)
        BY <4>1, <3>2
      <4>3. heap'[n].kids[j] = b + i
        BY <4>1, <3>2, <2>1, <2>2
      <4>. QED
        BY <4>2, <4>3, <1>3, <1>12, <1>13 DEF SlotReset
    <3>. QED
      BY <3>1, <3>2
  <2>. QED
    BY <2>1, <2>2, <2>3
<1>17. ASSUME NEW i \in 1 .. c
       PROVE  /\ heap'[b + i].obj = buffers[i] /\ heap'[b + i].owner = b + i
              /\ DOMAIN heap'[b + i].kids = {} /\ IsAFunction(heap'[b + i].kids)
  <2>1. b + i \in Nat /\ b + i \in DOMAIN grown
    BY <1>2, <1>3, <1>10
  <2>2. PICK g : g = Node(buffers[i], b + i)
    OBVIOUS
  <2>3. /\ g.obj = buffers[i] /\ g.owner = b + i /\ DOMAIN g.kids = DOMAIN value.kids[buffers[i]]
    BY <2>1, <2>2, <1>1, <1>4, NodeFacts
  <2>4. grown[b + i] = g
    BY <2>2, <1>10
  <2>5. DOMAIN <<>> = {}
    OBVIOUS
  <2>6. DOMAIN g.kids = {}
    BY <2>3, <2>5, <1>4
  <2>7. PICK kids : kids = [j \in DOMAIN g.kids |->
                              IF Target(b + i, j) = {} THEN g.kids[j]
                              ELSE b + (CHOOSE t \in Target(b + i, j) : TRUE)]
    OBVIOUS
  <2>8. IsAFunction(kids) /\ DOMAIN kids = DOMAIN g.kids
    BY <2>7 DEF IsAFunction
  <2>9. heap'[b + i].kids = kids
    <3>1. PICK n : n = b + i
      OBVIOUS
    <3>2. /\ n \in DOMAIN grown /\ grown[n] = g
          /\ kids = [j \in DOMAIN g.kids |->
                        IF Target(n, j) = {} THEN g.kids[j]
                        ELSE b + (CHOOSE t \in Target(n, j) : TRUE)]
      BY <3>1, <2>1, <2>4, <2>7
    <3>3. heap'[n].kids = [j \in DOMAIN grown[n].kids |->
                             IF Target(n, j) = {} THEN grown[n].kids[j]
                             ELSE b + (CHOOSE t \in Target(n, j) : TRUE)]
      BY <3>2, <1>11
    <3>. QED
      BY <3>1, <3>2, <3>3
  <2>. QED
    BY <2>1, <2>3, <2>4, <2>6, <2>8, <2>9, <1>11
<1>. QED
  BY <1>1, <1>2, <1>3, <1>4, <1>14, <1>16, <1>17

LEMMA ResetDeferredStep ==
  ASSUME Supported, StateOK, phase = "unpacking",
         NEW w, NEW N, NEW k, NEW ids, UnpackingOK(w, N, k, ids), ResetDeferred
  PROVE  IInv'
<1>1. /\ todo = <<>>
      /\ phase' = "done"
      /\ UNCHANGED <<value, hop, root, inline, todo, records, deferred, stream,
                     size, sized, buffers, instances>>
  BY Zenon DEF ResetDeferred
<1>2. k = N
  BY <1>1, WalkIsOver
<1>3. UnpackingOK(w, N, N, ids)
  BY <1>2
<1>4. error' = error
  <2>1. Cardinality(DOMAIN deferred) = Len(buffers)
    BY <1>3, DeferredIds
  <2>. QED
    BY Zenon, <2>1 DEF ResetDeferred
<1>5. PICK b, c : b = Len(heap) /\ c = Len(buffers)
  OBVIOUS
<1>6. /\ b \in Nat /\ c \in Nat /\ heap \in Seq(Built) /\ DOMAIN heap = 1 .. b
      /\ DOMAIN buffers = 1 .. c
      /\ DOMAIN heap' = 1 .. (b + c)
  BY <1>3, <1>5, ResetMemory
<1>7. \A n \in 1 .. b :
        /\ heap'[n].obj = heap[n].obj /\ heap'[n].owner = heap[n].owner
        /\ DOMAIN heap'[n].kids = DOMAIN heap[n].kids
        /\ IsAFunction(heap'[n].kids)
        /\ \A j \in DOMAIN heap[n].kids : SlotReset(ids, b, n, j)
  BY <1>3, <1>5, ResetMemory
<1>8. \A i \in 1 .. c :
        /\ heap'[b + i].obj = buffers[i] /\ heap'[b + i].owner = b + i
        /\ DOMAIN heap'[b + i].kids = {} /\ IsAFunction(heap'[b + i].kids)
        /\ buffers[i] \in Objects /\ value.kids[buffers[i]] = <<>>
  BY <1>3, <1>5, ResetMemory
<1>9. /\ FullWalk(value, w, N) /\ BuffersOK(w[N].seen) /\ BuiltOK(w[N].seen) /\ FilledOK(ids)
      /\ IsValue(value)
  BY <1>3 DEF UnpackingOK, StateOK
<1>10. \A n \in 1 .. b : heap[n].obj \in Objects /\ heap[n].kids \in Seq(Nat)
  <2>. TAKE n \in 1 .. b
  <2>1. heap[n] \in Built
    BY <1>6, ElementOfSeq
  <2>. QED
    BY <2>1 DEF Built
<1>11. \A n \in 1 .. (b + c) : n \in 1 .. b \/ \E i \in 1 .. c : n = b + i
  <2>. SUFFICES ASSUME NEW n \in 1 .. (b + c), n \notin 1 .. b
                PROVE  \E i \in 1 .. c : n = b + i
    OBVIOUS
  <2>1. n - b \in 1 .. c /\ n = b + (n - b)
    BY <1>6
  <2>. QED
    BY <2>1
<1>12. /\ \A n \in 1 .. b : n \in 1 .. (b + c)
       /\ \A i \in 1 .. c : b + i \in 1 .. (b + c) /\ b + i # Null
       /\ \A n \in 1 .. (b + c) : n \in Nat \ {Null}
  BY <1>6 DEF Null
<1>13. ASSUME NEW n \in 1 .. b, NEW j \in DOMAIN heap[n].kids
       PROVE  /\ heap'[n].kids[j] \in (1 .. (b + c)) \cup {Null}
              /\ Obj(heap', heap'[n].kids[j]) = value.kids[heap[n].obj][j]
  <2>1. n \in DOMAIN heap
    BY <1>6
  <2>2. PICK x : x = value.kids[heap[n].obj][j]
    OBVIOUS
  <2>3. /\ \A i \in 1 .. c : WaitsFor(ids, n, j, i) => x = buffers[i]
        /\ (\A i \in 1 .. c : ~WaitsFor(ids, n, j, i)) =>
              \/ x = Null /\ heap[n].kids[j] = Null
              \/ /\ heap[n].kids[j] # Null /\ heap[n].kids[j] \in 1 .. b
                 /\ heap[heap[n].kids[j]].obj = x
    BY <2>1, <2>2, <1>1, <1>3, <1>6, Waiting
  <2>4. CASE \E i \in 1 .. c : WaitsFor(ids, n, j, i) /\ heap'[n].kids[j] = b + i
    <3>1. PICK i \in 1 .. c : WaitsFor(ids, n, j, i) /\ heap'[n].kids[j] = b + i
      BY <2>4
    <3>. QED
      BY <3>1, <2>2, <2>3, <1>8, <1>12 DEF Obj
  <2>5. CASE /\ \A i \in 1 .. c : ~WaitsFor(ids, n, j, i)
             /\ heap'[n].kids[j] = heap[n].kids[j]
    BY <2>5, <2>2, <2>3, <1>7, <1>12 DEF Obj
  <2>. QED
    BY <2>4, <2>5, <1>6, <1>7 DEF SlotReset
<1>14. ASSUME NEW n \in DOMAIN heap', NEW o, o = heap'[n].obj
       PROVE  /\ n \in Nat \ {Null}
              /\ o \in Objects
              /\ heap'[n].kids \in Seq(DOMAIN heap' \cup {Null})
              /\ value.kids[o] = Objs(heap', heap'[n].kids)
  <2>1. n \in 1 .. (b + c)
    BY <1>6
  <2>2. /\ o \in Objects /\ IsAFunction(heap'[n].kids)
        /\ DOMAIN heap'[n].kids = DOMAIN value.kids[o]
        /\ \A j \in DOMAIN heap'[n].kids :
             /\ heap'[n].kids[j] \in (1 .. (b + c)) \cup {Null}
             /\ Obj(heap', heap'[n].kids[j]) = value.kids[o][j]
    <3>1. CASE n \in 1 .. b
      <4>1. o = heap[n].obj /\ DOMAIN heap'[n].kids = DOMAIN heap[n].kids
            /\ IsAFunction(heap'[n].kids)
        BY <3>1, <1>7, <1>14
      <4>2. DOMAIN heap[n].kids = DOMAIN value.kids[o]
        <5>1. n \in DOMAIN heap
          BY <3>1, <1>6
        <5>2. DOMAIN heap[n].kids = DOMAIN value.kids[heap[n].obj]
          BY <5>1, <1>9 DEF FilledOK
        <5>. QED
          BY <5>2, <4>1
      <4>. QED
        BY <4>1, <4>2, <3>1, <1>10, <1>13
    <3>2. CASE \E i \in 1 .. c : n = b + i
      <4>1. DOMAIN <<>> = {}
        OBVIOUS
      <4>. QED
        BY <4>1, <3>2, <1>8, <1>14
    <3>. QED
      BY <3>1, <3>2, <2>1, <1>11
  <2>3. PICK m \in Nat : DOMAIN value.kids[o] = 1 .. m
    BY <2>2, <1>9, ValueFacts
  <2>4. PICK kids : kids = heap'[n].kids
    OBVIOUS
  <2>5. kids \in [1 .. m -> (1 .. (b + c)) \cup {Null}]
    BY <2>2, <2>3, <2>4 DEF IsAFunction
  <2>6. kids \in Seq((1 .. (b + c)) \cup {Null})
    BY <2>3, <2>5, SeqDef
  <2>7. value.kids[o] = [j \in DOMAIN kids |-> Obj(heap', kids[j])]
    <3>1. value.kids[o] \in Seq(Objects \cup {Null})
      BY <2>2, <1>9, ValueFacts
    <3>2. value.kids[o] = [j \in DOMAIN value.kids[o] |-> value.kids[o][j]]
      BY <3>1
    <3>. QED
      BY <3>2, <2>2, <2>4
  <2>. QED
    BY <2>1, <2>2, <2>4, <2>6, <2>7, <1>6, <1>12 DEF Objs
<1>15. ASSUME NEW m \in DOMAIN heap', NEW n \in DOMAIN heap', heap'[m].obj = heap'[n].obj
       PROVE  m = n
  <2>1. \A i, j \in 1 .. c : buffers[i] = buffers[j] => i = j
    BY <1>6, <1>9 DEF BuffersOK
  <2>2. \A i, j \in 1 .. b : heap[i].obj = heap[j].obj => i = j
    BY <1>6, <1>9 DEF BuiltOK
  <2>3. \A i \in 1 .. b, j \in 1 .. c : heap[i].obj # buffers[j]
    <3>1. \A i \in 1 .. b : Kind[heap[i].obj] # "buffer"
      BY <1>6, <1>9 DEF BuiltOK
    <3>2. \A i \in 1 .. c : Kind[buffers[i]] = "buffer"
      BY <1>6, <1>9 DEF BuffersOK
    <3>. QED
      BY <3>1, <3>2
  <2>4. m \in 1 .. b \/ \E i \in 1 .. c : m = b + i
    BY <1>6, <1>11
  <2>5. n \in 1 .. b \/ \E i \in 1 .. c : n = b + i
    BY <1>6, <1>11
  <2>6. /\ \A i \in 1 .. b : heap'[i].obj = heap[i].obj
        /\ \A i \in 1 .. c : heap'[b + i].obj = buffers[i]
    BY <1>7, <1>8
  <2>7. CASE m \in 1 .. b /\ n \in 1 .. b
    BY <2>7, <2>2, <2>6, <1>15
  <2>8. CASE \E i, j \in 1 .. c : m = b + i /\ n = b + j
    BY <2>8, <2>1, <2>6, <1>15
  <2>9. CASE m \in 1 .. b /\ \E i \in 1 .. c : n = b + i
    BY <2>9, <2>3, <2>6, <1>15
  <2>10. CASE n \in 1 .. b /\ \E i \in 1 .. c : m = b + i
    BY <2>10, <2>3, <2>6, <1>15
  <2>. QED
    BY <2>4, <2>5, <2>7, <2>8, <2>9, <2>10
<1>16. 1 \in DOMAIN heap' /\ heap'[1].obj = value.root
  <2>1. CASE heap # <<>>
    <3>1. b # 0
      BY <2>1, <1>5, <1>6, EmptySeq
    <3>2. 1 \in 1 .. b
      BY <3>1, <1>6
    <3>. QED
      BY <3>2, <2>1, <1>6, <1>7, <1>9, <1>12 DEF BuiltOK
  <2>2. CASE heap = <<>>
    <3>1. value.root \in w[N].seen /\ DOMAIN heap = {} /\ b = 0
      <4>1. w[1].seen = {value.root} /\ 1 \in 0 .. N
        BY <1>9, WalkFirst
      <4>2. w[1].seen \subseteq w[N].seen
        BY <4>1, <1>9 DEF FullWalk, Walk
      <4>3. DOMAIN <<>> = {} /\ Len(<<>>) = 0
        OBVIOUS
      <4>. QED
        BY <4>1, <4>2, <4>3, <2>2, <1>5
    <3>2. Kind[value.root] = "buffer"
      BY <3>1, <1>9 DEF BuiltOK
    <3>3. w[N].seen = {value.root}
      BY <3>2, <1>9, WalkFirst
    <3>4. PICK i \in 1 .. c : buffers[i] = value.root
      BY <3>1, <3>2, <1>6, <1>9 DEF BuffersOK
    <3>5. 1 \in 1 .. c
      BY <1>6
    <3>6. buffers[1] = value.root
      BY <3>3, <3>5, <1>6, <1>9 DEF BuffersOK
    <3>7. heap'[b + 1].obj = value.root /\ b + 1 \in 1 .. (b + c)
      BY <3>5, <3>6, <1>8, <1>12
    <3>8. b + 1 = 1
      BY <3>1
    <3>. QED
      BY <3>7, <3>8, <1>6
  <2>. QED
    BY <2>1, <2>2
<1>17. NodesOK'
  <2>1. root' = 1 /\ value' = value
    BY <1>1, <1>9 DEF BuiltOK
  <2>. QED
    BY <2>1, <1>14, <1>15, <1>16 DEF NodesOK
<1>18. CopiesOwned'
  <2>1. ASSUME NEW n \in 1 .. b
        PROVE  \/ heap[n].owner = n
               \/ heap[n].owner = Message /\ Kind[heap[n].obj] = "bytes"
    BY <1>6, <1>9 DEF BuiltOK, CopiesOwned
  <2>2. ASSUME NEW n \in DOMAIN heap'
        PROVE  \/ heap'[n].owner = n
               \/ heap'[n].owner = Message /\ Kind[heap'[n].obj] = "bytes"
    <3>1. n \in 1 .. b \/ \E i \in 1 .. c : n = b + i
      BY <1>6, <1>11
    <3>. QED
      BY <3>1, <2>1, <1>7, <1>8
  <2>. QED
    BY <2>2 DEF CopiesOwned
<1>19. StateOK'
  BY <1>1, <1>4 DEF StateOK, IsValue
<1>. QED
  BY <1>1, <1>17, <1>18, <1>19 DEF IInv

-----------------------------------------------------------------------------
(***************************************************************************)
(* The sizer begins: with a value of the application, or with what was     *)
(* received.                                                               *)
(***************************************************************************)

Begins ==
    /\ IsValue(value) /\ NodesOK
    /\ todo = <<root>>
    /\ records = Emptied /\ deferred = Emptied /\ buffers = <<>>
    /\ size = 0

LEMMA SizingBegins == Begins => \E w, N, met : SizingOK(w, N, met)
<1> SUFFICES ASSUME Begins
             PROVE  \E w, N, met : SizingOK(w, N, met)
  OBVIOUS
<1>1. PICK w : Walk(value, w, 0) /\ w[0] = [todo |-> <<value.root>>, seen |-> {}, size |-> 0]
  BY WalkBegins DEF Begins
<1>2. /\ root \in DOMAIN heap /\ heap[root].obj = value.root /\ root # Null
      /\ todo = <<root>> /\ size = 0 /\ buffers = <<>>
      /\ records = Emptied /\ deferred = Emptied
  BY DEF Begins, NodesOK
<1>3. w[0].todo = <<value.root>> /\ w[0].seen = {} /\ w[0].size = 0
  BY <1>1
<1>4. SenderAt(w[0], 0)
  <2>1. todo \in Seq(DOMAIN heap \cup {Null})
    BY <1>2
  <2>2. Objs(heap, <<root>>) = <<value.root>>
    <3>1. DOMAIN <<root>> = 1 .. 1 /\ <<root>>[1] = root
      OBVIOUS
    <3>2. Objs(heap, <<root>>) = [i \in 1 .. 1 |-> value.root]
      BY <3>1, <1>2 DEF Objs, Obj
    <3>3. <<value.root>> = [i \in 1 .. 1 |-> value.root]
      OBVIOUS
    <3>. QED
      BY <3>2, <3>3
  <2>3. size = w[0].size - 0
    BY <1>2, <1>3
  <2>. QED
    BY <2>1, <2>2, <2>3, <1>2, <1>3 DEF SenderAt
<1>5. {n \in DOMAIN heap : heap[n].obj \in w[0].seen} = {}
  BY <1>3
<1>6. DOMAIN Emptied = {}
  BY DEF Emptied
<1>7. RecordsOK({}, {}) /\ NoOwner \notin DOMAIN records
  <2>1. IsFiniteSet({})
    BY FS_EmptySet
  <2>. QED
    BY <2>1, <1>2, <1>6 DEF RecordsOK
<1>8. SizedBuffers({})
  <2>1. deferred = [d \in DOMAIN deferred |-> deferred[d]]
    BY <1>2 DEF Emptied
  <2>. QED
    BY <2>1, <1>2, <1>6 DEF SizedBuffers
<1>9. AllHere(w[0].seen)
  BY <1>3 DEF AllHere
<1>10. SizingOK(w, 0, {})
  BY <1>1, <1>2, <1>4, <1>5, <1>7, <1>8, <1>9 DEF SizingOK
<1>. QED
  BY <1>10

\* What an application sends are objects that own themselves.
LEMMA InitHolds == Init => IInv
<1> SUFFICES ASSUME Init
             PROVE  IInv
  OBVIOUS
<1>1. PICK g \in Graphs, r \in Roots : value = [root |-> r, kids |-> g]
  BY DEF Init
<1>2. value.root = r /\ value.kids = g /\ IsValue(value)
  BY <1>1 DEF IsValue
<1>3. /\ heap = [o \in Objects |-> [obj |-> o, kids |-> value.kids[o], owner |-> o]]
      /\ root = value.root /\ inline = TRUE /\ hop = 1 /\ phase = "sizing" /\ error = "none"
      /\ todo = <<root>> /\ records = Emptied /\ deferred = Emptied /\ buffers = <<>>
      /\ size = 0
  BY DEF Init
<1>4. StateOK
  BY <1>2, <1>3, SerdesAssumption DEF StateOK
<1>5. /\ DOMAIN heap = Objects
      /\ \A o \in Objects : heap[o].obj = o /\ heap[o].kids = value.kids[o] /\ heap[o].owner = o
  BY <1>3
<1>6. ASSUME NEW o \in Objects
      PROVE  /\ o \in Nat \ {Null}
             /\ value.kids[o] \in Seq(Objects \cup {Null})
             /\ value.kids[o] = Objs(heap, value.kids[o])
  <2>1. PICK kids : kids = value.kids[o]
    OBVIOUS
  <2>2. /\ kids \in Seq(Objects \cup {Null})
        /\ \A i \in DOMAIN kids : kids[i] \in Objects \cup {Null}
    BY <2>1, <1>2, ValueFacts
  <2>3. \A i \in DOMAIN kids : Obj(heap, kids[i]) = kids[i]
    BY <2>2, <1>5 DEF Obj
  <2>4. kids = [i \in DOMAIN kids |-> kids[i]]
    BY <2>2
  <2>5. kids = Objs(heap, kids)
    BY <2>3, <2>4 DEF Objs
  <2>. QED
    BY <2>1, <2>2, <2>5, ObjectFacts
<1>7. NodesOK
  <2>1. value.root \in Objects
    BY <1>2, SerdesAssumption DEF IsValue
  <2>. QED
    BY <2>1, <1>3, <1>5, <1>6 DEF NodesOK
<1>8. OwnersDiffer
  BY <1>5, <1>6 DEF OwnersDiffer
<1>9. \E w, N, met : SizingOK(w, N, met)
  BY <1>2, <1>3, <1>7, SizingBegins DEF Begins
<1>. QED
  BY <1>3, <1>4, <1>7, <1>8, <1>9 DEF IInv

\* A received value that is sent on: what owns itself differs, and of what the
\* message owns there is one block.
LEMMA ResendStep ==
  ASSUME Supported, StateOK, NodesOK, CopiesOwned, Resend
  PROVE  IInv'
<1>1. /\ hop < MaxHops /\ hop' = hop + 1 /\ phase' = "sizing" /\ todo' = <<root>>
      /\ records' = Emptied /\ deferred' = Emptied /\ buffers' = <<>> /\ size' = 0
      /\ UNCHANGED <<value, error, heap, root, inline>>
  BY DEF Resend
<1>2. hop \in 1 .. MaxHops /\ MaxHops \in Nat
  BY SerdesAssumption DEF StateOK
<1>3. MaxHops > 1 /\ hop + 1 \in 1 .. MaxHops
  BY <1>1, <1>2
<1>4. StateOK'
  BY <1>1, <1>3 DEF StateOK, IsValue
<1>5. NodesOK'
  BY <1>1 DEF NodesOK
<1>6. OwnersDiffer
  <2>1. \A n \in DOMAIN heap : n \in Nat \ {Null} /\ heap[n].obj \in Objects
    BY DEF NodesOK
  <2>2. \A n \in DOMAIN heap : \/ heap[n].owner = n
                               \/ heap[n].owner = 0 /\ Kind[heap[n].obj] = "bytes"
    BY DEF CopiesOwned, Message
  <2>3. ASSUME NEW m \in DOMAIN heap, NEW n \in DOMAIN heap, heap[m].owner = heap[n].owner
        PROVE  m = n
    <3>1. CASE heap[m].owner # 0 \/ heap[n].owner # 0
      BY <3>1, <2>1, <2>2, <2>3
    <3>2. CASE heap[m].owner = 0 /\ heap[n].owner = 0
      <4>1. Kind[heap[m].obj] = "bytes" /\ Kind[heap[n].obj] = "bytes"
        BY <3>2, <2>1, <2>2 DEF Null
      <4>2. heap[m].obj = heap[n].obj
        BY <4>1, <2>1, <1>3 DEF Supported
      <4>. QED
        BY <4>2 DEF NodesOK
    <3>. QED
      BY <3>1, <3>2
  <2>. QED
    BY <2>1, <2>2, <2>3 DEF OwnersDiffer
<1>7. OwnersDiffer'
  BY <1>1, <1>6 DEF OwnersDiffer
<1>8. Begins'
  BY <1>1, <1>4, <1>5 DEF Begins, StateOK
<1>9. (\E w, N, met : SizingOK(w, N, met))'
  <2>1. Begins' => (\E w, N, met : SizingOK(w, N, met))'
    BY SizingBegins, PTL
  <2>. QED
    BY <2>1, <1>8
<1>. QED
  BY <1>1, <1>4, <1>5, <1>7, <1>9 DEF IInv

-----------------------------------------------------------------------------
(***************************************************************************)
(* Which actions the phase admits, and the step that changes nothing.      *)
(***************************************************************************)

LEMMA SizerActs ==
  ASSUME phase = "sizing", [Next]_vars
  PROVE  PackNull \/ PackPointer \/ PackDeferrable \/ UNCHANGED vars
BY Zenon DEF Next, Deliver, UnpackNull, UnpackReference, UnpackInstance, UnpackAs,
   InstanceUnpacked, UnpackDeferred, Reading, Unpacking, ResetDeferred, Resend

LEMMA PackerActs ==
  ASSUME phase = "packing", [Next]_vars
  PROVE  PackNull \/ PackPointer \/ Deliver \/ UNCHANGED vars
BY Zenon DEF Next, PackDeferrable, UnpackNull, UnpackReference, UnpackInstance, UnpackAs,
   InstanceUnpacked, UnpackDeferred, Reading, Unpacking, ResetDeferred, Resend

LEMMA ReceiverActs ==
  ASSUME phase = "unpacking", [Next]_vars
  PROVE  \/ UnpackNull \/ UnpackReference \/ UnpackInstance \/ InstanceUnpacked
         \/ UnpackDeferred \/ ResetDeferred \/ UNCHANGED vars
BY Zenon DEF Next, PackNull, PackPointer, Walking, PackDeferrable, Deliver, Resend

LEMMA HolderActs ==
  ASSUME phase = "done", [Next]_vars
  PROVE  Resend \/ UNCHANGED vars
BY Zenon DEF Next, PackNull, PackPointer, Walking, PackDeferrable, Deliver, UnpackNull,
   UnpackReference, UnpackInstance, UnpackAs, InstanceUnpacked, UnpackDeferred, Reading,
   Unpacking, ResetDeferred

LEMMA InvariantStutters ==
  ASSUME IInv, UNCHANGED vars
  PROVE  IInv'
<1>1. UNCHANGED <<value, hop, phase, error, heap, root, inline, todo, records,
                  deferred, stream, size, sized, buffers, instances>>
  BY DEF vars
<1>2. StateOK' /\ (NodesOK => NodesOK') /\ (OwnersDiffer => OwnersDiffer')
      /\ (CopiesOwned => CopiesOwned')
  <2>1. StateOK'
    BY <1>1 DEF IInv, StateOK, IsValue
  <2>2. NodesOK => NodesOK'
    BY <1>1 DEF NodesOK
  <2>3. OwnersDiffer => OwnersDiffer'
    BY <1>1 DEF OwnersDiffer
  <2>4. CopiesOwned => CopiesOwned'
    BY <1>1 DEF CopiesOwned
  <2>. QED
    BY <2>1, <2>2, <2>3, <2>4
<1>3. Skipped' = Skipped /\ Offset' = Offset /\ Gap' = Gap /\ \A n : Owner(n)' = Owner(n)
  BY <1>1 DEF Skipped, Offset, Gap, Owner
<1>4. ASSUME NEW w, NEW N, NEW met, SizingOK(w, N, met)
      PROVE  SizingOK(w, N, met)'
  <2>1. /\ Walk(value, w, N) /\ SenderAt(w[N], 0) /\ RecordsOK(met, met)
        /\ AllHere(w[N].seen) /\ SizedBuffers(met)
        /\ met = {n \in DOMAIN heap : heap[n].obj \in w[N].seen}
        /\ NoOwner \notin DOMAIN records /\ buffers = <<>>
    BY <1>4 DEF SizingOK
  <2>2. Walk(value, w, N)' /\ SenderAt(w[N], 0)' /\ AllHere(w[N].seen)'
    BY <2>1, <1>1 DEF SenderAt, AllHere
  <2>3. RecordsOK(met, met)'
    BY <2>1, <1>1, <1>3 DEF RecordsOK
  <2>4. SizedBuffers(met)'
    BY <2>1, <1>1, <1>3 DEF SizedBuffers
  <2>. QED
    BY <2>1, <2>2, <2>3, <2>4, <1>1 DEF SizingOK
<1>5. ASSUME NEW w, NEW N, NEW k, NEW met, NEW known, PackingOK(w, N, k, met, known)
      PROVE  PackingOK(w, N, k, met, known)'
  <2>1. /\ FullWalk(value, w, N) /\ k \in Offset .. N /\ SenderAt(w[k], Gap)
        /\ sized = w[N].size - Gap
        /\ met = {n \in DOMAIN heap : heap[n].obj \in w[k].seen \ Skipped}
        /\ known = {n \in DOMAIN heap : /\ heap[n].obj \in w[N].seen
                                        /\ n = root /\ inline => n \in met}
        /\ RecordsOK(met, known) /\ AllHere(w[N].seen) /\ BuffersOK(w[N].seen)
        /\ BuffersSorted(known) /\ PackedOK(w, k, met)
    BY <1>5 DEF PackingOK
  <2>2. FullWalk(value, w, N)' /\ SenderAt(w[k], Gap)' /\ AllHere(w[N].seen)' /\ BuffersOK(w[N].seen)'
    BY <2>1, <1>1, <1>3 DEF SenderAt, AllHere, BuffersOK
  <2>3. RecordsOK(met, known)'
    BY <2>1, <1>1, <1>3 DEF RecordsOK
  <2>4. BuffersSorted(known)'
    BY <2>1, <1>1, <1>3 DEF BuffersSorted
  <2>5. PackedOK(w, k, met)'
    BY <2>1, <1>1, <1>3 DEF PackedOK
  <2>. QED
    BY <2>1, <2>2, <2>3, <2>4, <2>5, <1>1, <1>3 DEF PackingOK
<1>6. ASSUME NEW w, NEW N, NEW k, NEW ids, UnpackingOK(w, N, k, ids)
      PROVE  UnpackingOK(w, N, k, ids)'
  <2>1. /\ FullWalk(value, w, N) /\ k \in Offset .. N /\ BuffersOK(w[N].seen)
        /\ IdsOK(w[N].seen, ids) /\ StreamOK(w, N, k, ids) /\ SlotsOK(k)
        /\ Matches(value, heap, w[k].todo, todo) /\ BuiltOK(w[k].seen)
        /\ FilledOK(ids) /\ MarkersOK(ids) /\ InstancesOK(ids) /\ DeferredOK(w[k].seen, ids)
    BY <1>6 DEF UnpackingOK
  <2>2. FullWalk(value, w, N)' /\ BuffersOK(w[N].seen)' /\ Matches(value, heap, w[k].todo, todo)'
    BY <2>1, <1>1 DEF BuffersOK
  <2>3. IdsOK(w[N].seen, ids)' /\ StreamOK(w, N, k, ids)' /\ SlotsOK(k)'
    BY <2>1, <1>1, <1>3 DEF IdsOK, StreamOK, SlotsOK
  <2>4. BuiltOK(w[k].seen)'
    BY <2>1, <1>1 DEF BuiltOK, CopiesOwned
  <2>5. FilledOK(ids)'
    BY <2>1, <1>1 DEF FilledOK
  <2>6. MarkersOK(ids)'
    BY <2>1, <1>1, <1>3 DEF MarkersOK
  <2>7. InstancesOK(ids)'
    BY <2>1, <1>1, <1>3 DEF InstancesOK
  <2>8. DeferredOK(w[k].seen, ids)'
    BY <2>1, <1>1 DEF DeferredOK
  <2>. QED
    BY <2>1, <2>2, <2>3, <2>4, <2>5, <2>6, <2>7, <2>8, <1>3 DEF UnpackingOK
<1>. QED
  BY <1>1, <1>2, <1>4, <1>5, <1>6 DEF IInv

-----------------------------------------------------------------------------
(***************************************************************************)
(* Every step keeps the invariant.                                         *)
(***************************************************************************)

LEMMA Inductive ==
  ASSUME Supported, IInv, [Next]_vars
  PROVE  IInv'
<1>1. StateOK /\ phase \in {"sizing", "packing", "unpacking", "done"}
  BY DEF IInv, StateOK
<1>2. CASE phase = "sizing"
  <2>1. NodesOK /\ OwnersDiffer
    BY <1>2 DEF IInv
  <2>2. PICK w, N, met : SizingOK(w, N, met)
    BY <1>2 DEF IInv
  <2>3. CASE PackNull
    BY <2>1, <2>2, <2>3, <1>1, <1>2, SizingPackNull
  <2>4. CASE PackPointer
    BY <2>1, <2>2, <2>4, <1>1, <1>2, SizingPackPointer
  <2>5. CASE PackDeferrable
    BY <2>1, <2>2, <2>5, <1>1, <1>2, PackDeferrableStep
  <2>6. CASE UNCHANGED vars
    BY <2>6, InvariantStutters
  <2>. QED
    BY <2>3, <2>4, <2>5, <2>6, <1>2, SizerActs
<1>3. CASE phase = "packing"
  <2>1. NodesOK /\ OwnersDiffer
    BY <1>3 DEF IInv
  <2>2. PICK w, N, k, met, known : PackingOK(w, N, k, met, known)
    BY <1>3 DEF IInv
  <2>3. CASE PackNull
    BY <2>1, <2>2, <2>3, <1>1, <1>3, PackingPackNull
  <2>4. CASE PackPointer
    BY <2>1, <2>2, <2>4, <1>1, <1>3, PackingPackPointer
  <2>5. CASE Deliver
    BY <2>1, <2>2, <2>5, <1>1, <1>3, DeliverStep
  <2>6. CASE UNCHANGED vars
    BY <2>6, InvariantStutters
  <2>. QED
    BY <2>3, <2>4, <2>5, <2>6, <1>3, PackerActs
<1>4. CASE phase = "unpacking"
  <2>1. PICK w, N, k, ids : UnpackingOK(w, N, k, ids)
    BY <1>4 DEF IInv
  <2>2. CASE UnpackNull
    BY <2>1, <2>2, <1>1, <1>4, UnpackNullStep
  <2>3. CASE UnpackReference
    BY <2>1, <2>3, <1>1, <1>4, UnpackReferenceStep
  <2>4. CASE UnpackInstance
    BY <2>1, <2>4, <1>1, <1>4, UnpackInstanceStep
  <2>5. CASE InstanceUnpacked
    BY <2>1, <2>5, <1>1, <1>4, InstanceUnpackedStep
  <2>6. CASE UnpackDeferred
    BY <2>1, <2>6, <1>1, <1>4, UnpackDeferredStep
  <2>7. CASE ResetDeferred
    BY <2>1, <2>7, <1>1, <1>4, ResetDeferredStep
  <2>8. CASE UNCHANGED vars
    BY <2>8, InvariantStutters
  <2>. QED
    BY <2>2, <2>3, <2>4, <2>5, <2>6, <2>7, <2>8, <1>4, ReceiverActs
<1>5. CASE phase = "done"
  <2>1. NodesOK /\ CopiesOwned
    BY <1>5 DEF IInv
  <2>2. CASE Resend
    BY <2>1, <2>2, <1>1, ResendStep
  <2>3. CASE UNCHANGED vars
    BY <2>3, InvariantStutters
  <2>. QED
    BY <2>2, <2>3, <1>5, HolderActs
<1>. QED
  BY <1>1, <1>2, <1>3, <1>4, <1>5

-----------------------------------------------------------------------------
(***************************************************************************)
(* The theorems.                                                           *)
(***************************************************************************)

\* The invariant holds in every state: the two walks of the sender and the one
\* of the receiver go through the same pointers in the same order.
THEOREM WalksAgree == ASSUME Supported PROVE Spec => []IInv
<1>1. Init => IInv
  BY InitHolds
<1>2. IInv /\ [Next]_vars => IInv'
  BY Inductive
<1>. QED
  BY <1>1, <1>2, PTL DEF Spec

\* What the receiver holds is the graph that was sent, however often it is sent
\* on: the same objects, each of them once, with the same members.
THEOREM CopiesAreFaithful == ASSUME Supported PROVE Spec => []CopyFaithful
<1>1. IInv => CopyFaithful
  <2> SUFFICES ASSUME IInv, phase = "done"
               PROVE  /\ heap[root].obj = value.root
                      /\ \A n \in DOMAIN heap :
                           value.kids[heap[n].obj] =
                             [i \in DOMAIN heap[n].kids |->
                               IF heap[n].kids[i] = Null THEN Null
                               ELSE heap[heap[n].kids[i]].obj]
                      /\ \A m, n \in DOMAIN heap : heap[m].obj = heap[n].obj => m = n
    BY DEF CopyFaithful
  <2>1. NodesOK
    BY DEF IInv
  <2>. QED
    BY <2>1 DEF NodesOK, Objs, Obj
<1>. QED
  BY <1>1, WalksAgree, PTL

\* No assertion of the two walks and of the receiver fails: the sizes agree, no
\* id is given two instances, and there are as many deferred ids as buffers.
THEOREM NeverAborts == ASSUME Supported PROVE Spec => []NoAbort
<1>1. IInv => NoAbort
  BY DEF IInv, StateOK, NoAbort
<1>. QED
  BY <1>1, WalksAgree, PTL

=============================================================================
