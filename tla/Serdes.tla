------------------------------- MODULE Serdes -------------------------------
(***************************************************************************)
(* How a value that is sent to a port is flattened into a message and      *)
(* rebuilt from it (serialization/serdes.hpp, pup.hpp, pack_deferrable_ in *)
(* interceptor.cc, zero_copy_value::to_typed).  A value is a graph of      *)
(* objects held by shared pointers.  It is walked twice by the sender, to  *)
(* size it and to pack it, with one table of pointer records handed from   *)
(* the first walk to the second, and once by the receiver.  Each pointer   *)
(* becomes a record: IGNORED (null), INSTANCE (the object follows),        *)
(* REFERENCE (met before) or DEFERRED (a large buffer, sent by RDMA).      *)
(*                                                                         *)
(* A step handles one pointer.  The stack "todo" is the recursion of pup.  *)
(* Bytes of an object are its name, so "the same bytes" is "the same name" *)
(* and only the sizes the code adds up are numbers.                        *)
(***************************************************************************)
EXTENDS Integers, Sequences, FiniteSets

CONSTANTS Kind,          \* "plain", "poly", "bytes" or "buffer", per object
          Graphs,        \* the values: the members of every object, in order
          Roots,         \* the objects a sent value may be
          ErrorChecking, \* CMK_ERROR_CHECKING
          MaxHops        \* bound: how often the value is sent on

Objects == DOMAIN Kind
Null == 0

ASSUME SerdesAssumption ==
    /\ Kind \in Seq({"plain", "poly", "bytes", "buffer"})
    /\ Graphs \subseteq [Objects -> Seq(Objects \cup {Null})]
    /\ \A g \in Graphs, o \in Objects : Kind[o] \in {"bytes", "buffer"} => g[o] = <<>>
    /\ Roots \subseteq Objects
    /\ ErrorChecking \in BOOLEAN
    /\ MaxHops \in Nat \ {0}

\* kind_t, ptr_id_t and polymorph_id_t take 1, 8 and 8 bytes.
InstanceSize == 17
Payload(o) == CASE Kind[o] = "bytes"  -> 4
                [] Kind[o] = "buffer" -> 262144
                [] OTHER              -> 0
Width(rec) == CASE rec.kind = "IGNORED"   -> 1
                [] rec.kind = "REFERENCE" -> 9
                [] rec.kind = "DEFERRED"  -> InstanceSize
                [] rec.kind = "INSTANCE"  -> InstanceSize + Payload(rec.obj)

VARIABLES value,     \* what the application sent: its root and its graph
          hop, phase, error,
          heap,      \* the nodes in memory: object, members, owner
          root, inline, \* the node of the value, and whether its storage is kInline
          todo,      \* pointers yet to be pup'ed
          records,   \* serdes::records, by owner
          deferred,  \* serdes::deferred, by id: objects, or slots to reset
          stream, size, sized,
          buffers,   \* the RDMA buffers of the message, in the order of their ids
          instances  \* serdes::instances of the unpacker

vars == <<value, hop, phase, error, heap, root, inline, todo, records,
          deferred, stream, size, sized, buffers, instances>>

\* Control blocks that belong to no node: the message's, the value's, none.
Message == 0
Value == -1
NoOwner == -2

\* A shared pointer is known by its control block (owner_less).  The pointer
\* that encapsulates an inline value aliases the value, which only the sizer
\* was given as its source.
Owner(n) == IF n = root /\ inline
            THEN IF phase = "sizing" THEN Value ELSE NoOwner
            ELSE heap[n].owner

Emptied == [x \in {} |-> x]
SetAt(f, k, v) == [x \in DOMAIN f \cup {k} |-> IF x = k THEN v ELSE f[x]]

\* The keys of a std::map in their order: the i-th has i keys up to itself.
ById(f) == [i \in 1 .. Cardinality(DOMAIN f) |->
              CHOOSE d \in DOMAIN f : Cardinality({k \in DOMAIN f : k <= d}) = i]

\* serdes::deferred keeps the pointers of an id, serdes::instances its object.
\* get_instance returns an empty pointer for an id it does not know.
PutDeferred(id, ptr) ==
    SetAt(deferred, id, (IF id \in DOMAIN deferred THEN deferred[id] ELSE {}) \cup {ptr})
GetInstance(id) == IF id \in DOMAIN instances THEN instances[id] ELSE Null
PutInstance(id, n) ==
    /\ instances' = SetAt(instances, id, n)
    /\ error' = IF id \in DOMAIN instances
                THEN "instance insertion did not occur!" ELSE error

Init == /\ \E g \in Graphs, r \in Roots : value = [root |-> r, kids |-> g]
        /\ heap = [o \in Objects |-> [obj |-> o, kids |-> value.kids[o], owner |-> o]]
        /\ root = value.root
        /\ inline = TRUE
        /\ hop = 1
        /\ phase = "sizing"
        /\ error = "none"
        /\ todo = <<root>>
        /\ records = Emptied
        /\ deferred = Emptied
        /\ instances = Emptied
        /\ stream = <<>>
        /\ buffers = <<>>
        /\ size = 0
        /\ sized = 0
-----------------------------------------------------------------------------
\* The sender: a walk that sizes the value, then one that packs it.

Walking == phase \in {"sizing", "packing"} /\ error = "none" /\ todo # <<>>

GetRecord_Stale(n) ==
    IF Owner(n) \notin DOMAIN records
    THEN [id |-> Cardinality(DOMAIN records) + 1, kind |-> "INSTANCE",
          progenitor |-> phase]
    ELSE IF records[Owner(n)].kind = "INSTANCE"
         THEN [records[Owner(n)] EXCEPT !.kind = "REFERENCE"]
         ELSE records[Owner(n)]

GetRecord(n) ==
    IF Owner(n) \notin DOMAIN records
    THEN [id |-> Cardinality(DOMAIN records) + 1, kind |-> "INSTANCE",
          progenitor |-> phase]
    ELSE LET rec == records[Owner(n)]
         IN  IF rec.progenitor # phase
             THEN [rec EXCEPT !.progenitor = phase, !.kind = "INSTANCE"]
             ELSE IF rec.kind = "INSTANCE" THEN [rec EXCEPT !.kind = "REFERENCE"] ELSE rec

Emit(item) == /\ size' = size + Width(item)
              /\ stream' = Append(stream, item)

PackNull ==
    /\ Walking
    /\ Head(todo) = Null
    /\ Emit([kind |-> "IGNORED", id |-> 0, obj |-> Null])
    /\ todo' = Tail(todo)
    /\ UNCHANGED <<value, hop, phase, error, heap, root, inline, records,
                   deferred, sized, buffers, instances>>

\* The sizer may defer; the packer does when the sizer found a buffer.
Deferrable == phase = "sizing" \/ buffers # <<>>

PackPointer ==
    /\ Walking
    /\ Head(todo) # Null
    /\ \E n \in {Head(todo)} : \E found \in {GetRecord(n)} :
         LET obj == heap[n].obj
             defer == found.kind = "INSTANCE" /\ Kind[obj] = "buffer" /\ Deferrable
             rec == IF defer THEN [found EXCEPT !.kind = "DEFERRED"] ELSE found
         IN  /\ records' = SetAt(records, Owner(n), rec)
             /\ Emit([kind |-> rec.kind, id |-> rec.id, obj |-> obj])
             /\ deferred' = IF defer THEN PutDeferred(rec.id, obj) ELSE deferred
             /\ todo' = (IF rec.kind = "INSTANCE" THEN heap[n].kids ELSE <<>>) \o Tail(todo)
    /\ UNCHANGED <<value, hop, phase, error, heap, root, inline, sized,
                   buffers, instances>>

\* get_deferred: the vector of deferred blocks, and what its assertion takes
\* for sorted: is_sorted with a comparator that subtracts the size of one block
\* from the id of the other.
GetDeferred == [i \in DOMAIN ById(deferred) |-> CHOOSE o \in deferred[ById(deferred)[i]] : TRUE]
TakenForSorted ==
    \A i \in 1 .. Cardinality(DOMAIN deferred) - 1 :
        ById(deferred)[i + 1] - Payload(GetDeferred[i]) = 0

PackDeferrable ==
    /\ phase = "sizing" /\ error = "none" /\ todo = <<>>
    /\ \E hasDeferred \in {deferred # Emptied} :
         /\ buffers' = GetDeferred
         /\ sized' = IF hasDeferred THEN size ELSE size - InstanceSize
         /\ todo' = IF hasDeferred THEN <<root>> ELSE heap[root].kids
         /\ size' = IF hasDeferred THEN 0 ELSE Payload(heap[root].obj)
         /\ error' = IF ErrorChecking /\ ~TakenForSorted
                     THEN "resulting vector was unsorted!" ELSE error
    /\ phase' = "packing"
    /\ stream' = <<>>
    /\ deferred' = Emptied
    /\ UNCHANGED <<value, hop, heap, root, inline, records, instances>>

\* The message is complete.  A value with buffers arrives as a pointer, any
\* other as the object itself, built in place.
Slots(n, o) == [i \in DOMAIN value.kids[o] |-> [put |-> FALSE, node |-> n, at |-> i]]
Node(o, owner) == [obj |-> o, kids |-> [i \in DOMAIN value.kids[o] |-> Null],
                   owner |-> owner]

Deliver ==
    /\ phase = "packing" /\ error = "none" /\ todo = <<>>
    /\ error' = IF size = sized THEN error ELSE "size mismatch!"
    /\ phase' = "unpacking"
    /\ \E obj \in {heap[root].obj} :
         IF buffers # <<>>
         THEN heap' = <<>> /\ todo' = << [put |-> FALSE, node |-> Null, at |-> 0] >>
         ELSE heap' = << Node(obj, 1) >> /\ todo' = Slots(1, obj)
    /\ root' = 1
    /\ inline' = (buffers = <<>>)
    /\ records' = Emptied
    /\ deferred' = Emptied
    /\ instances' = Emptied
    /\ UNCHANGED <<value, hop, stream, size, sized, buffers>>
-----------------------------------------------------------------------------
\* The receiver.  A slot is the place of a pointer: a member of a node.

Unpacking == phase = "unpacking" /\ error = "none" /\ todo # <<>>
Reading(kind) == Unpacking /\ ~Head(todo).put /\ Head(stream).kind = kind

Fill(h, slot, n) == IF slot.node = Null THEN h
                    ELSE [h EXCEPT ![slot.node].kids[slot.at] = n]

UnpackNull ==
    /\ Reading("IGNORED")
    /\ todo' = Tail(todo)
    /\ stream' = Tail(stream)
    /\ UNCHANGED <<value, hop, phase, error, heap, root, inline, records,
                   deferred, size, sized, buffers, instances>>

UnpackReference ==
    /\ Reading("REFERENCE")
    /\ heap' = Fill(heap, Head(todo), GetInstance(Head(stream).id))
    /\ todo' = Tail(todo)
    /\ stream' = Tail(stream)
    /\ UNCHANGED <<value, hop, phase, error, root, inline, records, deferred,
                   size, sized, buffers, instances>>

\* A polymorph is entered in the table before its members are unpacked, any
\* other object after them (`early': the kinds that are entered before).
\* Plain bytes stay in the message and are owned by it.
UnpackAs(early) ==
    /\ Reading("INSTANCE")
    /\ \E rec \in {Head(stream)}, n \in {Len(heap) + 1} :
         LET first == Kind[rec.obj] \in early
             put == << [put |-> TRUE, node |-> n, at |-> rec.id] >>
         IN  /\ heap' = Append(Fill(heap, Head(todo), n),
                               Node(rec.obj, IF Kind[rec.obj] \in {"bytes", "buffer"}
                                             THEN Message ELSE n))
             /\ IF first THEN PutInstance(rec.id, n) ELSE UNCHANGED <<instances, error>>
             /\ todo' = Slots(n, rec.obj) \o (IF first THEN <<>> ELSE put) \o Tail(todo)
    /\ stream' = Tail(stream)
    /\ UNCHANGED <<value, hop, phase, root, inline, records, deferred, size,
                   sized, buffers>>

UnpackInstance_Late == UnpackAs({})
UnpackInstance == UnpackAs({"poly"})

InstanceUnpacked ==
    /\ Unpacking
    /\ Head(todo).put
    /\ PutInstance(Head(todo).at, Head(todo).node)
    /\ todo' = Tail(todo)
    /\ UNCHANGED <<value, hop, phase, heap, root, inline, records, deferred,
                   stream, size, sized, buffers>>

\* put_deferred keeps the address of the pointer, which is reset later on.
UnpackDeferred ==
    /\ Reading("DEFERRED")
    /\ deferred' = PutDeferred(Head(stream).id, <<Head(todo).node, Head(todo).at>>)
    /\ todo' = Tail(todo)
    /\ stream' = Tail(stream)
    /\ UNCHANGED <<value, hop, phase, error, heap, root, inline, records, size,
                   sized, buffers, instances>>

\* zero_copy_value::to_typed: the i-th buffer goes to the i-th deferred id.
WithBuffers(ids, base) ==
    LET grown == heap \o [i \in DOMAIN buffers |-> Node(buffers[i], base + i)]
        Target(n, j) == {i \in DOMAIN ids : <<n, j>> \in deferred[ids[i]]}
    IN  [n \in DOMAIN grown |->
           [grown[n] EXCEPT !.kids =
               [j \in DOMAIN @ |-> IF Target(n, j) = {} THEN @[j]
                   ELSE base + (CHOOSE i \in Target(n, j) : TRUE)]]]

ResetDeferred ==
    /\ phase = "unpacking" /\ error = "none" /\ todo = <<>>
    /\ phase' = "done"
    /\ error' = IF Cardinality(DOMAIN deferred) = Len(buffers)
                THEN error ELSE "deferred counts did not match!"
    /\ \E ids \in {ById(deferred)}, base \in {Len(heap)} :
         heap' = WithBuffers(ids, base)
    /\ UNCHANGED <<value, hop, root, inline, todo, records, deferred, stream,
                   size, sized, buffers, instances>>

\* The receiver sends the value on, as forward and the components do.
Resend ==
    /\ phase = "done" /\ error = "none" /\ hop < MaxHops
    /\ hop' = hop + 1
    /\ phase' = "sizing"
    /\ todo' = <<root>>
    /\ records' = Emptied
    /\ deferred' = Emptied
    /\ instances' = Emptied
    /\ buffers' = <<>>
    /\ size' = 0
    /\ UNCHANGED <<value, error, heap, root, inline, stream, sized>>

Next == \/ PackNull \/ PackPointer \/ PackDeferrable \/ Deliver
        \/ UnpackNull \/ UnpackReference \/ UnpackInstance \/ InstanceUnpacked
        \/ UnpackDeferred \/ ResetDeferred \/ Resend

Spec == Init /\ [][Next]_vars
-----------------------------------------------------------------------------
\* The values that survive the trip, and what the properties are claimed for.

\* S holds what lies below o: the members of o and, with an object, its own.
HoldsBelow(S, g, o) ==
    \A p \in S \cup {o} : \A i \in DOMAIN g[p] : g[p][i] \in S \cup {Null}

\* o cannot be reached from itself.
OnNoCycle(g, o) == \E S \in SUBSET Objects : HoldsBelow(S, g, o) /\ o \notin S

\* The assertion that the buffers are sorted is compiled out: its comparator
\* fails on values with two buffers.  An object that is not a polymorph is on
\* no cycle (it enters the receiver's table after its members), and nothing
\* points back to the root (the packer's pointer to it does not own it).  The
\* bytes of a message share their owner, so a value that is sent on has one
\* block of them at most.
Supported ==
    /\ ~ErrorChecking
    /\ \A g \in Graphs, o \in Objects :
           Kind[o] # "poly" \/ o \in Roots => OnNoCycle(g, o)
    /\ MaxHops > 1 =>
           \A p, q \in Objects : Kind[p] = "bytes" /\ Kind[q] = "bytes" => p = q

\* Types of the variables.
TypeOK ==
    /\ phase \in {"sizing", "packing", "unpacking", "done"}
    /\ hop \in 1 .. MaxHops
    /\ root \in Objects
    /\ inline \in BOOLEAN
    /\ size \in Nat /\ sized \in Nat
    /\ DOMAIN instances \subseteq Nat
    /\ \A k \in DOMAIN records :
           records[k].kind \in {"INSTANCE", "REFERENCE", "DEFERRED"}

\* What the receiver holds is the graph that was sent, however often it was
\* sent on: the same objects, each of them once (pointers that were shared are
\* shared, two objects are never merged), with the same members, null pointers
\* and cycles included, and every buffer in the place it was taken from.
CopyFaithful ==
    phase = "done" /\ error = "none" =>
        /\ heap[root].obj = value.root
        /\ \A n \in DOMAIN heap :
               value.kids[heap[n].obj] =
                   [i \in DOMAIN heap[n].kids |->
                       IF heap[n].kids[i] = Null THEN Null ELSE heap[heap[n].kids[i]].obj]
        /\ \A m, n \in DOMAIN heap : heap[m].obj = heap[n].obj => m = n

\* No assertion of the two walks and of the receiver fails: the sizes that the
\* two walks find agree (interceptor.cc:77), no id is given two instances, and
\* the receiver meets as many deferred ids as it was sent buffers.
NoAbort == error = "none"

=============================================================================
