---------------------------- MODULE FuturesProofs ----------------------------
(***************************************************************************)
(* The value of a future is always in one place, it waits for nothing that *)
(* is open, and a thread keeps the first value it is given: proofs for any *)
(* elements, any futures, and any lists of futures that threads wait for.  *)
(*                                                                         *)
(* A resuming_callback takes whatever it is given, so that a thread keeps  *)
(* its first value only because there is no second one: conservation, what *)
(* the callbacks stand for and what the threads hold are proved together.  *)
(***************************************************************************)
EXTENDS Futures, FiniteSetTheorems, TLAPS

\* The value of f is on its way to e, in the queue of e, or with its thread,
\* and nowhere else; or it is nowhere.
InNet(e, f) == \A x \in Element : /\ Value(x, f) \in net <=> x = e
                                  /\ f \notin queue[x]
                                  /\ result[x] # f
InQueue(e, f) == \A x \in Element : /\ Value(x, f) \notin net
                                    /\ f \in queue[x] <=> x = e
                                    /\ result[x] # f
InResult(e, f) == \A x \in Element : /\ Value(x, f) \notin net
                                     /\ f \notin queue[x]
                                     /\ result[x] = f <=> x = e
Nowhere(f) == \A x \in Element : /\ Value(x, f) \notin net
                                 /\ f \notin queue[x]
                                 /\ result[x] # f
OnePlace(f) == IF f \in isSet
               THEN \E e \in Element : InNet(e, f) \/ InQueue(e, f) \/ InResult(e, f)
               ELSE Nowhere(f)

\* The callback of a thread that waits for f; forwarding ports have no thread.
Awaits(x, f, cb) == /\ cb.elt = x
                    /\ thread[x] # "new"
                    /\ f \in WantedBy(x)
                    /\ cb.kind = "resuming" => x \in Plain
CallbacksOK == \A x \in Element, f \in Future :
                   port[x][f] # None /\ port[x][f].kind # "forwarding"
                       => Awaits(x, f, port[x][f])

ThreadsOK == \A x \in Element :
    /\ thread[x] = "new" => result[x] = None
    /\ thread[x] = "awakened" => result[x] # None
    /\ result[x] # None => result[x] \in WantedBy(x)

Inv == /\ TypeOK
       /\ CallbacksOK
       /\ ThreadsOK
       /\ \A f \in Future : OnePlace(f)
       /\ NothingStranded

-----------------------------------------------------------------------------
\* Messages.

\* Values and openers differ, and are known by their parts.
LEMMA MessageFacts ==
    /\ \A e, x \in Element, f, g \in Future : Value(e, f) = Value(x, g) <=> e = x /\ f = g
    /\ \A e, x \in Element, f, g \in Future : Opener(f, e) = Opener(g, x) <=> e = x /\ f = g
    /\ \A e, x \in Element, f, g \in Future : Value(e, f) # Opener(g, x)
  <1>1. \A e, x \in Element, f, g \in Future : Value(e, f) = Value(x, g) <=> e = x /\ f = g
    <2>1. \A e, f : Value(e, f).to = e /\ Value(e, f).f = f
      BY DEF Value
    <2> QED  BY <2>1
  <1>2. \A e, x \in Element, f, g \in Future : Opener(f, e) = Opener(g, x) <=> e = x /\ f = g
    <2>1. \A e, f : Opener(f, e).elt = e /\ Opener(f, e).f = f
      BY DEF Opener
    <2> QED  BY <2>1
  <1>3. \A e, x \in Element, f, g \in Future : Value(e, f) # Opener(g, x)
    <2>1. \A e, f : Value(e, f).kind = "value" /\ Opener(f, e).kind = "opener"
      BY DEF Value, Opener
    <2> QED  BY <2>1
  <1> QED  BY <1>1, <1>2, <1>3

\* A message in the network is a value or an opener, as its kind says.
LEMMA MessageForm ==
  ASSUME TypeOK, NEW m \in net
  PROVE  /\ m.kind = "value" => m.to \in Element /\ m.f \in Future /\ m = Value(m.to, m.f)
         /\ m.kind = "opener" => /\ m.elt \in Element /\ m.f \in Future
                                 /\ m = Opener(m.f, m.elt) /\ m.to = Source[m.f]
  <1>1. CASE \E e \in Element, f \in Future : m = Value(e, f)
    BY <1>1 DEF Value
  <1>2. CASE \E e \in Element, f \in Future : m = Opener(f, e)
    BY <1>2 DEF Opener
  <1> QED  BY <1>1, <1>2 DEF TypeOK

\* The types after a step, from those of the variables.
LEMMA TypeFrom ==
  ASSUME isSet' \subseteq Future, aborted' \in BOOLEAN,
         port' \in [Element -> [Future -> Callback \cup {None}]],
         queue' \in [Element -> SUBSET Future],
         net' \subseteq {Value(y, g) : y \in Element, g \in Future}
                       \cup {Opener(g, y) : y \in Element, g \in Future},
         thread' \in [Element -> {"new", "waiting", "awakened", "resumed"}],
         result' \in [Element -> Future \cup {None}],
         taken' \in [Element -> Future \cup {None}]
  PROVE  TypeOK'
  BY DEF TypeOK

-----------------------------------------------------------------------------
\* Where a value is.

\* If a value is somewhere, it is nowhere else, and its future has been set.
LEMMA Found ==
  ASSUME NEW f \in Future, NEW e \in Element, OnePlace(f)
  PROVE  /\ Value(e, f) \in net => f \in isSet /\ InNet(e, f)
         /\ f \in queue[e] => f \in isSet /\ InQueue(e, f)
         /\ result[e] = f => f \in isSet /\ InResult(e, f)
  BY DEF OnePlace, InNet, InQueue, InResult, Nowhere

\* A step that does not touch the value of g.
Untouched(g) == /\ g \in isSet' <=> g \in isSet
                /\ \A x \in Element : /\ Value(x, g) \in net' <=> Value(x, g) \in net
                                      /\ g \in queue'[x] <=> g \in queue[x]
                                      /\ result'[x] = g <=> result[x] = g

LEMMA StaysPut ==
  ASSUME NEW g \in Future, OnePlace(g), Untouched(g)
  PROVE  OnePlace(g)'
  <1>1. ASSUME NEW e \in Element
        PROVE  /\ InNet(e, g) => InNet(e, g)'
               /\ InQueue(e, g) => InQueue(e, g)'
               /\ InResult(e, g) => InResult(e, g)'
    <2>1. InNet(e, g) => InNet(e, g)'
      BY DEF Untouched, InNet
    <2>2. InQueue(e, g) => InQueue(e, g)'
      BY DEF Untouched, InQueue
    <2>3. InResult(e, g) => InResult(e, g)'
      BY DEF Untouched, InResult
    <2> QED  BY <2>1, <2>2, <2>3
  <1>2. Nowhere(g) => Nowhere(g)'
    BY DEF Untouched, Nowhere
  <1>3. g \in isSet' <=> g \in isSet
    BY DEF Untouched
  <1> QED  BY <1>1, <1>2, <1>3 DEF OnePlace

\* The value in hand is given to a callback: it is sent on to some element, or
\* a thread that had no value takes it.
Handed(f, rest, e) ==
    \/ /\ net' = rest \cup {Value(e, f)}
       /\ UNCHANGED <<thread, result>>
    \/ /\ net' = rest
       /\ result[e] = None
       /\ result' = [result EXCEPT ![e] = f]
       /\ thread' = [thread EXCEPT ![e] = IF @ = "waiting" THEN "awakened" ELSE @]
       /\ thread[e] # "new"
       /\ f \in WantedBy(e)

LEMMA PlainWantsOne ==
  ASSUME NEW x \in Plain, NEW f \in WantedBy(x), NEW g \in WantedBy(x)
  PROVE  f = g
  <1>1. x \in Element /\ Len(Wants[x]) = 1 /\ Wants[x] \in Seq(Future)
    BY FuturesAssumption
  <1>2. DOMAIN Wants[x] = {1}
    BY <1>1
  <1> QED  BY <1>2 DEF WantedBy

LEMMA SendHands ==
  ASSUME Inv, NEW f \in Future, NEW x \in Element, NEW cb \in Callback, NEW rest,
         cb.kind # "forwarding" => Awaits(x, f, cb),
         \A e \in Element : result[e] # f,
         Send(cb, f, rest)
  PROVE  \E e \in Element : Handed(f, rest, e)
  <1> USE DEF Inv, TypeOK
  <1>1. cb.elt \in Element /\ Source[f] \in Element
    BY FuturesAssumption DEF Callback
  <1>2. CASE cb.kind = "resuming"
    <2>1. Awaits(x, f, cb) /\ cb.elt = x /\ x \in Plain
      BY <1>2 DEF Awaits
    <2>2. result[x] = None
      BY <2>1, PlainWantsOne DEF ThreadsOK, Awaits
    <2>3. Resumes(x, f) /\ net' = rest
      BY <1>2, <2>1 DEF Send
    <2> QED  BY <2>1, <2>2, <2>3 DEF Handed, Resumes, Awaits
  <1>3. CASE cb.kind = "wait_any"
    <2>1. Awaits(x, f, cb) /\ cb.elt = x
      BY <1>3 DEF Awaits
    <2>2. WaitAnySend(x, f, rest)
      BY <1>3, <2>1 DEF Send
    <2>3. CASE result[x] # None
      BY <1>1, <2>2, <2>3 DEF WaitAnySend, Handed
    <2>4. CASE result[x] = None
      BY <2>1, <2>2, <2>4 DEF WaitAnySend, Handed, Resumes, Awaits
    <2> QED  BY <2>3, <2>4
  <1>4. CASE cb.kind = "forwarding"
    BY <1>1, <1>4 DEF Send, Handed
  <1> QED  BY <1>2, <1>3, <1>4 DEF Callback

-----------------------------------------------------------------------------
\* The value of f was in hand in this step, and is in one place after it: the
\* places it was taken from are empty, the one it was given to was.
LEMMA HandedIsPlaced ==
  ASSUME TypeOK, NEW f \in Future, NEW e \in Element, NEW rest, f \in isSet, UNCHANGED isSet,
         \A x \in Element : result[x] # f /\ Value(x, f) \notin rest /\ f \notin queue'[x],
         Handed(f, rest, e)
  PROVE  OnePlace(f)'
  <1>1. CASE net' = rest \cup {Value(e, f)} /\ UNCHANGED <<thread, result>>
    <2>1. InNet(e, f)'
      BY <1>1, MessageFacts DEF InNet
    <2> QED  BY <2>1 DEF OnePlace
  <1>2. CASE net' = rest /\ result' = [result EXCEPT ![e] = f]
    <2>1. InResult(e, f)'
      BY <1>2 DEF InResult, TypeOK
    <2> QED  BY <2>1 DEF OnePlace
  <1> QED  BY <1>1, <1>2 DEF Handed

\* ... and the other values stay where they were.
LEMMA HandedTouchesOne ==
  ASSUME TypeOK, NEW f \in Future, NEW e \in Element, NEW rest, UNCHANGED isSet,
         NEW g \in Future, g # f,
         \A x \in Element : /\ Value(x, g) \in rest <=> Value(x, g) \in net
                            /\ g \in queue'[x] <=> g \in queue[x],
         Handed(f, rest, e)
  PROVE  Untouched(g)
  <1>1. CASE net' = rest \cup {Value(e, f)} /\ UNCHANGED <<thread, result>>
    BY <1>1, MessageFacts DEF Untouched
  <1>2. CASE net' = rest /\ result[e] = None /\ result' = [result EXCEPT ![e] = f]
    <2>1. g # None
      BY FuturesAssumption
    <2> QED  BY <1>2, <2>1 DEF Untouched, TypeOK
  <1> QED  BY <1>1, <1>2 DEF Handed

\* The callbacks and threads after a value was handed over, ports unchanged or
\* a forwarding one opened.
LEMMA HandedThreads ==
  ASSUME Inv, NEW f \in Future, NEW e \in Element, NEW rest, Handed(f, rest, e)
  PROVE  /\ ThreadsOK'
         /\ thread' \in [Element -> {"new", "waiting", "awakened", "resumed"}]
         /\ result' \in [Element -> Future \cup {None}]
         /\ \A x \in Element : thread[x] # "new" => thread'[x] # "new"
         /\ \A x \in Element : result[x] # None => result'[x] = result[x]
  <1> USE DEF Inv, TypeOK
  <1>1. CASE UNCHANGED <<thread, result>>
    BY <1>1 DEF ThreadsOK, WantedBy
  <1>2. CASE /\ result[e] = None
             /\ result' = [result EXCEPT ![e] = f]
             /\ thread' = [thread EXCEPT ![e] = IF @ = "waiting" THEN "awakened" ELSE @]
             /\ thread[e] # "new"
             /\ f \in WantedBy(e)
    <2>1. f # None
      BY FuturesAssumption
    <2>2. \A x \in Element : WantedBy(x)' = WantedBy(x)
      BY DEF WantedBy
    <2>3. \A x \in Element : x # e => thread'[x] = thread[x] /\ result'[x] = result[x]
      BY <1>2
    <2>4. result'[e] = f /\ thread'[e] = (IF thread[e] = "waiting" THEN "awakened" ELSE thread[e])
      BY <1>2
    <2>5. ThreadsOK'
      BY <1>2, <2>1, <2>2, <2>3, <2>4 DEF ThreadsOK
    <2> QED  BY <1>2, <2>3, <2>4, <2>5
  <1> QED  BY <1>1, <1>2 DEF Handed

-----------------------------------------------------------------------------
\* The steps.

\* What a thread has been given it keeps, and it takes what it waits for.
FirstTaken == \A e \in Element :
    /\ result[e] # None => result'[e] = result[e]
    /\ taken'[e] # taken[e] => taken'[e] \in WantedBy(e) \cap isSet

LEMMA ReceiveStep ==
  ASSUME Inv, NEW m \in net, Receive(m)
  PROVE  Inv' /\ FirstTaken
  <1> USE DEF Inv
  <1> DEFINE e == m.to
             f == m.f
             rest == net \ {m}
  <1>1. e \in Element /\ f \in Future /\ m = Value(e, f)
    BY MessageForm DEF Receive
  <1>2. f \in isSet /\ InNet(e, f)
    BY <1>1, Found
  <1>3. /\ \A x \in Element : result[x] # f /\ Value(x, f) \notin rest /\ f \notin queue[x]
        /\ \A g \in Future : g # f => \A x \in Element : Value(x, g) \in rest <=> Value(x, g) \in net
        /\ \A g \in Future, x \in Element : Opener(g, x) \in net => Opener(g, x) \in rest
    BY <1>1, <1>2, MessageFacts DEF InNet
  <1>4. UNCHANGED <<isSet, port, taken, aborted>>
    BY DEF Receive
  <1>5. CASE port[e][f] = None /\ queue' = [queue EXCEPT ![e] = @ \cup {f}] /\ net' = rest
             /\ UNCHANGED <<thread, result>>
    <2>1. TypeOK'
      BY <1>1, <1>4, <1>5 DEF TypeOK
    <2>2. CallbacksOK' /\ ThreadsOK'
      BY <1>4, <1>5 DEF CallbacksOK, ThreadsOK, Awaits, WantedBy
    <2>3. InQueue(e, f)'
      BY <1>1, <1>3, <1>5 DEF InQueue, TypeOK
    <2>4. ASSUME NEW g \in Future, g # f  PROVE Untouched(g)
      BY <1>1, <1>3, <1>4, <1>5, <2>4 DEF Untouched, TypeOK
    <2>5. \A g \in Future : OnePlace(g)'
      BY <1>1, <1>2, <1>4, <2>3, <2>4, StaysPut DEF OnePlace
    <2>6. NothingStranded'
      BY <1>1, <1>3, <1>4, <1>5 DEF NothingStranded, TypeOK
    <2>7. FirstTaken
      BY <1>4, <1>5 DEF FirstTaken
    <2> QED  BY <2>1, <2>2, <2>5, <2>6, <2>7
  <1>6. CASE port[e][f] # None /\ Send(port[e][f], f, rest) /\ UNCHANGED queue
    <2>1. port[e][f] \in Callback
      BY <1>1, <1>6 DEF TypeOK
    <2>2. port[e][f].kind # "forwarding" => Awaits(e, f, port[e][f])
      BY <1>1, <1>6 DEF CallbacksOK
    <2>3. \A x \in Element : result[x] # f
      BY <1>3
    <2>4. PICK x \in Element : Handed(f, rest, x)
      <3> HIDE DEF Inv, e, f, rest
      <3> QED  BY <1>1, <1>6, <2>1, <2>2, <2>3, SendHands
    <2>5. /\ ThreadsOK'
          /\ thread' \in [Element -> {"new", "waiting", "awakened", "resumed"}]
          /\ result' \in [Element -> Future \cup {None}]
          /\ \A y \in Element : thread[y] # "new" => thread'[y] # "new"
          /\ \A y \in Element : result[y] # None => result'[y] = result[y]
      <3> HIDE DEF Inv, e, f, rest
      <3> QED  BY <1>1, <2>4, HandedThreads
    <2>6. net' \in {rest \cup {Value(x, f)}, rest}
      BY <2>4 DEF Handed
    <2>7. TypeOK'
      BY <1>1, <1>4, <1>6, <2>5, <2>6 DEF TypeOK
    <2>8. CallbacksOK'
      BY <1>4, <2>5 DEF CallbacksOK, Awaits, WantedBy
    <2>9. OnePlace(f)'
      <3> HIDE DEF e, f, rest
      <3> QED  BY <1>1, <1>2, <1>3, <1>4, <1>6, <2>4, HandedIsPlaced
    <2>10. ASSUME NEW g \in Future, g # f  PROVE OnePlace(g)'
      <3>1. Untouched(g)
        <4> HIDE DEF e, f, rest
        <4> QED  BY <1>1, <1>3, <1>4, <1>6, <2>4, <2>10, HandedTouchesOne
      <3> QED  BY <3>1, StaysPut
    <2>11. NothingStranded'
      BY <1>3, <1>4, <1>6, <2>6 DEF NothingStranded
    <2>12. FirstTaken
      BY <1>4, <2>5 DEF FirstTaken
    <2>13. \A g \in Future : OnePlace(g)'
      BY <2>9, <2>10
    <2> QED  BY <2>5, <2>7, <2>8, <2>11, <2>12, <2>13
  <1> QED  BY <1>5, <1>6 DEF Receive

\* A step that aborts, or that changes nothing, changes nothing of this.
LEMMA AbortStep ==
  ASSUME Inv, UNCHANGED <<isSet, port, queue, net, thread, result, taken>>,
         aborted' \in BOOLEAN
  PROVE  Inv' /\ FirstTaken
  <1> USE DEF Inv
  <1>1. TypeOK'
    BY DEF TypeOK
  <1>2. CallbacksOK' /\ ThreadsOK' /\ NothingStranded'
    BY DEF CallbacksOK, ThreadsOK, NothingStranded, Awaits, WantedBy
  <1>3. \A g \in Future : OnePlace(g)'
    BY StaysPut DEF Untouched
  <1> QED  BY <1>1, <1>2, <1>3 DEF FirstTaken

LEMMA OpenRemoteStep ==
  ASSUME Inv, NEW m \in net, OpenRemote(m)
  PROVE  Inv' /\ FirstTaken
  <1> USE DEF Inv
  <1> DEFINE s == m.to
             f == m.f
             e == m.elt
             rest == net \ {m}
             cb == [kind |-> "forwarding", elt |-> e]
  <1>1. e \in Element /\ f \in Future /\ m = Opener(f, e) /\ s = Source[f] /\ s \in Element
    BY MessageForm, FuturesAssumption DEF OpenRemote
  <1>2. CASE Abort
    BY <1>2, AbortStep DEF Abort
  <1>3. CASE /\ port[s][f] = None
             /\ Open(s, f, cb, rest)
             /\ UNCHANGED <<isSet, taken, aborted>>
    <2>1. cb \in Callback /\ cb # None /\ cb.kind = "forwarding"
      BY <1>1, FuturesAssumption DEF Callback
    <2>2. /\ \A x \in Element, g \in Future : Value(x, g) \in rest <=> Value(x, g) \in net
          /\ \A g \in Future, x \in Element :
                 Opener(g, x) \in net => Opener(g, x) \in rest \/ (g = f /\ x = e)
      BY <1>1, MessageFacts
    <2>3. /\ port' = [port EXCEPT ![s][f] = cb]
          /\ port'[s][f] = cb
          /\ \A x \in Element, g \in Future : x # s \/ g # f => port'[x][g] = port[x][g]
          /\ port' \in [Element -> [Future -> Callback \cup {None}]]
      BY <1>1, <1>3, <2>1 DEF Open, TypeOK
    <2>4. ASSUME \A x \in Element, g \in Future : Opener(g, x) \in rest => Opener(g, x) \in net',
                 \A x \in Element : queue'[x] \subseteq queue[x],
                 f \notin queue'[s]
          PROVE  NothingStranded'
      <3>1. ASSUME NEW x \in Element, NEW g \in Future, port'[x][g] # None
            PROVE  /\ g \notin queue'[x]
                   /\ \/ Source[g] = x
                      \/ Opener(g, x) \in net'
                      \/ port'[Source[g]][g] = [kind |-> "forwarding", elt |-> x]
        <4>1. CASE x = s /\ g = f
          BY <1>1, <2>4, <4>1
        <4>2. CASE x # s \/ g # f
          <5>1. /\ port[x][g] # None /\ g \notin queue[x]
                /\ \/ Source[g] = x
                   \/ Opener(g, x) \in net
                   \/ port[Source[g]][g] = [kind |-> "forwarding", elt |-> x]
            BY <2>3, <3>1, <4>2 DEF NothingStranded
          <5>2. g \notin queue'[x]
            BY <2>4, <5>1
          <5>3. CASE Opener(g, x) \in net
            BY <1>1, <2>2, <2>3, <2>4, <5>2, <5>3
          <5>4. CASE port[Source[g]][g] = [kind |-> "forwarding", elt |-> x]
            <6>1. [kind |-> "forwarding", elt |-> x] # None /\ Source[g] \in Element
              BY FuturesAssumption DEF Callback
            <6>2. Source[g] # s \/ g # f
              BY <1>3, <5>4, <6>1
            <6>3. port'[Source[g]][g] = port[Source[g]][g]
              BY <2>3, <6>1, <6>2
            <6> QED  BY <5>2, <5>4, <6>3
          <5> QED  BY <5>1, <5>2, <5>3, <5>4
        <4> QED  BY <4>1, <4>2
      <3> QED  BY <3>1 DEF NothingStranded
    <2>5. CASE f \notin queue[s]
      <3>1. net' = rest /\ UNCHANGED <<queue, thread, result>>
        BY <1>3, <2>5 DEF Open
      <3>2. TypeOK'
        BY <1>3, <2>3, <3>1 DEF TypeOK
      <3>3. CallbacksOK' /\ ThreadsOK'
        BY <2>1, <2>3, <3>1 DEF CallbacksOK, ThreadsOK, Awaits, WantedBy
      <3>4. ASSUME NEW g \in Future  PROVE Untouched(g)
        BY <1>3, <2>2, <3>1 DEF Untouched
      <3>5. \A g \in Future : OnePlace(g)'
        BY <3>4, StaysPut
      <3>6. NothingStranded'
        BY <2>4, <2>5, <3>1
      <3>7. FirstTaken
        BY <1>3, <3>1 DEF FirstTaken
      <3> QED  BY <3>2, <3>3, <3>5, <3>6, <3>7
    <2>6. CASE f \in queue[s]
      <3>1. queue' = [queue EXCEPT ![s] = @ \ {f}] /\ Send(cb, f, rest)
        BY <1>3, <2>6 DEF Open
      <3>2. f \in isSet /\ InQueue(s, f)
        BY <1>1, <2>6, Found
      <3>3. /\ \A x \in Element : result[x] # f /\ Value(x, f) \notin rest /\ f \notin queue'[x]
            /\ \A g \in Future : g # f => \A x \in Element : g \in queue'[x] <=> g \in queue[x]
            /\ \A x \in Element : queue'[x] \subseteq queue[x]
            /\ queue' \in [Element -> SUBSET Future]
        BY <1>1, <2>2, <3>1, <3>2 DEF InQueue, TypeOK
      <3>4. PICK x \in Element : Handed(f, rest, x)
        <4>1. \A y \in Element : result[y] # f
          BY <3>3
        <4> HIDE DEF Inv, s, e, f, rest, cb
        <4> QED  BY <1>1, <2>1, <3>1, <4>1, SendHands
      <3>5. /\ ThreadsOK'
            /\ thread' \in [Element -> {"new", "waiting", "awakened", "resumed"}]
            /\ result' \in [Element -> Future \cup {None}]
            /\ \A y \in Element : thread[y] # "new" => thread'[y] # "new"
            /\ \A y \in Element : result[y] # None => result'[y] = result[y]
        <4> HIDE DEF Inv, s, e, f, rest, cb
        <4> QED  BY <1>1, <3>4, HandedThreads
      <3>6. net' \in {rest \cup {Value(x, f)}, rest}
        BY <3>4 DEF Handed
      <3>7. TypeOK'
        <4>1. net' \subseteq {Value(y, g) : y \in Element, g \in Future}
                             \cup {Opener(g, y) : y \in Element, g \in Future}
          BY <1>1, <3>6 DEF TypeOK
        <4>2. isSet' \subseteq Future /\ aborted' \in BOOLEAN
              /\ taken' \in [Element -> Future \cup {None}]
          BY <1>3 DEF TypeOK
        <4>3. queue' \in [Element -> SUBSET Future]
              /\ port' \in [Element -> [Future -> Callback \cup {None}]]
              /\ thread' \in [Element -> {"new", "waiting", "awakened", "resumed"}]
              /\ result' \in [Element -> Future \cup {None}]
          BY <2>3, <3>3, <3>5
        <4> HIDE DEF Inv, s, e, f, rest, cb
        <4> QED  BY <4>1, <4>2, <4>3, TypeFrom
      <3>8. CallbacksOK'
        <4>1. ASSUME NEW y \in Element, NEW g \in Future, port'[y][g] # None,
                     port'[y][g].kind # "forwarding"
              PROVE  Awaits(y, g, port[y][g])'
          <5>1. port'[y][g] = port[y][g]
            BY <2>1, <2>3, <4>1
          <5>2. Awaits(y, g, port[y][g])
            BY <4>1, <5>1 DEF CallbacksOK
          <5> QED  BY <3>5, <5>1, <5>2 DEF Awaits, WantedBy
        <4> QED  BY <4>1 DEF CallbacksOK
      <3>9. OnePlace(f)'
        <4> HIDE DEF s, e, f, rest, cb
        <4> QED  BY <1>1, <1>3, <3>2, <3>3, <3>4, HandedIsPlaced
      <3>10. ASSUME NEW g \in Future, g # f  PROVE OnePlace(g)'
        <4>1. Untouched(g)
          <5> HIDE DEF s, e, f, rest, cb
          <5> QED  BY <1>1, <1>3, <2>2, <3>3, <3>4, <3>10, HandedTouchesOne
        <4> QED  BY <4>1, StaysPut
      <3>11. NothingStranded'
        <4>1. \A y \in Element, g \in Future : Opener(g, y) \in rest => Opener(g, y) \in net'
          BY <3>6
        <4>2. f \notin queue'[s]
          BY <1>1, <3>3
        <4> HIDE DEF s, e, f, rest, cb
        <4> QED  BY <2>4, <3>3, <4>1, <4>2
      <3>12. FirstTaken
        BY <1>3, <3>5 DEF FirstTaken
      <3>13. \A g \in Future : OnePlace(g)'
        BY <3>9, <3>10
      <3> QED  BY <3>5, <3>7, <3>8, <3>11, <3>12, <3>13
    <2> QED  BY <2>5, <2>6
  <1> QED  BY <1>2, <1>3 DEF OpenRemote

LEMMA SetStep ==
  ASSUME Inv, NEW f \in Future, Set(f)
  PROVE  Inv' /\ FirstTaken
  <1> USE DEF Inv
  <1>1. Source[f] \in Element
    BY FuturesAssumption
  <1>2. /\ f \notin isSet /\ isSet' = isSet \cup {f} /\ net' = net \cup {Value(Source[f], f)}
        /\ UNCHANGED <<port, queue, thread, result, taken, aborted>>
    BY DEF Set
  <1>3. TypeOK'
    BY <1>1, <1>2 DEF TypeOK
  <1>4. CallbacksOK' /\ ThreadsOK' /\ NothingStranded' /\ FirstTaken
    BY <1>2 DEF CallbacksOK, ThreadsOK, NothingStranded, FirstTaken, Awaits, WantedBy
  <1>5. InNet(Source[f], f)'
    <2>1. Nowhere(f)
      BY <1>2 DEF OnePlace
    <2> QED  BY <1>1, <1>2, <2>1, MessageFacts DEF Nowhere, InNet
  <1>6. OnePlace(f)'
    BY <1>1, <1>2, <1>5 DEF OnePlace
  <1>7. ASSUME NEW g \in Future, g # f  PROVE OnePlace(g)'
    <2>1. Untouched(g)
      BY <1>1, <1>2, <1>7, MessageFacts DEF Untouched
    <2> QED  BY <2>1, StaysPut
  <1>8. \A g \in Future : OnePlace(g)'
    BY <1>6, <1>7
  <1> QED  BY <1>3, <1>4, <1>8

LEMMA RunStep ==
  ASSUME Inv, NEW e \in Element, Run(e)
  PROVE  Inv' /\ FirstTaken
  <1> USE DEF Inv
  <1>1. /\ thread[e] = "awakened" /\ thread' = [thread EXCEPT ![e] = "resumed"]
        /\ taken' = [taken EXCEPT ![e] = result[e]]
        /\ UNCHANGED <<isSet, port, queue, net, result, aborted>>
    BY DEF Run
  <1>2. TypeOK'
    BY <1>1 DEF TypeOK
  <1>3. CallbacksOK' /\ ThreadsOK' /\ NothingStranded'
    <2>1. /\ \A x \in Element : thread[x] # "new" => thread'[x] # "new"
          /\ \A x \in Element : thread'[x] \in {"new", "awakened"} => thread'[x] = thread[x]
      BY <1>1 DEF TypeOK
    <2>2. CallbacksOK'
      BY <1>1, <2>1 DEF CallbacksOK, Awaits, WantedBy
    <2>3. ThreadsOK'
      BY <1>1, <2>1 DEF ThreadsOK, WantedBy
    <2> QED  BY <1>1, <2>2, <2>3 DEF NothingStranded
  <1>4. \A g \in Future : OnePlace(g)'
    BY <1>1, StaysPut DEF Untouched
  <1>5. result[e] \in WantedBy(e) \cap isSet
    <2>1. result[e] # None /\ result[e] \in WantedBy(e) /\ result[e] \in Future
      BY <1>1 DEF ThreadsOK, TypeOK
    <2> QED  BY <2>1, Found
  <1>6. FirstTaken
    BY <1>1, <1>5 DEF FirstTaken, TypeOK
  <1> QED  BY <1>2, <1>3, <1>4, <1>6

\* wait_any() stops at the first future that is ready.
LEMMA RequestedFacts ==
  ASSUME NEW e \in Element
  PROVE  /\ Requested(e) \subseteq WantedBy(e) \cap Future
         /\ \A f, g \in Requested(e) \cap queue[e] : f = g
  <1>1. Wants[e] \in Seq(Future)
    BY FuturesAssumption
  <1>2. Requested(e) \subseteq WantedBy(e) \cap Future
    BY <1>1 DEF Requested, WantedBy
  <1>3. ASSUME NEW f \in Requested(e) \cap queue[e], NEW g \in Requested(e) \cap queue[e]
        PROVE  f = g
    <2>1. PICK j \in DOMAIN Wants[e] :
              f = Wants[e][j] /\ \A i \in 1..(j - 1) : Wants[e][i] \notin queue[e]
      BY DEF Requested
    <2>2. PICK k \in DOMAIN Wants[e] :
              g = Wants[e][k] /\ \A i \in 1..(k - 1) : Wants[e][i] \notin queue[e]
      BY DEF Requested
    <2>3. j \in Nat \ {0} /\ k \in Nat \ {0}
      BY <1>1
    <2>4. ~(j < k) /\ ~(k < j)
      BY <2>1, <2>2, <2>3
    <2> QED  BY <2>1, <2>2, <2>3, <2>4
  <1> QED  BY <1>2, <1>3

LEMMA WaitStep ==
  ASSUME Inv, NEW e \in Element, Wait(e)
  PROVE  Inv' /\ FirstTaken
  <1> USE DEF Inv
  <1> DEFINE ready == Requested(e) \cap queue[e]
             cb == CallbackOf(e)
  <1>1. CASE Abort
    BY <1>1, AbortStep DEF Abort
  <1>2. CASE /\ \A f \in Requested(e) : port[e][f] = None
             /\ Request(e)
             /\ UNCHANGED <<isSet, aborted>>
             /\ \/ /\ ready = {}
                   /\ thread' = [thread EXCEPT ![e] = "waiting"]
                   /\ UNCHANGED <<result, taken>>
                \/ \E f \in ready :
                   /\ thread' = [thread EXCEPT ![e] = "resumed"]
                   /\ result' = [result EXCEPT ![e] = f]
                   /\ taken' = [taken EXCEPT ![e] = f]
    <2>1. /\ cb \in Callback /\ cb # None /\ cb.elt = e /\ cb.kind # "forwarding"
          /\ cb.kind = "resuming" => e \in Plain
      BY FuturesAssumption DEF CallbackOf, Callback
    <2>2. Requested(e) \subseteq WantedBy(e) \cap Future
      BY RequestedFacts
    <2>3. /\ \A f \in Requested(e) : port'[e][f] = cb
          /\ \A x \in Element, g \in Future :
                 x # e \/ g \notin Requested(e) => port'[x][g] = port[x][g]
          /\ port' \in [Element -> [Future -> Callback \cup {None}]]
      <3> HIDE DEF cb
      <3>1. port' = [port EXCEPT ![e] = [f \in Future |->
                                         IF f \in Requested(e) THEN cb ELSE @[f]]]
        BY <1>2 DEF Request, cb
      <3> QED  BY <2>1, <2>2, <3>1 DEF TypeOK
    <2>4. /\ queue' = [queue EXCEPT ![e] = @ \ Requested(e)]
          /\ net' = net \cup {Opener(f, e) : f \in {g \in Requested(e) : Source[g] # e}}
      BY <1>2 DEF Request
    <2>5. thread[e] = "new" /\ result[e] = None
      BY DEF Wait, ThreadsOK
    <2>6. /\ thread' \in [Element -> {"new", "waiting", "awakened", "resumed"}]
          /\ thread'[e] \in {"waiting", "resumed"}
          /\ \A x \in Element : x # e => thread'[x] = thread[x]
      BY <1>2 DEF TypeOK
    <2>7. \/ ready = {} /\ UNCHANGED <<result, taken>>
          \/ \E f \in ready : /\ result' = [result EXCEPT ![e] = f]
                              /\ taken' = [taken EXCEPT ![e] = f]
                              /\ thread'[e] = "resumed"
      BY <1>2 DEF TypeOK
    <2>8. ready = {} => thread'[e] = "waiting"
      BY <1>2 DEF TypeOK
    <2>9. TypeOK'
      <3>1. isSet' \subseteq Future /\ aborted' \in BOOLEAN
        BY <1>2 DEF TypeOK
      <3>2. queue' \in [Element -> SUBSET Future]
        BY <2>4 DEF TypeOK
      <3>3. net' \subseteq {Value(y, g) : y \in Element, g \in Future}
                           \cup {Opener(g, y) : y \in Element, g \in Future}
        BY <2>2, <2>4 DEF TypeOK
      <3>4. result' \in [Element -> Future \cup {None}] /\ taken' \in [Element -> Future \cup {None}]
        <4>1. CASE UNCHANGED <<result, taken>>
          BY <4>1 DEF TypeOK
        <4>2. ASSUME NEW f \in ready, result' = [result EXCEPT ![e] = f],
                     taken' = [taken EXCEPT ![e] = f]
              PROVE  result' \in [Element -> Future \cup {None}]
                     /\ taken' \in [Element -> Future \cup {None}]
          BY <2>2, <4>2 DEF TypeOK
        <4> QED  BY <2>7, <4>1, <4>2
      <3> HIDE DEF Inv
      <3> QED  BY <2>3, <2>6, <3>1, <3>2, <3>3, <3>4, TypeFrom
    <2>10. CallbacksOK'
      <3>1. ASSUME NEW x \in Element, NEW g \in Future, port'[x][g] # None,
                   port'[x][g].kind # "forwarding"
            PROVE  Awaits(x, g, port[x][g])'
        <4>1. CASE x = e /\ g \in Requested(e)
          BY <2>1, <2>2, <2>3, <2>6, <4>1 DEF Awaits, WantedBy
        <4>2. CASE x # e \/ g \notin Requested(e)
          <5>1. Awaits(x, g, port[x][g]) /\ port'[x][g] = port[x][g]
            BY <2>3, <3>1, <4>2 DEF CallbacksOK
          <5> QED  BY <2>6, <5>1 DEF Awaits, WantedBy
        <4> QED  BY <4>1, <4>2
      <3> QED  BY <3>1 DEF CallbacksOK
    <2>11. ThreadsOK'
      <3>1. ASSUME NEW x \in Element
            PROVE  /\ thread'[x] = "new" => result'[x] = None
                   /\ thread'[x] = "awakened" => result'[x] # None
                   /\ result'[x] # None => result'[x] \in WantedBy(x)
        <4>1. CASE x = e
          BY <2>2, <2>5, <2>6, <2>7, <4>1 DEF TypeOK
        <4>2. CASE x # e
          BY <2>6, <2>7, <4>2 DEF ThreadsOK, TypeOK
        <4> QED  BY <4>1, <4>2
      <3> QED  BY <3>1 DEF ThreadsOK, WantedBy
    <2>12. \A x \in Element, g \in Future :
               /\ Value(x, g) \in net' <=> Value(x, g) \in net
               /\ Opener(g, x) \in net => Opener(g, x) \in net'
               /\ g \in queue'[x] <=> g \in queue[x] /\ ~(x = e /\ g \in ready)
      BY <2>2, <2>4, MessageFacts DEF TypeOK
    <2>13. \A g \in Future : OnePlace(g)'
      <3>1. ASSUME NEW g \in Future, g \in ready  PROVE OnePlace(g)'
        <4>1. g \in isSet /\ InQueue(e, g)
          BY <3>1, Found
        <4>2. result' = [result EXCEPT ![e] = g]
          BY <2>7, <3>1, RequestedFacts
        <4>3. InResult(e, g)'
          BY <2>12, <3>1, <4>1, <4>2 DEF InQueue, InResult, TypeOK
        <4> QED  BY <1>2, <4>1, <4>3 DEF OnePlace
      <3>2. ASSUME NEW g \in Future, g \notin ready  PROVE OnePlace(g)'
        <4>1. \A x \in Element : result'[x] = g <=> result[x] = g
          <5>1. g # None
            BY FuturesAssumption
          <5> QED  BY <2>5, <2>7, <3>2, <5>1 DEF TypeOK
        <4>2. Untouched(g)
          BY <1>2, <2>12, <3>2, <4>1 DEF Untouched
        <4> QED  BY <4>2, StaysPut
      <3> QED  BY <3>1, <3>2
    <2>14. NothingStranded'
      <3>1. ASSUME NEW x \in Element, NEW g \in Future, port'[x][g] # None
            PROVE  /\ g \notin queue'[x]
                   /\ \/ Source[g] = x
                      \/ Opener(g, x) \in net'
                      \/ port'[Source[g]][g] = [kind |-> "forwarding", elt |-> x]
        <4>1. CASE x = e /\ g \in Requested(e)
          BY <2>4, <2>12, <4>1
        <4>2. CASE x # e \/ g \notin Requested(e)
          <5>1. /\ port[x][g] # None /\ g \notin queue[x]
                /\ \/ Source[g] = x
                   \/ Opener(g, x) \in net
                   \/ port[Source[g]][g] = [kind |-> "forwarding", elt |-> x]
            BY <2>3, <3>1, <4>2 DEF NothingStranded
          <5>2. ASSUME port[Source[g]][g] = [kind |-> "forwarding", elt |-> x]
                PROVE  port'[Source[g]][g] = [kind |-> "forwarding", elt |-> x]
            <6>1. [kind |-> "forwarding", elt |-> x] # None /\ Source[g] \in Element
              BY FuturesAssumption DEF Callback
            <6>2. Source[g] # e \/ g \notin Requested(e)
              BY <1>2, <5>2, <6>1
            <6> QED  BY <2>3, <5>2, <6>1, <6>2
          <5> QED  BY <2>12, <5>1, <5>2
        <4> QED  BY <4>1, <4>2
      <3> QED  BY <3>1 DEF NothingStranded
    <2>15. FirstTaken
      <3>1. ASSUME NEW f \in ready  PROVE f \in isSet
        BY <2>2, <3>1, Found
      <3> QED  BY <2>2, <2>5, <2>7, <3>1 DEF FirstTaken, TypeOK
    <2> QED  BY <2>9, <2>10, <2>11, <2>13, <2>14, <2>15
  <1> QED  BY <1>1, <1>2 DEF Wait

-----------------------------------------------------------------------------
\* The theorems.

LEMMA InitInv == Init => Inv
  <1> SUFFICES ASSUME Init  PROVE Inv
    OBVIOUS
  <1>1. TypeOK
    <2>1. port \in [Element -> [Future -> Callback \cup {None}]]
      BY DEF Init
    <2>2. /\ queue \in [Element -> SUBSET Future]
          /\ thread \in [Element -> {"new", "waiting", "awakened", "resumed"}]
          /\ result \in [Element -> Future \cup {None}]
          /\ taken \in [Element -> Future \cup {None}]
      BY DEF Init
    <2>3. isSet \subseteq Future /\ aborted \in BOOLEAN
      BY DEF Init
    <2>4. net \subseteq {Value(e, f) : e \in Element, f \in Future}
                       \cup {Opener(f, e) : e \in Element, f \in Future}
      BY DEF Init
    <2> HIDE DEF Init
    <2> QED  BY <2>1, <2>2, <2>3, <2>4 DEF TypeOK
  <1>2. CallbacksOK /\ ThreadsOK /\ NothingStranded
    BY DEF Init, CallbacksOK, ThreadsOK, NothingStranded
  <1>3. ASSUME NEW f \in Future  PROVE OnePlace(f)
    <2>1. f # None
      BY FuturesAssumption
    <2> QED  BY <2>1 DEF Init, OnePlace, Nowhere
  <1> QED  BY <1>1, <1>2, <1>3 DEF Inv

LEMMA NextStep == Inv /\ [Next]_vars => Inv' /\ FirstTaken
  <1> SUFFICES ASSUME Inv, [Next]_vars  PROVE Inv' /\ FirstTaken
    OBVIOUS
  <1>1. ASSUME NEW m \in net, Receive(m)  PROVE Inv' /\ FirstTaken
    BY <1>1, ReceiveStep
  <1>2. ASSUME NEW m \in net, OpenRemote(m)  PROVE Inv' /\ FirstTaken
    BY <1>2, OpenRemoteStep
  <1>3. ASSUME NEW f \in Future, Set(f)  PROVE Inv' /\ FirstTaken
    BY <1>3, SetStep
  <1>4. ASSUME NEW e \in Element, Wait(e)  PROVE Inv' /\ FirstTaken
    BY <1>4, WaitStep
  <1>5. ASSUME NEW e \in Element, Run(e)  PROVE Inv' /\ FirstTaken
    BY <1>5, RunStep
  <1>6. CASE UNCHANGED vars
    <2>1. aborted' \in BOOLEAN
      BY <1>6 DEF vars, Inv, TypeOK
    <2> QED  BY <1>6, <2>1, AbortStep DEF vars
  <1> QED  BY <1>1, <1>2, <1>3, <1>4, <1>5, <1>6 DEF Next

LEMMA Invariance == Spec => []Inv
  BY InitInv, NextStep, PTL DEF Spec

\* The inventory of a future that is in one place counts to one.
LEMMA PlacesOfOne ==
  ASSUME NEW f \in Future, OnePlace(f)
  PROVE  Places(f) = IF f \in isSet THEN 1 ELSE 0
  <1> DEFINE N == {e \in Element : Value(e, f) \in net}
             Q == {e \in Element : f \in queue[e]}
             R == {e \in Element : result[e] = f}
  <1>1. Cardinality({}) = 0 /\ \A e : Cardinality({e}) = 1
    BY FS_EmptySet, FS_Singleton
  <1>2. Places(f) = Cardinality(N) + Cardinality(Q) + Cardinality(R)
    BY DEF Places
  <1>3. CASE f \notin isSet
    <2>1. N = {} /\ Q = {} /\ R = {}
      BY <1>3 DEF OnePlace, Nowhere
    <2> HIDE DEF N, Q, R
    <2> QED  BY <1>1, <1>2, <1>3, <2>1
  <1>4. CASE f \in isSet
    <2>1. PICK e \in Element : InNet(e, f) \/ InQueue(e, f) \/ InResult(e, f)
      BY <1>4 DEF OnePlace
    <2>2. \/ N = {e} /\ Q = {} /\ R = {}
          \/ N = {} /\ Q = {e} /\ R = {}
          \/ N = {} /\ Q = {} /\ R = {e}
      BY <2>1 DEF InNet, InQueue, InResult
    <2>3. Cardinality(N) + Cardinality(Q) + Cardinality(R) = 1
      <3> HIDE DEF N, Q, R
      <3>1. Cardinality({e}) = 1 /\ Cardinality({}) = 0
        BY <1>1
      <3>2. CASE N = {e} /\ Q = {} /\ R = {}
        BY <3>1, <3>2
      <3>3. CASE N = {} /\ Q = {e} /\ R = {}
        BY <3>1, <3>3
      <3>4. CASE N = {} /\ Q = {} /\ R = {e}
        BY <3>1, <3>4
      <3> QED  BY <2>2, <3>2, <3>3, <3>4
    <2> QED  BY <1>2, <1>4, <2>3
  <1> QED  BY <1>3, <1>4

\* Types.
THEOREM Types == Spec => []TypeOK
  <1>1. Inv => TypeOK
    BY DEF Inv
  <1> QED  BY <1>1, Invariance, PTL

\* send2future(), the ports and the callbacks neither lose nor copy the value
\* of a future.
THEOREM Conservation == Spec => []ValuesConserved
  <1>1. Inv => ValuesConserved
    BY PlacesOfOne DEF Inv, ValuesConserved
  <1> QED  BY <1>1, Invariance, PTL

\* request_future(), open() and receive() leave no value behind an open port,
\* and no port without its counterpart at the source.
THEOREM NoneStranded == Spec => []NothingStranded
  <1>1. Inv => NothingStranded
    BY DEF Inv
  <1> QED  BY <1>1, Invariance, PTL

\* wait_any_callback and resuming_callback: a thread takes the first value
\* that it is given, and one that it waits for.
THEOREM FirstIsTaken == Spec => FirstValueTaken
  <1>1. FirstTaken <=> \A e \in Element :
            /\ result[e] # None => result'[e] = result[e]
            /\ taken'[e] # taken[e] => taken'[e] \in WantedBy(e) \cap isSet
    BY DEF FirstTaken
  <1> QED  BY <1>1, Invariance, NextStep, PTL DEF Spec, FirstValueTaken
=============================================================================
