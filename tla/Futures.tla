------------------------------- MODULE Futures -------------------------------
(***************************************************************************)
(* Futures: a value that is set at one element and waited for at another   *)
(* (future, wait_any, resuming_callback, port_opener).                     *)
(*                                                                         *)
(* Setting a future sends the value to a port of its source.  Requesting   *)
(* it opens that port here, with a callback, and asks the source to open   *)
(* it there, with one that forwards to here.  A thread waits for a future, *)
(* or for the first of several; a value that comes after the first one is  *)
(* sent back to the source of its future.                                  *)
(*                                                                         *)
(* The ports of futures stay open, so a value that was sent back comes     *)
(* again.  Handlers are atomic, and so is a thread until it suspends;      *)
(* messages arrive in any order.                                           *)
(***************************************************************************)
EXTENDS Integers, Sequences, FiniteSets

CONSTANTS
  Element,
  Future,
  Source,   \* Source[f]: the element where future f was made
  Wants,    \* Wants[e]: the futures that the thread of e waits for, in order
  Plain,    \* the elements that wait for one future with a resuming_callback
  None

\* What a port leads to.
Callback == [kind : {"resuming", "wait_any", "forwarding"}, elt : Element]

ASSUME FuturesAssumption ==
  /\ Source \in [Future -> Element]
  /\ Wants \in [Element -> Seq(Future)]
  /\ Plain \subseteq {e \in Element : Len(Wants[e]) = 1}
  /\ None \notin Element \cup Future \cup Callback

VARIABLES
  isSet,    \* the futures that have been set
  port,     \* port[e][f]: the callback of the port of f at e, or None
  queue,    \* queue[e]: the futures whose value waits for its port at e
  net,      \* values and port openers on their way
  thread,   \* thread[e]: "new", "waiting", "awakened" or "resumed"
  result,   \* result[e]: what the callback of the thread was given, or None
  taken,    \* taken[e]: the future whose value the thread took, or None
  aborted

vars == <<isSet, port, queue, net, thread, result, taken, aborted>>

Value(e, f) == [kind |-> "value", to |-> e, f |-> f]
Opener(f, e) == [kind |-> "opener", to |-> Source[f], f |-> f, elt |-> e]

-----------------------------------------------------------------------------
\* Callbacks.

\* resuming_callback::send(), which awakens the thread if it waits.
Resumes(e, f) ==
  /\ result' = [result EXCEPT ![e] = f]
  /\ thread' = [thread EXCEPT ![e] = IF @ = "waiting" THEN "awakened" ELSE @]

WaitAnySend_Always(e, f, rest) == Resumes(e, f) /\ net' = rest

WaitAnySend_Drop(e, f, rest) ==
  \/ /\ result[e] # None
     /\ net' = rest
     /\ UNCHANGED <<thread, result>>
  \/ /\ result[e] = None
     /\ Resumes(e, f)
     /\ net' = rest

\* wait_any_callback::send()
WaitAnySend(e, f, rest) ==
  \/ /\ result[e] # None
     /\ net' = rest \cup {Value(Source[f], f)}
     /\ UNCHANGED <<thread, result>>
  \/ /\ result[e] = None
     /\ Resumes(e, f)
     /\ net' = rest

\* The value of f is given to the callback cb of a port.
Send(cb, f, rest) ==
  \/ /\ cb.kind = "resuming"
     /\ Resumes(cb.elt, f)
     /\ net' = rest
  \/ /\ cb.kind = "wait_any"
     /\ WaitAnySend(cb.elt, f, rest)
  \/ /\ cb.kind = "forwarding"
     /\ net' = rest \cup {Value(cb.elt, f)}
     /\ UNCHANGED <<thread, result>>

-----------------------------------------------------------------------------
\* Ports.

\* open(), and what waits for the port.
Open(e, f, cb, rest) ==
  /\ port' = [port EXCEPT ![e][f] = cb]
  /\ \/ /\ f \notin queue[e]
        /\ net' = rest
        /\ UNCHANGED <<queue, thread, result>>
     \/ /\ f \in queue[e]
        /\ queue' = [queue EXCEPT ![e] = @ \ {f}]
        /\ Send(cb, f, rest)

Abort ==
  /\ aborted' = TRUE
  /\ UNCHANGED <<isSet, port, queue, net, thread, result, taken>>

Running == ~aborted

\* receive(): a value for a port that is not open is kept.
Receive(m) ==
  LET e == m.to  f == m.f IN
  /\ Running
  /\ m \in net
  /\ m.kind = "value"
  /\ \/ /\ port[e][f] = None
        /\ queue' = [queue EXCEPT ![e] = @ \cup {f}]
        /\ net' = net \ {m}
        /\ UNCHANGED <<thread, result>>
     \/ /\ port[e][f] # None
        /\ Send(port[e][f], f, net \ {m})
        /\ UNCHANGED queue
  /\ UNCHANGED <<isSet, port, taken, aborted>>

OpenRemote_NoResync(m) ==
  /\ Running
  /\ m \in net
  /\ m.kind = "opener"
  /\ port' = [port EXCEPT ![m.to][m.f] = [kind |-> "forwarding", elt |-> m.elt]]
  /\ net' = net \ {m}
  /\ UNCHANGED <<isSet, queue, thread, result, taken, aborted>>

\* port_opener::action(), at the source of the future.
OpenRemote(m) ==
  /\ Running
  /\ m \in net
  /\ m.kind = "opener"
  /\ \/ /\ port[m.to][m.f] # None
        /\ Abort
     \/ /\ port[m.to][m.f] = None
        /\ Open(m.to, m.f, [kind |-> "forwarding", elt |-> m.elt], net \ {m})
        /\ UNCHANGED <<isSet, taken, aborted>>

-----------------------------------------------------------------------------
\* Futures and threads.

\* future::set(), by whoever has the future.
Set(f) ==
  /\ Running
  /\ f \notin isSet
  /\ isSet' = isSet \cup {f}
  /\ net' = net \cup {Value(Source[f], f)}
  /\ UNCHANGED <<port, queue, thread, result, taken, aborted>>

\* wait_any() requests the futures in order, up to one that is ready here.
Requested(e) ==
  {Wants[e][k] : k \in {j \in DOMAIN Wants[e] : \A i \in 1..(j - 1) : Wants[e][i] \notin queue[e]}}

CallbackOf(e) == [kind |-> IF e \in Plain THEN "resuming" ELSE "wait_any", elt |-> e]

Request_LocalOnly(e) ==
  /\ port' = [port EXCEPT ![e] = [f \in Future |->
                                  IF f \in Requested(e) THEN CallbackOf(e) ELSE @[f]]]
  /\ queue' = [queue EXCEPT ![e] = @ \ Requested(e)]
  /\ UNCHANGED net

\* request_future(), for those: a port here, and one at the source.
Request(e) ==
  /\ port' = [port EXCEPT ![e] = [f \in Future |->
                                  IF f \in Requested(e) THEN CallbackOf(e) ELSE @[f]]]
  /\ queue' = [queue EXCEPT ![e] = @ \ Requested(e)]
  /\ net' = net \cup {Opener(f, e) : f \in {g \in Requested(e) : Source[g] # e}}

\* The thread of e requests the futures it wants.  It goes on if one of them
\* was ready, and suspends otherwise.
Wait(e) ==
  LET ready == Requested(e) \cap queue[e] IN
  /\ Running
  /\ thread[e] = "new"
  /\ Wants[e] # <<>>
  /\ \/ /\ \E f \in Requested(e) : port[e][f] # None
        /\ Abort
     \/ /\ \A f \in Requested(e) : port[e][f] = None
        /\ Request(e)
        /\ \/ /\ ready = {}
              /\ thread' = [thread EXCEPT ![e] = "waiting"]
              /\ UNCHANGED <<result, taken>>
           \/ \E f \in ready :
              /\ thread' = [thread EXCEPT ![e] = "resumed"]
              /\ result' = [result EXCEPT ![e] = f]
              /\ taken' = [taken EXCEPT ![e] = f]
        /\ UNCHANGED <<isSet, aborted>>

\* The scheduler runs a thread that was awakened: it takes the value.
Run(e) ==
  /\ Running
  /\ thread[e] = "awakened"
  /\ thread' = [thread EXCEPT ![e] = "resumed"]
  /\ taken' = [taken EXCEPT ![e] = result[e]]
  /\ UNCHANGED <<isSet, port, queue, net, result, aborted>>

Init ==
  /\ isSet = {}
  /\ port = [e \in Element |-> [f \in Future |-> None]]
  /\ queue = [e \in Element |-> {}]
  /\ net = {}
  /\ thread = [e \in Element |-> "new"]
  /\ result = [e \in Element |-> None]
  /\ taken = [e \in Element |-> None]
  /\ aborted = FALSE

Next ==
  \/ \E m \in net : Receive(m)
  \/ \E m \in net : OpenRemote(m)
  \/ \E f \in Future : Set(f)
  \/ \E e \in Element : Wait(e)
  \/ \E e \in Element : Run(e)

Spec == Init /\ [][Next]_vars

\* Every message is delivered, every thread runs, and every future is set.
FairSpec ==
  /\ Spec
  /\ \A e \in Element, f \in Future : WF_vars(Receive(Value(e, f)))
  /\ \A e \in Element, f \in Future : WF_vars(OpenRemote(Opener(f, e)))
  /\ \A f \in Future : WF_vars(Set(f))
  /\ \A e \in Element : WF_vars(Wait(e)) /\ WF_vars(Run(e))

-----------------------------------------------------------------------------
\* Properties.

\* Types of the variables; a port opener goes to the source of its future.
TypeOK ==
  /\ isSet \subseteq Future
  /\ port \in [Element -> [Future -> Callback \cup {None}]]
  /\ queue \in [Element -> SUBSET Future]
  /\ net \subseteq {Value(e, f) : e \in Element, f \in Future}
                  \cup {Opener(f, e) : e \in Element, f \in Future}
  /\ thread \in [Element -> {"new", "waiting", "awakened", "resumed"}]
  /\ result \in [Element -> Future \cup {None}]
  /\ taken \in [Element -> Future \cup {None}]
  /\ aborted \in BOOLEAN

WantedBy(e) == {Wants[e][k] : k \in DOMAIN Wants[e]}

Places(f) ==
  Cardinality({e \in Element : Value(e, f) \in net})
  + Cardinality({e \in Element : f \in queue[e]})
  + Cardinality({e \in Element : result[e] = f})

\* send2future(), the ports and the callbacks: the value of a future is in one
\* place only, on its way, in a port queue, or with the thread that took it.
ValuesConserved == \A f \in Future : Places(f) = IF f \in isSet THEN 1 ELSE 0

\* A value does not stay in the queue of a port that is open, and a port that
\* waits for the value of a remote future has one at the source that forwards
\* to it, or will have.
NothingStranded ==
  \A e \in Element, f \in Future : port[e][f] # None =>
    /\ f \notin queue[e]
    /\ Source[f] = e \/ Opener(f, e) \in net
       \/ port[Source[f]][f] = [kind |-> "forwarding", elt |-> e]

\* wait_any.hpp:35: a thread takes the first value, the one that awakened
\* it, although others may come before it runs; it is one that it waits for.
FirstValueTaken ==
  [][\A e \in Element :
       /\ result[e] # None => result'[e] = result[e]
       /\ taken'[e] # taken[e] => taken'[e] \in WantedBy(e) \cap isSet]_vars

\* wait_any.hpp:23: "return the value to the source": there, a value that came
\* too late is at rest, until somebody requests the future again.
LateValuesRest ==
  <>[](\A f \in Future : (\A e \in Element : result[e] # f) => f \in queue[Source[f]])

\* Every thread gets a value.
EventuallyResumed == <>(\A e \in Element : Wants[e] # <<>> => taken[e] # None)
=============================================================================
