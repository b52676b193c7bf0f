------------------------------ MODULE Locality ------------------------------
(***************************************************************************)
(* The components of one locality: their inboxes, outboxes and lifecycle,  *)
(* the mailboxes they request values from, the entry ports they are        *)
(* connected to, and the sentinel that waits for them.                     *)
(*                                                                         *)
(* A handler runs to its end before the next one starts, but the calls it  *)
(* makes nest deeply and come back to objects that are in the middle of a  *)
(* call.  `calls` is that stack: its head is what the handler does next,   *)
(* and an action that begins with At(...) is a function, or the part of    *)
(* one between two calls.  A new handler starts when it is empty.          *)
(***************************************************************************)
EXTENDS Integers, Sequences, SequencesExt, FiniteSets, FiniteSetsExt

CONSTANTS
  Coms,        \* the components the program creates, besides the mailboxes
  Boxes,       \* the mailboxes; each has a persistent port of its own
  Ports,       \* the entry ports connected to an input of a component
  Inputs,      \* Inputs[c]: where each input of c comes from: a mailbox, a
               \* port, or the component that outputs to it
  Out,         \* Out[c]: the component and input that c outputs to, or None
  Statements,  \* what the program sets up, in order: [wait, coms, activated],
               \* where wait is "any", "all" or "none", coms are the components
               \* in the order in which they are named to the sentinel, and
               \* activated in the order in which they are activated
  Persistent,  \* the components that stay active after an action
  Count,       \* Count[q]: how many values are sent to mailbox or port q
  None

VARIABLES
  arrived,       \* arrived[q]: how many of the values sent to q have arrived
  buffer,        \* buffer[b]: values a mailbox keeps, oldest first
  requests,      \* requests[b]: its requests <<c, i>>, oldest first
  open,          \* the open entry ports
  port_queue,    \* port_queue[p]: values that wait for port p to open
  components,    \* the components that exist
  active,
  activated,
  incoming,      \* incoming[c]: the sets in the inbox of c, front first
  unsent,        \* unsent[c]: the values in the outbox of c
  connected,     \* the components whose output is connected
  invalidations, \* the ids whose activation is cancelled, a vector
  watched,       \* components with a listener of the sentinel
  group,         \* group[c]: the statement whose group c is in, or None
  memory,        \* memory[s]: the cells of the vector of the group of s
  size,          \* size[s]: the length of that vector
  n_expected,
  sleeper,       \* what the thread does: "running", "asleep" or "awake"
  next,          \* the next statement to set up
  qd,            \* what mailboxes and port queue told quiescence detection
  done,          \* done[c]: the sets that c consumed
  calls,
  aborted

inVars  == <<arrived, buffer, requests, open, port_queue>>
comVars == <<components, active, activated, incoming, unsent, connected, invalidations>>
sentinelVars == <<watched, group, memory, size, n_expected, sleeper>>
vars == <<inVars, comVars, sentinelVars, next, qd, done, calls, aborted>>

\* The n-th value to arrive at q.  The values sent to q are interchangeable,
\* and named in the order of their arrival.
Values == UNION {{q} \X (1..Count[q]) : q \in Boxes \cup Ports}
PortOf(v) == v[1]

Arity(c) == Len(Inputs[c])

Statement(c) == CHOOSE s \in DOMAIN Statements : c \in ToSet(Statements[s].coms)

-----------------------------------------------------------------------------
\* The call stack.  A call is a record with its function as field `op`.

At(op) == aborted = "none" /\ calls # <<>> /\ calls[1].op = op

Idle == aborted = "none" /\ calls = <<>>

\* The current call goes on as cs.
Continue(cs) == calls' = cs \o Tail(calls)

Abort(why) ==
  /\ aborted' = why
  /\ UNCHANGED <<inVars, comVars, sentinelVars, next, qd, done, calls>>

CallPut(c, i)        == [op |-> "put", c |-> c, i |-> i]
CallConnect(c, i)    == [op |-> "connect", c |-> c, i |-> i]
CallReceive(v)       == [op |-> "receive", v |-> v]
CallMail(b, v)       == [op |-> "mail", b |-> b, v |-> v]
CallAccept(c, i, v)  == [op |-> "accept", c |-> c, i |-> i, v |-> v]
CallCollect(c)       == [op |-> "collect", c |-> c]
CallAction(c, set)   == [op |-> "action", c |-> c, set |-> set]
CallDeactivate(c, s) == [op |-> "deactivate", c |-> c, signal |-> s]
CallDrain(c, k, i, s) == [op |-> "drain", c |-> c, left |-> k, i |-> i, signal |-> s]
CallSever(c)         == [op |-> "sever", c |-> c]
CallNotify(c, s)     == [op |-> "notify", c |-> c, signal |-> s]
CallPeers(s, k, n, c) == [op |-> "peers", s |-> s, k |-> k, n |-> n, c |-> c]
CallCompleted(c)     == [op |-> "completed", c |-> c]
CallInvalidate(s, k) == [op |-> "invalidate", s |-> s, k |-> k]
CallErase(c, alive, s, k) == [op |-> "erase", c |-> c, alive |-> alive, s |-> s, k |-> k]
CallActivate(c)      == [op |-> "activate", c |-> c]
CallStage(c)         == [op |-> "stage", c |-> c]

\* passthru(): a component takes a value, and is erased if that was its last.
Passthru(c, i, v) == <<CallAccept(c, i, v), CallCollect(c)>>

\* The value a component outputs.  It was never sent to a port, and so has no
\* endpoint to return to; `invalid' is the null value.
Output(c) == <<"output", c>>
Invalid == <<"invalid">>

-----------------------------------------------------------------------------
\* Inboxes.

EmptySet(c) == [i \in 1..Arity(c) |-> None]

IsReady(set) == \A i \in DOMAIN set : set[i] # None

\* The first complete set from the front (0 if there is none).
FindReady(c) == SelectInSeq(incoming[c], IsReady)

FindGap_Front(c, i) == SelectInSeq(incoming[c], LAMBDA set : set[i] = None)

\* The first set from the back that lacks input i (0 if there is none).
FindGap(c, i) == SelectLastInSeq(incoming[c], LAMBDA set : set[i] = None)

-----------------------------------------------------------------------------
\* Mailboxes.

\* action() of a mailbox: the oldest request takes the value; a request of a
\* component that is gone is dropped, and the value accepted again.
Mail ==
  /\ At("mail")
  /\ LET b == calls[1].b
         v == calls[1].v
     IN \/ /\ requests[b] = <<>>
           /\ buffer' = [buffer EXCEPT ![b] = Append(@, v)]
           /\ qd' = qd + 1
           /\ Continue(<<>>)
           /\ UNCHANGED requests
        \/ /\ requests[b] # <<>>
           /\ requests' = [requests EXCEPT ![b] = Tail(@)]
           /\ LET r == Head(requests[b])
              IN  IF r[1] \in components
                  THEN Continue(Passthru(r[1], r[2], v))
                  ELSE Continue(<<CallMail(b, v)>>)
           /\ UNCHANGED <<buffer, qd>>
  /\ UNCHANGED <<arrived, open, port_queue, comVars, sentinelVars, next, done, aborted>>

\* put_request_to: a buffered value is passed on at once.
PutRequest ==
  /\ At("put")
  /\ LET c == calls[1].c
         i == calls[1].i
         b == Inputs[c][i]
     IN \/ /\ buffer[b] = <<>>
           /\ requests' = [requests EXCEPT ![b] = Append(@, <<c, i>>)]
           /\ Continue(<<>>)
           /\ UNCHANGED <<buffer, qd>>
        \/ /\ buffer[b] # <<>>
           /\ buffer' = [buffer EXCEPT ![b] = Tail(@)]
           /\ qd' = qd - 1
           /\ Continue(Passthru(c, i, Head(buffer[b])))
           /\ UNCHANGED requests
  /\ UNCHANGED <<arrived, open, port_queue, comVars, sentinelVars, next, done, aborted>>

-----------------------------------------------------------------------------
\* Entry ports.

\* The input that a port is connected to.
Target(p) == CHOOSE t \in UNION {{c} \X (1..Arity(c)) : c \in Coms} : Inputs[t[1]][t[2]] = p

\* receive(): a value without an endpoint cannot be received; a value for a
\* port that is not open waits in the port queue.
Receive ==
  /\ At("receive")
  /\ LET v == calls[1].v
         p == PortOf(v)
     IN \/ v \notin Values /\ Abort("invalid delivery")
        \/ /\ v \in Values
           /\ p \in Boxes
           /\ Continue(<<CallMail(p, v)>>)
           /\ UNCHANGED <<port_queue, qd, aborted>>
        \/ /\ v \in Values
           /\ p \in Ports \ open
           /\ port_queue' = [port_queue EXCEPT ![p] = Append(@, v)]
           /\ qd' = qd + 1
           /\ Continue(<<>>)
           /\ UNCHANGED aborted
        \/ /\ v \in Values
           /\ p \in open
           /\ Target(p)[1] \in components
           /\ Continue(Passthru(Target(p)[1], Target(p)[2], v))
           /\ UNCHANGED <<port_queue, qd, aborted>>
        \/ v \in Values /\ p \in open /\ Target(p)[1] \notin components /\ Abort("local delivery failed")
  /\ UNCHANGED <<arrived, buffer, requests, open, comVars, sentinelVars, next, done>>

\* connect(): the listener that closes the port is added, the port opened and
\* its queue emptied into the component.
Connect ==
  /\ At("connect")
  /\ LET c == calls[1].c
         i == calls[1].i
         p == Inputs[c][i]
         Accepted == [k \in DOMAIN port_queue[p] |-> Passthru(c, i, port_queue[p][k])]
     IN /\ open' = open \cup {p}
        /\ port_queue' = [port_queue EXCEPT ![p] = <<>>]
        /\ qd' = qd - Len(port_queue[p])
        /\ Continue(FlattenSeq(Accepted))
  /\ UNCHANGED <<arrived, buffer, requests, comVars, sentinelVars, next, done, aborted>>

-----------------------------------------------------------------------------
\* Components.

\* accept(): a null value deactivates the component; the value of a component
\* with one input is acted upon at once, or kept while it is inactive; other
\* values fill the oldest set that lacks them, or start a new one.
Accept ==
  /\ At("accept")
  /\ LET c == calls[1].c
         i == calls[1].i
         v == calls[1].v
         s == FindGap(c, i)
         Filled == [incoming[c][s] EXCEPT ![i] = v]
         Alone == [EmptySet(c) EXCEPT ![i] = v]
     IN \/ /\ v = Invalid
           /\ Continue(<<CallDeactivate(c, "invalidation")>>)
           /\ UNCHANGED incoming
        \/ /\ v # Invalid
           /\ Arity(c) = 1
           /\ c \in active
           /\ Continue(<<CallAction(c, Alone)>>)
           /\ UNCHANGED incoming
        \/ /\ v # Invalid
           /\ s = 0
           /\ Arity(c) # 1 \/ c \notin active
           /\ incoming' = [incoming EXCEPT ![c] = <<Alone>> \o @]
           /\ Continue(<<>>)
        \/ /\ v # Invalid
           /\ s # 0
           /\ ~(IsReady(Filled) /\ c \in active)
           /\ incoming' = [incoming EXCEPT ![c][s] = Filled]
           /\ Continue(<<>>)
        \/ /\ v # Invalid
           /\ s # 0
           /\ IsReady(Filled) /\ c \in active
           /\ incoming' = [incoming EXCEPT ![c] = RemoveAt(@, s)]
           /\ Continue(<<CallAction(c, Filled)>>)
  /\ UNCHANGED <<inVars, components, active, activated, unsent, connected, invalidations,
                 sentinelVars, next, qd, done, aborted>>

\* stage_action(): the action consumes the set, its output goes to the
\* connected component, or stays in the outbox, and the component is done,
\* unless it persists.
Action ==
  /\ At("action")
  /\ LET c == calls[1].c
         d == Out[c]
         delivered == d # None /\ c \in connected /\ d[1] \in components
     IN /\ done' = [done EXCEPT ![c] = Append(@, calls[1].set)]
        /\ unsent' = [unsent EXCEPT ![c] = IF d = None \/ delivered THEN @ ELSE Append(@, Output(c))]
        /\ Continue((IF delivered THEN Passthru(d[1], d[2], Output(c))
                                  ELSE <<>>)
                    \o (IF c \in Persistent THEN <<>> ELSE <<CallDeactivate(c, "completion")>>))
  /\ UNCHANGED <<inVars, components, active, activated, incoming, connected, invalidations,
                 sentinelVars, next, qd, aborted>>

\* Code of a component that has been erased must not run, nor an iterator to
\* it be used.
Freed(c) == c \notin components /\ Abort("use after free")

Deactivate ==
  /\ At("deactivate")
  /\ LET c == calls[1].c
     IN \/ Freed(c)
        \/ /\ c \in components
           /\ active' = active \ {c}
           /\ Continue(<<CallDrain(c, Len(incoming[c]), 1, calls[1].signal)>>)
           /\ UNCHANGED <<inVars, components, activated, incoming, unsent, connected, invalidations,
                          sentinelVars, next, qd, done, aborted>>

Drain_Discards ==
  /\ At("drain")
  /\ LET f == calls[1]
         c == f.c
         s == Len(incoming[c]) - f.left + 1
     IN \/ Freed(c)
        \/ /\ c \in components
           /\ f.left = 0
           /\ incoming' = [incoming EXCEPT ![c] = <<>>]
           /\ Continue((IF f.signal = "invalidation" THEN <<CallSever(c)>> ELSE <<>>)
                       \o <<CallNotify(c, f.signal)>>)
           /\ UNCHANGED aborted
        \/ /\ c \in components
           /\ f.left > 0
           /\ LET v == incoming[c][s][f.i]
                  then == IF f.i = Arity(c) THEN CallDrain(c, f.left - 1, 1, f.signal)
                                            ELSE CallDrain(c, f.left, f.i + 1, f.signal)
              IN  Continue(<<then>>)
           /\ incoming' = [incoming EXCEPT ![c][s][f.i] = None]
           /\ UNCHANGED aborted
  /\ UNCHANGED <<inVars, components, active, activated, unsent, connected, invalidations,
                 sentinelVars, next, qd, done>>

\* empty_buffers(): each unused value is received again, which may reach this
\* very inbox; in the end the inbox is cleared.  Sets are counted from the
\* back, since new ones come in at the front.
Drain ==
  /\ At("drain")
  /\ LET f == calls[1]
         c == f.c
         s == Len(incoming[c]) - f.left + 1
     IN \/ Freed(c)
        \/ /\ c \in components
           /\ f.left = 0
           /\ incoming' = [incoming EXCEPT ![c] = <<>>]
           /\ Continue((IF f.signal = "invalidation" THEN <<CallSever(c)>> ELSE <<>>)
                       \o <<CallNotify(c, f.signal)>>)
           /\ UNCHANGED aborted
        \/ /\ c \in components
           /\ f.left > 0
           /\ LET v == incoming[c][s][f.i]
                  then == IF f.i = Arity(c) THEN CallDrain(c, f.left - 1, 1, f.signal)
                                            ELSE CallDrain(c, f.left, f.i + 1, f.signal)
              IN  Continue((IF v = None THEN <<>> ELSE <<CallReceive(v)>>) \o <<then>>)
           /\ incoming' = [incoming EXCEPT ![c][s][f.i] = None]
           /\ UNCHANGED aborted
  /\ UNCHANGED <<inVars, components, active, activated, unsent, connected, invalidations,
                 sentinelVars, next, qd, done>>

Sever_Silent ==
  /\ At("sever")
  /\ LET c == calls[1].c
     IN \/ Freed(c)
        \/ /\ c \in components
           /\ connected' = connected \ {c}
           /\ Continue(<<>>)
           /\ UNCHANGED <<inVars, components, active, activated, incoming, unsent, invalidations,
                          sentinelVars, next, qd, done, aborted>>

\* send_invalidations_(): a connected output passes a null value on.
Sever ==
  /\ At("sever")
  /\ LET c == calls[1].c
         d == Out[c]
     IN \/ Freed(c)
        \/ /\ c \in components
           /\ connected' = connected \ {c}
           /\ Continue(IF c \in connected /\ d[1] \in components
                       THEN Passthru(d[1], d[2], Invalid) ELSE <<>>)
           /\ UNCHANGED <<inVars, components, active, activated, incoming, unsent, invalidations,
                          sentinelVars, next, qd, done, aborted>>

\* invalidate_port(), for each port connected to c.
ClosePorts(c) == open \ ToSet(Inputs[c])

\* notify_listeners(): the ports of the component are closed, then the
\* sentinel hears of it; each listener is removed after it was called.  The
\* listener tests its shared pointer, which is never null, and not the weak
\* reference in it: a sentinel that is gone is called through a null pointer.
Notify ==
  /\ At("notify")
  /\ LET c == calls[1].c
         signal == calls[1].signal
     IN \/ Freed(c)
        \/ c \in components \cap watched /\ sleeper = "done" /\ Abort("null sentinel")
        \/ /\ c \in components
           /\ c \in watched => sleeper # "done"
           /\ open' = ClosePorts(c)
           /\ Continue(IF c \notin watched THEN <<>>
                       ELSE (IF signal = "invalidation" THEN <<[op |-> "revoked", c |-> c]>>
                             ELSE IF group[c] = None THEN <<CallCompleted(c)>>
                             ELSE <<CallPeers(group[c], 1, size[group[c]], c), CallCompleted(c)>>)
                            \o <<[op |-> "pop", c |-> c]>>)
           /\ UNCHANGED <<arrived, buffer, requests, port_queue, comVars, sentinelVars, next, qd,
                          done, aborted>>

PopListener ==
  /\ At("pop")
  /\ LET c == calls[1].c
     IN \/ Freed(c)
        \/ /\ c \in components
           /\ watched' = watched \ {c}
           /\ Continue(<<>>)
           /\ UNCHANGED <<inVars, comVars, group, memory, size, n_expected, sleeper, next, qd,
                          done, aborted>>

\* erase(): the component is gone before ~component() returns what its inbox
\* still holds.
EraseComponent(c) ==
  LET unused == SelectSeq(FlattenSeq(incoming[c]), LAMBDA v : v # None)
  IN /\ components' = components \ {c}
     /\ incoming' = [incoming EXCEPT ![c] = <<>>]
     /\ Continue([k \in DOMAIN unused |-> CallReceive(unused[k])])

\* try_collect(): a component that was activated, is not active any more and
\* has an empty outbox is erased.
Collect ==
  /\ At("collect")
  /\ LET c == calls[1].c
     IN \/ Freed(c)
        \/ /\ c \in components
           /\ IF c \in activated \ active /\ unsent[c] = <<>>
              THEN EraseComponent(c)
              ELSE Continue(<<>>) /\ UNCHANGED <<components, incoming>>
           /\ UNCHANGED <<inVars, active, activated, unsent, connected, invalidations,
                          sentinelVars, next, qd, done, aborted>>

-----------------------------------------------------------------------------
\* Invalidation and activation.

\* invalidate_component(id), where id is a reference to cell k of the group of
\* statement s.  The component it names now is the one that is deactivated.
Invalidate ==
  /\ At("invalidate")
  /\ LET s == calls[1].s
         k == calls[1].k
         c == memory[s][k]
     IN Continue(IF c \in components
                 THEN <<CallDeactivate(c, "invalidation"), CallErase(c, c \in active, s, k)>>
                 ELSE <<>>)
  /\ UNCHANGED <<inVars, comVars, sentinelVars, next, qd, done, aborted>>

Erase_Always ==
  /\ At("erase")
  /\ LET c == calls[1].c
     IN \/ Freed(c)
        \/ /\ c \in components
           /\ EraseComponent(c)
           /\ UNCHANGED <<inVars, active, activated, unsent, connected, invalidations,
                          sentinelVars, next, qd, done, aborted>>

\* Its end: a component that was active is erased; otherwise its activation,
\* which may be under way in the caller, is to be cancelled.  What is noted
\* down is what the cell holds by then: on_invalidation() has erased the id of
\* the component from the vector, and moved the next ones up.
Erase ==
  /\ At("erase")
  /\ LET c == calls[1].c
         alive == calls[1].alive
     IN \/ alive /\ Freed(c)
        \/ /\ alive
           /\ c \in components
           /\ EraseComponent(c)
           /\ UNCHANGED <<inVars, active, activated, unsent, connected, invalidations,
                          sentinelVars, next, qd, done, aborted>>
        \/ /\ ~alive
           /\ invalidations' = Append(invalidations, memory[calls[1].s][calls[1].k])
           /\ Continue(<<>>)
           /\ UNCHANGED <<inVars, components, active, activated, incoming, unsent, connected,
                          sentinelVars, next, qd, done, aborted>>

\* invalidated(): the activation of c is cancelled.
Invalidated(c) == c \in ToSet(invalidations)

\* activate_component()
Activate ==
  /\ At("activate")
  /\ LET c == calls[1].c
     IN \/ c \notin components /\ Abort("unable to find com")
        \/ /\ c \in components
           /\ IF Invalidated(c)
              THEN /\ EraseComponent(c)
                   /\ invalidations' = RemoveFirst(invalidations, c)
                   /\ UNCHANGED <<active, activated>>
              ELSE /\ active' = active \cup {c}
                   /\ activated' = activated \cup {c}
                   /\ Continue(<<CallStage(c)>>)
                   /\ UNCHANGED <<components, incoming, invalidations>>
           /\ UNCHANGED <<inVars, unsent, connected, sentinelVars, next, qd, done, aborted>>

\* The loop of activate(): complete sets are acted upon while it is active.
Stage ==
  /\ At("stage")
  /\ LET c == calls[1].c
     IN \/ Freed(c)
        \/ /\ c \in components
           /\ LET s == FindReady(c)
              IN  IF c \in active /\ s # 0
                  THEN /\ incoming' = [incoming EXCEPT ![c] = RemoveAt(@, s)]
                       /\ Continue(<<CallAction(c, incoming[c][s]), CallStage(c)>>)
                  ELSE /\ Continue(<<CallCollect(c)>>)
                       /\ UNCHANGED incoming
           /\ UNCHANGED <<inVars, components, active, activated, unsent, connected, invalidations,
                          sentinelVars, next, qd, done, aborted>>

-----------------------------------------------------------------------------
\* The sentinel.

\* expect_all / expect_any: listeners are added, and a group is a vector that
\* its members share.
Expect ==
  /\ At("expect")
  /\ LET s == calls[1].s
         coms == Statements[s].coms
         any == Statements[s].wait = "any"
     IN /\ watched' = watched \cup ToSet(coms)
        /\ n_expected' = n_expected + (IF any THEN 1 ELSE Len(coms))
        /\ group' = [c \in Coms |-> IF any /\ c \in ToSet(coms) THEN s ELSE group[c]]
        /\ memory' = [memory EXCEPT ![s] = coms]
        /\ size' = [size EXCEPT ![s] = Len(coms)]
        /\ Continue(<<>>)
  /\ UNCHANGED <<inVars, comVars, sleeper, next, qd, done, aborted>>

Peers_Short ==
  /\ At("peers")
  /\ LET f == calls[1]
         peer == memory[f.s][f.k]
     IN \/ /\ f.k >= f.n
           /\ group' = [group EXCEPT ![f.c] = None]
           /\ Continue(<<>>)
        \/ /\ f.k < f.n
           /\ Continue((IF peer = f.c THEN <<>> ELSE <<CallInvalidate(f.s, f.k)>>)
                       \o <<CallPeers(f.s, f.k + 1, f.n, f.c)>>)
           /\ UNCHANGED group
  /\ UNCHANGED <<inVars, comVars, watched, memory, size, n_expected, sleeper, next, qd, done,
                 aborted>>

\* The loop of on_completion(): the members of the group from cell k to the
\* former end of the vector are invalidated, except c, and handed on by
\* reference.  on_invalidation() erases them from the vector in the meantime:
\* the cells behind its end keep what they held.
Peers ==
  /\ At("peers")
  /\ LET f == calls[1]
         peer == memory[f.s][f.k]
     IN \/ /\ f.k > f.n
           /\ group' = [group EXCEPT ![f.c] = None]
           /\ Continue(<<>>)
        \/ /\ f.k <= f.n
           /\ Continue((IF peer = f.c THEN <<>> ELSE <<CallInvalidate(f.s, f.k)>>)
                       \o <<CallPeers(f.s, f.k + 1, f.n, f.c)>>)
           /\ UNCHANGED group
  /\ UNCHANGED <<inVars, comVars, watched, memory, size, n_expected, sleeper, next, qd, done,
                 aborted>>

Completed_Late ==
  /\ At("completed")
  /\ n_expected' = n_expected - 1
  /\ sleeper' = IF sleeper = "asleep" /\ n_expected = 0 THEN "awake" ELSE sleeper
  /\ Continue(<<>>)
  /\ UNCHANGED <<inVars, comVars, watched, group, memory, size, next, qd, done, aborted>>

\* The rest of on_completion(): the last completion awakens the thread.
Completed ==
  /\ At("completed")
  /\ n_expected' = n_expected - 1
  /\ sleeper' = IF sleeper = "asleep" /\ n_expected' = 0 THEN "awake" ELSE sleeper
  /\ Continue(<<>>)
  /\ UNCHANGED <<inVars, comVars, watched, group, memory, size, next, qd, done, aborted>>

\* on_invalidation()
Revoked ==
  /\ At("revoked")
  /\ LET c == calls[1].c
         s == group[c]
         at == CHOOSE k \in 1..size[s] : memory[s][k] = c
     IN \/ s = None /\ Abort("unexpected invalidation of dependent")
        \/ /\ s # None
           /\ memory' = [memory EXCEPT ![s] = [k \in DOMAIN @ |->
                            IF k \in at..(size[s] - 1) THEN @[k + 1] ELSE @[k]]]
           /\ size' = [size EXCEPT ![s] = @ - 1]
           /\ group' = [group EXCEPT ![c] = None]
           /\ Continue(<<>>)
           /\ UNCHANGED <<inVars, comVars, watched, n_expected, sleeper, next, qd, done, aborted>>

-----------------------------------------------------------------------------
\* Handlers.

\* The next value for q reaches the locality.
Deliver(q) ==
  /\ Idle
  /\ arrived[q] < Count[q]
  /\ arrived' = [arrived EXCEPT ![q] = @ + 1]
  /\ calls' = <<CallReceive(<<q, arrived[q] + 1>>)>>
  /\ UNCHANGED <<buffer, requests, open, port_queue, comVars, sentinelVars, next, qd, done, aborted>>

\* How the program obtains input i of c.
Obtain(c, i) ==
  IF Inputs[c][i] \in Boxes THEN <<CallPut(c, i)>>
  ELSE IF Inputs[c][i] \in Ports THEN <<CallConnect(c, i)>>
  ELSE <<>>

\* The program creates the components of the next statement, asks for their
\* inputs, tells the sentinel, and activates them.
SetUp ==
  /\ Idle
  /\ next \in DOMAIN Statements
  /\ LET coms == Statements[next].coms
         Ask(c) == FlattenSeq([i \in DOMAIN Inputs[c] |-> Obtain(c, i)])
     IN /\ components' = components \cup ToSet(coms)
        /\ connected' = connected \cup {c \in ToSet(coms) : Out[c] # None}
        /\ calls' = FlattenSeq([k \in DOMAIN coms |-> Ask(coms[k])])
                    \o (IF Statements[next].wait = "none" THEN <<>>
                        ELSE <<[op |-> "expect", s |-> next]>>)
                    \o [k \in DOMAIN coms |-> CallActivate(Statements[next].activated[k])]
  /\ next' = next + 1
  /\ UNCHANGED <<inVars, active, activated, incoming, unsent, invalidations, sentinelVars, qd,
                 done, aborted>>

\* suspend(): the thread of the program waits at the end of the statements.
Suspend ==
  /\ Idle
  /\ next \notin DOMAIN Statements
  /\ sleeper = "running"
  /\ sleeper' = IF n_expected > 0 THEN "asleep" ELSE "done"
  /\ UNCHANGED <<inVars, comVars, watched, group, memory, size, n_expected, next, qd, done, calls,
                 aborted>>

\* The scheduler resumes the thread; the sentinel goes out of scope.
Resume ==
  /\ Idle
  /\ sleeper = "awake"
  /\ sleeper' = "done"
  /\ UNCHANGED <<inVars, comVars, watched, group, memory, size, n_expected, next, qd, done, calls,
                 aborted>>

-----------------------------------------------------------------------------
Init ==
  /\ arrived = [q \in Boxes \cup Ports |-> 0]
  /\ buffer = [b \in Boxes |-> <<>>]
  /\ requests = [b \in Boxes |-> <<>>]
  /\ open = {}
  /\ port_queue = [p \in Ports |-> <<>>]
  /\ components = {}
  /\ active = {}
  /\ activated = {}
  /\ incoming = [c \in Coms |-> <<>>]
  /\ unsent = [c \in Coms |-> <<>>]
  /\ connected = {}
  /\ invalidations = <<>>
  /\ watched = {}
  /\ group = [c \in Coms |-> None]
  /\ memory = [s \in DOMAIN Statements |-> <<>>]
  /\ size = [s \in DOMAIN Statements |-> 0]
  /\ n_expected = 0
  /\ sleeper = "running"
  /\ next = 1
  /\ qd = 0
  /\ done = [c \in Coms |-> <<>>]
  /\ calls = <<>>
  /\ aborted = "none"

Handler ==
  \/ \E q \in Boxes \cup Ports : Deliver(q)
  \/ SetUp
  \/ Suspend
  \/ Resume

Call ==
  \/ Mail
  \/ PutRequest
  \/ Receive
  \/ Connect
  \/ Accept
  \/ Action
  \/ Deactivate
  \/ Drain
  \/ Sever
  \/ Notify
  \/ PopListener
  \/ Collect
  \/ Invalidate
  \/ Erase
  \/ Activate
  \/ Stage
  \/ Expect
  \/ Peers
  \/ Completed
  \/ Revoked

Next == Handler \/ Call

Spec == Init /\ [][Next]_vars

\* Each handler terminates, messages are delivered, and threads that are ready
\* run; the program goes on with its statements.
FairSpec ==
  /\ Spec
  /\ WF_vars(Call)
  /\ WF_vars(SetUp)
  /\ WF_vars(Suspend)
  /\ WF_vars(Resume)
  /\ \A q \in Boxes \cup Ports : WF_vars(Deliver(q))

-----------------------------------------------------------------------------
\* Properties.

Calls(op) == {k \in DOMAIN calls : calls[k].op = op}

\* The number of times v occurs in the sets of a sequence, or in a sequence.
MaxArity == Max({Arity(c) : c \in Coms})
InSets(v, sets) == Cardinality({<<k, i>> \in (DOMAIN sets) \X (1..MaxArity) : i \in DOMAIN sets[k] /\ sets[k][i] = v})
InQueue(v, q) == Cardinality({k \in DOMAIN q : q[k] = v})

\* Where a value is: on its way, kept by a mailbox or a port, in an inbox,
\* consumed, or the argument of a call.
Places(v) ==
  LET from == PortOf(v) IN
  (IF v[2] > arrived[from] THEN 1 ELSE 0)
  + InQueue(v, IF from \in Boxes THEN buffer[from] ELSE port_queue[from])
  + MapThenSumSet(LAMBDA c : InSets(v, incoming[c]) + InSets(v, done[c]), Coms)
  + Cardinality({k \in DOMAIN calls : calls[k].op \in {"receive", "mail", "accept"} /\ calls[k].v = v})
  + Cardinality({k \in Calls("action") : v \in ToSet(calls[k].set)})

\* component.hpp, inbox.hpp: a component that is done or invalidated returns
\* the values it did not use; none is lost and none is used twice, and
\* quiescence detection hears of the ones that wait.
ValuesKept ==
  /\ \A v \in Values : Places(v) = 1
  /\ qd = MapThenSumSet(LAMBDA b : Len(buffer[b]), Boxes)
          + MapThenSumSet(LAMBDA p : Len(port_queue[p]), Ports)

Winners(s) == {c \in ToSet(Statements[s].coms) : done[c] # <<>>}

\* sentinel.hpp: one component of a group runs, and the thread that waits for
\* the statements goes on when each of them has been executed.
OneOfEach ==
  /\ \A s \in DOMAIN Statements : Statements[s].wait = "any" => Cardinality(Winners(s)) <= 1
  /\ sleeper \in {"awake", "done"} =>
       \A s \in DOMAIN Statements :
          CASE Statements[s].wait = "any" -> Winners(s) # {}
            [] Statements[s].wait = "all" -> Winners(s) = ToSet(Statements[s].coms)
            [] OTHER -> TRUE

\* No assertion fails, and no component is used after it was erased, however
\* deep the calls nest.
NoAbort == aborted = "none"

\* component.hpp: the k-th values that reach the inputs of a component are
\* consumed together, whether they come while it is active or before.
PairedInOrder ==
  \A c \in Coms : (\A i \in 1..Arity(c) : Inputs[c][i] \in Ports) =>
    \A k \in DOMAIN done[c] : \A i, j \in 1..Arity(c) : done[c][k][i][2] = done[c][k][j][2]

\* Between two handlers, a component exists only if it waits for something: it
\* is active and some input of it has neither a value nor a source that is
\* gone.  What completed or was invalidated has been collected.
NothingLingers ==
  Idle => /\ components \subseteq active
          /\ invalidations = <<>>
          /\ \A c \in components : \A i \in 1..Arity(c) :
               Inputs[c][i] \in Coms =>
                  done[Inputs[c][i]] = <<>> /\ (next > Statement(Inputs[c][i]) => Inputs[c][i] \in components)

\* The thread is awakened in the end.
EventuallyAwake == <>(sleeper = "done")
=============================================================================
