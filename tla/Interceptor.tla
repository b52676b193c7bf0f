----------------------------- MODULE Interceptor -----------------------------
(***************************************************************************)
(* The interceptor: one branch on each PE, which routes messages to the    *)
(* elements of an array while elements come, move and go.                  *)
(*                                                                         *)
(* A branch hands a message to the element if it is local; it sends it to  *)
(* the PE where it last knew the element, or to the element's home; and    *)
(* the home keeps it if it does not know better.  An element that leaves   *)
(* the spanning tree has its messages forwarded to its parent, by a record *)
(* at its home that lasts until an element with that index is created.     *)
(*                                                                         *)
(* Messages between PEs arrive in any order.  Charm++ keeps the location   *)
(* caches: a PE knows its own elements, and where it sent one; the home    *)
(* hears of changes after a while; the other PEs know what they happened   *)
(* to learn.                                                               *)
(***************************************************************************)
EXTENDS Integers, FiniteSets

CONSTANTS
  PE,       \* the PEs
  Idx,      \* the indices of the array
  Root,     \* the endpoint of the spanning tree, which stays
  Home,     \* Home[i]: the home PE of index i
  Msgs,     \* the messages that are sent
  Target,   \* Target[m]: the index message m is sent to
  MaxLives, \* bound: how often an element with some index is created
  MaxMoves, \* bound: how often elements migrate
  None

ASSUME InterceptorAssumption ==
  /\ IsFiniteSet(Idx) /\ IsFiniteSet(Msgs)
  /\ Root \in Idx
  /\ Home \in [Idx -> PE]
  /\ Target \in [Msgs -> Idx]
  /\ MaxLives \in Nat /\ MaxMoves \in Nat
  /\ None \notin Idx \cup PE

VARIABLES
  loc,      \* loc[i]: the PE where element i is, or None
  lives,    \* lives[i]: how often an element i has been created
  moves,    \* how often elements have migrated
  up,       \* up[i]: the parent of element i, or None
  cache,    \* cache[pe][i]: where pe believes i is, or None
  fwdReqs,  \* fwdReqs[i]: the record at the home of i, or None
  queued,   \* queued[i]: the messages for i buffered at its home
  net,      \* what is on its way to a PE, or in the queue of its scheduler
  sent,     \* the messages that have been sent
  received, \* received[m]: the element that received m, or None
  qd,       \* QdCreate less QdProcess
  heirs,    \* <<i, p>>: messages to i have been redirected to p
  aborted

elementVars == <<loc, lives, moves, up, cache>>
vars == <<elementVars, fwdReqs, queued, net, sent, received, qd, heirs, aborted>>

Running == aborted = "none"

Children(i) == {c \in Idx : up[c] = i}

-----------------------------------------------------------------------------
\* Routing.

Forwarded(pe, i, reqs) == Home[i] = pe /\ reqs[i] # None

\* The indices that dealias() comes by: the least set with i that has the
\* target of each record at pe for one of its indices.
Unravelled(pe, i, reqs) ==
  {j \in Idx : \A S \in SUBSET Idx :
                 i \in S /\ (\A k \in S : Forwarded(pe, k, reqs) => reqs[k] \in S) => j \in S}

LastNames(pe, i, reqs) == {j \in Unravelled(pe, i, reqs) : ~Forwarded(pe, j, reqs)}

\* The recursion of dealias() does not end.
Circular(pe, i, reqs) == LastNames(pe, i, reqs) = {}

\* dealias(): the last name of i.
Dealias(pe, i, reqs) == CHOOSE j \in LastNames(pe, i, reqs) : TRUE

LastKnown_NoFallback(pe, i) == IF cache[pe][i] = None THEN pe ELSE cache[pe][i]

\* The last known PE of i: its home, if pe does not know its location.
LastKnown(pe, i) == IF cache[pe][i] = None THEN Home[i] ELSE cache[pe][i]

Parcel(at, i, m) == [kind |-> "deliver", at |-> at, idx |-> i, m |-> m]
ForwardRequest(at, i, to, life) ==
  [kind |-> "forward", at |-> at, idx |-> i, to |-> to, life |-> life]
StopRequest(at, i, life) == [kind |-> "stop", at |-> at, idx |-> i, life |-> life]

\* The rest of deliver(), for the messages ms to index i at pe.  An immediate
\* delivery to a local element is processed; any other goes through the
\* scheduler of pe.  `rest' are the messages in transit, `buffers' the ones
\* kept at the homes.
Route(pe, i, ms, immediate, buffers, rest) ==
  LET parcels(at) == {Parcel(at, i, m) : m \in ms}
  IN
  \/ /\ loc[i] = pe /\ immediate
     /\ received' = [m \in Msgs |-> IF m \in ms THEN i ELSE received[m]]
     /\ net' = rest
     /\ queued' = buffers
  \/ /\ loc[i] = pe /\ ~immediate
     /\ net' = rest \cup parcels(pe)
     /\ queued' = buffers
     /\ UNCHANGED received
  \/ /\ loc[i] # pe
     /\ LastKnown(pe, i) = pe /\ Home[i] = pe
     /\ queued' = [buffers EXCEPT ![i] = @ \cup ms]
     /\ net' = rest
     /\ UNCHANGED received
  \/ /\ loc[i] # pe
     /\ ~(LastKnown(pe, i) = pe /\ Home[i] = pe)
     /\ net' = rest \cup parcels(LastKnown(pe, i))
     /\ queued' = buffers
     /\ UNCHANGED received

\* deliver()
Deliver(pe, i, ms, immediate, reqs, buffers, rest) ==
  \/ /\ ms = {}
     /\ net' = rest /\ queued' = buffers
     /\ UNCHANGED <<received, aborted>>
  \/ /\ ms # {} /\ Circular(pe, i, reqs)
     /\ aborted' = "endless recursion"
     /\ net' = rest /\ queued' = buffers
     /\ UNCHANGED received
  \/ /\ ms # {} /\ ~Circular(pe, i, reqs)
     /\ Route(pe, Dealias(pe, i, reqs), ms, immediate, buffers, rest)
     /\ UNCHANGED aborted

\* QdCreate for every message that is buffered, QdProcess for every one that
\* leaves its buffer.
Buffered(buffers) == {b \in Idx \X Msgs : b[2] \in buffers[b[1]]}
CountQd == qd' = qd + Cardinality(Buffered(queued') \ Buffered(queued))
                    - Cardinality(Buffered(queued) \ Buffered(queued'))

Abort(why) ==
  /\ aborted' = why
  /\ UNCHANGED <<elementVars, fwdReqs, queued, net, sent, received, qd, heirs>>

-----------------------------------------------------------------------------
\* Messages.

\* send_async(), from any PE.
Send(m, pe) ==
  /\ Running
  /\ m \notin sent
  /\ sent' = sent \cup {m}
  /\ Deliver(pe, Target[m], {m}, FALSE, fwdReqs, queued, net)
  /\ CountQd
  /\ UNCHANGED <<elementVars, fwdReqs, heirs>>

\* deliver_handler_ and delivery::handler_
Arrive(p) ==
  /\ Running
  /\ p \in net
  /\ p.kind = "deliver"
  /\ Deliver(p.at, p.idx, {p.m}, TRUE, fwdReqs, queued, net \ {p})
  /\ CountQd
  /\ UNCHANGED <<elementVars, fwdReqs, sent, heirs>>

-----------------------------------------------------------------------------
\* Forwarding records.

Forward_NoResync(p) ==
  /\ Running
  /\ p \in net
  /\ p.kind = "forward"
  /\ \/ /\ Home[p.idx] # p.at
        /\ net' = (net \ {p}) \cup {[p EXCEPT !.at = Home[p.idx]]}
        /\ UNCHANGED fwdReqs
     \/ /\ Home[p.idx] = p.at
        /\ fwdReqs' = [fwdReqs EXCEPT ![p.idx] = p.to]
        /\ net' = net \ {p}
  /\ UNCHANGED <<elementVars, queued, sent, received, qd, heirs, aborted>>

Resend_KeepsBuffer(p, reqs) ==
  Deliver(p.at, p.idx, queued[p.idx], TRUE, reqs, queued, net \ {p})

\* resync_queue(): the buffer is taken, and each message delivered again.
Resend(p, reqs) ==
  Deliver(p.at, p.idx, queued[p.idx], TRUE, reqs, [queued EXCEPT ![p.idx] = {}], net \ {p})

\* forward(): at the home, the record is made and what is buffered delivered
\* again; elsewhere the request goes to the home.
Forward(p) ==
  LET reqs == [fwdReqs EXCEPT ![p.idx] = p.to] IN
  /\ Running
  /\ p \in net
  /\ p.kind = "forward"
  /\ \/ /\ Home[p.idx] # p.at
        /\ net' = (net \ {p}) \cup {[p EXCEPT !.at = Home[p.idx]]}
        /\ UNCHANGED <<elementVars, fwdReqs, queued, sent, received, qd, heirs, aborted>>
     \/ /\ Home[p.idx] = p.at
        /\ fwdReqs[p.idx] # None
        /\ Abort("duplicate forwarding request")
     \/ /\ Home[p.idx] = p.at
        /\ fwdReqs[p.idx] = None
        /\ fwdReqs' = reqs
        /\ Resend(p, reqs)
        /\ CountQd
        /\ UNCHANGED <<elementVars, sent, heirs>>

\* stop_forwarding(), when it has reached the home.
StopForwarding(p) ==
  /\ Running
  /\ p \in net
  /\ p.kind = "stop"
  /\ fwdReqs' = [fwdReqs EXCEPT ![p.idx] = None]
  /\ net' = net \ {p}
  /\ UNCHANGED <<elementVars, queued, sent, received, qd, heirs, aborted>>

-----------------------------------------------------------------------------
\* Elements.

\* An element is created at pe, below the element p (reg_element).
Create(i, pe, p) ==
  /\ Running
  /\ i # Root /\ loc[i] = None /\ lives[i] < MaxLives
  /\ p # i /\ loc[p] # None
  /\ loc' = [loc EXCEPT ![i] = pe]
  /\ lives' = [lives EXCEPT ![i] = @ + 1]
  /\ up' = [up EXCEPT ![i] = p]
  /\ cache' = [cache EXCEPT ![pe][i] = pe]
  /\ IF Home[i] = pe
     THEN fwdReqs' = [fwdReqs EXCEPT ![i] = None] /\ UNCHANGED net
     ELSE net' = net \cup {StopRequest(Home[i], i, lives[i])}
          /\ UNCHANGED fwdReqs
  /\ UNCHANGED <<moves, queued, sent, received, qd, heirs, aborted>>

Destroy_ToChild(i) ==
  LET pe == loc[i] IN
  /\ Running
  /\ i # Root /\ pe # None
  /\ loc' = [loc EXCEPT ![i] = None]
  /\ cache' = [cache EXCEPT ![pe][i] = None]
  /\ up' = [c \in Idx |-> IF c = i THEN None ELSE IF up[c] = i THEN up[i] ELSE up[c]]
  /\ \/ Children(i) = {} /\ UNCHANGED <<net, heirs>>
     \/ /\ Children(i) # {}
        /\ net' = net \cup {ForwardRequest(pe, i, CHOOSE c \in Children(i) : TRUE, lives[i])}
        /\ heirs' = heirs \cup {<<a, up[i]>> : a \in {i} \cup {x \in Idx : <<x, i>> \in heirs}}
  /\ UNCHANGED <<lives, moves, fwdReqs, queued, sent, received, qd, aborted>>

\* An element dies (disassociate): its parent takes over its children, and,
\* if it has any, its messages.
Destroy(i) ==
  LET pe == loc[i] IN
  /\ Running
  /\ i # Root /\ pe # None
  /\ loc' = [loc EXCEPT ![i] = None]
  /\ cache' = [cache EXCEPT ![pe][i] = None]
  /\ up' = [c \in Idx |-> IF c = i THEN None ELSE IF up[c] = i THEN up[i] ELSE up[c]]
  /\ \/ Children(i) = {} /\ UNCHANGED <<net, heirs>>
     \/ /\ Children(i) # {}
        /\ net' = net \cup {ForwardRequest(pe, i, up[i], lives[i])}
        /\ heirs' = heirs \cup {<<a, up[i]>> : a \in {i} \cup {x \in Idx : <<x, i>> \in heirs}}
  /\ UNCHANGED <<lives, moves, fwdReqs, queued, sent, received, qd, aborted>>

\* An element migrates; the PE it leaves knows where it went.
Migrate(i, pe) ==
  /\ Running
  /\ loc[i] \notin {None, pe} /\ moves < MaxMoves
  /\ loc' = [loc EXCEPT ![i] = pe]
  /\ moves' = moves + 1
  /\ cache' = [cache EXCEPT ![loc[i]][i] = pe, ![pe][i] = pe]
  /\ UNCHANGED <<lives, up, fwdReqs, queued, net, sent, received, qd, heirs, aborted>>

\* The home hears where element i is, or that it is gone; another PE may
\* learn it too.
Inform(i, pe) ==
  /\ Running
  /\ cache[pe][i] # loc[i]
  /\ cache' = [cache EXCEPT ![pe][i] = loc[i]]
  /\ UNCHANGED <<loc, lives, moves, up, fwdReqs, queued, net, sent, received, qd, heirs, aborted>>

-----------------------------------------------------------------------------
Init ==
  /\ \E pe \in PE : loc = [i \in Idx |-> IF i = Root THEN pe ELSE None]
  /\ lives = [i \in Idx |-> IF i = Root THEN 1 ELSE 0]
  /\ moves = 0
  /\ up = [i \in Idx |-> None]
  /\ cache = [pe \in PE |-> [i \in Idx |-> IF pe \in {loc[i], Home[i]} THEN loc[i] ELSE None]]
  /\ fwdReqs = [i \in Idx |-> None]
  /\ queued = [i \in Idx |-> {}]
  /\ net = {}
  /\ sent = {}
  /\ received = [m \in Msgs |-> None]
  /\ qd = 0
  /\ heirs = {}
  /\ aborted = "none"

Next ==
  \/ \E m \in Msgs, pe \in PE : Send(m, pe)
  \/ \E p \in net : Arrive(p)
  \/ \E p \in net : Forward(p)
  \/ \E p \in net : StopForwarding(p)
  \/ \E i, p \in Idx, pe \in PE : Create(i, pe, p)
  \/ \E i \in Idx : Destroy(i)
  \/ \E i \in Idx, pe \in PE : Migrate(i, pe)
  \/ \E i \in Idx, pe \in PE : Inform(i, pe)

Spec == Init /\ [][Next]_vars

\* Charm++ delivers messages, and tells the homes.
FairSpec ==
  /\ Spec
  /\ WF_vars(\E p \in net : Arrive(p) \/ Forward(p) \/ StopForwarding(p))
  /\ \A i \in Idx : WF_vars(Inform(i, Home[i]))

-----------------------------------------------------------------------------
\* Properties.

\* Types of the variables.
TypeOK ==
  /\ loc \in [Idx -> PE \cup {None}]
  /\ lives \in [Idx -> Nat]
  /\ moves \in Nat
  /\ up \in [Idx -> Idx \cup {None}]
  /\ cache \in [PE -> [Idx -> PE \cup {None}]]
  /\ fwdReqs \in [Idx -> Idx \cup {None}]
  /\ queued \in [Idx -> SUBSET Msgs]
  /\ net \subseteq [kind : {"deliver"}, at : PE, idx : Idx, m : Msgs]
                   \cup [kind : {"forward"}, at : PE, idx : Idx, to : Idx, life : Nat]
                   \cup [kind : {"stop"}, at : PE, idx : Idx, life : Nat]
  /\ sent \subseteq Msgs
  /\ received \in [Msgs -> Idx \cup {None}]
  /\ qd \in Int
  /\ heirs \subseteq Idx \X Idx
  /\ aborted \in {"none", "duplicate forwarding request", "endless recursion"}

Places(m) ==
  Cardinality({p \in net : p.kind = "deliver" /\ p.m = m})
  + Cardinality({i \in Idx : m \in queued[i]})
  + (IF received[m] = None THEN 0 ELSE 1)

\* interceptor.cc, deliver() and resync_queue(): however often a message is
\* re-routed, buffered and delivered again, there is one of it, and quiescence
\* detection counts the buffered ones.
Conserved ==
  Running => /\ \A m \in Msgs : Places(m) = IF m \in sent THEN 1 ELSE 0
             /\ qd = Cardinality(Buffered(queued))

\* forward(): a message does not stay in a buffer when its index has a record,
\* whichever of the two came first.
ForwardedNotBuffered == \A i \in Idx : queued[i] # {} => fwdReqs[i] = None

\* A message is received by the element it was sent to, or by one of those
\* that elements which left the tree handed their messages on to.
OnlyHeirsReceive ==
  \A m \in Msgs : received[m] \in {None, Target[m]} \/ <<Target[m], received[m]>> \in heirs

\* No index is forwarded twice, and no chain of records is circular.
NoAbort == Running

Settled ==
  \A m \in sent : \/ received[m] # None
                  \/ \E i \in Idx \ {Root} : m \in queued[i] /\ fwdReqs[i] = None

\* Messages do not chase elements for ever: each is received, or kept at the
\* home of an index that did not exist when it came by and has no record.
EventuallySettled == <>[]Settled

\* What the code does not promise (stop_forwarding() asks "should this resync
\* the send queue for idx?"): what is buffered at the home of an index leaves
\* the buffer once the index has an element.
BufferedReceived == \A i \in Idx : []<>(loc[i] = None \/ queued[i] = {})
=============================================================================
