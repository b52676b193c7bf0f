-------------------------- MODULE SectionBroadcast --------------------------
(***************************************************************************)
(* Broadcasts over a lightweight section.                                  *)
(*                                                                         *)
(* A broadcast is sent to the root of the section as a broadcaster without *)
(* a stamp.  The root numbers it; every member sends a stamped copy to     *)
(* each of its children and then receives the message itself, unless it    *)
(* has already accepted that number or a later one.                        *)
(*                                                                         *)
(* A broadcaster is an immediate action: one handler, atomic.  Nothing is  *)
(* lost or duplicated on the way.  Requests reach the root in any order;   *)
(* whether the copies from a member to its child can overtake each other   *)
(* is a parameter, because the code relies on it and Charm++ does not      *)
(* promise it.                                                             *)
(***************************************************************************)
EXTENDS Section, SequencesExt

CONSTANTS
  Sect,         \* the section
  Broadcasts,   \* bound: the broadcasts that may be sent
  InOrder       \* copies sent from one member to another arrive in order

ASSUME BroadcastAssumption == IsSection(Sect) /\ InOrder \in BOOLEAN

Members == Member(Sect)
Root == PickRoot(Sect)

VARIABLES
  bcast_count,  \* identity::bcast_count_ of each member
  unsent,       \* the broadcasts nobody has sent yet
  requests,     \* broadcasters without a stamp, on their way to the root
  copies,       \* stamped broadcasters on their way to each member
  received      \* the messages that each member has received, in order

vars == <<bcast_count, unsent, requests, copies, received>>

Init_SeededCounts ==
  /\ bcast_count = [m \in Members |-> IF m = Root THEN 0 ELSE 1]
  /\ unsent = Broadcasts
  /\ requests = {}
  /\ copies = [m \in Members |-> << >>]
  /\ received = [m \in Members |-> << >>]

Init ==
  /\ bcast_count = [m \in Members |-> 0]
  /\ unsent = Broadcasts
  /\ requests = {}
  /\ copies = [m \in Members |-> << >>]
  /\ received = [m \in Members |-> << >>]

\* identity::next_broadcast
NextBroadcast(m) == bcast_count[m] + 1

\* identity::accept_broadcast, and the delivery it decides on
AcceptBroadcast(m, count, b) ==
  \/ /\ bcast_count[m] >= count
     /\ UNCHANGED <<bcast_count, received>>
  \/ /\ bcast_count[m] < count
     /\ bcast_count' = [bcast_count EXCEPT ![m] = count]
     /\ received' = [received EXCEPT ![m] = Append(@, b)]

\* broadcaster::action at member m: copies to the children, accepted or not,
\* and then the local delivery; rest is what the delivery leaves in copies
Action(m, count, b, rest) ==
  /\ copies' = [u \in Members |->
                  IF u \in Upstream(Sect, m)
                  THEN Append(rest[u], [count |-> count, bcast |-> b])
                  ELSE rest[u]]
  /\ AcceptBroadcast(m, count, b)

\* broadcast / broadcast_to: send_to_root
Broadcast(b) ==
  /\ b \in unsent
  /\ unsent' = unsent \ {b}
  /\ requests' = requests \cup {b}
  /\ UNCHANGED <<bcast_count, copies, received>>

\* the root executes a broadcaster without a stamp
Number(b) ==
  /\ b \in requests
  /\ requests' = requests \ {b}
  /\ Action(Root, NextBroadcast(Root), b, copies)
  /\ UNCHANGED unsent

\* a member executes a stamped broadcaster
Relay(m, i) ==
  /\ i \in DOMAIN copies[m]
  /\ InOrder => i = 1
  /\ Action(m, copies[m][i].count, copies[m][i].bcast,
            [copies EXCEPT ![m] = RemoveAt(@, i)])
  /\ UNCHANGED <<unsent, requests>>

Request == \E b \in unsent : Broadcast(b)

Execute ==
  \/ \E b \in requests : Number(b)
  \/ \E m \in Members : \E i \in DOMAIN copies[m] : Relay(m, i)

Next == Request \/ Execute

Spec == Init /\ [][Next]_vars

\* Charm++ delivers every message.
FairSpec == Spec /\ WF_vars(Execute)
-----------------------------------------------------------------------------
(***************************************************************************)
(* Properties.                                                             *)
(***************************************************************************)
\* Every variable has its type.
TypeOK ==
  /\ bcast_count \in [Members -> Nat]
  /\ unsent \subseteq Broadcasts
  /\ requests \subseteq Broadcasts
  /\ copies \in [Members -> Seq([count : Nat \ {0}, bcast : Broadcasts])]
  /\ received \in [Members -> Seq(Broadcasts)]

Quiet == requests = {} /\ \A m \in Members : copies[m] = << >>

\* The order the root has chosen.
Order == received[Root]

\* A member receives a broadcast at most once and never after a later one,
\* however the copies overtake each other.
OrderRespected ==
  \A m \in Members :
    \E f \in [DOMAIN received[m] -> DOMAIN Order] :
      /\ \A i, j \in DOMAIN received[m] : i < j => f[i] < f[j]
      /\ \A i \in DOMAIN received[m] : received[m][i] = Order[f[i]]

\* The last broadcast reaches everyone even when copies overtake each other:
\* members that have dropped older copies still relay.
LastReceived ==
  Quiet /\ Order # << >> =>
    \A m \in Members : received[m] # << >> /\ Last(received[m]) = Last(Order)

\* bcast_demo counts on it: when nothing is on its way any more, every member
\* has received every broadcast that was sent.
AllReceived ==
  Quiet => \A m \in Members : Range(received[m]) = Broadcasts \ unsent

\* When order is kept, every broadcast that is sent reaches every member.
EventuallyReceived ==
  \A b \in Broadcasts :
    b \in requests ~> \A m \in Members : b \in Range(received[m])

TO == INSTANCE TotalOrder WITH Members <- Members

\* When order is kept, the broadcasts are totally ordered.
TotallyOrdered == TO!Spec
=============================================================================
