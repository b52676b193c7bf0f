------------------------------ MODULE ZeroCopy ------------------------------
(***************************************************************************)
(* Zero-copy values of a locality.                                         *)
(*                                                                         *)
(* A value with large blocks of memory is sent as a small message that     *)
(* lists them; the receiver asks for each block (a request) once it has a  *)
(* buffer to put it in.  The application posts buffers for an endpoint,    *)
(* before or after the requests arrive.  A request that no posted buffer   *)
(* is large enough for gets a buffer of its own, or, at an endpoint in     *)
(* manual mode, waits for the application to post one.  The value is       *)
(* handed to its endpoint when all of its blocks have arrived.             *)
(*                                                                         *)
(* The handlers of a locality run one at a time.  receive_value loops over *)
(* the blocks of a value: current is the block the loop is at, and one     *)
(* step of the model is one iteration of the loop, during which nothing    *)
(* runs but the completion of a transfer (get() may copy at once and call  *)
(* back before it returns).  Messages and transfers are neither lost nor   *)
(* duplicated, and take any time.                                          *)
(***************************************************************************)
EXTENDS Integers, FiniteSets, SequencesExt

CONSTANTS
  Values,    \* the values that may be sent to the locality
  Buffers,   \* the buffers the application may post, one for each post_buffer
  Endpoints,
  EpOf,      \* the endpoint of a value, and of a buffer
  Blocks,    \* the sizes of the blocks of a value, in the order they are packed
  Size       \* the size of a buffer

\* the destination of a request that the locality allocates memory for
Allocated == "allocated"

\* no iteration of receive_value is under way
Idle == <<>>

ASSUME ZeroCopyAssumption ==
  /\ Values \cap Buffers = {}
  /\ EpOf \in [Values \cup Buffers -> Endpoints]
  /\ Blocks \in [Values -> Seq(Nat)]
  /\ Size \in [Buffers -> Nat]
  /\ Allocated \notin Buffers

\* a request: one block of a value, a (zero_copy_value*, CkNcpyBuffer*) pair
Request == UNION {{v} \X DOMAIN Blocks[v] : v \in Values}

Cnt(r) == Blocks[r[1]][r[2]]

\* a transfer into a buffer that was posted or allocated
Transfer == [req : Request, buf : Buffers \cup {Allocated}]

VARIABLES
  sent,         \* the values that have been sent
  wire,         \* the messages on their way to the locality
  current,      \* the block receive_value is about to ask for, or Idle
  manual,       \* the endpoints that have an entry in outstanding
  outstanding,  \* the requests that wait for a buffer, in order of arrival
  offered,      \* the buffers the application has posted so far
  buffers,      \* those of them that wait for a request, in order of posting
  transfers,    \* the transfers under way
  values,       \* zero_copy_value::values, of all values together
  nReceived,    \* zero_copy_value::nReceived
  qd,           \* QdCreate's minus QdProcess's
  delivered     \* how often the endpoint's handler was given each value

vars == <<sent, wire, current, manual, outstanding, offered, buffers, transfers,
          values, nReceived, qd, delivered>>

Init ==
  /\ sent = {}
  /\ wire = {}
  /\ current = Idle
  /\ manual = {}
  /\ outstanding = [ep \in Endpoints |-> <<>>]
  /\ offered = {}
  /\ buffers = [ep \in Endpoints |-> <<>>]
  /\ transfers = {}
  /\ values = {}
  /\ nReceived = [v \in Values |-> 0]
  /\ qd = 0
  /\ delivered = [v \in Values |-> 0]

-----------------------------------------------------------------------------
\* pack_deferrable_: the blocks of the value stay at the sender, the message
\* lists them
Send(v) ==
  /\ v \notin sent
  /\ sent' = sent \cup {v}
  /\ wire' = wire \cup {v}
  /\ UNCHANGED <<current, manual, outstanding, offered, buffers, transfers,
                 values, nReceived, qd, delivered>>

\* manual_mode: outstanding[ep] creates the entry if there is none
ManualMode(ep) ==
  /\ current = Idle
  /\ ep \notin manual
  /\ manual' = manual \cup {ep}
  /\ UNCHANGED <<sent, wire, current, outstanding, offered, buffers, transfers,
                 values, nReceived, qd, delivered>>

\* receive_value up to its loop; a message without blocks goes to the handler
ReceiveValue(v) ==
  /\ current = Idle
  /\ v \in wire
  /\ wire' = wire \ {v}
  /\ \/ /\ Blocks[v] = <<>>
        /\ delivered' = [delivered EXCEPT ![v] = @ + 1]
        /\ UNCHANGED current
     \/ /\ Blocks[v] # <<>>
        /\ current' = <<v, 1>>
        /\ UNCHANGED delivered
  /\ UNCHANGED <<sent, manual, outstanding, offered, buffers, transfers,
                 values, nReceived, qd>>

Applicable_Strict(ep, size) ==
  {i \in DOMAIN outstanding[ep] :
     /\ Cnt(outstanding[ep][i]) < size
     /\ \A j \in 1 .. (i - 1) : Cnt(outstanding[ep][j]) >= size}

\* find_applicable: where the first request is that fits into a new buffer
Applicable(ep, size) ==
  {i \in DOMAIN outstanding[ep] :
     /\ Cnt(outstanding[ep][i]) <= size
     /\ \A j \in 1 .. (i - 1) : Cnt(outstanding[ep][j]) > size}

\* the search of poll_buffer: where the first buffer is that the goal fits into
LargeEnough(ep, goal) ==
  {i \in DOMAIN buffers[ep] :
     /\ Size[buffers[ep][i]] >= goal
     /\ \A j \in 1 .. (i - 1) : Size[buffers[ep][j]] < goal}

\* the loop of receive_value goes on to the next block
Advance ==
  current' = IF current[2] < Len(Blocks[current[1]])
             THEN <<current[1], current[2] + 1>>
             ELSE Idle

PollPosted_KeepsBuffer ==
  LET ep == EpOf[current[1]] IN
  /\ current # Idle
  /\ \E i \in LargeEnough(ep, Cnt(current)) :
       transfers' = transfers \cup {[req |-> current, buf |-> buffers[ep][i]]}
  /\ Advance
  /\ UNCHANGED <<sent, wire, manual, outstanding, offered, buffers, values, nReceived, qd, delivered>>

\* poll_buffer finds a posted buffer for the current block
PollPosted ==
  LET ep == EpOf[current[1]] IN
  /\ current # Idle
  /\ \E i \in LargeEnough(ep, Cnt(current)) :
       /\ transfers' = transfers \cup {[req |-> current, buf |-> buffers[ep][i]]}
       /\ buffers' = [buffers EXCEPT ![ep] = RemoveAt(@, i)]
  /\ Advance
  /\ UNCHANGED <<sent, wire, manual, outstanding, offered, values, nReceived, qd, delivered>>

\* poll_buffer finds none, and the endpoint is not in manual mode
PollAllocate ==
  LET ep == EpOf[current[1]] IN
  /\ current # Idle
  /\ LargeEnough(ep, Cnt(current)) = {}
  /\ ep \notin manual
  /\ transfers' = transfers \cup {[req |-> current, buf |-> Allocated]}
  /\ Advance
  /\ UNCHANGED <<sent, wire, manual, outstanding, offered, buffers, values, nReceived, qd, delivered>>

PollWait_NoQdCreate ==
  LET ep == EpOf[current[1]] IN
  /\ current # Idle
  /\ LargeEnough(ep, Cnt(current)) = {}
  /\ ep \in manual
  /\ outstanding' = [outstanding EXCEPT ![ep] = Append(@, current)]
  /\ Advance
  /\ UNCHANGED <<sent, wire, manual, offered, buffers, transfers, values, nReceived, qd, delivered>>

\* poll_buffer finds none in manual mode: the request waits
PollWait ==
  LET ep == EpOf[current[1]] IN
  /\ current # Idle
  /\ LargeEnough(ep, Cnt(current)) = {}
  /\ ep \in manual
  /\ outstanding' = [outstanding EXCEPT ![ep] = Append(@, current)]
  /\ qd' = qd + 1
  /\ Advance
  /\ UNCHANGED <<sent, wire, manual, offered, buffers, transfers, values, nReceived, delivered>>

PostBuffer_NeverSearches(b) ==
  /\ current = Idle
  /\ b \notin offered
  /\ offered' = offered \cup {b}
  /\ buffers' = [buffers EXCEPT ![EpOf[b]] = Append(@, b)]
  /\ UNCHANGED <<sent, wire, current, manual, outstanding, transfers, values, nReceived, qd, delivered>>

\* post_buffer: serve the first request that fits, or keep the buffer
PostBuffer(b) ==
  LET ep == EpOf[b] IN
  /\ current = Idle
  /\ b \notin offered
  /\ offered' = offered \cup {b}
  /\ \/ /\ Applicable(ep, Size[b]) = {}
        /\ buffers' = [buffers EXCEPT ![ep] = Append(@, b)]
        /\ UNCHANGED <<outstanding, transfers, qd>>
     \/ \E i \in Applicable(ep, Size[b]) :
          /\ transfers' = transfers \cup {[req |-> outstanding[ep][i], buf |-> b]}
          /\ outstanding' = [outstanding EXCEPT ![ep] = RemoveAt(@, i)]
          /\ qd' = qd - 1
          /\ UNCHANGED buffers
  /\ UNCHANGED <<sent, wire, current, manual, values, nReceived, delivered>>

Ready_AtFirst(v, n) == n # 0

\* zero_copy_value::ready
Ready(v, n) == n # 0 /\ n = Len(Blocks[v])

\* zero_copy_payload_::action_: the block has arrived, and the value with the
\* last one
Complete(t) ==
  LET v == t.req[1] IN
  /\ t \in transfers
  /\ transfers' = transfers \ {t}
  /\ values' = values \cup {t}
  /\ nReceived' = [nReceived EXCEPT ![v] = @ + 1]
  /\ delivered' = IF Ready(v, nReceived'[v])
                  THEN [delivered EXCEPT ![v] = @ + 1]
                  ELSE delivered
  /\ UNCHANGED <<sent, wire, current, manual, outstanding, offered, buffers, qd>>

Next ==
  \/ \E v \in Values : Send(v) \/ ReceiveValue(v)
  \/ \E ep \in Endpoints : ManualMode(ep)
  \/ \E b \in Buffers : PostBuffer(b)
  \/ PollPosted \/ PollAllocate \/ PollWait
  \/ \E t \in transfers : Complete(t)

Spec == Init /\ [][Next]_vars

\* the scheduler serves every message and every transfer, and the application
\* posts all of its buffers
FairSpec ==
  /\ Spec
  /\ \A v \in Values : WF_vars(ReceiveValue(v))
  /\ \A b \in Buffers : WF_vars(PostBuffer(b))
  /\ \A r \in Request : WF_vars(\E t \in transfers : t.req = r /\ Complete(t))
  /\ WF_vars(PollPosted \/ PollAllocate \/ PollWait)

-----------------------------------------------------------------------------
(***************************************************************************)
(* Properties.                                                             *)
(***************************************************************************)
TypeOK ==
  /\ sent \subseteq Values
  /\ wire \subseteq sent
  /\ current \in Request \cup {Idle}
  /\ manual \subseteq Endpoints
  /\ outstanding \in [Endpoints -> Seq(Request)]
  /\ offered \subseteq Buffers
  /\ buffers \in [Endpoints -> Seq(Buffers)]
  /\ transfers \subseteq Transfer
  /\ values \subseteq Transfer
  /\ nReceived \in [Values -> Nat]
  /\ qd \in Int
  /\ delivered \in [Values -> Nat]

\* what is in any of the queues
Pool(queues) == UNION {Range(queues[ep]) : ep \in Endpoints}

Outstanding == Pool(outstanding)

Waiting == Pool(buffers)

\* the requests that have a buffer, and whose transfer may have completed
Served == {t.req : t \in transfers \cup values}

\* the requests receive_value has made so far
Issued ==
  {r \in Request : /\ r[1] \in sent \ wire
                   /\ current # Idle /\ r[1] = current[1] => r[2] < current[2]}

\* the blocks of a value that have arrived
Arrived(v) == {i \in DOMAIN Blocks[v] : \E t \in values : t.req = <<v, i>>}

\* No request waits beside a buffer of its endpoint that it fits into: neither
\* post_buffer nor poll_buffer misses a match, whichever of the two came first,
\* and only endpoints in manual mode make requests wait.
NoMissedMatch ==
  \A ep \in Endpoints :
    /\ outstanding[ep] # <<>> => ep \in manual
    /\ \A r \in Range(outstanding[ep]), b \in Range(buffers[ep]) : Cnt(r) > Size[b]

\* A transfer writes into a buffer that is large enough and was posted for the
\* endpoint of the value, and no buffer is the destination of two blocks, nor
\* still to be had once it is one: poll_buffer and post_buffer hand each buffer
\* over once.
BuffersUsedOnce ==
  /\ \A t \in transfers \cup values : t.buf # Allocated =>
       /\ Size[t.buf] >= Cnt(t.req)
       /\ EpOf[t.buf] = EpOf[t.req[1]]
       /\ t.buf \notin Waiting
       /\ \A u \in transfers \cup values : u.buf = t.buf => u = t
  /\ offered = Waiting \cup ({t.buf : t \in transfers \cup values} \ {Allocated})

\* Every block of a received value is in one place: waiting for a buffer, on
\* its way, or arrived; none is asked for twice, and nReceived counts those
\* that arrived.
RequestsConserved ==
  /\ Issued = Outstanding \cup Served
  /\ Outstanding \cap Served = {}
  /\ transfers \cap values = {}
  /\ \A t, u \in transfers \cup values : t.req = u.req => t = u
  /\ \A v \in Values : nReceived[v] = Cardinality(Arrived(v))

\* The handler of the endpoint gets a value once, and exactly when all of its
\* blocks are there, in whichever order and through whichever of the two paths
\* they came.
DeliveredWhole ==
  \A v \in Values :
    /\ delivered[v] \in {0, 1}
    /\ delivered[v] = 1 <=> v \in sent \ wire /\ Arrived(v) = DOMAIN Blocks[v]

\* The quiescence counter is the number of requests that wait for a buffer
\* (QdCreate in receive_value, QdProcess in post_buffer) ...
QdBalanced == qd = Cardinality(Outstanding)

\* ... so that quiescence is not reported while a value is still to come: with
\* no message, no transfer and nothing counted, every value sent was delivered
\* (tests/zero_copy_demo relies on it to end the run).
QuiescenceSound ==
  (wire = {} /\ current = Idle /\ transfers = {} /\ qd = 0)
    => \A v \in sent : delivered[v] = 1

\* every buffer for the endpoint fits every block, and there are enough of them
Provided(ep) ==
  LET vs == {v \in Values : EpOf[v] = ep}
      bs == {b \in Buffers : EpOf[b] = ep}
  IN  /\ \A r \in Request, b \in bs : r[1] \in vs => Cnt(r) <= Size[b]
      /\ Cardinality({r \in Request : r[1] \in vs}) <= Cardinality(bs)

\* At an endpoint for which the application posts enough buffers, every value
\* that is sent is delivered, whichever of request and buffer came first and
\* whenever manual mode was entered.
EventuallyDelivered ==
  \A v \in Values : Provided(EpOf[v]) => (v \in sent ~> delivered[v] = 1)
=============================================================================
