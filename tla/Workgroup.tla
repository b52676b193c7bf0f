------------------------------- MODULE Workgroup -------------------------------
(***************************************************************************)
(* Tasks on a workgroup: an array of workers, each with its part of every  *)
(* task (tasking::workgroup), and the relaxation task of workgroup_demo.   *)
(*                                                                         *)
(* A task is a state machine: it suspends on one continuation, and a       *)
(* message for it names the continuation to resume.  A message that comes  *)
(* too early, even before the task is created, is kept in a buffer, and    *)
(* looked for whenever the task suspends.  The relaxation exchanges ghosts *)
(* with its neighbours in each iteration, then reduces the error over all  *)
(* workers; at the end the grid is reduced to worker 0.                    *)
(*                                                                         *)
(* The handlers of a worker are atomic, and functions from its state to    *)
(* the next one.  Messages arrive in any order.  Charm++ combines the k-th *)
(* contributions that the workers make, whatever task they make them for.  *)
(***************************************************************************)
EXTENDS Integers, Sequences, FiniteSets

CONSTANTS
  N,           \* the number of workers
  MaxTasks,    \* bound: the number of tasks launched
  MaxIters,    \* maxIters of the relaxation
  FirstIt,     \* FirstIt[w]: what `it' starts with at w: it is not initialized
  Concurrent,  \* whether a task is launched while another one is running
  None

Worker == 0..(N - 1)
Tid == 0..(MaxTasks - 1)
Cont == {"receive_ghost", "receive_max_error", "receive_grid"}

ASSUME WorkgroupAssumption ==
  /\ N \in Nat \ {0, 1} /\ MaxTasks \in 1..2 /\ MaxIters \in Nat
  /\ FirstIt \in [Worker -> Nat]
  /\ Concurrent \in BOOLEAN

\* A ghost or a contribution: of which task and worker, and its number.
Part == Tid \X Worker \X Nat

\* What a worker keeps of a task; None is what it keeps of any other.
Task == [cont : Cont \cup {None}, it : Nat, nRecvd : Nat, ghosts : SUBSET Part,
         active : BOOLEAN]

ASSUME NoneAssumption == None \notin Task

VARIABLES
  last_task,  \* the number of the next task
  node,       \* node[w]: the state of worker w
  net,        \* messages on their way
  contribs,   \* contribs[w]: the contributions of w, in order
  reduced,    \* how many of them have been combined
  grids       \* history: for each task, the workers whose grid worker 0 has

vars == <<last_task, node, net, contribs, reduced, grids>>

\* A worker: its tasks, the payloads that came too early, the active task;
\* `begun' counts the iterations its tasks have begun, `sends' and `adds' are the
\* messages and contributions its handler makes, and `grid' what it was given.
Worker0 ==
  [tasks |-> [t \in Tid |-> None],
   buffers |-> [t \in Tid |-> [c \in Cont |-> <<>>]],
   active |-> None, begun |-> 0,
   sends |-> {}, adds |-> <<>>, grid |-> {}]

Neighbors(w) == {v \in Worker : v = w - 1 \/ v = w + 1}

-----------------------------------------------------------------------------
\* The relaxation task, at worker w.

Suspend(n, t, c) == [n EXCEPT !.tasks[t].cont = c]

Terminate(n, t) == [n EXCEPT !.tasks[t].active = FALSE]

\* reduce(): the contribution carries the id of the active task.
Reduce(n, w, c) ==
  [n EXCEPT !.adds = Append(@, [tid |-> n.active, cont |-> c])]

\* send(), to the neighbours.
SendGhosts(n, w, t) ==
  [n EXCEPT !.sends = @ \cup {[kind |-> "resume", to |-> v, tid |-> n.active,
                               cont |-> "receive_ghost",
                               parts |-> {<<t, w, n.tasks[t].it>>}] : v \in Neighbors(w)}]

OnConverge(n, w, t) ==
  LET done == Reduce(n, w, "receive_grid")
  IN  IF w = 0 THEN Suspend(done, t, "receive_grid") ELSE Terminate(done, t)

\* The error is twice the tolerance, so the task does not converge before the
\* last iteration.
ConvergeLoop(n, w, t) ==
  IF n.tasks[t].it < MaxIters
  THEN Suspend(SendGhosts([n EXCEPT !.tasks[t].it = @ + 1, !.tasks[t].ghosts = {},
                                    !.tasks[t].nRecvd = 0, !.begun = @ + 1], w, t),
               t, "receive_ghost")
  ELSE OnConverge(n, w, t)

CheckAndCompute(n, w, t) ==
  Suspend(Reduce(n, w, "receive_max_error"), t, "receive_max_error")

ReceiveGhost_Eager(n, w, t, p) ==
  CheckAndCompute([n EXCEPT !.tasks[t].nRecvd = @ + 1,
                            !.tasks[t].ghosts = @ \cup p.parts], w, t)

ReceiveGhost(n, w, t, p) ==
  LET m == [n EXCEPT !.tasks[t].nRecvd = @ + 1, !.tasks[t].ghosts = @ \cup p.parts]
  IN  IF m.tasks[t].nRecvd >= Cardinality(Neighbors(w))
      THEN CheckAndCompute(m, w, t)
      ELSE Suspend(m, t, "receive_ghost")

ReceiveGrid(n, w, t, p) ==
  Terminate([n EXCEPT !.grid = @ \cup {<<q[1], q[2]>> : q \in p.parts}], t)

Continuation(n, w, t, p) ==
  CASE n.tasks[t].cont = "receive_ghost"     -> ReceiveGhost(n, w, t, p)
    [] n.tasks[t].cont = "receive_max_error" -> ConvergeLoop(n, w, t)
    [] n.tasks[t].cont = "receive_grid"      -> ReceiveGrid(n, w, t, p)

-----------------------------------------------------------------------------
\* The workgroup.

\* resume() rejects messages for tasks it does not have, and those out of
\* order.
Accepts(n, t, p) == n.tasks[t] # None /\ n.tasks[t].cont = p.cont

\* An inactive task is discarded.
Discard(n, t) == IF n.tasks[t].active THEN n ELSE [n EXCEPT !.tasks[t] = None]

Invoke(n, w, t, p) == Discard(Continuation([n EXCEPT !.active = t], w, t, p), t)

\* try_continue_(), once: the buffer of the continuation the task waits for.
ContinueOnce(n, w, t) ==
  IF n.tasks[t] = None \/ n.buffers[t][n.tasks[t].cont] = <<>>
  THEN n
  ELSE LET c == n.tasks[t].cont
           p == Head(n.buffers[t][c])
       IN  [Invoke(n, w, t, p) EXCEPT !.buffers[t][c] = Tail(@)]

TryContinue_Once(n, w, t) == ContinueOnce(n, w, t)

\* ... and again as long as there is something; `most' is enough.
TryContinue(n, w, t) ==
  LET most == Len(n.buffers[t]["receive_ghost"]) + Len(n.buffers[t]["receive_max_error"])
              + Len(n.buffers[t]["receive_grid"])
      after[k \in 0..most] == IF k = 0 THEN n ELSE ContinueOnce(after[k - 1], w, t)
  IN  after[most]

Buffer(n, t, p) == [n EXCEPT !.buffers[t][p.cont] = Append(@, p)]

\* resume(), of a message or of the result of a reduction.
Resumed(n, w, t, p) ==
  IF Accepts(n, t, p) THEN TryContinue(Invoke(n, w, t, p), w, t) ELSE Buffer(n, t, p)

Created_Garbage(n, w, t) ==
  LET new == [n EXCEPT !.active = t,
                       !.tasks[t] = [cont |-> None, it |-> w, nRecvd |-> 0,
                                     ghosts |-> {}, active |-> TRUE]]
  IN  TryContinue(Discard(ConvergeLoop(new, w, t), t), w, t)

\* create(): the constructor runs the loop up to its first suspension.
Created(n, w, t) ==
  LET new == [n EXCEPT !.active = t,
                       !.tasks[t] = [cont |-> None, it |-> FirstIt[w], nRecvd |-> 0,
                                     ghosts |-> {}, active |-> TRUE]]
  IN  TryContinue(Discard(ConvergeLoop(new, w, t), t), w, t)

-----------------------------------------------------------------------------
\* Actions.

\* The state of w after a handler, with what it sent and contributed; `rest'
\* is what else is on its way.
Become(w, n, rest) ==
  /\ node' = [node EXCEPT ![w] = [n EXCEPT !.sends = {}, !.adds = <<>>, !.grid = {}]]
  /\ net' = rest \cup n.sends
  /\ contribs' = [contribs EXCEPT ![w] = @ \o n.adds]
  /\ grids' = grids \cup n.grid

Finished(t) == \A w \in Worker : <<t, w>> \in grids

\* launch(): create() is broadcast.
Launch ==
  /\ last_task < MaxTasks
  /\ Concurrent \/ last_task = 0 \/ Finished(last_task - 1)
  /\ last_task' = last_task + 1
  /\ net' = net \cup {[kind |-> "create", to |-> w, tid |-> last_task] : w \in Worker}
  /\ UNCHANGED <<node, contribs, reduced, grids>>

Create(m) ==
  /\ m \in net
  /\ m.kind = "create"
  /\ \E n \in {Created(node[m.to], m.to, m.tid)} : Become(m.to, n, net \ {m})
  /\ UNCHANGED <<last_task, reduced>>

Resume(m) ==
  /\ m \in net
  /\ m.kind = "resume"
  /\ \E n \in {Resumed(node[m.to], m.to, m.tid, m)} : Become(m.to, n, net \ {m})
  /\ UNCHANGED <<last_task, reduced>>

\* The contributions of all workers are combined.  The ids of their tasks are
\* combined by a bitwise and; these differ in one bit at most.
Combine ==
  LET k == reduced + 1
      parts == {<<contribs[w][k].tid, w, k>> : w \in Worker}
  IN
  /\ \A w \in Worker : Len(contribs[w]) >= k
  /\ reduced' = k
  /\ \E v \in Worker :
       net' = net \cup
         {[kind |-> "resume", to |-> w, cont |-> contribs[v][k].cont, parts |-> parts,
           tid |-> CHOOSE t \in Tid : /\ \E p \in parts : p[1] = t
                                      /\ \A p \in parts : t <= p[1]] :
           w \in IF contribs[v][k].cont = "receive_grid" THEN {0} ELSE Worker}
  /\ UNCHANGED <<last_task, node, contribs, grids>>

\* A worker moves to another PE: pup() takes its tasks and buffers along.
Migrate(w) ==
  /\ node' = [node EXCEPT ![w].active = None]
  /\ UNCHANGED <<last_task, net, contribs, reduced, grids>>

Init ==
  /\ last_task = 0
  /\ node = [w \in Worker |-> Worker0]
  /\ net = {}
  /\ contribs = [w \in Worker |-> <<>>]
  /\ reduced = 0
  /\ grids = {}

Next ==
  \/ Launch
  \/ \E m \in net : Create(m)
  \/ \E m \in net : Resume(m)
  \/ Combine
  \/ \E w \in Worker : Migrate(w)

Spec == Init /\ [][Next]_vars

\* Charm++ delivers messages and completes reductions; tasks are launched.
FairSpec ==
  /\ Spec
  /\ WF_vars(Launch)
  /\ WF_vars(\E m \in net : Create(m) \/ Resume(m))
  /\ WF_vars(Combine)

-----------------------------------------------------------------------------
\* Properties.

Live(w) == {t \in Tid : node[w].tasks[t] # None}

\* The k-th contributions of all workers are for the same continuation of the
\* same task: workgroup.cc:107 takes the task of the result from the tids, and
\* Charm++ pairs contributions by their order alone.
ContributionsAgree ==
  \A v, w \in Worker : \A k \in (DOMAIN contribs[v]) \cap DOMAIN contribs[w] :
    contribs[v][k] = contribs[w][k]

\* The ghosts a task has received are those that its neighbours sent for the
\* same task in the same iteration, each once, however early they came.
GhostsOfThisIteration ==
  \A w \in Worker : \A t \in Live(w) :
    LET task == node[w].tasks[t] IN
    /\ task.ghosts \subseteq {<<t, v, task.it>> : v \in Neighbors(w)}
    /\ task.nRecvd = Cardinality(task.ghosts)

\* "check whether there are messages for this continuation": no task waits for
\* a message that is in its buffer.
NothingOverlooked ==
  \A w \in Worker : \A t \in Live(w) : node[w].buffers[t][node[w].tasks[t].cont] = <<>>

\* Tasks that run one after the other keep the workers in lockstep, and all
\* of them do every iteration.
Iterations == MaxTasks * (MaxIters - FirstIt[0])
Abstract == INSTANCE Lockstep WITH begun <- [w \in Worker |-> node[w].begun]
InLockstep == Abstract!Spec

=============================================================================
