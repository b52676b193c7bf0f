-------------------------- MODULE WorkgroupProofs --------------------------
(***************************************************************************)
(* Proofs about Workgroup, for any number of workers and of iterations.    *)
(*                                                                         *)
(* First the handlers, field by field, and the loop of try_continue_():    *)
(* types, and that no task waits for a message in its own buffer.  Then    *)
(* the lockstep of the workers, for tasks that run one after the other and *)
(* start with the same value in `it': LockstepInv says which of the        *)
(* workers have begun the current round of the task, what each has heard,  *)
(* and which messages are on their way.                                    *)
(***************************************************************************)
EXTENDS Workgroup, FiniteSetTheorems, WellFoundedInduction, TLAPS

-----------------------------------------------------------------------------
\* What TypeOK is made of.

ResumeMsg ==
  [kind : {"resume"}, to : Worker, tid : Tid, cont : Cont, parts : SUBSET Part]
CreateMsg == [kind : {"create"}, to : Worker, tid : Tid]
Contribution == [tid : Tid, cont : Cont]

Tasks == [Tid -> Task \cup {None}]
Buffers == [Tid -> [Cont -> Seq(ResumeMsg)]]

NodeT ==
  [tasks : Tasks, buffers : Buffers, active : Tid \cup {None}, begun : Nat,
   sends : SUBSET ResumeMsg, adds : Seq(Contribution), grid : SUBSET (Tid \X Worker)]

\* A task that is kept waits for something.
Waiting(n) ==
  \A t \in Tid : n.tasks[t] # None => n.tasks[t].cont \in Cont /\ n.tasks[t].active

Nodes == {n \in NodeT : Waiting(n)}

TypeOK ==
  /\ last_task \in 0..MaxTasks
  /\ node \in [Worker -> Nodes]
  /\ net \in SUBSET (ResumeMsg \cup CreateMsg)
  /\ contribs \in [Worker -> Seq(Contribution)]
  /\ reduced \in Nat
  /\ grids \in SUBSET (Tid \X Worker)

\* A node while the task t runs.
RunningT(t) == {n \in NodeT : n.active = t /\ n.tasks[t] \in Task}

\* A task waits for nothing that is in its buffer.
Quiet(n, t) == n.tasks[t] = None \/ n.buffers[t][n.tasks[t].cont] = <<>>

-----------------------------------------------------------------------------
\* The operators, field by field.

\* n with the task t replaced, and these messages, contributions and grid.
Ran(n, t, task, begun, sends, adds, grid) ==
  [tasks |-> [n.tasks EXCEPT ![t] = task], buffers |-> n.buffers, active |-> n.active,
   begun |-> begun, sends |-> sends, adds |-> adds, grid |-> grid]

\* Such a node has the type of a node.
LEMMA RanType ==
  ASSUME NEW t \in Tid, NEW n \in NodeT, NEW task \in Task \cup {None}, NEW begun \in Nat,
         NEW sends \in SUBSET ResumeMsg, NEW adds \in Seq(Contribution),
         NEW grid \in SUBSET (Tid \X Worker)
  PROVE  Ran(n, t, task, begun, sends, adds, grid) \in NodeT
<1>1. n.tasks \in Tasks /\ n.buffers \in Buffers /\ n.active \in Tid \cup {None}
  BY DEF NodeT
<1>2. [n.tasks EXCEPT ![t] = task] \in Tasks
  BY <1>1 DEF Tasks
<1>. QED
  BY <1>1, <1>2 DEF Ran, NodeT, Tasks

\* What became of the task, and of the others.
LEMMA RanTasks ==
  ASSUME NEW t \in Tid, NEW n \in NodeT, NEW task, NEW begun, NEW sends, NEW adds, NEW grid,
         NEW m, m = Ran(n, t, task, begun, sends, adds, grid)
  PROVE  /\ m.tasks[t] = task
         /\ \A s \in Tid : s # t => m.tasks[s] = n.tasks[s]
         /\ m.buffers = n.buffers /\ m.active = n.active /\ m.begun = begun
         /\ m.sends = sends /\ m.adds = adds /\ m.grid = grid
BY DEF Ran, NodeT, Tasks

\* A second replacement hides the first.
LEMMA RanAgain ==
  ASSUME NEW t, NEW n, NEW t1, NEW t2, NEW b1, NEW b2, NEW s1, NEW s2,
         NEW a1, NEW a2, NEW g1, NEW g2
  PROVE  Ran(Ran(n, t, t1, b1, s1, a1, g1), t, t2, b2, s2, a2, g2)
           = Ran(n, t, t2, b2, s2, a2, g2)
BY DEF Ran

\* Assignments to one field.
LEMMA TaskReplaced ==
  ASSUME NEW t \in Tid, NEW n \in NodeT, NEW task
  PROVE  [n EXCEPT !.tasks = [n.tasks EXCEPT ![t] = task]]
           = Ran(n, t, task, n.begun, n.sends, n.adds, n.grid)
BY DEF Ran, NodeT

LEMMA AddsReplaced ==
  ASSUME NEW t \in Tid, NEW n \in NodeT, NEW adds
  PROVE  [n EXCEPT !.adds = adds] = Ran(n, t, n.tasks[t], n.begun, n.sends, adds, n.grid)
BY DEF Ran, NodeT, Tasks

LEMMA SendsReplaced ==
  ASSUME NEW t \in Tid, NEW n \in NodeT, NEW sends
  PROVE  [n EXCEPT !.sends = sends] = Ran(n, t, n.tasks[t], n.begun, sends, n.adds, n.grid)
BY DEF Ran, NodeT, Tasks

LEMMA GridReplaced ==
  ASSUME NEW t \in Tid, NEW n \in NodeT, NEW grid
  PROVE  [n EXCEPT !.grid = grid] = Ran(n, t, n.tasks[t], n.begun, n.sends, n.adds, grid)
BY DEF Ran, NodeT, Tasks

\* What the task does, in the same form.
LEMMA Suspends ==
  ASSUME NEW t \in Tid, NEW n \in RunningT(t), NEW c
  PROVE  Suspend(n, t, c)
           = Ran(n, t, [n.tasks[t] EXCEPT !.cont = c], n.begun, n.sends, n.adds, n.grid)
<1>1. Suspend(n, t, c)
        = [n EXCEPT !.tasks = [n.tasks EXCEPT ![t] = [n.tasks[t] EXCEPT !.cont = c]]]
  BY DEF Suspend
<1>. QED
  BY <1>1, TaskReplaced DEF RunningT

LEMMA Terminates ==
  ASSUME NEW t \in Tid, NEW n \in RunningT(t)
  PROVE  Terminate(n, t)
           = Ran(n, t, [n.tasks[t] EXCEPT !.active = FALSE],
                 n.begun, n.sends, n.adds, n.grid)
<1>1. Terminate(n, t)
        = [n EXCEPT !.tasks = [n.tasks EXCEPT ![t] = [n.tasks[t] EXCEPT !.active = FALSE]]]
  BY DEF Terminate
<1>. QED
  BY <1>1, TaskReplaced DEF RunningT

LEMMA Reduces ==
  ASSUME NEW t \in Tid, NEW n \in RunningT(t), NEW w, NEW c
  PROVE  Reduce(n, w, c)
           = Ran(n, t, n.tasks[t], n.begun, n.sends,
                 Append(n.adds, [tid |-> t, cont |-> c]), n.grid)
<1>1. Reduce(n, w, c) = [n EXCEPT !.adds = Append(n.adds, [tid |-> t, cont |-> c])]
  BY DEF Reduce, RunningT
<1>. QED
  BY <1>1, AddsReplaced DEF RunningT

\* What w sends in the iteration i of t.
GhostTo(w, v, t, i) ==
  [kind |-> "resume", to |-> v, tid |-> t, cont |-> "receive_ghost", parts |-> {<<t, w, i>>}]

GhostsOf(w, t, i) == {GhostTo(w, v, t, i) : v \in Neighbors(w)}

\* The ghosts of w are messages.
LEMMA GhostType ==
  ASSUME NEW t \in Tid, NEW w \in Worker, NEW i \in Nat
  PROVE  GhostsOf(w, t, i) \in SUBSET ResumeMsg
BY DEF GhostsOf, GhostTo, ResumeMsg, Part, Neighbors, Cont

\* The task of the next iteration.
Begins(task) == [task EXCEPT !.it = @ + 1, !.ghosts = {}, !.nRecvd = 0]

\* The task, as converge_loop() begins an iteration.
LEMMA BeginsType ==
  ASSUME NEW task \in Task
  PROVE  /\ Begins(task) \in Task
         /\ Begins(task) = [cont |-> task.cont, it |-> task.it + 1, nRecvd |-> 0,
                            ghosts |-> {}, active |-> task.active]
<1>. DEFINE k1 == [task EXCEPT !.it = task.it + 1]
            k2 == [k1 EXCEPT !.ghosts = {}]
<1>1. Begins(task) = [k2 EXCEPT !.nRecvd = 0]
  BY DEF Begins
<1>2. k1 = [cont |-> task.cont, it |-> task.it + 1, nRecvd |-> task.nRecvd,
            ghosts |-> task.ghosts, active |-> task.active]
  BY DEF Task
<1>. HIDE DEF k1
<1>3. k2 = [cont |-> task.cont, it |-> task.it + 1, nRecvd |-> task.nRecvd,
            ghosts |-> {}, active |-> task.active]
  BY <1>2
<1>. HIDE DEF k2
<1>4. Begins(task) = [cont |-> task.cont, it |-> task.it + 1, nRecvd |-> 0,
                      ghosts |-> {}, active |-> task.active]
  BY <1>1, <1>3
<1>. QED
  BY <1>4 DEF Task

LEMMA TaskBegins ==
  ASSUME NEW t \in Tid, NEW n \in RunningT(t)
  PROVE  [n EXCEPT !.tasks[t].it = @ + 1, !.tasks[t].ghosts = {},
                   !.tasks[t].nRecvd = 0, !.begun = @ + 1]
           = Ran(n, t, Begins(n.tasks[t]), n.begun + 1, n.sends, n.adds, n.grid)
<1>. DEFINE task == n.tasks[t]
            k1 == [task EXCEPT !.it = task.it + 1]
            k2 == [k1 EXCEPT !.ghosts = {}]
            k3 == [k2 EXCEPT !.nRecvd = 0]
            n1 == [n EXCEPT !.tasks[t].it = n.tasks[t].it + 1]
            n2 == [n1 EXCEPT !.tasks[t].ghosts = {}]
            n3 == [n2 EXCEPT !.tasks[t].nRecvd = 0]
<1>0. [n EXCEPT !.tasks[t].it = @ + 1, !.tasks[t].ghosts = {},
                !.tasks[t].nRecvd = 0, !.begun = @ + 1] = [n3 EXCEPT !.begun = n.begun + 1]
  OBVIOUS
<1>1. task \in Task /\ n \in NodeT
  BY DEF RunningT
<1>k. Begins(task) = k3
  BY DEF Begins
<1>2. k1 \in Task /\ k2 \in Task /\ k3 \in Task
  <2>1. k1 \in Task
    BY <1>1 DEF Task
  <2>2. k2 \in Task
    <3>. HIDE DEF k1
    <3>. QED
      BY <2>1 DEF Task
  <2>3. k3 \in Task
    <3>. HIDE DEF k2
    <3>. QED
      BY <2>2 DEF Task
  <2>. QED
    BY <2>1, <2>2, <2>3
<1>3. n1 = [n EXCEPT !.tasks = [n.tasks EXCEPT ![t] = k1]]
  OBVIOUS
<1>4. n2 = [n1 EXCEPT !.tasks = [n1.tasks EXCEPT ![t] = [n1.tasks[t] EXCEPT !.ghosts = {}]]]
  OBVIOUS
<1>5. n3 = [n2 EXCEPT !.tasks = [n2.tasks EXCEPT ![t] = [n2.tasks[t] EXCEPT !.nRecvd = 0]]]
  OBVIOUS
<1>6. /\ n.begun \in Nat /\ n.sends \in SUBSET ResumeMsg /\ n.adds \in Seq(Contribution)
      /\ n.grid \in SUBSET (Tid \X Worker)
  BY <1>1 DEF NodeT
<1>. HIDE DEF k1, k2, k3, n1, n2, n3
<1>t. k1 \in Task \cup {None} /\ k2 \in Task \cup {None} /\ k3 \in Task \cup {None}
  BY <1>2
<1>7. n1 \in NodeT /\ n1.tasks[t] = k1
      /\ n1 = Ran(n, t, k1, n.begun, n.sends, n.adds, n.grid)
  <2>1. n1 = Ran(n, t, k1, n.begun, n.sends, n.adds, n.grid)
    BY <1>1, <1>3, TaskReplaced
  <2>2. n1 \in NodeT
    BY <1>1, <1>t, <1>6, <2>1, RanType
  <2>3. n1.tasks[t] = k1
    BY <1>1, <2>1 DEF Ran, NodeT, Tasks
  <2>. QED
    BY <2>1, <2>2, <2>3
<1>8. n2 \in NodeT /\ n2.tasks[t] = k2
      /\ n2 = Ran(n, t, k2, n.begun, n.sends, n.adds, n.grid)
  <2>1. n2 = Ran(n1, t, k2, n1.begun, n1.sends, n1.adds, n1.grid)
    BY <1>4, <1>7, TaskReplaced DEF k2
  <2>2. n2 = Ran(n, t, k2, n.begun, n.sends, n.adds, n.grid)
    BY <1>7, <2>1 DEF Ran
  <2>3. n2 \in NodeT
    BY <1>1, <1>t, <1>6, <2>2, RanType
  <2>4. n2.tasks[t] = k2
    BY <1>1, <2>2 DEF Ran, NodeT, Tasks
  <2>. QED
    BY <2>2, <2>3, <2>4
<1>9. n3 \in NodeT /\ n3 = Ran(n, t, k3, n.begun, n.sends, n.adds, n.grid)
  <2>1. n3 = Ran(n2, t, k3, n2.begun, n2.sends, n2.adds, n2.grid)
    BY <1>5, <1>8, TaskReplaced DEF k3
  <2>2. n3 = Ran(n, t, k3, n.begun, n.sends, n.adds, n.grid)
    BY <1>8, <2>1 DEF Ran
  <2>3. n3 \in NodeT
    BY <1>1, <1>t, <1>6, <2>2, RanType
  <2>4. n3.tasks[t] = k3
    BY <1>1, <2>2 DEF Ran, NodeT, Tasks
  <2>. QED
    BY <2>2, <2>3, <2>4
<1>. QED
  BY <1>0, <1>k, <1>9 DEF Ran, NodeT

\* A task, field by field.
TaskOf(c, i, r, g, a) == [cont |-> c, it |-> i, nRecvd |-> r, ghosts |-> g, active |-> a]

\* What is known of a node while a task runs.
LEMMA RunningFields ==
  ASSUME NEW t \in Tid, NEW n \in RunningT(t)
  PROVE  /\ n \in NodeT /\ n.active = t /\ n.tasks[t] \in Task
         /\ n.begun \in Nat /\ n.sends \in SUBSET ResumeMsg /\ n.adds \in Seq(Contribution)
         /\ n.grid \in SUBSET (Tid \X Worker)
BY DEF RunningT, NodeT

\* A task is what its fields are.
LEMMA TaskFields ==
  ASSUME NEW k \in Task
  PROVE  /\ k = TaskOf(k.cont, k.it, k.nRecvd, k.ghosts, k.active)
         /\ k.cont \in Cont \cup {None} /\ k.it \in Nat /\ k.nRecvd \in Nat
         /\ k.ghosts \in SUBSET Part /\ k.active \in BOOLEAN
BY DEF Task, TaskOf

LEMMA TaskOfType ==
  ASSUME NEW c \in Cont \cup {None}, NEW i \in Nat, NEW r \in Nat, NEW g \in SUBSET Part,
         NEW a \in BOOLEAN
  PROVE  TaskOf(c, i, r, g, a) \in Task
BY DEF Task, TaskOf

\* The task still runs after an assignment.
LEMMA RanIsRunning ==
  ASSUME NEW t \in Tid, NEW n \in RunningT(t), NEW task \in Task, NEW begun \in Nat,
         NEW sends \in SUBSET ResumeMsg, NEW adds \in Seq(Contribution),
         NEW grid \in SUBSET (Tid \X Worker), NEW m,
         m = Ran(n, t, task, begun, sends, adds, grid)
  PROVE  /\ m \in RunningT(t) /\ m.tasks[t] = task /\ m.begun = begun
         /\ m.sends = sends /\ m.adds = adds /\ m.grid = grid
<1>1. m \in NodeT
  BY RunningFields, RanType
<1>2. m.tasks[t] = task /\ m.active = n.active
  BY RunningFields DEF Ran, NodeT, Tasks
<1>3. m.begun = begun /\ m.sends = sends /\ m.adds = adds /\ m.grid = grid
  BY DEF Ran
<1>. QED
  BY <1>1, <1>2, <1>3, RunningFields DEF RunningT

LEMMA AppendType ==
  ASSUME NEW t \in Tid, NEW c \in Cont, NEW adds \in Seq(Contribution)
  PROVE  Append(adds, [tid |-> t, cont |-> c]) \in Seq(Contribution)
<1>1. [tid |-> t, cont |-> c] \in Contribution
  BY DEF Contribution
<1>. QED
  BY <1>1

\* converge_loop(), when there is an iteration left.
LEMMA BeginsIteration ==
  ASSUME NEW t \in Tid, NEW n \in RunningT(t), NEW w \in Worker, n.tasks[t].it < MaxIters
  PROVE  ConvergeLoop(n, w, t)
           = Ran(n, t, TaskOf("receive_ghost", n.tasks[t].it + 1, 0, {}, n.tasks[t].active),
                 n.begun + 1, n.sends \cup GhostsOf(w, t, n.tasks[t].it + 1), n.adds, n.grid)
<1>. DEFINE task == Begins(n.tasks[t])
            m == [n EXCEPT !.tasks[t].it = @ + 1, !.tasks[t].ghosts = {},
                           !.tasks[t].nRecvd = 0, !.begun = @ + 1]
            sent == n.sends \cup GhostsOf(w, t, n.tasks[t].it + 1)
            k == SendGhosts(m, w, t)
<1>1. task \in Task /\ task.it = n.tasks[t].it + 1 /\ n.begun + 1 \in Nat
      /\ n.tasks[t].it + 1 \in Nat
  <2>1. n.tasks[t] \in Task /\ n.begun \in Nat
    BY RunningFields
  <2>2. n.tasks[t].it \in Nat
    BY <2>1, TaskFields
  <2>3. task \in Task /\ task.it = n.tasks[t].it + 1
    BY <2>1, BeginsType
  <2>. QED
    BY <2>1, <2>2, <2>3
<1>2. m = Ran(n, t, task, n.begun + 1, n.sends, n.adds, n.grid)
  BY TaskBegins
<1>c. ConvergeLoop(n, w, t) = Suspend(k, t, "receive_ghost")
  BY DEF ConvergeLoop
<1>. HIDE DEF m, task
<1>3. m \in RunningT(t) /\ m.tasks[t] = task
      /\ m.begun = n.begun + 1 /\ m.sends = n.sends /\ m.adds = n.adds /\ m.grid = n.grid
  BY <1>1, <1>2, RunningFields, RanIsRunning
<1>4. k = [m EXCEPT !.sends = sent]
  BY <1>1, <1>3 DEF SendGhosts, GhostsOf, GhostTo, RunningT
<1>5. k = Ran(m, t, task, n.begun + 1, sent, n.adds, n.grid)
  <2>1. m \in NodeT
    BY <1>3, RunningFields
  <2>2. k = Ran(m, t, m.tasks[t], m.begun, sent, m.adds, m.grid)
    BY <1>4, <2>1, SendsReplaced
  <2>. QED
    BY <1>3, <2>2
<1>6. sent \in SUBSET ResumeMsg
  BY <1>1, GhostType, RunningFields
<1>. HIDE DEF sent, k
<1>7. k \in RunningT(t) /\ k.tasks[t] = task
      /\ k.begun = n.begun + 1 /\ k.sends = sent /\ k.adds = n.adds /\ k.grid = n.grid
  BY <1>1, <1>3, <1>5, <1>6, RunningFields, RanIsRunning
<1>8. Suspend(k, t, "receive_ghost")
        = Ran(k, t, [task EXCEPT !.cont = "receive_ghost"], n.begun + 1, sent, n.adds, n.grid)
  BY <1>7, Suspends
<1>9. [task EXCEPT !.cont = "receive_ghost"]
        = TaskOf("receive_ghost", n.tasks[t].it + 1, 0, {}, n.tasks[t].active)
  <2>1. task = TaskOf(n.tasks[t].cont, n.tasks[t].it + 1, 0, {}, n.tasks[t].active)
    BY RunningFields, BeginsType DEF task, TaskOf
  <2>. QED
    BY <2>1 DEF TaskOf
<1>. QED
  BY <1>2, <1>5, <1>c, <1>8, <1>9, RanAgain DEF sent

\* ... and otherwise.
LEMMA EndsIterations ==
  ASSUME NEW t \in Tid, NEW n \in RunningT(t), NEW w \in Worker, ~ (n.tasks[t].it < MaxIters)
  PROVE  ConvergeLoop(n, w, t)
           = Ran(n, t, IF w = 0 THEN [n.tasks[t] EXCEPT !.cont = "receive_grid"]
                                ELSE [n.tasks[t] EXCEPT !.active = FALSE],
                 n.begun, n.sends, Append(n.adds, [tid |-> t, cont |-> "receive_grid"]), n.grid)
<1>. DEFINE k == Reduce(n, w, "receive_grid")
            adds == Append(n.adds, [tid |-> t, cont |-> "receive_grid"])
<1>1. k = Ran(n, t, n.tasks[t], n.begun, n.sends, adds, n.grid)
  BY Reduces
<1>2. adds \in Seq(Contribution)
  BY RunningFields, AppendType DEF Cont
<1>3. ConvergeLoop(n, w, t) = IF w = 0 THEN Suspend(k, t, "receive_grid") ELSE Terminate(k, t)
  BY DEF ConvergeLoop, OnConverge
<1>. HIDE DEF k, adds
<1>4. k \in RunningT(t) /\ k.tasks[t] = n.tasks[t]
      /\ k.begun = n.begun /\ k.sends = n.sends /\ k.adds = adds /\ k.grid = n.grid
  BY <1>1, <1>2, RunningFields, RanIsRunning
<1>5. CASE w = 0
  <2>1. Suspend(k, t, "receive_grid")
          = Ran(k, t, [n.tasks[t] EXCEPT !.cont = "receive_grid"], n.begun, n.sends, adds, n.grid)
    BY <1>4, Suspends
  <2>. QED
    BY <1>1, <1>3, <1>5, <2>1, RanAgain DEF adds
<1>6. CASE w # 0
  <2>1. Terminate(k, t)
          = Ran(k, t, [n.tasks[t] EXCEPT !.active = FALSE], n.begun, n.sends, adds, n.grid)
    BY <1>4, Terminates
  <2>. QED
    BY <1>1, <1>3, <1>6, <2>1, RanAgain DEF adds
<1>. QED
  BY <1>5, <1>6

\* receive_ghost(), with the last ghost or with another one.
LEMMA GhostReceived ==
  ASSUME NEW t \in Tid, NEW n \in RunningT(t), NEW w \in Worker, NEW p \in ResumeMsg
  PROVE  LET r == n.tasks[t].nRecvd + 1
             g == n.tasks[t].ghosts \cup p.parts
         IN  ReceiveGhost(n, w, t, p)
               = IF r >= Cardinality(Neighbors(w))
                 THEN Ran(n, t, TaskOf("receive_max_error", n.tasks[t].it, r, g, n.tasks[t].active),
                          n.begun, n.sends,
                          Append(n.adds, [tid |-> t, cont |-> "receive_max_error"]), n.grid)
                 ELSE Ran(n, t, TaskOf("receive_ghost", n.tasks[t].it, r, g, n.tasks[t].active),
                          n.begun, n.sends, n.adds, n.grid)
<1>. DEFINE task == n.tasks[t]
            r == task.nRecvd + 1
            g == task.ghosts \cup p.parts
            k1 == [task EXCEPT !.nRecvd = task.nRecvd + 1]
            k2 == [k1 EXCEPT !.ghosts = k1.ghosts \cup p.parts]
            m0 == [n EXCEPT !.tasks[t].nRecvd = @ + 1, !.tasks[t].ghosts = @ \cup p.parts]
            n1 == [n EXCEPT !.tasks[t].nRecvd = n.tasks[t].nRecvd + 1]
            m == [n1 EXCEPT !.tasks[t].ghosts = n1.tasks[t].ghosts \cup p.parts]
            adds == Append(n.adds, [tid |-> t, cont |-> "receive_max_error"])
<1>1. n \in NodeT /\ task \in Task
  BY RunningFields
<1>2. k1 \in Task /\ k1 = TaskOf(task.cont, task.it, r, task.ghosts, task.active)
  BY <1>1 DEF Task, TaskOf
<1>p. p.parts \in SUBSET Part
  BY DEF ResumeMsg
<1>3. k2 \in Task /\ k2 = TaskOf(task.cont, task.it, r, g, task.active)
  <2>. HIDE DEF k1
  <2>. HIDE DEF r
  <2>1. k1.ghosts = task.ghosts
    BY <1>2 DEF TaskOf
  <2>2. g \in SUBSET Part
    BY <1>1, <1>p, TaskFields
  <2>3. k2 = [k1 EXCEPT !.ghosts = g]
    BY <2>1
  <2>. HIDE DEF g
  <2>4. [k1 EXCEPT !.ghosts = g] = TaskOf(task.cont, task.it, r, g, task.active)
    BY <1>2 DEF TaskOf
  <2>5. [k1 EXCEPT !.ghosts = g] \in Task
    BY <1>2, <2>2 DEF Task
  <2>. QED
    BY <2>3, <2>4, <2>5
<1>4. n1 = [n EXCEPT !.tasks = [n.tasks EXCEPT ![t] = k1]]
  OBVIOUS
<1>5. m = [n1 EXCEPT !.tasks = [n1.tasks EXCEPT ![t] =
            [n1.tasks[t] EXCEPT !.ghosts = n1.tasks[t].ghosts \cup p.parts]]]
  OBVIOUS
<1>r. ReceiveGhost(n, w, t, p)
        = IF m0.tasks[t].nRecvd >= Cardinality(Neighbors(w)) THEN CheckAndCompute(m0, w, t)
                                                            ELSE Suspend(m0, t, "receive_ghost")
  BY DEF ReceiveGhost
<1>6. m0 = m
  <2>1. m0 = [n1 EXCEPT !.tasks[t].ghosts = n.tasks[t].ghosts \cup p.parts]
    OBVIOUS
  <2>2. n1.tasks[t].ghosts = n.tasks[t].ghosts
    BY <1>1 DEF NodeT, Tasks, Task
  <2>. QED
    BY <2>1, <2>2
<1>. HIDE DEF task, n1, k1, m, k2, m0
<1>7. n1 = Ran(n, t, k1, n.begun, n.sends, n.adds, n.grid)
  BY <1>1, <1>4, TaskReplaced DEF task
<1>8. n1 \in RunningT(t) /\ n1.tasks[t] = k1 /\ n1.begun = n.begun /\ n1.sends = n.sends
      /\ n1.adds = n.adds /\ n1.grid = n.grid
  BY <1>2, <1>7, RunningFields, RanIsRunning
<1>9. m = Ran(n1, t, k2, n.begun, n.sends, n.adds, n.grid)
  <2>1. n1 \in NodeT
    BY <1>8, RunningFields
  <2>2. m = [n1 EXCEPT !.tasks = [n1.tasks EXCEPT ![t] = k2]]
    BY <1>5, <1>8 DEF k2
  <2>3. m = Ran(n1, t, k2, n1.begun, n1.sends, n1.adds, n1.grid)
    BY <2>1, <2>2, TaskReplaced
  <2>. QED
    BY <1>8, <2>3
<1>10. m = Ran(n, t, k2, n.begun, n.sends, n.adds, n.grid)
  BY <1>7, <1>9, RanAgain
<1>11. m \in RunningT(t) /\ m.tasks[t] = k2 /\ m.begun = n.begun /\ m.sends = n.sends
       /\ m.adds = n.adds /\ m.grid = n.grid
  BY <1>3, <1>10, RunningFields, RanIsRunning
<1>12. k2.nRecvd = r
  BY <1>3 DEF TaskOf
<1>13. ReceiveGhost(n, w, t, p)
         = IF r >= Cardinality(Neighbors(w)) THEN CheckAndCompute(m, w, t)
                                             ELSE Suspend(m, t, "receive_ghost")
  <2>1. m.tasks[t].nRecvd = r
    BY <1>11, <1>12
  <2>. QED
    BY <1>6, <1>r, <2>1
<1>14. Suspend(m, t, "receive_ghost")
         = Ran(n, t, TaskOf("receive_ghost", task.it, r, g, task.active),
               n.begun, n.sends, n.adds, n.grid)
  <2>1. Suspend(m, t, "receive_ghost")
          = Ran(m, t, [k2 EXCEPT !.cont = "receive_ghost"], n.begun, n.sends, n.adds, n.grid)
    BY <1>11, Suspends
  <2>2. [k2 EXCEPT !.cont = "receive_ghost"]
          = TaskOf("receive_ghost", task.it, r, g, task.active)
    <3>. HIDE DEF r, g
    <3>. QED
      BY <1>3 DEF TaskOf
  <2>. QED
    BY <1>10, <2>1, <2>2, RanAgain
<1>15. CheckAndCompute(m, w, t)
         = Ran(n, t, TaskOf("receive_max_error", task.it, r, g, task.active),
               n.begun, n.sends, adds, n.grid)
  <2>. DEFINE k == Reduce(m, w, "receive_max_error")
  <2>1. k = Ran(m, t, k2, n.begun, n.sends, adds, n.grid)
    BY <1>11, Reduces
  <2>2. adds \in Seq(Contribution)
    BY RunningFields, AppendType DEF Cont
  <2>3. CheckAndCompute(m, w, t) = Suspend(k, t, "receive_max_error")
    BY DEF CheckAndCompute
  <2>. HIDE DEF k, adds
  <2>4. k \in RunningT(t) /\ k.tasks[t] = k2 /\ k.begun = n.begun /\ k.sends = n.sends
        /\ k.adds = adds /\ k.grid = n.grid
    BY <1>3, <1>11, <2>1, <2>2, RunningFields, RanIsRunning
  <2>5. Suspend(k, t, "receive_max_error")
          = Ran(k, t, [k2 EXCEPT !.cont = "receive_max_error"], n.begun, n.sends, adds, n.grid)
    BY <2>4, Suspends
  <2>6. [k2 EXCEPT !.cont = "receive_max_error"]
          = TaskOf("receive_max_error", task.it, r, g, task.active)
    BY <1>3 DEF TaskOf
  <2>. QED
    BY <1>10, <2>1, <2>3, <2>5, <2>6, RanAgain
<1>. QED
  BY <1>13, <1>14, <1>15 DEF task

\* receive_grid().
GridOf(p) == {<<q[1], q[2]>> : q \in p.parts}

LEMMA GridType ==
  ASSUME NEW p \in ResumeMsg
  PROVE  GridOf(p) \in SUBSET (Tid \X Worker)
BY DEF GridOf, ResumeMsg, Part

LEMMA GridReceived ==
  ASSUME NEW t \in Tid, NEW n \in RunningT(t), NEW w \in Worker, NEW p \in ResumeMsg
  PROVE  ReceiveGrid(n, w, t, p)
           = Ran(n, t, [n.tasks[t] EXCEPT !.active = FALSE], n.begun, n.sends, n.adds,
                 n.grid \cup GridOf(p))
<1>. DEFINE grid == n.grid \cup GridOf(p)
            k == [n EXCEPT !.grid = grid]
<1>1. ReceiveGrid(n, w, t, p) = Terminate(k, t)
  BY DEF ReceiveGrid, GridOf
<1>2. k = Ran(n, t, n.tasks[t], n.begun, n.sends, n.adds, grid)
  BY GridReplaced, RunningFields
<1>3. grid \in SUBSET (Tid \X Worker)
  BY GridType, RunningFields
<1>. HIDE DEF k, grid
<1>4. k \in RunningT(t) /\ k.tasks[t] = n.tasks[t] /\ k.begun = n.begun /\ k.sends = n.sends
      /\ k.adds = n.adds /\ k.grid = grid
  BY <1>2, <1>3, RunningFields, RanIsRunning
<1>5. Terminate(k, t)
        = Ran(k, t, [n.tasks[t] EXCEPT !.active = FALSE], n.begun, n.sends, n.adds, grid)
  BY <1>4, Terminates
<1>. QED
  BY <1>1, <1>2, <1>5, RanAgain DEF grid

-----------------------------------------------------------------------------
\* What a handler may change.

\* The buffers and the other tasks are left as they are, and t waits or is gone.
After(n, t) ==
  {m \in NodeT : /\ m.buffers = n.buffers
                 /\ \A s \in Tid : s # t => m.tasks[s] = n.tasks[s]
                 /\ m.tasks[t] # None => m.tasks[t].cont \in Cont /\ m.tasks[t].active}

\* The same, before an inactive task is discarded.
Outcomes(n, t) ==
  {m \in NodeT : /\ m.buffers = n.buffers
                 /\ \A s \in Tid : s # t => m.tasks[s] = n.tasks[s]
                 /\ m.tasks[t] \in Task
                 /\ m.tasks[t].active => m.tasks[t].cont \in Cont}

LEMMA RanOutcome ==
  ASSUME NEW t \in Tid, NEW n \in RunningT(t), NEW task \in Task, NEW begun \in Nat,
         NEW sends \in SUBSET ResumeMsg, NEW adds \in Seq(Contribution),
         NEW grid \in SUBSET (Tid \X Worker), task.active => task.cont \in Cont
  PROVE  Ran(n, t, task, begun, sends, adds, grid) \in Outcomes(n, t)
<1>. DEFINE m == Ran(n, t, task, begun, sends, adds, grid)
<1>1. m \in NodeT
  BY RunningFields, RanType
<1>2. n \in NodeT
  BY RunningFields
<1>3. m.buffers = n.buffers /\ m.tasks[t] = task
      /\ \A s \in Tid : s # t => m.tasks[s] = n.tasks[s]
  BY <1>2 DEF Ran, NodeT, Tasks
<1>. HIDE DEF m
<1>4. m \in Outcomes(n, t)
  BY <1>1, <1>3 DEF Outcomes
<1>. QED
  BY <1>4 DEF m

LEMMA TaskDeactivated ==
  ASSUME NEW k \in Task
  PROVE  [k EXCEPT !.active = FALSE] \in Task /\ ~ [k EXCEPT !.active = FALSE].active
BY DEF Task

\* The loop leaves the node with the task, suspended or terminated.
LEMMA ConvergesTo ==
  ASSUME NEW t \in Tid, NEW n \in RunningT(t), NEW w \in Worker
  PROVE  ConvergeLoop(n, w, t) \in Outcomes(n, t)
<1>. DEFINE task == n.tasks[t]
<1>1. task \in Task
  BY RunningFields
<1>2. task.it \in Nat /\ task.nRecvd \in Nat /\ task.ghosts \in SUBSET Part
      /\ task.active \in BOOLEAN
      /\ task.cont \in Cont \cup {None}
      /\ task = TaskOf(task.cont, task.it, task.nRecvd, task.ghosts, task.active)
  BY <1>1, TaskFields
<1>3. CASE task.it < MaxIters
  <2>. DEFINE k == TaskOf("receive_ghost", task.it + 1, 0, {}, task.active)
              sent == n.sends \cup GhostsOf(w, t, task.it + 1)
  <2>1. k \in Task /\ k.cont \in Cont
    <3>1. task.it + 1 \in Nat /\ {} \in SUBSET Part /\ 0 \in Nat /\ "receive_ghost" \in Cont
      BY <1>2 DEF Cont
    <3>2. k \in Task
      BY <1>2, <3>1, TaskOfType
    <3>. QED
      BY <3>1, <3>2 DEF TaskOf
  <2>2. sent \in SUBSET ResumeMsg
    BY <1>2, GhostType, RunningFields
  <2>3. n.begun + 1 \in Nat /\ n.adds \in Seq(Contribution) /\ n.grid \in SUBSET (Tid \X Worker)
    BY RunningFields
  <2>4. ConvergeLoop(n, w, t) = Ran(n, t, k, n.begun + 1, sent, n.adds, n.grid)
    BY <1>3, BeginsIteration
  <2>. HIDE DEF k, sent
  <2>. QED
    BY <2>1, <2>2, <2>3, <2>4, RanOutcome
<1>4. CASE ~ (task.it < MaxIters)
  <2>. DEFINE k == IF w = 0 THEN [task EXCEPT !.cont = "receive_grid"]
                            ELSE [task EXCEPT !.active = FALSE]
              adds == Append(n.adds, [tid |-> t, cont |-> "receive_grid"])
  <2>1. k \in Task /\ (k.active => k.cont \in Cont)
    <3>. HIDE DEF task
    <3>1. "receive_grid" \in Cont
      BY DEF Cont
    <3>2. w = 0 => k = TaskOf("receive_grid", task.it, task.nRecvd, task.ghosts, task.active)
      BY <1>2 DEF TaskOf
    <3>3. w # 0 => k = TaskOf(task.cont, task.it, task.nRecvd, task.ghosts, FALSE)
      BY <1>2 DEF TaskOf
    <3>. HIDE DEF k
    <3>4. CASE w = 0
      BY <1>2, <3>1, <3>2, <3>4, TaskOfType DEF TaskOf
    <3>5. CASE w # 0
      <4>1. k \in Task
        BY <1>2, <3>3, <3>5, TaskOfType
      <4>2. k.active = FALSE
        BY <3>3, <3>5 DEF TaskOf
      <4>. QED
        BY <4>1, <4>2
    <3>. QED
      BY <3>4, <3>5
  <2>2. adds \in Seq(Contribution)
    BY RunningFields, AppendType DEF Cont
  <2>3. n.begun \in Nat /\ n.sends \in SUBSET ResumeMsg /\ n.grid \in SUBSET (Tid \X Worker)
    BY RunningFields
  <2>4. ConvergeLoop(n, w, t) = Ran(n, t, k, n.begun, n.sends, adds, n.grid)
    BY <1>4, EndsIterations
  <2>. HIDE DEF k, adds
  <2>. QED
    BY <2>1, <2>2, <2>3, <2>4, RanOutcome
<1>. QED
  BY <1>3, <1>4

\* So does every continuation.
LEMMA ContinuesTo ==
  ASSUME NEW t \in Tid, NEW n \in RunningT(t), NEW w \in Worker, NEW p \in ResumeMsg,
         n.tasks[t].cont \in Cont
  PROVE  Continuation(n, w, t, p) \in Outcomes(n, t)
<1>. DEFINE task == n.tasks[t]
<1>1. task \in Task
  BY RunningFields
<1>2. task.it \in Nat /\ task.nRecvd \in Nat /\ task.ghosts \in SUBSET Part
      /\ task.active \in BOOLEAN
      /\ task.cont \in Cont
      /\ task = TaskOf(task.cont, task.it, task.nRecvd, task.ghosts, task.active)
  BY <1>1, TaskFields
<1>f. /\ n.begun \in Nat /\ n.sends \in SUBSET ResumeMsg /\ n.adds \in Seq(Contribution)
      /\ n.grid \in SUBSET (Tid \X Worker)
  BY RunningFields
<1>3. CASE task.cont = "receive_ghost"
  <2>. DEFINE r == task.nRecvd + 1
              g == task.ghosts \cup p.parts
              a == task.active
              i == task.it
              k1 == TaskOf("receive_max_error", i, r, g, a)
              k2 == TaskOf("receive_ghost", i, r, g, a)
              adds == Append(n.adds, [tid |-> t, cont |-> "receive_max_error"])
  <2>1. Continuation(n, w, t, p) = ReceiveGhost(n, w, t, p)
    BY <1>3 DEF Continuation
  <2>2. ReceiveGhost(n, w, t, p) =
          IF r >= Cardinality(Neighbors(w)) THEN Ran(n, t, k1, n.begun, n.sends, adds, n.grid)
                                            ELSE Ran(n, t, k2, n.begun, n.sends, n.adds, n.grid)
    BY GhostReceived
  <2>3. p.parts \in SUBSET Part
    BY DEF ResumeMsg
  <2>4. g \in SUBSET Part /\ r \in Nat /\ i \in Nat /\ a \in BOOLEAN
    BY <1>2, <2>3
  <2>. HIDE DEF g, r, i, a
  <2>5. k1 \in Task /\ k1.cont \in Cont /\ k2 \in Task /\ k2.cont \in Cont
    BY <2>4, TaskOfType DEF TaskOf, Cont
  <2>6. adds \in Seq(Contribution)
    BY <1>f, AppendType DEF Cont
  <2>. HIDE DEF k1, k2, adds
  <2>7. Ran(n, t, k1, n.begun, n.sends, adds, n.grid) \in Outcomes(n, t)
    BY <1>f, <2>5, <2>6, RanOutcome
  <2>8. Ran(n, t, k2, n.begun, n.sends, n.adds, n.grid) \in Outcomes(n, t)
    BY <1>f, <2>5, RanOutcome
  <2>. QED
    BY <2>1, <2>2, <2>7, <2>8
<1>4. CASE task.cont = "receive_max_error"
  <2>1. Continuation(n, w, t, p) = ConvergeLoop(n, w, t)
    BY <1>4 DEF Continuation
  <2>. QED
    BY <2>1, ConvergesTo
<1>5. CASE task.cont = "receive_grid"
  <2>. DEFINE k == [task EXCEPT !.active = FALSE]
              grid == n.grid \cup GridOf(p)
  <2>1. Continuation(n, w, t, p) = ReceiveGrid(n, w, t, p)
    BY <1>5 DEF Continuation
  <2>2. ReceiveGrid(n, w, t, p) = Ran(n, t, k, n.begun, n.sends, n.adds, grid)
    BY GridReceived
  <2>3. k \in Task /\ ~ k.active
    BY <1>1, TaskDeactivated
  <2>4. grid \in SUBSET (Tid \X Worker)
    BY <1>f, GridType
  <2>. HIDE DEF k, grid
  <2>. QED
    BY <1>f, <2>1, <2>2, <2>3, <2>4, RanOutcome
<1>. QED
  BY <1>2, <1>3, <1>4, <1>5 DEF Cont

\* Once an inactive task is discarded, what is left waits for something.
LEMMA DiscardsTo ==
  ASSUME NEW t \in Tid, NEW n \in NodeT, NEW m \in Outcomes(n, t)
  PROVE  Discard(m, t) \in After(n, t)
<1>1. m \in NodeT /\ m.tasks[t] \in Task /\ m.buffers = n.buffers
      /\ \A s \in Tid : s # t => m.tasks[s] = n.tasks[s]
  BY DEF Outcomes
<1>c. m.tasks[t].active => m.tasks[t].cont \in Cont
  BY DEF Outcomes
<1>2. CASE m.tasks[t].active
  <2>1. Discard(m, t) = m
    BY <1>2 DEF Discard
  <2>2. m.tasks[t].cont \in Cont /\ m.tasks[t].active
    BY <1>2, <1>c
  <2>3. m \in After(n, t)
    BY <1>1, <2>2 DEF After
  <2>. QED
    BY <2>1, <2>3
<1>3. CASE ~ m.tasks[t].active
  <2>1. Discard(m, t) = [m EXCEPT !.tasks = [m.tasks EXCEPT ![t] = None]]
    BY <1>3 DEF Discard
  <2>2. Discard(m, t) = Ran(m, t, None, m.begun, m.sends, m.adds, m.grid)
    BY <1>1, <2>1, TaskReplaced
  <2>. DEFINE d == Discard(m, t)
  <2>3. d.tasks[t] = None /\ (\A s \in Tid : s # t => d.tasks[s] = m.tasks[s])
        /\ d.buffers = m.buffers
    BY <1>1, <2>2 DEF Ran, NodeT, Tasks
  <2>4. d \in NodeT
    <3>1. m.begun \in Nat /\ m.sends \in SUBSET ResumeMsg /\ m.adds \in Seq(Contribution)
          /\ m.grid \in SUBSET (Tid \X Worker) /\ None \in Task \cup {None}
      BY <1>1 DEF NodeT
    <3>2. Ran(m, t, None, m.begun, m.sends, m.adds, m.grid) \in NodeT
      BY <1>1, <3>1, RanType
    <3>. QED
      BY <2>2, <3>2
  <2>. HIDE DEF d
  <2>5. d \in After(n, t)
    BY <1>1, <2>3, <2>4 DEF After
  <2>. QED
    BY <2>5 DEF d
<1>. QED
  BY <1>2, <1>3

\* The task becomes the active one.
LEMMA Activates ==
  ASSUME NEW t \in Tid, NEW n \in NodeT, n.tasks[t] # None,
         NEW m, m = [n EXCEPT !.active = t]
  PROVE  /\ m \in RunningT(t) /\ m.tasks = n.tasks /\ m.buffers = n.buffers
         /\ m.begun = n.begun /\ m.sends = n.sends /\ m.adds = n.adds /\ m.grid = n.grid
<1>1. n.tasks[t] \in Task
  BY DEF NodeT, Tasks
<1>2. /\ m.tasks = n.tasks /\ m.buffers = n.buffers /\ m.active = t
      /\ m.begun = n.begun /\ m.sends = n.sends /\ m.adds = n.adds /\ m.grid = n.grid
  BY DEF NodeT
<1>3. m \in NodeT
  BY DEF NodeT
<1>. QED
  BY <1>1, <1>2, <1>3 DEF RunningT

\* A message that is accepted changes its own task only, and no buffer.
LEMMA InvokesTo ==
  ASSUME NEW t \in Tid, NEW n \in NodeT, NEW w \in Worker, NEW p \in ResumeMsg,
         n.tasks[t] # None, n.tasks[t].cont \in Cont
  PROVE  Invoke(n, w, t, p) \in After(n, t)
<1>. DEFINE m == [n EXCEPT !.active = t]
            c == Continuation(m, w, t, p)
<1>1. Invoke(n, w, t, p) = Discard(c, t)
  BY DEF Invoke
<1>. HIDE DEF m
<1>2. m \in RunningT(t) /\ m.tasks = n.tasks /\ m.buffers = n.buffers
  BY Activates DEF m
<1>3. c \in Outcomes(m, t)
  BY <1>2, ContinuesTo
<1>. HIDE DEF c
<1>4. Discard(c, t) \in After(m, t)
  BY <1>2, <1>3, RunningFields, DiscardsTo
<1>. QED
  BY <1>1, <1>2, <1>4 DEF After

-----------------------------------------------------------------------------
\* try_continue_().

\* A set of numbers has a least one.
LEMMA LeastMember ==
  ASSUME NEW T \in SUBSET Nat, T # {}
  PROVE  \E i \in T : \A j \in T : i <= j
<1>1. PICK i \in T : \A j \in T : ~ (<<j, i>> \in OpToRel(<, Nat))
  BY NatLessThanWellFounded, WFMin
<1>2. OpToRel(<, Nat) = {ss \in Nat \X Nat : ss[1] < ss[2]}
  BY Zenon DEF OpToRel
<1>3. ASSUME NEW j \in T
      PROVE  i <= j
  <2>1. <<j, i>> \in Nat \X Nat /\ <<j, i>>[1] = j /\ <<j, i>>[2] = i
    OBVIOUS
  <2>2. ~ (j < i)
    BY <1>1, <1>2, <2>1
  <2>. QED
    BY <2>2
<1>. QED
  BY <1>3

\* The payloads of t that are kept.
Kept(n, t) ==
  Len(n.buffers[t]["receive_ghost"]) + Len(n.buffers[t]["receive_max_error"])
    + Len(n.buffers[t]["receive_grid"])

LEMMA ContNames ==
  /\ "receive_ghost" \in Cont /\ "receive_max_error" \in Cont /\ "receive_grid" \in Cont
  /\ \A c \in Cont : c = "receive_ghost" \/ c = "receive_max_error" \/ c = "receive_grid"
BY DEF Cont

\* The number of payloads kept for a task.
LEMMA KeptType ==
  ASSUME NEW n, NEW t, \A d \in Cont : Len(n.buffers[t][d]) \in Nat
  PROVE  Kept(n, t) \in Nat
<1>. DEFINE L(d) == Len(n.buffers[t][d])
            total == L("receive_ghost") + L("receive_max_error") + L("receive_grid")
<1>1. L("receive_ghost") \in Nat /\ L("receive_max_error") \in Nat /\ L("receive_grid") \in Nat
  BY ContNames
<1>2. Kept(n, t) = total
  BY DEF Kept
<1>. HIDE DEF L
<1>3. total \in Nat
  BY <1>1
<1>. HIDE DEF total
<1>. QED
  BY <1>2, <1>3

\* What is in the buffers of a task is counted, and one payload counts.
LEMMA KeptCounts ==
  ASSUME NEW n, NEW m, NEW t, NEW c \in Cont,
         \A d \in Cont : Len(n.buffers[t][d]) \in Nat,
         \A d \in Cont : Len(m.buffers[t][d])
                           = IF d = c THEN Len(n.buffers[t][c]) - 1 ELSE Len(n.buffers[t][d])
  PROVE  /\ Kept(n, t) \in Nat /\ Kept(m, t) = Kept(n, t) - 1
         /\ Len(n.buffers[t][c]) > 0 => Kept(n, t) > 0
<1>. DEFINE L(k, d) == Len(k.buffers[t][d])
            g == L(n, "receive_ghost")
            e == L(n, "receive_max_error")
            r == L(n, "receive_grid")
            total == g + e + r
            left == L(m, "receive_ghost") + L(m, "receive_max_error") + L(m, "receive_grid")
<1>1. g \in Nat /\ e \in Nat /\ r \in Nat
  BY ContNames
<1>2. Kept(n, t) = total /\ Kept(m, t) = left
  BY DEF Kept
<1>3. \A d \in Cont : L(m, d) = IF d = c THEN L(n, c) - 1 ELSE L(n, d)
  OBVIOUS
<1>. HIDE DEF L
<1>4. left = total - 1 /\ (L(n, c) > 0 => total > 0)
  <2>1. CASE c = "receive_ghost"
    <3>1. L(m, "receive_ghost") = g - 1 /\ L(m, "receive_max_error") = e
          /\ L(m, "receive_grid") = r /\ L(n, c) = g
      BY <1>3, <2>1, ContNames
    <3>. HIDE DEF g, e, r
    <3>. QED
      BY <1>1, <3>1
  <2>2. CASE c = "receive_max_error"
    <3>1. L(m, "receive_ghost") = g /\ L(m, "receive_max_error") = e - 1
          /\ L(m, "receive_grid") = r /\ L(n, c) = e
      BY <1>3, <2>2, ContNames
    <3>. HIDE DEF g, e, r
    <3>. QED
      BY <1>1, <3>1
  <2>3. CASE c = "receive_grid"
    <3>1. L(m, "receive_ghost") = g /\ L(m, "receive_max_error") = e
          /\ L(m, "receive_grid") = r - 1 /\ L(n, c) = r
      BY <1>3, <2>3, ContNames
    <3>. HIDE DEF g, e, r
    <3>. QED
      BY <1>1, <3>1
  <2>. QED
    BY <2>1, <2>2, <2>3, ContNames
<1>5. total \in Nat
  BY <1>1
<1>. HIDE DEF total, left
<1>6. L(n, c) > 0 => Kept(n, t) > 0
  BY <1>2, <1>4
<1>. QED
  BY <1>2, <1>4, <1>5, <1>6 DEF L

\* The states of w while it tries to continue with t.
Trying(after, n, w, t, most) ==
  after = [k \in 0..most |-> IF k = 0 THEN n ELSE ContinueOnce(after[k - 1], w, t)]

\* try_continue_() is the last of its rounds.
LEMMA TryingEnds ==
  ASSUME NEW n, NEW w, NEW t
  PROVE  TryContinue(n, w, t)
           = (CHOOSE after : Trying(after, n, w, t, Kept(n, t)))[Kept(n, t)]
BY Zenon DEF TryContinue, Trying, Kept

\* The function of all rounds exists.
LEMMA TryingExists ==
  ASSUME NEW n, NEW w, NEW t, NEW most \in Nat
  PROVE  \E after : Trying(after, n, w, t, most)
<1>. DEFINE T == {m \in Nat : ~ \E after : Trying(after, n, w, t, m)}
<1>1. SUFFICES ASSUME T # {} PROVE FALSE
  OBVIOUS
<1>2. PICK i \in T : \A j \in T : i <= j
  BY <1>1, LeastMember
<1>3. CASE i = 0
  <2>1. Trying([k \in 0..0 |-> n], n, w, t, 0)
    BY DEF Trying
  <2>. QED
    BY <1>3, <2>1
<1>4. CASE i # 0
  <2>1. i - 1 \in Nat /\ i - 1 \notin T
    BY <1>2, <1>4
  <2>2. PICK f : Trying(f, n, w, t, i - 1)
    BY <2>1
  <2>. DEFINE g == [k \in 0..i |-> IF k = 0 THEN n ELSE ContinueOnce(f[k - 1], w, t)]
  <2>3. ASSUME NEW k \in 0..(i - 1)
        PROVE  g[k] = f[k]
    <3>1. f[k] = IF k = 0 THEN n ELSE ContinueOnce(f[k - 1], w, t)
      BY <2>1, <2>2 DEF Trying
    <3>. QED
      BY <2>1, <3>1
  <2>4. ASSUME NEW k \in 0..i
        PROVE  (IF k = 0 THEN n ELSE ContinueOnce(f[k - 1], w, t))
                 = IF k = 0 THEN n ELSE ContinueOnce(g[k - 1], w, t)
    <3>1. k # 0 => k - 1 \in 0..(i - 1)
      BY <2>1
    <3>. HIDE DEF g
    <3>. QED
      BY <2>3, <3>1
  <2>5. g = [k \in 0..i |-> IF k = 0 THEN n ELSE ContinueOnce(g[k - 1], w, t)]
    BY Zenon, <2>4
  <2>. QED
    BY <2>5 DEF Trying
<1>. QED
  BY <1>3, <1>4

\* Trying once takes a payload from the buffer, unless there is none to take.
LEMMA ContinuesOnce ==
  ASSUME NEW t \in Tid, NEW w \in Worker, NEW n \in Nodes
  PROVE  LET m == ContinueOnce(n, w, t)
         IN  /\ m \in Nodes
             /\ \A s \in Tid : s # t => m.tasks[s] = n.tasks[s] /\ m.buffers[s] = n.buffers[s]
             /\ Kept(n, t) \in Nat
             /\ Quiet(n, t) => m = n
             /\ ~ Quiet(n, t) => Kept(n, t) > 0 /\ Kept(m, t) = Kept(n, t) - 1
<1>. DEFINE m == ContinueOnce(n, w, t)
<1>1. n \in NodeT /\ Waiting(n)
  BY DEF Nodes
<1>2. n.buffers \in Buffers /\ n.tasks \in Tasks
  BY <1>1 DEF NodeT
<1>3. \A c \in Cont : n.buffers[t][c] \in Seq(ResumeMsg)
  BY <1>2 DEF Buffers
<1>4. Kept(n, t) \in Nat
  <2>1. \A c \in Cont : Len(n.buffers[t][c]) \in Nat
    BY <1>3
  <2>. QED
    BY <2>1, KeptType
<1>5. CASE Quiet(n, t)
  <2>1. m = n
    BY <1>5 DEF Quiet, ContinueOnce
  <2>. QED
    BY <1>4, <1>5, <2>1
<1>6. CASE ~ Quiet(n, t)
  <2>. DEFINE c == n.tasks[t].cont
              p == Head(n.buffers[t][c])
              k == Invoke(n, w, t, p)
  <2>1. n.tasks[t] # None /\ c \in Cont /\ n.buffers[t][c] # <<>>
    BY <1>1, <1>6 DEF Quiet, Waiting
  <2>2. p \in ResumeMsg
    BY <1>3, <2>1
  <2>3. m = [k EXCEPT !.buffers[t][c] = Tail(@)]
    BY <2>1 DEF ContinueOnce
  <2>4. k \in After(n, t)
    BY <1>1, <2>1, <2>2, InvokesTo
  <2>. HIDE DEF k, m, c
  <2>5. /\ k \in NodeT /\ k.buffers = n.buffers
        /\ \A s \in Tid : s # t => k.tasks[s] = n.tasks[s]
        /\ k.tasks[t] # None => k.tasks[t].cont \in Cont /\ k.tasks[t].active
    BY <2>4 DEF After
  <2>. DEFINE tail == Tail(n.buffers[t][c])
              b == [n.buffers EXCEPT ![t] = [n.buffers[t] EXCEPT ![c] = tail]]
  <2>6. m = [k EXCEPT !.buffers = b]
    <3>1. m = [k EXCEPT !.buffers =
                 [k.buffers EXCEPT ![t] = [k.buffers[t] EXCEPT ![c] = Tail(k.buffers[t][c])]]]
      BY <2>3
    <3>. QED
      BY <2>5, <3>1
  <2>7. tail \in Seq(ResumeMsg) /\ Len(tail) = Len(n.buffers[t][c]) - 1
        /\ Len(n.buffers[t][c]) \in Nat \ {0}
    BY <1>3, <2>1
  <2>. HIDE DEF tail
  <2>8. b \in Buffers /\ b[t] = [n.buffers[t] EXCEPT ![c] = tail]
        /\ \A s \in Tid : s # t => b[s] = n.buffers[s]
    BY <1>2, <2>1, <2>7 DEF Buffers
  <2>. HIDE DEF b
  <2>9. m \in NodeT /\ m.tasks = k.tasks /\ m.buffers = b
    BY <2>5, <2>6, <2>8 DEF NodeT
  <2>10. Waiting(m)
    BY <1>1, <2>5, <2>9 DEF Waiting
  <2>11. \A d \in Cont : Len(m.buffers[t][d])
                           = IF d = c THEN Len(n.buffers[t][c]) - 1 ELSE Len(n.buffers[t][d])
    BY <1>2, <2>1, <2>7, <2>8, <2>9 DEF Buffers
  <2>12. Kept(n, t) > 0 /\ Kept(m, t) = Kept(n, t) - 1
    <3>1. \A d \in Cont : Len(n.buffers[t][d]) \in Nat
      BY <1>3
    <3>2. Len(n.buffers[t][c]) > 0
      BY <2>7
    <3>. QED
      BY <2>1, <2>11, <3>1, <3>2, KeptCounts
  <2>13. m \in Nodes
    BY <2>9, <2>10 DEF Nodes
  <2>14. \A s \in Tid : s # t => m.tasks[s] = n.tasks[s] /\ m.buffers[s] = n.buffers[s]
    BY <2>5, <2>8, <2>9
  <2>. QED
    BY <1>4, <1>6, <2>12, <2>13, <2>14 DEF m
<1>. QED
  BY <1>5, <1>6

\* try_continue_() does not stop before there is nothing to continue with, and
\* what each try preserves it preserves.
LEMMA TriesToTheEnd ==
  ASSUME NEW t \in Tid, NEW w \in Worker, NEW S \in SUBSET Nodes,
         \A m \in S : ContinueOnce(m, w, t) \in S,
         NEW n \in S
  PROVE  TryContinue(n, w, t) \in S /\ Quiet(TryContinue(n, w, t), t)
<1>. DEFINE most == Kept(n, t)
            f == CHOOSE after : Trying(after, n, w, t, most)
<1>1. most \in Nat
  BY ContinuesOnce
<1>2. Trying(f, n, w, t, most)
  BY <1>1, TryingExists
<1>3. TryContinue(n, w, t) = f[most]
  BY TryingEnds
<1>. HIDE DEF f
<1>4. \A k \in 0..most : f[k] = IF k = 0 THEN n ELSE ContinueOnce(f[k - 1], w, t)
  BY <1>2 DEF Trying
<1>. HIDE DEF most
<1>. DEFINE Good(k) == f[k] \in S /\ (Quiet(f[k], t) \/ Kept(f[k], t) = most - k)
            T == {k \in 0..most : ~ Good(k)}
<1>5. Good(0)
  BY <1>1, <1>4 DEF most
<1>6. ASSUME NEW k \in 0..most, k # 0, Good(k - 1)
      PROVE  Good(k)
  <2>1. k - 1 \in 0..most
    BY <1>1, <1>6
  <2>. DEFINE a == f[k - 1]
  <2>2. f[k] = ContinueOnce(a, w, t)
    BY <1>4, <1>6
  <2>3. a \in S /\ a \in Nodes
    BY <1>6
  <2>. HIDE DEF a
  <2>4. f[k] \in S
    BY <2>2, <2>3
  <2>5. CASE Quiet(a, t)
    BY <2>2, <2>3, <2>4, <2>5, ContinuesOnce
  <2>6. CASE ~ Quiet(a, t)
    <3>1. Kept(a, t) = most - (k - 1)
      BY <1>6, <2>6 DEF a
    <3>2. Kept(f[k], t) = Kept(a, t) - 1
      BY <2>2, <2>3, <2>6, ContinuesOnce
    <3>. QED
      BY <1>1, <2>4, <3>1, <3>2
  <2>. QED
    BY <2>5, <2>6
<1>. HIDE DEF Good
<1>7. T = {}
  <2>1. SUFFICES ASSUME T # {} PROVE FALSE
    OBVIOUS
  <2>2. T \in SUBSET Nat
    BY <1>1
  <2>3. PICK i \in T : \A j \in T : i <= j
    BY <2>1, <2>2, LeastMember
  <2>4. i # 0
    BY <1>5
  <2>5. i - 1 \in 0..most /\ i - 1 \notin T
    BY <1>1, <2>3, <2>4
  <2>. QED
    BY <1>6, <2>4, <2>5
<1>8. Good(most)
  BY <1>1, <1>7
<1>9. f[most] \in S /\ f[most] \in Nodes
  BY <1>8 DEF Good
<1>10. CASE ~ Quiet(f[most], t)
  <2>1. Kept(f[most], t) = 0
    BY <1>1, <1>8, <1>10 DEF Good
  <2>2. Kept(f[most], t) > 0
    BY <1>9, <1>10, ContinuesOnce
  <2>. QED
    BY <2>1, <2>2
<1>. QED
  BY <1>3, <1>9, <1>10

-----------------------------------------------------------------------------
\* Types, and that nothing is overlooked.

\* The nodes that are as n but for t.
But(n, t) ==
  {m \in Nodes : \A s \in Tid : s # t => m.tasks[s] = n.tasks[s] /\ m.buffers[s] = n.buffers[s]}

\* try_continue_() changes only the task it is called for, and leaves nothing to try.
LEMMA TriesBut ==
  ASSUME NEW t \in Tid, NEW w \in Worker, NEW n \in Nodes
  PROVE  TryContinue(n, w, t) \in But(n, t) /\ Quiet(TryContinue(n, w, t), t)
<1>. DEFINE S == But(n, t)
<1>1. S \in SUBSET Nodes /\ n \in S
  BY DEF But
<1>2. ASSUME NEW m \in S
      PROVE  ContinueOnce(m, w, t) \in S
  <2>. DEFINE k == ContinueOnce(m, w, t)
  <2>1. m \in Nodes
    BY <1>1
  <2>2. k \in Nodes
        /\ \A s \in Tid : s # t => k.tasks[s] = m.tasks[s] /\ k.buffers[s] = m.buffers[s]
    BY <2>1, ContinuesOnce
  <2>. HIDE DEF k
  <2>3. k \in S
    BY <2>2 DEF But
  <2>. QED
    BY <2>3 DEF k
<1>. HIDE DEF S
<1>3. TryContinue(n, w, t) \in S /\ Quiet(TryContinue(n, w, t), t)
  BY <1>1, <1>2, TriesToTheEnd
<1>. QED
  BY <1>3 DEF S

LEMMA AfterIsBut ==
  ASSUME NEW t \in Tid, NEW n \in Nodes, NEW k, k.tasks = n.tasks, k.buffers = n.buffers,
         NEW m \in After(k, t)
  PROVE  m \in But(n, t) /\ m \in Nodes
<1>1. /\ m \in NodeT /\ m.buffers = n.buffers
      /\ \A s \in Tid : s # t => m.tasks[s] = n.tasks[s]
      /\ m.tasks[t] # None => m.tasks[t].cont \in Cont /\ m.tasks[t].active
  BY DEF After
<1>2. \A s \in Tid : n.tasks[s] # None => n.tasks[s].cont \in Cont /\ n.tasks[s].active
  BY DEF Nodes, Waiting
<1>3. ASSUME NEW s \in Tid, m.tasks[s] # None
      PROVE  m.tasks[s].cont \in Cont /\ m.tasks[s].active
  BY <1>1, <1>2, <1>3
<1>4. m \in Nodes
  BY <1>1, <1>3 DEF Nodes, Waiting
<1>. QED
  BY <1>1, <1>4 DEF But

\* Two such changes are one.
LEMMA ButAgain ==
  ASSUME NEW t \in Tid, NEW n, NEW m \in But(n, t), NEW k \in But(m, t)
  PROVE  k \in But(n, t)
BY DEF But

\* A new task.
NewTask(w) == TaskOf(None, FirstIt[w], 0, {}, TRUE)

NewNode(n, w, t) == [n EXCEPT !.active = t, !.tasks[t] = NewTask(w)]

\* The node when the constructor of the task begins.
LEMMA NewRuns ==
  ASSUME NEW t \in Tid, NEW w \in Worker, NEW n \in NodeT, NEW new,
         new = NewNode(n, w, t)
  PROVE  /\ new \in RunningT(t) /\ new.tasks[t] = NewTask(w) /\ new.buffers = n.buffers
         /\ \A s \in Tid : s # t => new.tasks[s] = n.tasks[s]
         /\ new.begun = n.begun /\ new.sends = n.sends /\ new.adds = n.adds
         /\ new.grid = n.grid
<1>. DEFINE k == [n EXCEPT !.active = t]
            task == NewTask(w)
<1>1. task \in Task
  <2>1. None \in Cont \cup {None} /\ FirstIt[w] \in Nat /\ 0 \in Nat /\ {} \in SUBSET Part
        /\ TRUE \in BOOLEAN
    BY WorkgroupAssumption
  <2>. QED
    BY <2>1, TaskOfType DEF NewTask
<1>. HIDE DEF task
<1>2. new = [k EXCEPT !.tasks = [k.tasks EXCEPT ![t] = task]]
  BY DEF task, NewNode
<1>3. k \in NodeT /\ k.active = t /\ k.tasks = n.tasks /\ k.buffers = n.buffers
      /\ k.begun = n.begun /\ k.sends = n.sends /\ k.adds = n.adds /\ k.grid = n.grid
  BY DEF NodeT
<1>. HIDE DEF k
<1>4. new = Ran(k, t, task, k.begun, k.sends, k.adds, k.grid)
  BY <1>2, <1>3, TaskReplaced
<1>5. new \in NodeT
  <2>1. /\ k.begun \in Nat /\ k.sends \in SUBSET ResumeMsg /\ k.adds \in Seq(Contribution)
        /\ k.grid \in SUBSET (Tid \X Worker) /\ task \in Task \cup {None}
    BY <1>1, <1>3 DEF NodeT
  <2>2. Ran(k, t, task, k.begun, k.sends, k.adds, k.grid) \in NodeT
    BY <1>3, <2>1, RanType
  <2>. QED
    BY <1>4, <2>2
<1>6. /\ new.tasks[t] = task /\ new.buffers = k.buffers /\ new.active = k.active
      /\ \A s \in Tid : s # t => new.tasks[s] = k.tasks[s]
      /\ new.begun = k.begun /\ new.sends = k.sends /\ new.adds = k.adds /\ new.grid = k.grid
  <2>1. k \in NodeT
    BY <1>3
  <2>2. new.tasks[t] = task /\ \A s \in Tid : s # t => new.tasks[s] = k.tasks[s]
    BY <1>4, <2>1 DEF Ran, NodeT, Tasks
  <2>. QED
    BY <1>4, <2>2 DEF Ran
<1>7. new \in RunningT(t)
  BY <1>1, <1>3, <1>5, <1>6 DEF RunningT
<1>. QED
  BY <1>3, <1>6, <1>7 DEF task

LEMMA CreatedIs ==
  ASSUME NEW n, NEW w, NEW t
  PROVE  Created(n, w, t)
           = TryContinue(Discard(ConvergeLoop(NewNode(n, w, t), w, t), t), w, t)
BY DEF Created, NewNode, NewTask, TaskOf

\* create() leaves a task that waits for what has not come.
LEMMA CreatedType ==
  ASSUME NEW t \in Tid, NEW w \in Worker, NEW n \in Nodes
  PROVE  Created(n, w, t) \in But(n, t) /\ Quiet(Created(n, w, t), t)
<1>. DEFINE new == NewNode(n, w, t)
            c == ConvergeLoop(new, w, t)
            d == Discard(c, t)
<1>1. n \in NodeT
  BY DEF Nodes
<1>2. new \in RunningT(t) /\ new.buffers = n.buffers
      /\ \A s \in Tid : s # t => new.tasks[s] = n.tasks[s]
  BY <1>1, NewRuns
<1>3. Created(n, w, t) = TryContinue(d, w, t)
  BY CreatedIs
<1>. HIDE DEF new
<1>4. c \in Outcomes(new, t)
  BY <1>2, ConvergesTo
<1>. HIDE DEF c
<1>5. d \in After(new, t)
  BY <1>2, <1>4, RunningFields, DiscardsTo
<1>. HIDE DEF d
<1>6. /\ d \in NodeT /\ d.buffers = n.buffers
      /\ \A s \in Tid : s # t => d.tasks[s] = n.tasks[s]
      /\ d.tasks[t] # None => d.tasks[t].cont \in Cont /\ d.tasks[t].active
  BY <1>2, <1>5 DEF After
<1>7. d \in After(n, t)
  BY <1>6 DEF After
<1>8. d \in But(n, t) /\ d \in Nodes
  BY <1>7, AfterIsBut
<1>9. TryContinue(d, w, t) \in But(d, t) /\ Quiet(TryContinue(d, w, t), t)
  BY <1>8, TriesBut
<1>. QED
  BY <1>3, <1>8, <1>9, ButAgain

\* What a buffered message changes.
LEMMA BufferFields ==
  ASSUME NEW t \in Tid, NEW n \in NodeT, NEW p \in ResumeMsg, NEW m, m = Buffer(n, t, p)
  PROVE  /\ m \in NodeT /\ m.tasks = n.tasks /\ m.active = n.active /\ m.begun = n.begun
         /\ m.sends = n.sends /\ m.adds = n.adds /\ m.grid = n.grid
         /\ m.buffers[t][p.cont] = Append(n.buffers[t][p.cont], p)
         /\ \A c \in Cont : c # p.cont => m.buffers[t][c] = n.buffers[t][c]
         /\ \A s \in Tid : s # t => m.buffers[s] = n.buffers[s]
<1>. DEFINE q == Append(n.buffers[t][p.cont], p)
            b == [n.buffers EXCEPT ![t] = [n.buffers[t] EXCEPT ![p.cont] = q]]
<1>1. m = [n EXCEPT !.buffers = b]
  BY DEF Buffer
<1>2. p.cont \in Cont /\ n.buffers \in Buffers
  BY DEF ResumeMsg, NodeT
<1>3. q \in Seq(ResumeMsg)
  BY <1>2 DEF Buffers
<1>. HIDE DEF q
<1>4. /\ b \in Buffers /\ b[t][p.cont] = q
      /\ \A c \in Cont : c # p.cont => b[t][c] = n.buffers[t][c]
      /\ \A s \in Tid : s # t => b[s] = n.buffers[s]
  BY <1>2, <1>3 DEF Buffers
<1>. HIDE DEF b
<1>5. /\ m \in NodeT /\ m.tasks = n.tasks /\ m.active = n.active /\ m.begun = n.begun
      /\ m.sends = n.sends /\ m.adds = n.adds /\ m.grid = n.grid /\ m.buffers = b
  BY <1>1, <1>4 DEF NodeT
<1>6. /\ m.buffers[t][p.cont] = q
      /\ \A c \in Cont : c # p.cont => m.buffers[t][c] = n.buffers[t][c]
      /\ \A s \in Tid : s # t => m.buffers[s] = n.buffers[s]
  BY <1>4, <1>5
<1>7. m.buffers[t][p.cont] = Append(n.buffers[t][p.cont], p)
  BY <1>6 DEF q
<1>. QED
  BY <1>5, <1>6, <1>7

\* resume() leaves no task waiting for what it has.
LEMMA ResumedType ==
  ASSUME NEW t \in Tid, NEW w \in Worker, NEW n \in Nodes, NEW p \in ResumeMsg
  PROVE  /\ Resumed(n, w, t, p) \in But(n, t)
         /\ Quiet(n, t) => Quiet(Resumed(n, w, t, p), t)
<1>1. n \in NodeT /\ Waiting(n)
  BY DEF Nodes
<1>2. CASE Accepts(n, t, p)
  <2>. DEFINE i == Invoke(n, w, t, p)
  <2>1. n.tasks[t] # None /\ n.tasks[t].cont \in Cont
    BY <1>1, <1>2 DEF Accepts, Waiting
  <2>2. i \in After(n, t)
    BY <1>1, <2>1, InvokesTo
  <2>3. Resumed(n, w, t, p) = TryContinue(i, w, t)
    BY <1>2 DEF Resumed
  <2>. HIDE DEF i
  <2>4. i \in But(n, t) /\ i \in Nodes
    BY <2>2, AfterIsBut
  <2>5. TryContinue(i, w, t) \in But(i, t) /\ Quiet(TryContinue(i, w, t), t)
    BY <2>4, TriesBut
  <2>. QED
    BY <2>3, <2>4, <2>5, ButAgain
<1>3. CASE ~ Accepts(n, t, p)
  <2>. DEFINE m == Buffer(n, t, p)
  <2>1. Resumed(n, w, t, p) = m
    BY <1>3 DEF Resumed
  <2>. HIDE DEF m
  <2>2. /\ m \in NodeT /\ m.tasks = n.tasks
        /\ \A c \in Cont : c # p.cont => m.buffers[t][c] = n.buffers[t][c]
        /\ \A s \in Tid : s # t => m.buffers[s] = n.buffers[s]
    BY <1>1, BufferFields DEF m
  <2>3. m \in But(n, t)
    BY <1>1, <2>2 DEF But, Nodes, Waiting
  <2>4. ASSUME Quiet(n, t)
        PROVE  Quiet(m, t)
    BY <1>1, <1>3, <2>2, <2>4 DEF Quiet, Accepts, Waiting
  <2>. QED
    BY <2>1, <2>3, <2>4
<1>. QED
  BY <1>2, <1>3

AllQuiet == \A w \in Worker : \A t \in Tid : Quiet(node[w], t)

\* A node after its handler.
Settled(n) == [n EXCEPT !.sends = {}, !.adds = <<>>, !.grid = {}]

LEMMA SettledFields ==
  ASSUME NEW n \in Nodes, NEW m, m = Settled(n)
  PROVE  /\ m \in Nodes /\ m.tasks = n.tasks /\ m.buffers = n.buffers
         /\ m.begun = n.begun /\ m.sends = {} /\ m.adds = <<>> /\ m.grid = {}
<1>. DEFINE n1 == [n EXCEPT !.sends = {}]
            n2 == [n1 EXCEPT !.adds = <<>>]
<1>1. n \in NodeT
  BY DEF Nodes
<1>2. <<>> \in Seq(Contribution)
  OBVIOUS
<1>3. m = [n2 EXCEPT !.grid = {}]
  BY DEF Settled
<1>4. n1 \in NodeT /\ n1.tasks = n.tasks /\ n1.buffers = n.buffers /\ n1.begun = n.begun
      /\ n1.sends = {}
  BY <1>1 DEF NodeT
<1>. HIDE DEF n1
<1>5. n2 \in NodeT /\ n2.tasks = n.tasks /\ n2.buffers = n.buffers /\ n2.begun = n.begun
      /\ n2.sends = {} /\ n2.adds = <<>>
  BY <1>2, <1>4 DEF NodeT
<1>. HIDE DEF n2
<1>6. m \in NodeT /\ m.tasks = n.tasks /\ m.buffers = n.buffers /\ m.begun = n.begun
      /\ m.sends = {} /\ m.adds = <<>> /\ m.grid = {}
  BY <1>3, <1>5 DEF NodeT
<1>7. Waiting(m)
  BY <1>6 DEF Nodes, Waiting
<1>. QED
  BY <1>6, <1>7 DEF Nodes

\* What becomes of the state when a handler of w is done.
LEMMA BecomeType ==
  ASSUME TypeOK, NEW w \in Worker, NEW n \in Nodes, NEW rest \in SUBSET net, Become(w, n, rest)
  PROVE  /\ node' \in [Worker -> Nodes]
         /\ node'[w] = Settled(n) /\ \A v \in Worker : v # w => node'[v] = node[v]
         /\ net' \in SUBSET (ResumeMsg \cup CreateMsg)
         /\ contribs' \in [Worker -> Seq(Contribution)]
         /\ grids' \in SUBSET (Tid \X Worker)
<1>1. /\ n.sends \in SUBSET ResumeMsg /\ n.adds \in Seq(Contribution)
      /\ n.grid \in SUBSET (Tid \X Worker)
  BY DEF Nodes, NodeT
<1>2. Settled(n) \in Nodes
  BY SettledFields
<1>3. node' = [node EXCEPT ![w] = Settled(n)]
  BY DEF Become, Settled
<1>4. contribs' \in [Worker -> Seq(Contribution)]
  <2>1. contribs[w] \o n.adds \in Seq(Contribution)
    BY <1>1 DEF TypeOK
  <2>2. contribs' = [contribs EXCEPT ![w] = contribs[w] \o n.adds]
    BY DEF Become
  <2>. QED
    BY <2>1, <2>2 DEF TypeOK
<1>5. node' \in [Worker -> Nodes] /\ node'[w] = Settled(n)
  BY <1>2, <1>3 DEF TypeOK
<1>6. \A v \in Worker : v # w => node'[v] = node[v]
  BY <1>3 DEF TypeOK
<1>. QED
  BY <1>1, <1>4, <1>5, <1>6 DEF Become, TypeOK

\* The other tasks do not notice.
LEMMA ButQuiet ==
  ASSUME NEW t \in Tid, NEW n \in Nodes, NEW m \in But(n, t), NEW s \in Tid, s # t, Quiet(n, s)
  PROVE  Quiet(m, s)
BY DEF But, Quiet

\* A node with another state is quiet if it was, but for t.
LEMMA BecomeQuiet ==
  ASSUME TypeOK, AllQuiet, NEW w \in Worker, NEW t \in Tid, NEW n \in But(node[w], t),
         Quiet(n, t), NEW rest \in SUBSET net, Become(w, n, rest)
  PROVE  AllQuiet'
<1>1. n \in Nodes /\ node[w] \in Nodes
  BY DEF But, TypeOK
<1>2. node'[w] = Settled(n) /\ \A v \in Worker : v # w => node'[v] = node[v]
  BY <1>1, BecomeType
<1>. DEFINE m == Settled(n)
<1>3. m.tasks = n.tasks /\ m.buffers = n.buffers
  BY <1>1, SettledFields
<1>. HIDE DEF m
<1>4. ASSUME NEW s \in Tid
      PROVE  Quiet(m, s)
  <2>1. Quiet(n, s)
    BY <1>1, ButQuiet DEF AllQuiet
  <2>. QED
    BY <1>3, <2>1 DEF Quiet
<1>5. ASSUME NEW v \in Worker, NEW s \in Tid
      PROVE  Quiet(node'[v], s)
  <2>1. CASE v = w
    BY <1>2, <1>4, <2>1 DEF m
  <2>2. CASE v # w
    BY <1>2, <2>2 DEF AllQuiet
  <2>. QED
    BY <2>1, <2>2
<1>. QED
  BY <1>5 DEF AllQuiet

\* What a message is for.
LEMMA MessageFields ==
  ASSUME TypeOK, NEW m \in net
  PROVE  /\ m.to \in Worker /\ m.tid \in Tid
         /\ m.kind = "resume" => m \in ResumeMsg
         /\ m.kind = "create" => m \in CreateMsg
BY DEF TypeOK, ResumeMsg, CreateMsg

\* Each action keeps the types, and leaves no payload overlooked.
LEMMA CreateStep ==
  ASSUME TypeOK, NEW m \in net, Create(m)
  PROVE  TypeOK' /\ (AllQuiet => AllQuiet')
<1>. DEFINE w == m.to
            t == m.tid
            n == Created(node[w], w, t)
<1>1. w \in Worker /\ t \in Tid
  BY MessageFields
<1>2. Become(w, n, net \ {m}) /\ UNCHANGED <<last_task, reduced>>
  BY DEF Create
<1>3. node[w] \in Nodes
  BY <1>1 DEF TypeOK
<1>4. n \in But(node[w], t) /\ Quiet(n, t)
  BY <1>1, <1>3, CreatedType
<1>. HIDE DEF n, w, t
<1>5. n \in Nodes /\ net \ {m} \in SUBSET net
  BY <1>4 DEF But
<1>6. TypeOK'
  BY <1>1, <1>2, <1>5, BecomeType DEF TypeOK
<1>. QED
  BY <1>1, <1>2, <1>4, <1>5, <1>6, BecomeQuiet

LEMMA ResumeStep ==
  ASSUME TypeOK, NEW m \in net, Resume(m)
  PROVE  TypeOK' /\ (AllQuiet => AllQuiet')
<1>. DEFINE w == m.to
            t == m.tid
            n == Resumed(node[w], w, t, m)
<1>1. w \in Worker /\ t \in Tid /\ m \in ResumeMsg
  BY MessageFields DEF Resume
<1>2. Become(w, n, net \ {m}) /\ UNCHANGED <<last_task, reduced>>
  BY DEF Resume
<1>3. node[w] \in Nodes
  BY <1>1 DEF TypeOK
<1>4. n \in But(node[w], t) /\ (Quiet(node[w], t) => Quiet(n, t))
  BY <1>1, <1>3, ResumedType
<1>. HIDE DEF n, w, t
<1>5. n \in Nodes /\ net \ {m} \in SUBSET net
  BY <1>4 DEF But
<1>6. TypeOK'
  BY <1>1, <1>2, <1>5, BecomeType DEF TypeOK
<1>7. AllQuiet => Quiet(node[w], t)
  BY <1>1 DEF AllQuiet
<1>. QED
  BY <1>1, <1>2, <1>4, <1>5, <1>6, <1>7, BecomeQuiet

\* The result of a reduction.
Parts(k) == {<<contribs[w][k].tid, w, k>> : w \in Worker}
TidOf(parts) == CHOOSE t \in Tid : /\ \E p \in parts : p[1] = t
                                   /\ \A p \in parts : t <= p[1]
ResultTo(w, v, k) ==
  [kind |-> "resume", to |-> w, cont |-> contribs[v][k].cont, parts |-> Parts(k),
   tid |-> TidOf(Parts(k))]

\* The task of a result is one of those that were contributed for.
LEMMA TidType ==
  ASSUME NEW parts \in SUBSET Part, parts # {}
  PROVE  TidOf(parts) \in Tid /\ \E p \in parts : p[1] = TidOf(parts)
<1>. DEFINE T == {p[1] : p \in parts}
<1>1. T \in SUBSET Nat /\ T # {} /\ T \in SUBSET Tid
  BY WorkgroupAssumption DEF Part, Tid
<1>2. PICK t \in T : \A j \in T : t <= j
  BY <1>1, LeastMember
<1>3. t \in Tid /\ (\E p \in parts : p[1] = t) /\ \A p \in parts : t <= p[1]
  BY <1>1, <1>2
<1>. QED
  BY <1>3 DEF TidOf

\* Results are messages.
LEMMA ResultType ==
  ASSUME TypeOK, NEW k \in Nat \ {0}, \A w \in Worker : Len(contribs[w]) >= k
  PROVE  /\ Parts(k) \in SUBSET Part /\ Parts(k) # {}
         /\ \A w, v \in Worker : ResultTo(w, v, k) \in ResumeMsg
<1>1. \A w \in Worker : contribs[w][k] \in Contribution
  BY DEF TypeOK
<1>2. 0 \in Worker
  BY WorkgroupAssumption DEF Worker
<1>3. Parts(k) \in SUBSET Part /\ Parts(k) # {}
  <2>1. \A w \in Worker : contribs[w][k].tid \in Tid
    BY <1>1 DEF Contribution
  <2>2. \A w \in Worker : <<contribs[w][k].tid, w, k>> \in Part
    BY <2>1 DEF Part
  <2>. QED
    BY <1>2, <2>2 DEF Parts
<1>4. TidOf(Parts(k)) \in Tid
  BY <1>3, TidType
<1>. QED
  BY <1>1, <1>3, <1>4 DEF ResultTo, ResumeMsg, Contribution

LEMMA CombineIs ==
  ASSUME Combine
  PROVE  /\ \A w \in Worker : Len(contribs[w]) >= reduced + 1
         /\ reduced' = reduced + 1
         /\ \E v \in Worker : net' = net \cup
              {ResultTo(w, v, reduced + 1) :
                 w \in IF contribs[v][reduced + 1].cont = "receive_grid" THEN {0} ELSE Worker}
         /\ UNCHANGED <<last_task, node, contribs, grids>>
BY Zenon DEF Combine, ResultTo, TidOf, Parts

LEMMA CombineStep ==
  ASSUME TypeOK, Combine
  PROVE  TypeOK' /\ (AllQuiet => AllQuiet')
<1>1. /\ \A w \in Worker : Len(contribs[w]) >= reduced + 1
      /\ reduced' = reduced + 1
      /\ UNCHANGED <<last_task, node, contribs, grids>>
  BY CombineIs
<1>. DEFINE To(v) == IF contribs[v][reduced + 1].cont = "receive_grid" THEN {0} ELSE Worker
<1>2. PICK v \in Worker : net' = net \cup {ResultTo(w, v, reduced + 1) : w \in To(v)}
  BY CombineIs
<1>3. reduced \in Nat
  BY DEF TypeOK
<1>4. To(v) \in SUBSET Worker
  BY WorkgroupAssumption DEF Worker
<1>5. \A w \in Worker : ResultTo(w, v, reduced + 1) \in ResumeMsg
  BY <1>1, <1>3, ResultType
<1>. HIDE DEF To
<1>6. net' \in SUBSET (ResumeMsg \cup CreateMsg)
  BY <1>2, <1>4, <1>5 DEF TypeOK
<1>7. TypeOK'
  BY <1>1, <1>3, <1>6 DEF TypeOK
<1>. QED
  BY <1>1, <1>7 DEF AllQuiet, Quiet

LEMMA LaunchStep ==
  ASSUME TypeOK, Launch
  PROVE  TypeOK' /\ (AllQuiet => AllQuiet')
<1>1. last_task \in Tid /\ last_task' \in 0..MaxTasks
  BY WorkgroupAssumption DEF Launch, TypeOK, Tid
<1>. QED
  BY <1>1 DEF Launch, TypeOK, CreateMsg, AllQuiet, Quiet

\* A worker that moves keeps its tasks and buffers.
LEMMA MigrateFields ==
  ASSUME TypeOK, NEW w \in Worker, Migrate(w)
  PROVE  /\ node' \in [Worker -> Nodes]
         /\ \A v \in Worker : /\ node'[v].tasks = node[v].tasks
                              /\ node'[v].buffers = node[v].buffers
                              /\ node'[v].begun = node[v].begun /\ node'[v].sends = node[v].sends
                              /\ node'[v].adds = node[v].adds /\ node'[v].grid = node[v].grid
<1>. DEFINE m == [node[w] EXCEPT !.active = None]
<1>1. node[w] \in NodeT /\ Waiting(node[w])
  BY DEF TypeOK, Nodes
<1>2. m \in NodeT /\ m.tasks = node[w].tasks /\ m.buffers = node[w].buffers
      /\ m.begun = node[w].begun /\ m.sends = node[w].sends /\ m.adds = node[w].adds
      /\ m.grid = node[w].grid
  BY <1>1 DEF NodeT
<1>3. node' = [node EXCEPT ![w] = m]
  BY DEF Migrate
<1>. HIDE DEF m
<1>4. m \in Nodes
  BY <1>1, <1>2 DEF Nodes, Waiting
<1>. QED
  BY <1>2, <1>3, <1>4 DEF TypeOK

LEMMA MigrateStep ==
  ASSUME TypeOK, NEW w \in Worker, Migrate(w)
  PROVE  TypeOK' /\ (AllQuiet => AllQuiet')
<1>1. TypeOK'
  BY MigrateFields DEF Migrate, TypeOK
<1>. QED
  BY <1>1, MigrateFields DEF AllQuiet, Quiet

LEMMA Starts == Init => TypeOK /\ AllQuiet
<1>. SUFFICES ASSUME Init PROVE TypeOK /\ AllQuiet
  OBVIOUS
<1>1. Worker0 \in NodeT
  <2>1. [t \in Tid |-> None] \in Tasks
    BY DEF Tasks
  <2>2. [t \in Tid |-> [c \in Cont |-> <<>>]] \in Buffers
    BY DEF Buffers
  <2>. QED
    BY <2>1, <2>2 DEF Worker0, NodeT
<1>2. \A t \in Tid : Worker0.tasks[t] = None
  BY DEF Worker0
<1>3. Worker0 \in Nodes
  BY <1>1, <1>2 DEF Nodes, Waiting
<1>4. TypeOK
  BY <1>3, WorkgroupAssumption DEF Init, TypeOK
<1>5. AllQuiet
  BY <1>2 DEF Init, AllQuiet, Quiet
<1>. QED
  BY <1>4, <1>5

LEMMA TypeAndQuiet == Spec => [](TypeOK /\ AllQuiet)
<1>1. ASSUME TypeOK, AllQuiet, [Next]_vars
      PROVE  TypeOK' /\ AllQuiet'
  <2>1. CASE Launch
    BY <1>1, <2>1, LaunchStep
  <2>2. ASSUME NEW m \in net, Create(m)
        PROVE  TypeOK' /\ AllQuiet'
    BY <1>1, <2>2, CreateStep
  <2>3. ASSUME NEW m \in net, Resume(m)
        PROVE  TypeOK' /\ AllQuiet'
    BY <1>1, <2>3, ResumeStep
  <2>4. CASE Combine
    BY <1>1, <2>4, CombineStep
  <2>5. ASSUME NEW w \in Worker, Migrate(w)
        PROVE  TypeOK' /\ AllQuiet'
    BY <1>1, <2>5, MigrateStep
  <2>6. CASE UNCHANGED vars
    BY <1>1, <2>6 DEF vars, TypeOK, AllQuiet, Quiet
  <2>. QED
    BY <1>1, <2>1, <2>2, <2>3, <2>4, <2>5, <2>6 DEF Next
<1>. QED
  BY <1>1, Starts, PTL DEF Spec

\* Handlers keep the types: a worker only ever keeps tasks that wait for one of
\* the continuations, and a reduction carries the id of a task that exists.
THEOREM TypeCorrect == Spec => []TypeOK
BY TypeAndQuiet, PTL

\* No task waits for a payload that is in its buffer: whenever one suspends,
\* try_continue_() looks, and goes on for as long as it finds one.
THEOREM NoneOverlooked == Spec => []NothingOverlooked
<1>1. TypeOK /\ AllQuiet => NothingOverlooked
  BY DEF AllQuiet, Quiet, NothingOverlooked, Live
<1>. QED
  BY <1>1, TypeAndQuiet, PTL

-----------------------------------------------------------------------------
\* The workers in lockstep.

\* All workers find the same value in `it'.
First == FirstIt[0]
Rounds == IF First < MaxIters THEN MaxIters - First ELSE 0

\* The iterations of the first tasks.
Done(tasks) == IF tasks = 0 THEN 0 ELSE IF tasks = 1 THEN Rounds ELSE Rounds + Rounds

ErrorOf(t) == [tid |-> t, cont |-> "receive_max_error"]
GridFor(t) == [tid |-> t, cont |-> "receive_grid"]

\* The ghosts of these workers in the iteration i of t.
GhostsFrom(heard, t, i) == {<<t, v, i>> : v \in heard}

\* They wait in the buffer q of w, each once.
Early(q, w, t, i, heard) ==
  /\ \A k \in DOMAIN q : \E v \in heard : q[k] = GhostTo(v, w, t, i)
  /\ \A j, k \in DOMAIN q : q[j] = q[k] => j = k

\* The task in its iteration i, with the ghosts of these workers.
InIteration(n, t, i, cont, heard) ==
  n.tasks[t] = TaskOf(cont, i, Cardinality(heard), GhostsFrom(heard, t, i), TRUE)

\* A node that has nothing of the task s.
Without(n, s) == n.tasks[s] = None /\ \A c \in Cont : n.buffers[s][c] = <<>>

\* A node that has nothing but the task t, and nothing in its buffers but ghosts.
Only(n, t) ==
  /\ \A s \in Tid : s # t => Without(n, s)
  /\ n.buffers[t]["receive_max_error"] = <<>> /\ n.buffers[t]["receive_grid"] = <<>>

\* The task as it comes to round G, at w.
BeforeRound(n, w, t, G) ==
  IF G = 0 THEN n.tasks[t] = None
           ELSE InIteration(n, t, First + G, "receive_max_error", Neighbors(w))

\* w has not begun round G; what it has heard is in its buffer.
LateNode(n, w, t, G, heard) ==
  /\ Only(n, t)
  /\ BeforeRound(n, w, t, G)
  /\ Early(n.buffers[t]["receive_ghost"], w, t, First + G + 1, heard)

\* w is in round G, where it has heard these.
RunsRound(n, w, t, G, heard) ==
  InIteration(n, t, First + G + 1,
              IF heard = Neighbors(w) THEN "receive_max_error" ELSE "receive_ghost", heard)
OnNode(n, w, t, G, heard) ==
  /\ Only(n, t)
  /\ n.buffers[t]["receive_ghost"] = <<>>
  /\ RunsRound(n, w, t, G, heard)

\* w has done its rounds.
OverNode(n, w, t) ==
  /\ Only(n, t)
  /\ n.buffers[t]["receive_ghost"] = <<>>
  /\ IF w = 0 THEN \E heard \in {{}, Neighbors(0)} :
                     InIteration(n, t, First + Rounds, "receive_grid", heard)
              ELSE n.tasks[t] = None

\* What lets w begin round G of t: the task, or the result of the last reduction.
StartOf(w, t, G, k) ==
  IF G = 0 THEN [kind |-> "create", to |-> w, tid |-> t]
  ELSE [kind |-> "resume", to |-> w, cont |-> "receive_max_error",
        parts |-> {<<t, v, k>> : v \in Worker}, tid |-> t]
GridMsg(t, k) ==
  [kind |-> "resume", to |-> 0, cont |-> "receive_grid",
   parts |-> {<<t, v, k>> : v \in Worker}, tid |-> t]

\* The workers in `on' are in round G of the task t, the others are not yet.
Exchanging(hist, t, G, on, heard) ==
  /\ last_task = t + 1 /\ G < Rounds
  /\ \A w \in Worker : heard[w] \in SUBSET (Neighbors(w) \cap on)
  /\ \A w \in Worker \ on :
       /\ LateNode(node[w], w, t, G, heard[w])
       /\ contribs[w] = hist /\ node[w].begun = Done(t) + G
  /\ \A w \in on :
       /\ OnNode(node[w], w, t, G, heard[w])
       /\ contribs[w] = IF heard[w] = Neighbors(w) THEN Append(hist, ErrorOf(t)) ELSE hist
       /\ node[w].begun = Done(t) + G + 1
  /\ \A m \in net :
       \/ \E w \in Worker \ on : m = StartOf(w, t, G, reduced)
       \/ \E w \in Worker : \E v \in (Neighbors(w) \cap on) \ heard[w] :
            m = GhostTo(v, w, t, First + G + 1)
  /\ \A g \in grids : g[1] < t

\* All rounds are over; the workers in `on' have contributed their grid.
Ending(hist, t, on) ==
  /\ last_task = t + 1
  /\ \A w \in Worker \ on : LateNode(node[w], w, t, Rounds, {}) /\ contribs[w] = hist
  /\ \A w \in on : OverNode(node[w], w, t) /\ contribs[w] = Append(hist, GridFor(t))
  /\ \A w \in Worker : node[w].begun = Done(last_task)
  /\ \A m \in net : \E w \in Worker \ on : m = StartOf(w, t, Rounds, reduced)
  /\ \A g \in grids : g[1] < t

\* The grids are on their way to worker 0.
Closing(hist, t) ==
  /\ last_task = t + 1
  /\ \A w \in Worker : OverNode(node[w], w, t) /\ contribs[w] = hist
  /\ \A w \in Worker : node[w].begun = Done(last_task)
  /\ net \in SUBSET {GridMsg(t, reduced)}
  /\ \A g \in grids : g[1] < t

\* There is no task.
Idle(hist) ==
  /\ \A w \in Worker : (\A t \in Tid : Without(node[w], t)) /\ contribs[w] = hist
  /\ \A w \in Worker : node[w].begun = Done(last_task)
  /\ net = {}
  /\ \A g \in grids : g[1] < last_task

InStep(hist) ==
  \/ \E t \in Tid, G \in Nat, on \in SUBSET Worker, heard \in [Worker -> SUBSET Worker] :
       Exchanging(hist, t, G, on, heard)
  \/ \E t \in Tid, on \in SUBSET Worker : Ending(hist, t, on)
  \/ \E t \in Tid : Closing(hist, t)
  \/ Idle(hist)

-----------------------------------------------------------------------------
\* Counting ghosts.

\* A worker has neighbours, and finitely many.
LEMMA NeighborCount ==
  ASSUME NEW w \in Worker
  PROVE  IsFiniteSet(Neighbors(w)) /\ Neighbors(w) # {} /\ Neighbors(w) \in SUBSET Worker
<1>1. Worker = 0..(N - 1) /\ N \in Nat /\ N > 1
  BY WorkgroupAssumption DEF Worker
<1>2. IsFiniteSet(Worker)
  BY <1>1, FS_Interval
<1>3. Neighbors(w) \in SUBSET Worker
  BY DEF Neighbors
<1>4. Neighbors(w) # {}
  <2>1. CASE w = 0
    <3>1. 1 \in Neighbors(w)
      BY <1>1, <2>1 DEF Neighbors
    <3>. QED
      BY <3>1
  <2>2. CASE w # 0
    <3>1. w - 1 \in Neighbors(w)
      BY <1>1, <2>2 DEF Neighbors
    <3>. QED
      BY <3>1
  <2>. QED
    BY <2>1, <2>2
<1>. QED
  BY <1>2, <1>3, <1>4, FS_Subset

\* All neighbours are heard when as many are heard as there are.
LEMMA HeardCount ==
  ASSUME NEW w \in Worker, NEW heard \in SUBSET Neighbors(w)
  PROVE  /\ Cardinality(heard) \in Nat
         /\ Cardinality(heard) >= Cardinality(Neighbors(w)) <=> heard = Neighbors(w)
         /\ \A v \in Neighbors(w) \ heard : Cardinality(heard \cup {v}) = Cardinality(heard) + 1
<1>1. IsFiniteSet(Neighbors(w)) /\ IsFiniteSet(heard)
  BY NeighborCount, FS_Subset
<1>2. Cardinality(Neighbors(w)) \in Nat /\ Cardinality(heard) \in Nat
  BY <1>1, FS_CardinalityType
<1>3. Cardinality(heard) <= Cardinality(Neighbors(w))
      /\ (Cardinality(Neighbors(w)) = Cardinality(heard) => Neighbors(w) = heard)
  BY <1>1, FS_Subset
<1>4. ASSUME NEW v \in Neighbors(w) \ heard
      PROVE  Cardinality(heard \cup {v}) = Cardinality(heard) + 1
  BY <1>1, FS_AddElement
<1>. QED
  BY <1>2, <1>3, <1>4

\* A worker that is heard is one ghost.
LEMMA GhostCount ==
  ASSUME NEW heard, IsFiniteSet(heard), NEW t, NEW i
  PROVE  IsFiniteSet(GhostsFrom(heard, t, i))
         /\ Cardinality(GhostsFrom(heard, t, i)) = Cardinality(heard)
<1>. DEFINE S == GhostsFrom(heard, t, i)
            f == [v \in heard |-> <<t, v, i>>]
<1>1. f \in [heard -> S]
  BY DEF GhostsFrom
<1>2. \A u, v \in heard : f[u] = f[v] => u = v
  OBVIOUS
<1>3. \A g \in S : \E v \in heard : f[v] = g
  BY DEF GhostsFrom
<1>. HIDE DEF f, S
<1>4. f \in Bijection(heard, S)
  BY <1>1, <1>2, <1>3 DEF Bijection, Injection, Surjection, IsInjective
<1>5. ExistsBijection(heard, S)
  BY <1>4 DEF ExistsBijection
<1>6. IsFiniteSet(S) /\ Cardinality(S) = Cardinality(heard)
  BY <1>5, FS_Bijection
<1>. QED
  BY <1>6 DEF S

LEMMA GhostSets ==
  ASSUME NEW heard, NEW t, NEW i
  PROVE  /\ GhostsFrom({}, t, i) = {}
         /\ \A v : GhostsFrom(heard \cup {v}, t, i) = GhostsFrom(heard, t, i) \cup {<<t, v, i>>}
         /\ t \in Tid /\ i \in Nat /\ heard \in SUBSET Worker
              => GhostsFrom(heard, t, i) \in SUBSET Part
BY DEF GhostsFrom, Part

\* Numbers of iterations; and worker 0 exists.
LEMMA FirstType == First \in Nat /\ Rounds \in Nat /\ 0 \in Worker
<1>1. 0 \in Worker
  BY WorkgroupAssumption DEF Worker
<1>. QED
  BY <1>1, WorkgroupAssumption DEF First, Rounds

-----------------------------------------------------------------------------
\* Ghosts that came early.

\* Ghosts of different workers differ.
LEMMA GhostsDiffer ==
  ASSUME NEW u, NEW v, NEW w, NEW x, NEW t, NEW i, GhostTo(u, w, t, i) = GhostTo(v, x, t, i)
  PROVE  u = v /\ w = x
<1>1. GhostTo(u, w, t, i).parts = {<<t, u, i>>} /\ GhostTo(u, w, t, i).to = w
      /\ GhostTo(v, x, t, i).parts = {<<t, v, i>>} /\ GhostTo(v, x, t, i).to = x
  BY DEF GhostTo
<1>2. <<t, u, i>> \in {<<t, v, i>>} /\ w = x
  BY <1>1
<1>3. <<t, u, i>>[2] = <<t, v, i>>[2]
  BY <1>2
<1>. QED
  BY <1>2, <1>3

\* Another early ghost is added to the buffer ...
LEMMA EarlyMore ==
  ASSUME NEW q \in Seq(ResumeMsg), NEW w, NEW t, NEW i, NEW heard, NEW v, v \notin heard,
         GhostTo(v, w, t, i) \in ResumeMsg, Early(q, w, t, i, heard)
  PROVE  Early(Append(q, GhostTo(v, w, t, i)), w, t, i, heard \cup {v})
<1>. DEFINE p == GhostTo(v, w, t, i)
            r == Append(q, p)
<1>1. \A u \in heard : GhostTo(u, w, t, i) # p
  BY GhostsDiffer
<1>2. \A k \in DOMAIN q : q[k] # p
  BY <1>1 DEF Early
<1>. HIDE DEF p
<1>3. /\ DOMAIN r = 1..(Len(q) + 1) /\ DOMAIN q = 1..Len(q) /\ Len(q) \in Nat
      /\ \A k \in DOMAIN q : r[k] = q[k]
      /\ r[Len(q) + 1] = p
  BY DEF p
<1>. HIDE DEF r
<1>4. \A k \in DOMAIN r : k \in DOMAIN q \/ k = Len(q) + 1
  BY <1>3
<1>5. \A k \in DOMAIN r : \E u \in heard \cup {v} : r[k] = GhostTo(u, w, t, i)
  BY <1>3, <1>4 DEF Early, p
<1>6. ASSUME NEW j \in DOMAIN r, NEW k \in DOMAIN r, r[j] = r[k]
      PROVE  j = k
  <2>1. CASE j \in DOMAIN q /\ k \in DOMAIN q
    BY <1>3, <1>6, <2>1 DEF Early
  <2>2. CASE j \in DOMAIN q /\ k = Len(q) + 1
    BY <1>2, <1>3, <1>6, <2>2
  <2>3. CASE j = Len(q) + 1 /\ k \in DOMAIN q
    BY <1>2, <1>3, <1>6, <2>3
  <2>4. CASE j = Len(q) + 1 /\ k = Len(q) + 1
    BY <2>4
  <2>. QED
    BY <1>4, <2>1, <2>2, <2>3, <2>4
<1>7. Early(r, w, t, i, heard \cup {v})
  BY <1>5, <1>6 DEF Early
<1>. QED
  BY <1>7 DEF r, p

\* ... and the first is taken from it.
LEMMA EarlyFirst ==
  ASSUME NEW q \in Seq(ResumeMsg), q # <<>>, NEW w, NEW t, NEW i, NEW heard,
         Early(q, w, t, i, heard)
  PROVE  \E v \in heard : /\ Head(q) = GhostTo(v, w, t, i)
                          /\ Early(Tail(q), w, t, i, heard \ {v})
<1>1. /\ Len(q) \in Nat \ {0} /\ DOMAIN q = 1..Len(q) /\ Head(q) = q[1]
      /\ DOMAIN Tail(q) = 1..(Len(q) - 1)
      /\ \A k \in 1..(Len(q) - 1) : Tail(q)[k] = q[k + 1]
  OBVIOUS
<1>2. PICK v \in heard : q[1] = GhostTo(v, w, t, i)
  BY <1>1 DEF Early
<1>. DEFINE r == Tail(q)
<1>3. ASSUME NEW k \in DOMAIN r
      PROVE  k + 1 \in DOMAIN q /\ k + 1 # 1 /\ r[k] = q[k + 1]
  BY <1>1
<1>. HIDE DEF r
<1>4. ASSUME NEW k \in DOMAIN r
      PROVE  \E u \in heard \ {v} : r[k] = GhostTo(u, w, t, i)
  <2>1. k + 1 \in DOMAIN q /\ k + 1 # 1 /\ r[k] = q[k + 1] /\ 1 \in DOMAIN q
    BY <1>1, <1>3
  <2>2. PICK u \in heard : q[k + 1] = GhostTo(u, w, t, i)
    BY <2>1 DEF Early
  <2>3. q[k + 1] # q[1]
    BY <2>1 DEF Early
  <2>4. u # v
    BY <1>2, <2>2, <2>3
  <2>. QED
    BY <2>1, <2>2, <2>4
<1>5. ASSUME NEW j \in DOMAIN r, NEW k \in DOMAIN r, r[j] = r[k]
      PROVE  j = k
  <2>1. j + 1 \in DOMAIN q /\ k + 1 \in DOMAIN q /\ q[j + 1] = q[k + 1]
    BY <1>3, <1>5
  <2>2. j + 1 = k + 1
    BY <2>1 DEF Early
  <2>3. j \in Int /\ k \in Int
    BY <1>1 DEF r
  <2>. QED
    BY <2>2, <2>3
<1>6. Early(r, w, t, i, heard \ {v})
  BY <1>4, <1>5 DEF Early
<1>. QED
  BY <1>1, <1>2, <1>6 DEF r

LEMMA EarlyNone ==
  ASSUME NEW w, NEW t, NEW i
  PROVE  /\ \A heard : Early(<<>>, w, t, i, heard)
         /\ \A q \in Seq(ResumeMsg) : Early(q, w, t, i, {}) => q = <<>>
<1>1. ASSUME NEW q \in Seq(ResumeMsg), Early(q, w, t, i, {})
      PROVE  q = <<>>
  <2>1. DOMAIN q = {} /\ DOMAIN q = 1..Len(q) /\ Len(q) \in Nat
    BY <1>1 DEF Early
  <2>2. Len(q) = 0
    BY <2>1
  <2>. QED
    BY <2>2
<1>2. ASSUME NEW heard
      PROVE  Early(<<>>, w, t, i, heard)
  BY DEF Early
<1>. QED
  BY <1>1, <1>2

-----------------------------------------------------------------------------
\* What the handlers do to a node in lockstep.

LEMMA Handled ==
  ASSUME NEW n, NEW t, n.tasks[t].active
  PROVE  Discard(n, t) = n
BY DEF Discard

\* A ghost for which w waits.
GhostTaken(n, m, w, t, G, heard, v) ==
  /\ m \in Nodes /\ m.buffers = n.buffers
  /\ \A s \in Tid : s # t => m.tasks[s] = n.tasks[s]
  /\ RunsRound(m, w, t, G, heard \cup {v})
  /\ m.sends = n.sends /\ m.begun = n.begun /\ m.grid = n.grid
  /\ m.adds = IF heard \cup {v} = Neighbors(w) THEN Append(n.adds, ErrorOf(t)) ELSE n.adds

\* receive_ghost() counts the ghost, and contributes when it was the last.
LEMMA TakesGhost ==
  ASSUME NEW t \in Tid, NEW w \in Worker, NEW G \in Nat, NEW n \in Nodes,
         NEW heard \in SUBSET Neighbors(w), NEW v \in Neighbors(w) \ heard,
         RunsRound(n, w, t, G, heard)
  PROVE  /\ GhostTo(v, w, t, First + G + 1) \in ResumeMsg
         /\ Accepts(n, t, GhostTo(v, w, t, First + G + 1))
         /\ GhostTaken(n, Invoke(n, w, t, GhostTo(v, w, t, First + G + 1)), w, t, G, heard, v)
<1>. DEFINE i == First + G + 1
            p == GhostTo(v, w, t, i)
            m == [n EXCEPT !.active = t]
            c == Continuation(m, w, t, p)
            old == TaskOf("receive_ghost", i, Cardinality(heard), GhostsFrom(heard, t, i), TRUE)
            r == Cardinality(heard) + 1
            g == GhostsFrom(heard, t, i) \cup p.parts
            all == heard \cup {v}
            new(k) == TaskOf(k, i, r, g, TRUE)
            adds == Append(n.adds, ErrorOf(t))
<1>1. i \in Nat /\ v \in Worker /\ heard \in SUBSET Worker /\ heard # Neighbors(w)
      /\ Neighbors(w) \in SUBSET Worker
  BY FirstType, NeighborCount
<1>2. p \in ResumeMsg
  <2>1. GhostsOf(v, t, i) \in SUBSET ResumeMsg
    BY <1>1, GhostType
  <2>2. w \in Neighbors(v)
    BY <1>1, WorkgroupAssumption DEF Neighbors, Worker
  <2>. QED
    BY <2>1, <2>2 DEF GhostsOf
<1>3. p.parts = {<<t, v, i>>} /\ p.cont = "receive_ghost"
  BY DEF GhostTo
<1>. HIDE DEF i, p
<1>4. n.tasks[t] = old
  BY <1>1 DEF RunsRound, InIteration, i
<1>5. n \in NodeT /\ Waiting(n)
  BY DEF Nodes
<1>6. Cardinality(heard) \in Nat /\ GhostsFrom(heard, t, i) \in SUBSET Part
  BY <1>1, HeardCount, GhostSets
<1>7. old \in Task /\ old # None
  <2>1. "receive_ghost" \in Cont \cup {None} /\ TRUE \in BOOLEAN
    BY ContNames
  <2>2. old \in Task
    BY <1>1, <1>6, <2>1, TaskOfType
  <2>. QED
    BY <2>2, NoneAssumption
<1>8. old.cont = "receive_ghost" /\ old.it = i /\ old.nRecvd = Cardinality(heard)
      /\ old.ghosts = GhostsFrom(heard, t, i) /\ old.active = TRUE
  BY DEF TaskOf
<1>. HIDE DEF old
<1>9. Accepts(n, t, p)
  BY <1>3, <1>4, <1>7, <1>8 DEF Accepts
<1>10. /\ m \in RunningT(t) /\ m.tasks = n.tasks /\ m.buffers = n.buffers
       /\ m.begun = n.begun /\ m.sends = n.sends /\ m.adds = n.adds /\ m.grid = n.grid
  BY <1>4, <1>5, <1>7, Activates
<1>11. Invoke(n, w, t, p) = Discard(c, t)
  BY DEF Invoke
<1>. HIDE DEF m
<1>12. Continuation(m, w, t, p) = ReceiveGhost(m, w, t, p)
  BY <1>4, <1>8, <1>10 DEF Continuation
<1>13. c = IF r >= Cardinality(Neighbors(w))
           THEN Ran(m, t, new("receive_max_error"), n.begun, n.sends, adds, n.grid)
           ELSE Ran(m, t, new("receive_ghost"), n.begun, n.sends, n.adds, n.grid)
  <2>. DEFINE k == m.tasks[t]
  <2>1. LET r1 == k.nRecvd + 1
            g1 == k.ghosts \cup p.parts
        IN  ReceiveGhost(m, w, t, p)
              = IF r1 >= Cardinality(Neighbors(w))
                THEN Ran(m, t, TaskOf("receive_max_error", k.it, r1, g1, k.active),
                         m.begun, m.sends,
                         Append(m.adds, [tid |-> t, cont |-> "receive_max_error"]), m.grid)
                ELSE Ran(m, t, TaskOf("receive_ghost", k.it, r1, g1, k.active),
                         m.begun, m.sends, m.adds, m.grid)
    BY <1>2, <1>10, GhostReceived
  <2>2. k = old
    BY <1>4, <1>10
  <2>. HIDE DEF k
  <2>3. /\ k.nRecvd + 1 = r /\ k.ghosts \cup p.parts = g /\ k.it = i /\ k.active = TRUE
        /\ Append(m.adds, [tid |-> t, cont |-> "receive_max_error"]) = adds
    BY <1>8, <1>10, <2>2 DEF ErrorOf
  <2>. HIDE DEF r, g, adds
  <2>4. ReceiveGhost(m, w, t, p)
          = IF r >= Cardinality(Neighbors(w))
            THEN Ran(m, t, new("receive_max_error"), m.begun, m.sends, adds, m.grid)
            ELSE Ran(m, t, new("receive_ghost"), m.begun, m.sends, m.adds, m.grid)
    BY <2>1, <2>3
  <2>. QED
    BY <1>10, <1>12, <2>4
<1>14. r = Cardinality(all) /\ g = GhostsFrom(all, t, i)
       /\ (r >= Cardinality(Neighbors(w)) <=> all = Neighbors(w))
  <2>1. r = Cardinality(all)
    BY HeardCount
  <2>2. all \in SUBSET Neighbors(w)
    OBVIOUS
  <2>3. Cardinality(all) >= Cardinality(Neighbors(w)) <=> all = Neighbors(w)
    BY <2>2, HeardCount
  <2>4. g = GhostsFrom(all, t, i)
    <3>1. GhostsFrom(all, t, i) = GhostsFrom(heard, t, i) \cup {<<t, v, i>>}
      BY DEF GhostsFrom
    <3>. QED
      BY <1>3, <3>1
  <2>. QED
    BY <2>1, <2>3, <2>4
<1>. DEFINE cont == IF all = Neighbors(w) THEN "receive_max_error" ELSE "receive_ghost"
            with == IF all = Neighbors(w) THEN adds ELSE n.adds
<1>15. c = Ran(m, t, new(cont), n.begun, n.sends, with, n.grid)
  BY <1>13, <1>14
<1>16. new(cont) = TaskOf(cont, i, Cardinality(all), GhostsFrom(all, t, i), TRUE)
  BY <1>14
<1>. HIDE DEF r, g, c
<1>17. c.tasks[t] = new(cont) /\ c.buffers = n.buffers
  <2>1. m \in NodeT
    BY <1>10 DEF RunningT
  <2>. HIDE DEF new, cont, with
  <2>2. c.tasks[t] = new(cont)
    BY <1>15, <2>1 DEF Ran, NodeT, Tasks
  <2>3. c.buffers = m.buffers
    BY <1>15 DEF Ran
  <2>. QED
    BY <1>10, <2>2, <2>3
<1>18. c.sends = n.sends /\ c.begun = n.begun /\ c.grid = n.grid /\ c.adds = with
  <2>. HIDE DEF new, cont, with
  <2>. QED
    BY <1>15 DEF Ran
<1>19. c.tasks[t].active
  BY <1>17 DEF TaskOf
<1>20. Invoke(n, w, t, p) = c
  BY <1>11, <1>19, Handled
<1>21. RunsRound(c, w, t, G, all)
  BY <1>16, <1>17 DEF RunsRound, InIteration, i
<1>22. c \in After(n, t)
  <2>1. n.tasks[t].cont \in Cont
    BY <1>4, <1>8, ContNames
  <2>. QED
    BY <1>2, <1>4, <1>5, <1>7, <1>20, <2>1, InvokesTo
<1>23. c \in Nodes
  BY <1>22, AfterIsBut
<1>24. \A s \in Tid : s # t => c.tasks[s] = n.tasks[s]
  BY <1>22 DEF After
<1>25. GhostTaken(n, c, w, t, G, heard, v)
  BY <1>17, <1>18, <1>21, <1>23, <1>24 DEF GhostTaken
<1>. QED
  BY <1>2, <1>9, <1>20, <1>25 DEF p, i

-----------------------------------------------------------------------------
\* While try_continue_() hands the early ghosts to the task.

Draining(w, t, G, sends, begun, adds, heard) ==
  {m \in Nodes :
     /\ Only(m, t) /\ m.sends = sends /\ m.begun = begun /\ m.grid = {}
     /\ \E got, early \in SUBSET heard :
          /\ got \cap early = {}
          /\ Early(m.buffers[t]["receive_ghost"], w, t, First + G + 1, early)
          /\ RunsRound(m, w, t, G, got)
          /\ m.adds = IF got = Neighbors(w) THEN Append(adds, ErrorOf(t)) ELSE adds}

\* What the task waits for.
LEMMA RunningTask ==
  ASSUME NEW n, NEW w, NEW t, NEW G \in Nat, NEW got, RunsRound(n, w, t, G, got)
  PROVE  n.tasks[t].cont = IF got = Neighbors(w) THEN "receive_max_error" ELSE "receive_ghost"
BY DEF RunsRound, InIteration, TaskOf

\* One round of try_continue_() hands over one early ghost.
LEMMA DrainOnce ==
  ASSUME NEW t \in Tid, NEW w \in Worker, NEW G \in Nat, NEW sends, NEW begun, NEW adds,
         NEW heard \in SUBSET Neighbors(w), NEW m \in Draining(w, t, G, sends, begun, adds, heard)
  PROVE  ContinueOnce(m, w, t) \in Draining(w, t, G, sends, begun, adds, heard)
<1>. DEFINE i == First + G + 1
            q == m.buffers[t]["receive_ghost"]
<1>1. m \in Nodes /\ Only(m, t) /\ m.sends = sends /\ m.begun = begun /\ m.grid = {}
  BY DEF Draining
<1>2. PICK got, early \in SUBSET heard :
          /\ got \cap early = {}
          /\ Early(q, w, t, i, early)
          /\ RunsRound(m, w, t, G, got)
          /\ m.adds = IF got = Neighbors(w) THEN Append(adds, ErrorOf(t)) ELSE adds
  BY DEF Draining
<1>3. CASE Quiet(m, t)
  BY <1>1, <1>3, ContinuesOnce
<1>4. CASE ~ Quiet(m, t)
  <2>1. m.tasks[t].cont = IF got = Neighbors(w) THEN "receive_max_error" ELSE "receive_ghost"
    BY <1>2, RunningTask
  <2>2. m.tasks[t] # None /\ m.buffers[t][m.tasks[t].cont] # <<>>
    BY <1>4 DEF Quiet
  <2>3. got # Neighbors(w) /\ m.tasks[t].cont = "receive_ghost" /\ q # <<>>
    BY <1>1, <2>1, <2>2 DEF Only
  <2>4. q \in Seq(ResumeMsg)
    BY <1>1, ContNames DEF Nodes, NodeT, Buffers
  <2>5. PICK v \in early : Head(q) = GhostTo(v, w, t, i) /\ Early(Tail(q), w, t, i, early \ {v})
    BY <1>2, <2>3, <2>4, EarlyFirst
  <2>. DEFINE k == Invoke(m, w, t, GhostTo(v, w, t, i))
              c == ContinueOnce(m, w, t)
  <2>6. got \in SUBSET Neighbors(w) /\ v \in Neighbors(w) \ got
    BY <1>2
  <2>7. GhostTaken(m, k, w, t, G, got, v)
    BY <1>1, <1>2, <2>6, TakesGhost
  <2>8. c = [k EXCEPT !.buffers[t]["receive_ghost"] = Tail(@)]
    BY <2>2, <2>3, <2>5 DEF ContinueOnce
  <2>9. c \in Nodes
    BY <1>1, ContinuesOnce
  <2>. HIDE DEF k, c, q, i
  <2>10. k \in NodeT
    BY <2>7 DEF GhostTaken, Nodes
  <2>11. c.tasks = k.tasks /\ c.sends = k.sends /\ c.begun = k.begun /\ c.grid = k.grid
         /\ c.adds = k.adds
    BY <2>8, <2>10 DEF NodeT
  <2>12. k.buffers = m.buffers /\ m.buffers \in Buffers
    BY <1>1, <2>7 DEF GhostTaken, Nodes, NodeT
  <2>13. /\ c.buffers[t]["receive_ghost"] = Tail(q)
         /\ c.buffers[t]["receive_max_error"] = m.buffers[t]["receive_max_error"]
         /\ c.buffers[t]["receive_grid"] = m.buffers[t]["receive_grid"]
         /\ \A s \in Tid : s # t => c.buffers[s] = m.buffers[s]
    <3>. DEFINE b == [m.buffers EXCEPT ![t] = [m.buffers[t] EXCEPT !["receive_ghost"] = Tail(q)]]
    <3>1. c = [k EXCEPT !.buffers = b]
      BY <2>8, <2>12 DEF q
    <3>2. c.buffers = b
      BY <2>10, <3>1 DEF NodeT
    <3>. QED
      BY <2>12, <3>2, ContNames DEF Buffers
  <2>14. Only(c, t)
    <3>1. \A s \in Tid : s # t => c.tasks[s] = m.tasks[s] /\ c.buffers[s] = m.buffers[s]
      BY <2>7, <2>11, <2>13 DEF GhostTaken
    <3>. QED
      BY <1>1, <2>13, <3>1 DEF Only, Without
  <2>15. RunsRound(c, w, t, G, got \cup {v})
    BY <2>7, <2>11 DEF GhostTaken, RunsRound, InIteration
  <2>16. c.adds = IF got \cup {v} = Neighbors(w) THEN Append(adds, ErrorOf(t)) ELSE adds
    BY <1>2, <2>3, <2>7, <2>11 DEF GhostTaken
  <2>17. c.sends = sends /\ c.begun = begun /\ c.grid = {}
    BY <1>1, <2>7, <2>11 DEF GhostTaken
  <2>18. /\ got \cup {v} \in SUBSET heard /\ early \ {v} \in SUBSET heard
         /\ (got \cup {v}) \cap (early \ {v}) = {}
    BY <1>2, <2>5
  <2>19. Early(c.buffers[t]["receive_ghost"], w, t, i, early \ {v})
    BY <2>5, <2>13
  <2>20. c \in Draining(w, t, G, sends, begun, adds, heard)
    BY <2>9, <2>14, <2>15, <2>16, <2>17, <2>18, <2>19 DEF Draining, i
  <2>. QED
    BY <2>20 DEF c
<1>. QED
  BY <1>3, <1>4

\* w has begun the round, and has taken the ghosts that came early.
Ready(m, w, t, G, sends, begun, adds, heard) ==
  /\ m \in Nodes /\ m.sends = sends /\ m.begun = begun /\ m.grid = {}
  /\ \E got \in SUBSET heard :
       /\ OnNode(m, w, t, G, got)
       /\ m.adds = IF got = Neighbors(w) THEN Append(adds, ErrorOf(t)) ELSE adds

\* At the end no early ghost is left.
LEMMA Drained ==
  ASSUME NEW t \in Tid, NEW w \in Worker, NEW G \in Nat, NEW sends, NEW begun, NEW adds,
         NEW heard \in SUBSET Neighbors(w), NEW n \in Draining(w, t, G, sends, begun, adds, heard)
  PROVE  Ready(TryContinue(n, w, t), w, t, G, sends, begun, adds, heard)
<1>. DEFINE S == Draining(w, t, G, sends, begun, adds, heard)
            m == TryContinue(n, w, t)
            q == m.buffers[t]["receive_ghost"]
<1>1. S \in SUBSET Nodes
  BY DEF Draining
<1>2. \A k \in S : ContinueOnce(k, w, t) \in S
  BY DrainOnce
<1>. HIDE DEF S
<1>3. m \in S /\ Quiet(m, t)
  BY <1>1, <1>2, TriesToTheEnd DEF S
<1>. HIDE DEF m
<1>4. m \in Nodes /\ Only(m, t) /\ m.sends = sends /\ m.begun = begun /\ m.grid = {}
  BY <1>3 DEF S, Draining
<1>5. PICK got, early \in SUBSET heard :
          /\ got \cap early = {}
          /\ Early(q, w, t, First + G + 1, early)
          /\ RunsRound(m, w, t, G, got)
          /\ m.adds = IF got = Neighbors(w) THEN Append(adds, ErrorOf(t)) ELSE adds
  BY <1>3 DEF S, Draining
<1>6. q \in Seq(ResumeMsg)
  BY <1>4, ContNames DEF Nodes, NodeT, Buffers
<1>7. q = <<>>
  <2>1. CASE got = Neighbors(w)
    <3>1. early = {}
      BY <1>5, <2>1
    <3>. HIDE DEF q
    <3>. QED
      BY <1>5, <1>6, <3>1, EarlyNone
  <2>2. CASE got # Neighbors(w)
    <3>1. m.tasks[t].cont = "receive_ghost"
      BY <1>5, <2>2, RunningTask
    <3>2. m.tasks[t] # None
      <4>1. m.tasks[t] = TaskOf("receive_ghost", First + G + 1, Cardinality(got),
                                GhostsFrom(got, t, First + G + 1), TRUE)
        BY <1>5, <2>2 DEF RunsRound, InIteration
      <4>2. got \in SUBSET Neighbors(w) /\ got \in SUBSET Worker
        BY <1>5, NeighborCount
      <4>3. Cardinality(got) \in Nat /\ First + G + 1 \in Nat
        BY <4>2, HeardCount, FirstType
      <4>4. /\ GhostsFrom(got, t, First + G + 1) \in SUBSET Part
            /\ "receive_ghost" \in Cont \cup {None} /\ TRUE \in BOOLEAN
        BY <4>2, <4>3, GhostSets, ContNames
      <4>5. m.tasks[t] \in Task
        BY <4>1, <4>3, <4>4, TaskOfType
      <4>. QED
        BY <4>5, NoneAssumption
    <3>. QED
      BY <1>3, <3>1, <3>2 DEF Quiet
  <2>. QED
    BY <2>1, <2>2
<1>8. OnNode(m, w, t, G, got)
  BY <1>4, <1>5, <1>7 DEF OnNode
<1>9. Ready(m, w, t, G, sends, begun, adds, heard)
  BY <1>4, <1>5, <1>8 DEF Ready
<1>. QED
  BY <1>9 DEF m

-----------------------------------------------------------------------------
\* A round begins, or all are over.

\* A node with nothing to send, contribute or report.
Clean(n) == n.sends = {} /\ n.adds = <<>> /\ n.grid = {}

\* The task t runs at the beginning of a round, or after the last one.
Begun(m, w, t, G, begun, heard) ==
  /\ m \in RunningT(t) /\ Clean(m) /\ m.begun = begun
  /\ \A s \in Tid : s # t => Without(m, s)
  /\ m.buffers[t]["receive_max_error"] = <<>> /\ m.buffers[t]["receive_grid"] = <<>>
  /\ Early(m.buffers[t]["receive_ghost"], w, t, First + G + 1, heard)
  /\ m.tasks[t].it = First + G /\ m.tasks[t].active = TRUE

\* The loop begins an iteration: ghosts are sent, and the early ones are taken.
LEMMA RoundBegins ==
  ASSUME NEW t \in Tid, NEW w \in Worker, NEW G \in Nat, G < Rounds, NEW begun \in Nat,
         NEW heard \in SUBSET Neighbors(w), NEW m, Begun(m, w, t, G, begun, heard)
  PROVE  LET k == Discard(ConvergeLoop(m, w, t), t)
         IN  Ready(TryContinue(k, w, t), w, t, G, GhostsOf(w, t, First + G + 1),
                   begun + 1, <<>>, heard)
<1>. DEFINE i == First + G + 1
            task == TaskOf("receive_ghost", i, 0, {}, TRUE)
            k == ConvergeLoop(m, w, t)
            sends == GhostsOf(w, t, i)
<1>1. First + G < MaxIters /\ i \in Nat /\ First + G + 1 = i
  BY FirstType, WorkgroupAssumption DEF Rounds
<1>2. /\ m \in RunningT(t) /\ m.sends = {} /\ m.adds = <<>> /\ m.grid = {} /\ m.begun = begun
      /\ \A s \in Tid : s # t => Without(m, s)
      /\ m.buffers[t]["receive_max_error"] = <<>> /\ m.buffers[t]["receive_grid"] = <<>>
      /\ Early(m.buffers[t]["receive_ghost"], w, t, i, heard)
      /\ m.tasks[t].it = First + G /\ m.tasks[t].active = TRUE
  BY DEF Begun, Clean
<1>. HIDE DEF i
<1>3. k = Ran(m, t, task, begun + 1, sends, <<>>, {})
  <2>1. k = Ran(m, t, TaskOf("receive_ghost", m.tasks[t].it + 1, 0, {}, m.tasks[t].active),
                m.begun + 1, m.sends \cup GhostsOf(w, t, m.tasks[t].it + 1), m.adds, m.grid)
    BY <1>1, <1>2, BeginsIteration
  <2>2. m.sends \cup GhostsOf(w, t, m.tasks[t].it + 1) = sends
    BY <1>1, <1>2
  <2>. HIDE DEF k
  <2>. QED
    BY <1>1, <1>2, <2>1, <2>2
<1>4. task \in Task /\ sends \in SUBSET ResumeMsg /\ begun + 1 \in Nat
  <2>1. "receive_ghost" \in Cont \cup {None} /\ {} \in SUBSET Part /\ TRUE \in BOOLEAN /\ 0 \in Nat
    BY ContNames
  <2>2. task \in Task
    BY <1>1, <2>1, TaskOfType
  <2>3. sends \in SUBSET ResumeMsg
    BY <1>1, GhostType
  <2>4. begun + 1 \in Nat
    OBVIOUS
  <2>. HIDE DEF task, sends
  <2>. QED
    BY <2>2, <2>3, <2>4
<1>5. task.active /\ task.cont = "receive_ghost"
  BY DEF TaskOf
<1>6. <<>> \in Seq(Contribution) /\ {} \in SUBSET (Tid \X Worker) /\ m \in NodeT
  BY <1>2 DEF RunningT
<1>. HIDE DEF k, sends
<1>7. k \in NodeT
  BY <1>3, <1>4, <1>6, RanType
<1>8. /\ k.tasks[t] = task /\ k.buffers = m.buffers
      /\ \A s \in Tid : s # t => k.tasks[s] = m.tasks[s]
      /\ k.begun = begun + 1 /\ k.sends = sends /\ k.adds = <<>> /\ k.grid = {}
  <2>. HIDE DEF task
  <2>. QED
    BY <1>3, <1>6, RanTasks
<1>9. Only(k, t)
  BY <1>2, <1>8 DEF Only, Without
<1>10. k \in Nodes
  <2>. HIDE DEF task
  <2>1. k.tasks[t].cont \in Cont /\ k.tasks[t].active
    BY <1>5, <1>8, ContNames
  <2>2. \A s \in Tid : s # t => k.tasks[s] = None
    BY <1>9 DEF Only, Without
  <2>. QED
    BY <1>7, <2>1, <2>2 DEF Nodes, Waiting
<1>11. RunsRound(k, w, t, G, {})
  <2>1. {} # Neighbors(w) /\ Cardinality({}) = 0 /\ GhostsFrom({}, t, i) = {}
    BY NeighborCount, FS_EmptySet DEF GhostsFrom
  <2>2. InIteration(k, t, i, "receive_ghost", {})
    BY <1>8, <2>1 DEF InIteration
  <2>. QED
    BY <2>1, <2>2 DEF RunsRound, i
<1>12. k \in Draining(w, t, G, sends, begun + 1, <<>>, heard)
  <2>1. Early(k.buffers[t]["receive_ghost"], w, t, First + G + 1, heard)
    BY <1>2, <1>8 DEF i
  <2>2. {} # Neighbors(w) /\ {} \in SUBSET heard /\ heard \in SUBSET heard /\ {} \cap heard = {}
    BY NeighborCount
  <2>. QED
    BY <1>8, <1>9, <1>10, <1>11, <2>1, <2>2 DEF Draining
<1>13. Discard(k, t) = k
  <2>1. k.tasks[t].active
    BY <1>5, <1>8
  <2>. QED
    BY <2>1, Handled
<1>14. Ready(TryContinue(k, w, t), w, t, G, sends, begun + 1, <<>>, heard)
  BY <1>12, Drained
<1>. QED
  BY <1>13, <1>14 DEF k, sends, i

\* Nothing is left to be tried.
LEMMA NothingToTry ==
  ASSUME NEW t \in Tid, NEW w \in Worker, NEW k \in Nodes, Quiet(k, t)
  PROVE  TryContinue(k, w, t) = k
<1>. DEFINE S == {k}
<1>1. S \in SUBSET Nodes /\ k \in S
  OBVIOUS
<1>2. ASSUME NEW m \in S
      PROVE  ContinueOnce(m, w, t) \in S
  <2>1. m = k
    OBVIOUS
  <2>2. ContinueOnce(k, w, t) = k
    BY ContinuesOnce
  <2>. QED
    BY <2>1, <2>2
<1>3. TryContinue(k, w, t) \in S
  <2>. HIDE DEF S
  <2>. QED
    BY <1>1, <1>2, TriesToTheEnd
<1>. QED
  BY <1>3

\* Suspending changes one field.
LEMMA ContChanged ==
  ASSUME NEW k \in Task, NEW c
  PROVE  [k EXCEPT !.cont = c] = TaskOf(c, k.it, k.nRecvd, k.ghosts, k.active)
BY DEF Task, TaskOf

\* An inactive task goes.
LEMMA Discarded ==
  ASSUME NEW t \in Tid, NEW k \in NodeT, ~ k.tasks[t].active, NEW m, m = Discard(k, t)
  PROVE  /\ m \in NodeT /\ m.tasks[t] = None /\ m.buffers = k.buffers
         /\ \A s \in Tid : s # t => m.tasks[s] = k.tasks[s]
         /\ m.begun = k.begun /\ m.sends = k.sends /\ m.adds = k.adds /\ m.grid = k.grid
<1>1. m = [k EXCEPT !.tasks = [k.tasks EXCEPT ![t] = None]]
  BY DEF Discard
<1>2. [k.tasks EXCEPT ![t] = None] \in Tasks
  BY DEF NodeT, Tasks
<1>. QED
  BY <1>1, <1>2 DEF NodeT, Tasks

\* The workers that w has heard when round G begins.
Heard(w, G) == IF G = 0 THEN {} ELSE Neighbors(w)

\* The loop is over: the grid is contributed, and all but worker 0 terminate.
LEMMA RoundsEnd ==
  ASSUME NEW t \in Tid, NEW w \in Worker, NEW begun \in Nat, NEW m,
         Begun(m, w, t, Rounds, begun, {}),
         m.tasks[t].nRecvd = Cardinality(Heard(w, Rounds)),
         m.tasks[t].ghosts = GhostsFrom(Heard(w, Rounds), t, First + Rounds),
         NEW h, h = TryContinue(Discard(ConvergeLoop(m, w, t), t), w, t)
  PROVE  /\ h \in Nodes /\ OverNode(h, w, t) /\ h.begun = begun /\ h.sends = {}
         /\ h.adds = <<GridFor(t)>> /\ h.grid = {}
<1>. DEFINE i == First + Rounds
            heard == Heard(w, Rounds)
            k == ConvergeLoop(m, w, t)
            d == Discard(k, t)
            ends == [m.tasks[t] EXCEPT !.cont = "receive_grid"]
            stops == [m.tasks[t] EXCEPT !.active = FALSE]
            task == IF w = 0 THEN ends ELSE stops
            over == TaskOf("receive_grid", i, Cardinality(heard), GhostsFrom(heard, t, i), TRUE)
<1>1. ~ (i < MaxIters) /\ i \in Nat
  BY FirstType, WorkgroupAssumption DEF Rounds
<1>2. /\ m \in RunningT(t) /\ m.sends = {} /\ m.adds = <<>> /\ m.grid = {} /\ m.begun = begun
      /\ \A s \in Tid : s # t => Without(m, s)
      /\ m.buffers[t]["receive_max_error"] = <<>> /\ m.buffers[t]["receive_grid"] = <<>>
      /\ Early(m.buffers[t]["receive_ghost"], w, t, i + 1, {})
      /\ m.tasks[t].it = i /\ m.tasks[t].active = TRUE
  BY DEF Begun, Clean
<1>3. m \in NodeT /\ m.tasks[t] \in Task
  BY <1>2 DEF RunningT
<1>. HIDE DEF i, heard
<1>4. ends = over
  <2>1. m.tasks[t].nRecvd = Cardinality(heard) /\ m.tasks[t].ghosts = GhostsFrom(heard, t, i)
    BY DEF i, heard
  <2>. DEFINE old == m.tasks[t]
  <2>2. ends = TaskOf("receive_grid", old.it, old.nRecvd, old.ghosts, old.active)
    BY <1>3, ContChanged
  <2>3. old.it = i /\ old.nRecvd = Cardinality(heard) /\ old.ghosts = GhostsFrom(heard, t, i)
        /\ old.active = TRUE
    BY <1>2, <2>1
  <2>. HIDE DEF old, ends
  <2>. QED
    BY <2>2, <2>3
<1>5. k = Ran(m, t, task, begun, {}, <<GridFor(t)>>, {})
  <2>1. k = Ran(m, t, task, m.begun, m.sends, Append(m.adds, GridFor(t)), m.grid)
    BY <1>1, <1>2, EndsIterations DEF GridFor
  <2>2. Append(<<>>, GridFor(t)) = <<GridFor(t)>>
    OBVIOUS
  <2>. HIDE DEF k, task
  <2>. QED
    BY <1>2, <2>1, <2>2
<1>. HIDE DEF k
<1>6. /\ k.tasks[t] = task /\ k.buffers = m.buffers
      /\ \A s \in Tid : s # t => k.tasks[s] = m.tasks[s]
      /\ k.begun = begun /\ k.sends = {} /\ k.adds = <<GridFor(t)>> /\ k.grid = {}
  <2>. HIDE DEF task
  <2>. QED
    BY <1>3, <1>5, RanTasks
<1>7. m.buffers[t]["receive_ghost"] = <<>>
  <2>1. m.buffers[t]["receive_ghost"] \in Seq(ResumeMsg)
    BY <1>3, ContNames DEF NodeT, Buffers
  <2>. QED
    BY <1>2, <2>1, EarlyNone
<1>8. task \in Task /\ k \in NodeT
  <2>1. ends \in Task
    BY <1>3, ContNames DEF Task
  <2>2. stops \in Task
    BY <1>3, TaskDeactivated
  <2>3. task \in Task
    BY <2>1, <2>2
  <2>4. {} \in SUBSET ResumeMsg /\ {} \in SUBSET (Tid \X Worker)
    OBVIOUS
  <2>5. <<GridFor(t)>> \in Seq(Contribution)
    BY ContNames DEF GridFor, Contribution
  <2>. HIDE DEF task
  <2>. QED
    BY <1>3, <1>5, <2>3, <2>4, <2>5, RanType
<1>9. /\ d \in NodeT /\ d.buffers = m.buffers
      /\ \A s \in Tid : s # t => d.tasks[s] = m.tasks[s]
      /\ d.begun = begun /\ d.sends = {} /\ d.adds = <<GridFor(t)>> /\ d.grid = {}
      /\ w = 0 => d.tasks[t] = over
      /\ w # 0 => d.tasks[t] = None
  <2>1. CASE w = 0
    <3>1. k.tasks[t] = over /\ over.active
      BY <1>4, <1>6, <2>1 DEF TaskOf
    <3>2. k.tasks[t].active
      BY <3>1
    <3>3. d = k
      BY <3>2, Handled
    <3>. HIDE DEF d, over
    <3>. QED
      BY <1>6, <1>8, <2>1, <3>1, <3>3
  <2>2. CASE w # 0
    <3>1. ~ k.tasks[t].active
      <4>1. ~ stops.active
        BY <1>3, TaskDeactivated
      <4>2. k.tasks[t] = stops
        BY <1>6, <2>2
      <4>. HIDE DEF stops
      <4>. QED
        BY <4>1, <4>2
    <3>2. /\ d \in NodeT /\ d.tasks[t] = None /\ d.buffers = k.buffers
          /\ \A s \in Tid : s # t => d.tasks[s] = k.tasks[s]
          /\ d.begun = k.begun /\ d.sends = k.sends /\ d.adds = k.adds /\ d.grid = k.grid
      BY <1>8, <3>1, Discarded
    <3>. HIDE DEF d
    <3>. QED
      BY <1>6, <2>2, <3>2
  <2>. QED
    BY <2>1, <2>2
<1>. HIDE DEF d
<1>10. Only(d, t) /\ d.buffers[t]["receive_ghost"] = <<>>
  BY <1>2, <1>7, <1>9 DEF Only, Without
<1>11. OverNode(d, w, t)
  <2>1. CASE w = 0
    <3>1. InIteration(d, t, i, "receive_grid", heard)
      BY <1>9, <2>1 DEF InIteration
    <3>2. heard \in {{}, Neighbors(0)}
      BY <2>1 DEF Heard, heard
    <3>. QED
      BY <1>10, <2>1, <3>1, <3>2 DEF OverNode, i
  <2>2. CASE w # 0
    BY <1>9, <1>10, <2>2 DEF OverNode
  <2>. QED
    BY <2>1, <2>2
<1>12. \A s \in Tid : d.tasks[s] # None => s = t /\ w = 0
  BY <1>9, <1>10 DEF Only, Without
<1>13. over.cont = "receive_grid" /\ over.active
  BY DEF TaskOf
<1>14. d \in Nodes
  <2>. HIDE DEF over
  <2>. QED
    BY <1>9, <1>12, <1>13, ContNames DEF Nodes, Waiting
<1>15. Quiet(d, t)
  <2>. HIDE DEF over
  <2>. QED
    BY <1>9, <1>10, <1>12, <1>13 DEF Quiet, Only
<1>16. TryContinue(d, w, t) = d
  BY <1>14, <1>15, NothingToTry
<1>. QED
  BY <1>9, <1>11, <1>14, <1>16 DEF d, k

-----------------------------------------------------------------------------
\* Messages for a node in lockstep.

\* What w does with the message that begins round G.
Started(n, w, t, G, k) ==
  IF G = 0 THEN Created(n, w, t) ELSE Resumed(n, w, t, StartOf(w, t, G, k))

\* The result of a reduction is a message.
LEMMA StartType ==
  ASSUME NEW t \in Tid, NEW w \in Worker, NEW G, G # 0, NEW k \in Nat
  PROVE  /\ StartOf(w, t, G, k) \in ResumeMsg
         /\ StartOf(w, t, G, k).cont = "receive_max_error"
<1>1. {<<t, v, k>> : v \in Worker} \in SUBSET Part
  BY DEF Part
<1>. QED
  BY <1>1, ContNames DEF StartOf, ResumeMsg

\* Both messages lead to the loop, at the beginning of the round.
LEMMA Starting ==
  ASSUME NEW t \in Tid, NEW w \in Worker, NEW G \in Nat, NEW k \in Nat, NEW n \in Nodes,
         Clean(n), FirstIt[w] = First, NEW heard, LateNode(n, w, t, G, heard)
  PROVE  \E m : /\ Begun(m, w, t, G, n.begun, heard)
                /\ m.tasks[t].nRecvd = Cardinality(Heard(w, G))
                /\ m.tasks[t].ghosts = GhostsFrom(Heard(w, G), t, First + G)
                /\ Started(n, w, t, G, k) = TryContinue(Discard(ConvergeLoop(m, w, t), t), w, t)
<1>1. n \in NodeT /\ Only(n, t) /\ BeforeRound(n, w, t, G)
      /\ Early(n.buffers[t]["receive_ghost"], w, t, First + G + 1, heard)
  BY DEF Nodes, LateNode
<1>2. CASE G = 0
  <2>. DEFINE m == NewNode(n, w, t)
  <2>1. /\ m \in RunningT(t) /\ m.tasks[t] = NewTask(w) /\ m.buffers = n.buffers
        /\ \A s \in Tid : s # t => m.tasks[s] = n.tasks[s]
        /\ m.begun = n.begun /\ m.sends = n.sends /\ m.adds = n.adds
        /\ m.grid = n.grid
    BY <1>1, NewRuns
  <2>2. Started(n, w, t, G, k) = TryContinue(Discard(ConvergeLoop(m, w, t), t), w, t)
    BY <1>2, CreatedIs DEF Started
  <2>. HIDE DEF m
  <2>3. NewTask(w).it = First /\ NewTask(w).nRecvd = 0 /\ NewTask(w).ghosts = {}
        /\ NewTask(w).active = TRUE
    BY DEF NewTask, TaskOf
  <2>4. First + G = First
    BY <1>2, FirstType
  <2>5. Begun(m, w, t, G, n.begun, heard)
    BY <1>1, <2>1, <2>3, <2>4 DEF Begun, Clean, Only, Without
  <2>6. Cardinality({}) = 0 /\ GhostsFrom({}, t, First + G) = {} /\ Heard(w, G) = {}
    BY <1>2, FS_EmptySet DEF GhostsFrom, Heard
  <2>. QED
    BY <2>1, <2>2, <2>3, <2>5, <2>6
<1>3. CASE G # 0
  <2>. DEFINE m == [n EXCEPT !.active = t]
              p == StartOf(w, t, G, k)
              c == Cardinality(Neighbors(w))
              g == GhostsFrom(Neighbors(w), t, First + G)
  <2>1. n.tasks[t] = TaskOf("receive_max_error", First + G, c, g, TRUE)
    BY <1>1, <1>3 DEF BeforeRound, InIteration
  <2>. HIDE DEF c, g
  <2>2. /\ n.tasks[t].cont = "receive_max_error" /\ n.tasks[t].it = First + G
        /\ n.tasks[t].nRecvd = c /\ n.tasks[t].ghosts = g /\ n.tasks[t].active = TRUE
    BY <2>1 DEF TaskOf
  <2>3. n.tasks[t] # None
    <3>1. c \in Nat
      BY NeighborCount, FS_CardinalityType DEF c
    <3>2. First + G \in Nat
      BY FirstType
    <3>3. g \in SUBSET Part
      BY <3>2, NeighborCount, GhostSets DEF g
    <3>4. TaskOf("receive_max_error", First + G, c, g, TRUE) \in Task
      <4>1. "receive_max_error" \in Cont \cup {None} /\ TRUE \in BOOLEAN
        BY ContNames
      <4>. QED
        BY <3>1, <3>2, <3>3, <4>1, TaskOfType
    <3>. QED
      BY <2>1, <3>4, NoneAssumption
  <2>4. p.cont = "receive_max_error"
    BY <1>3, StartType
  <2>5. Started(n, w, t, G, k) = TryContinue(Invoke(n, w, t, p), w, t)
    BY <1>3, <2>2, <2>3, <2>4 DEF Started, Resumed, Accepts
  <2>. HIDE DEF p
  <2>6. Invoke(n, w, t, p) = Discard(Continuation(m, w, t, p), t)
    BY DEF Invoke
  <2>7. /\ m \in RunningT(t) /\ m.tasks = n.tasks /\ m.buffers = n.buffers
        /\ m.begun = n.begun /\ m.sends = n.sends /\ m.adds = n.adds /\ m.grid = n.grid
    BY <1>1, <2>3, Activates
  <2>. HIDE DEF m
  <2>8. Continuation(m, w, t, p) = ConvergeLoop(m, w, t)
    BY <2>2, <2>7 DEF Continuation
  <2>9. Begun(m, w, t, G, n.begun, heard)
    <3>1. Clean(m)
      BY <2>7 DEF Clean
    <3>2. \A s \in Tid : s # t => Without(m, s)
      BY <1>1, <2>7 DEF Only, Without
    <3>. QED
      BY <1>1, <2>2, <2>7, <3>1, <3>2 DEF Begun, Only
  <2>10. m.tasks[t].nRecvd = Cardinality(Heard(w, G))
         /\ m.tasks[t].ghosts = GhostsFrom(Heard(w, G), t, First + G)
    BY <1>3, <2>2, <2>7 DEF Heard, c, g
  <2>. QED
    BY <2>5, <2>6, <2>8, <2>9, <2>10
<1>. QED
  BY <1>2, <1>3

\* So there is a round, ...
LEMMA StartsRound ==
  ASSUME NEW t \in Tid, NEW w \in Worker, NEW G \in Nat, G < Rounds, NEW k \in Nat,
         NEW n \in Nodes, Clean(n), FirstIt[w] = First, NEW heard \in SUBSET Neighbors(w),
         LateNode(n, w, t, G, heard)
  PROVE  Ready(Started(n, w, t, G, k), w, t, G, GhostsOf(w, t, First + G + 1),
               n.begun + 1, <<>>, heard)
<1>1. PICK m : /\ Begun(m, w, t, G, n.begun, heard)
               /\ Started(n, w, t, G, k) = TryContinue(Discard(ConvergeLoop(m, w, t), t), w, t)
  BY Starting
<1>2. n.begun \in Nat
  BY DEF Nodes, NodeT
<1>. QED
  BY <1>1, <1>2, RoundBegins

\* ... or there was the last one.
LEMMA StartsEnd ==
  ASSUME NEW t \in Tid, NEW w \in Worker, NEW k \in Nat, NEW n \in Nodes, Clean(n),
         FirstIt[w] = First, LateNode(n, w, t, Rounds, {})
  PROVE  LET m == Started(n, w, t, Rounds, k)
         IN  /\ m \in Nodes /\ OverNode(m, w, t) /\ m.begun = n.begun /\ m.sends = {}
             /\ m.adds = <<GridFor(t)>> /\ m.grid = {}
<1>1. Rounds \in Nat
  BY FirstType
<1>2. PICK m : /\ Begun(m, w, t, Rounds, n.begun, {})
               /\ m.tasks[t].nRecvd = Cardinality(Heard(w, Rounds))
               /\ m.tasks[t].ghosts = GhostsFrom(Heard(w, Rounds), t, First + Rounds)
               /\ Started(n, w, t, Rounds, k)
                    = TryContinue(Discard(ConvergeLoop(m, w, t), t), w, t)
  BY <1>1, Starting
<1>3. n.begun \in Nat
  BY DEF Nodes, NodeT
<1>. QED
  BY <1>2, <1>3, RoundsEnd

\* h is n with one more ghost in its buffer.
Later(h, n, w, t, G, heard) ==
  /\ h \in Nodes /\ LateNode(h, w, t, G, heard)
  /\ h.begun = n.begun /\ h.sends = n.sends /\ h.adds = n.adds /\ h.grid = n.grid

\* A ghost for a round that w has not begun.
LEMMA GhostEarly ==
  ASSUME NEW t \in Tid, NEW w \in Worker, NEW G \in Nat, NEW n \in Nodes,
         NEW heard, NEW v \in Neighbors(w), v \notin heard, LateNode(n, w, t, G, heard)
  PROVE  Later(Resumed(n, w, t, GhostTo(v, w, t, First + G + 1)), n, w, t, G, heard \cup {v})
<1>. DEFINE i == First + G + 1
            p == GhostTo(v, w, t, i)
            m == Resumed(n, w, t, p)
<1>1. n \in NodeT /\ Only(n, t) /\ BeforeRound(n, w, t, G)
      /\ Early(n.buffers[t]["receive_ghost"], w, t, i, heard)
  BY DEF Nodes, LateNode
<1>2. i \in Nat /\ v \in Worker
  BY FirstType, NeighborCount
<1>3. p \in ResumeMsg /\ p.cont = "receive_ghost"
  <2>1. GhostsOf(v, t, i) \in SUBSET ResumeMsg
    BY <1>2, GhostType
  <2>2. w \in Neighbors(v)
    BY <1>2, WorkgroupAssumption DEF Neighbors, Worker
  <2>3. p \in ResumeMsg
    BY <2>1, <2>2 DEF GhostsOf
  <2>4. p.cont = "receive_ghost"
    BY DEF GhostTo
  <2>. QED
    BY <2>3, <2>4
<1>. HIDE DEF i
<1>4. ~ Accepts(n, t, p)
  <2>1. n.tasks[t] = None \/ n.tasks[t].cont = "receive_max_error"
    BY <1>1 DEF BeforeRound, InIteration, TaskOf
  <2>. QED
    BY <1>3, <2>1 DEF Accepts
<1>5. m = Buffer(n, t, p)
  BY <1>4 DEF Resumed
<1>6. n.buffers[t]["receive_ghost"] \in Seq(ResumeMsg)
  BY <1>1, ContNames DEF NodeT, Buffers
<1>7. Early(Append(n.buffers[t]["receive_ghost"], p), w, t, i, heard \cup {v})
  BY <1>1, <1>3, <1>6, EarlyMore
<1>. HIDE DEF m, p
<1>8. /\ m \in NodeT /\ m.tasks = n.tasks /\ m.begun = n.begun
      /\ m.sends = n.sends /\ m.adds = n.adds /\ m.grid = n.grid
      /\ m.buffers[t]["receive_ghost"] = Append(n.buffers[t]["receive_ghost"], p)
      /\ \A c \in Cont : c # "receive_ghost" => m.buffers[t][c] = n.buffers[t][c]
      /\ \A s \in Tid : s # t => m.buffers[s] = n.buffers[s]
  <2>1. /\ m \in NodeT /\ m.tasks = n.tasks /\ m.active = n.active /\ m.begun = n.begun
        /\ m.sends = n.sends /\ m.adds = n.adds /\ m.grid = n.grid
        /\ m.buffers[t][p.cont] = Append(n.buffers[t][p.cont], p)
        /\ \A c \in Cont : c # p.cont => m.buffers[t][c] = n.buffers[t][c]
        /\ \A s \in Tid : s # t => m.buffers[s] = n.buffers[s]
    <3>1. n \in NodeT /\ p \in ResumeMsg /\ m = Buffer(n, t, p)
      BY <1>1, <1>3, <1>5
    <3>. QED
      BY <3>1, BufferFields, SMTT(60)
  <2>. QED
    BY <1>3, <2>1
<1>9. m \in Nodes
  BY <1>8 DEF Nodes, Waiting
<1>10. Only(m, t)
  BY <1>1, <1>8, ContNames DEF Only, Without
<1>11. BeforeRound(m, w, t, G)
  BY <1>1, <1>8 DEF BeforeRound, InIteration
<1>12. LateNode(m, w, t, G, heard \cup {v})
  BY <1>7, <1>8, <1>10, <1>11 DEF LateNode, i
<1>. QED
  BY <1>8, <1>9, <1>12 DEF Later, m, p, i

\* A ghost for the round that w is in.
LEMMA GhostInTime ==
  ASSUME NEW t \in Tid, NEW w \in Worker, NEW G \in Nat, NEW n \in Nodes, Clean(n),
         NEW heard \in SUBSET Neighbors(w), NEW v \in Neighbors(w) \ heard,
         OnNode(n, w, t, G, heard)
  PROVE  Ready(Resumed(n, w, t, GhostTo(v, w, t, First + G + 1)), w, t, G, {},
               n.begun, <<>>, heard \cup {v})
<1>. DEFINE p == GhostTo(v, w, t, First + G + 1)
            k == Invoke(n, w, t, p)
            all == heard \cup {v}
<1>1. Only(n, t) /\ n.buffers[t]["receive_ghost"] = <<>> /\ RunsRound(n, w, t, G, heard)
      /\ n.sends = {} /\ n.adds = <<>> /\ n.grid = {}
  BY DEF OnNode, Clean
<1>2. Accepts(n, t, p) /\ GhostTaken(n, k, w, t, G, heard, v)
  BY <1>1, TakesGhost
<1>3. Resumed(n, w, t, p) = TryContinue(k, w, t)
  BY <1>2 DEF Resumed
<1>. HIDE DEF k, p
<1>4. /\ k \in Nodes /\ k.buffers = n.buffers
      /\ \A s \in Tid : s # t => k.tasks[s] = n.tasks[s]
      /\ RunsRound(k, w, t, G, all)
      /\ k.sends = {} /\ k.begun = n.begun /\ k.grid = {}
      /\ k.adds = IF all = Neighbors(w) THEN Append(<<>>, ErrorOf(t)) ELSE <<>>
  BY <1>1, <1>2 DEF GhostTaken
<1>5. Only(k, t)
  BY <1>1, <1>4 DEF Only, Without
<1>6. Early(k.buffers[t]["receive_ghost"], w, t, First + G + 1, {})
  BY <1>1, <1>4, EarlyNone
<1>7. all \in SUBSET all /\ {} \in SUBSET all /\ all \cap {} = {}
  OBVIOUS
<1>. HIDE DEF all
<1>8. k \in Draining(w, t, G, {}, n.begun, <<>>, all)
  BY <1>4, <1>5, <1>6, <1>7 DEF Draining
<1>9. all \in SUBSET Neighbors(w)
  BY DEF all
<1>10. Ready(TryContinue(k, w, t), w, t, G, {}, n.begun, <<>>, all)
  BY <1>8, <1>9, Drained
<1>. QED
  BY <1>3, <1>10 DEF p, all

\* The grid, for worker 0.
LEMMA GridTaken ==
  ASSUME NEW t \in Tid, NEW k \in Nat, NEW n \in Nodes, Clean(n), OverNode(n, 0, t)
  PROVE  LET m == Resumed(n, 0, t, GridMsg(t, k))
         IN  /\ m \in Nodes /\ \A s \in Tid : Without(m, s)
             /\ m.begun = n.begun /\ m.sends = {} /\ m.adds = <<>>
             /\ m.grid = {<<t, v>> : v \in Worker}
<1>. DEFINE p == GridMsg(t, k)
            m == [n EXCEPT !.active = t]
            c == Continuation(m, 0, t, p)
            d == Discard(c, t)
            stops == [m.tasks[t] EXCEPT !.active = FALSE]
<1>1. n \in NodeT /\ Only(n, t) /\ n.buffers[t]["receive_ghost"] = <<>>
      /\ n.sends = {} /\ n.adds = <<>> /\ n.grid = {} /\ 0 \in Worker
  BY FirstType DEF Nodes, OverNode, Clean
<1>2. PICK heard \in {{}, Neighbors(0)} : InIteration(n, t, First + Rounds, "receive_grid", heard)
  BY DEF OverNode
<1>3. n.tasks[t].cont = "receive_grid" /\ n.tasks[t] # None
  <2>. DEFINE i == First + Rounds
              r == Cardinality(heard)
              g == GhostsFrom(heard, t, i)
  <2>1. i \in Nat
    BY FirstType
  <2>2. heard \in SUBSET Neighbors(0) /\ heard \in SUBSET Worker
    BY <1>1, <1>2, NeighborCount
  <2>3. r \in Nat
    BY <1>1, <2>2, HeardCount
  <2>4. g \in SUBSET Part
    BY <2>1, <2>2, GhostSets
  <2>5. n.tasks[t] = TaskOf("receive_grid", i, r, g, TRUE)
    BY <1>2 DEF InIteration
  <2>. HIDE DEF i, r, g
  <2>6. "receive_grid" \in Cont \cup {None} /\ TRUE \in BOOLEAN
    BY ContNames
  <2>7. n.tasks[t] \in Task
    BY <2>1, <2>3, <2>4, <2>5, <2>6, TaskOfType
  <2>8. n.tasks[t].cont = "receive_grid"
    BY <2>5 DEF TaskOf
  <2>. QED
    BY <2>7, <2>8, NoneAssumption
<1>4. p \in ResumeMsg /\ p.cont = "receive_grid" /\ p.parts = {<<t, v, k>> : v \in Worker}
  <2>1. {<<t, v, k>> : v \in Worker} \in SUBSET Part
    BY DEF Part
  <2>. QED
    BY <1>1, <2>1, ContNames DEF GridMsg, ResumeMsg
<1>. HIDE DEF p
<1>5. GridOf(p) = {<<t, v>> : v \in Worker}
  <2>1. \A q \in p.parts : <<q[1], q[2]>> \in {<<t, v>> : v \in Worker}
    BY <1>4
  <2>2. \A v \in Worker : <<t, v, k>> \in p.parts /\ <<t, v, k>>[1] = t /\ <<t, v, k>>[2] = v
    BY <1>4
  <2>3. \A v \in Worker : <<t, v>> \in GridOf(p)
    BY <2>2 DEF GridOf
  <2>. QED
    BY <2>1, <2>3 DEF GridOf
<1>6. Resumed(n, 0, t, p) = TryContinue(d, 0, t)
  BY <1>3, <1>4 DEF Resumed, Accepts, Invoke
<1>7. /\ m \in RunningT(t) /\ m.tasks = n.tasks /\ m.buffers = n.buffers
      /\ m.begun = n.begun /\ m.sends = n.sends /\ m.adds = n.adds /\ m.grid = n.grid
  BY <1>1, <1>3, Activates
<1>. HIDE DEF m
<1>8. m \in NodeT /\ m.tasks[t] \in Task
  BY <1>7 DEF RunningT
<1>9. c = ReceiveGrid(m, 0, t, p)
  BY <1>3, <1>7 DEF Continuation
<1>10. c = Ran(m, t, stops, m.begun, m.sends, m.adds, m.grid \cup GridOf(p))
  BY <1>1, <1>4, <1>7, <1>9, GridReceived
<1>11. stops \in Task /\ ~ stops.active
  BY <1>8, TaskDeactivated
<1>. HIDE DEF c, stops
<1>12. m.grid \cup GridOf(p) = GridOf(p) /\ GridOf(p) \in SUBSET (Tid \X Worker)
  BY <1>1, <1>4, <1>7, GridType
<1>13. c \in NodeT
  <2>1. m.begun \in Nat /\ m.sends \in SUBSET ResumeMsg /\ m.adds \in Seq(Contribution)
    BY <1>7, RunningFields
  <2>. QED
    BY <1>8, <1>10, <1>11, <1>12, <2>1, RanType
<1>14. /\ c.tasks[t] = stops /\ c.buffers = m.buffers
       /\ \A s \in Tid : s # t => c.tasks[s] = m.tasks[s]
       /\ c.begun = m.begun /\ c.sends = m.sends /\ c.adds = m.adds /\ c.grid = GridOf(p)
  <2>1. c = Ran(m, t, stops, m.begun, m.sends, m.adds, GridOf(p))
    BY <1>10, <1>12
  <2>. QED
    BY <1>8, <2>1, RanTasks
<1>15. ~ c.tasks[t].active
  BY <1>11, <1>14
<1>16. /\ d \in NodeT /\ d.tasks[t] = None /\ d.buffers = c.buffers
       /\ \A s \in Tid : s # t => d.tasks[s] = c.tasks[s]
       /\ d.begun = c.begun /\ d.sends = c.sends /\ d.adds = c.adds /\ d.grid = c.grid
  BY <1>13, <1>15, Discarded
<1>. HIDE DEF d
<1>17. \A s \in Tid : Without(d, s)
  BY <1>1, <1>7, <1>14, <1>16, ContNames DEF Only, Without
<1>18. d \in Nodes /\ Quiet(d, t)
  BY <1>16, <1>17 DEF Nodes, Waiting, Without, Quiet
<1>19. TryContinue(d, 0, t) = d
  BY <1>1, <1>18, NothingToTry
<1>. QED
  BY <1>1, <1>5, <1>6, <1>7, <1>14, <1>16, <1>17, <1>18, <1>19 DEF p

-----------------------------------------------------------------------------
\* The workers stay in lockstep.

\* Every task starts with the same value, and runs alone.
Uniform == ~ Concurrent /\ \A w \in Worker : FirstIt[w] = First

LockstepInv ==
  /\ TypeOK
  /\ \A w \in Worker : Clean(node[w])
  /\ \E hist \in Seq(Contribution) : Len(hist) = reduced /\ InStep(hist)

\* The phases are about the tasks and the buffers only.
LEMMA SameNode ==
  ASSUME NEW n, NEW m, m.tasks = n.tasks, m.buffers = n.buffers, NEW w, NEW t, NEW G, NEW heard
  PROVE  /\ LateNode(n, w, t, G, heard) => LateNode(m, w, t, G, heard)
         /\ OnNode(n, w, t, G, heard) => OnNode(m, w, t, G, heard)
         /\ OverNode(n, w, t) => OverNode(m, w, t)
         /\ Without(n, t) => Without(m, t)
<1>1. Only(n, t) => Only(m, t)
  BY DEF Only, Without
<1>2. \A i, c, h : InIteration(n, t, i, c, h) => InIteration(m, t, i, c, h)
  BY DEF InIteration
<1>3. BeforeRound(n, w, t, G) => BeforeRound(m, w, t, G)
  BY <1>2 DEF BeforeRound
<1>4. RunsRound(n, w, t, G, heard) => RunsRound(m, w, t, G, heard)
  BY <1>2 DEF RunsRound
<1>5. LateNode(n, w, t, G, heard) => LateNode(m, w, t, G, heard)
  BY <1>1, <1>3 DEF LateNode
<1>6. OnNode(n, w, t, G, heard) => OnNode(m, w, t, G, heard)
  BY <1>1, <1>4 DEF OnNode
<1>7. OverNode(n, w, t) => OverNode(m, w, t)
  BY <1>1, <1>2 DEF OverNode
<1>8. Without(n, t) => Without(m, t)
  BY DEF Without
<1>. QED
  BY <1>5, <1>6, <1>7, <1>8

\* What a handler changes.
LEMMA BecomeFields ==
  ASSUME TypeOK, NEW w \in Worker, NEW n \in Nodes, NEW rest \in SUBSET net, Become(w, n, rest)
  PROVE  /\ node'[w].tasks = n.tasks /\ node'[w].buffers = n.buffers
         /\ node'[w].begun = n.begun /\ Clean(node'[w])
         /\ \A v \in Worker : v # w => node'[v] = node[v] /\ contribs'[v] = contribs[v]
         /\ net' = rest \cup n.sends
         /\ contribs'[w] = contribs[w] \o n.adds
         /\ grids' = grids \cup n.grid
<1>. DEFINE m == Settled(n)
<1>1. /\ m \in Nodes /\ m.tasks = n.tasks /\ m.buffers = n.buffers
      /\ m.begun = n.begun /\ m.sends = {} /\ m.adds = <<>> /\ m.grid = {}
  BY SettledFields
<1>2. node'[w] = m /\ \A v \in Worker : v # w => node'[v] = node[v]
  BY BecomeType
<1>. HIDE DEF m
<1>3. contribs' = [contribs EXCEPT ![w] = contribs[w] \o n.adds]
      /\ net' = rest \cup n.sends /\ grids' = grids \cup n.grid
  BY DEF Become
<1>4. contribs'[w] = contribs[w] \o n.adds
      /\ \A v \in Worker : v # w => contribs'[v] = contribs[v]
  BY <1>3 DEF TypeOK
<1>. QED
  BY <1>1, <1>2, <1>3, <1>4 DEF Clean

\* Which handler runs.
LEMMA StartArrives ==
  ASSUME TypeOK, NEW m \in net, Create(m) \/ Resume(m), NEW t, NEW w, NEW G,
         m = StartOf(w, t, G, reduced)
  PROVE  Become(w, Started(node[w], w, t, G, reduced), net \ {m})
         /\ UNCHANGED <<last_task, reduced>>
<1>1. CASE G = 0
  <2>1. m.kind = "create" /\ m.to = w /\ m.tid = t
    BY <1>1 DEF StartOf
  <2>2. Create(m)
    BY <2>1 DEF Resume
  <2>. QED
    BY <1>1, <2>1, <2>2 DEF Create, Started
<1>2. CASE G # 0
  <2>1. m.kind = "resume" /\ m.to = w /\ m.tid = t
    BY <1>2 DEF StartOf
  <2>2. Resume(m)
    BY <2>1 DEF Create
  <2>. QED
    BY <1>2, <2>1, <2>2 DEF Resume, Started
<1>. QED
  BY <1>1, <1>2

\* A ghost, or the grids, is for resume().
LEMMA OtherArrives ==
  ASSUME TypeOK, NEW m \in net, Create(m) \/ Resume(m), NEW t, NEW w,
         \/ \E v, i : m = GhostTo(v, w, t, i)
         \/ w = 0 /\ \E k : m = GridMsg(t, k)
  PROVE  Become(w, Resumed(node[w], w, t, m), net \ {m})
         /\ UNCHANGED <<last_task, reduced>>
<1>1. m.kind = "resume" /\ m.to = w /\ m.tid = t
  BY DEF GhostTo, GridMsg
<1>2. Resume(m)
  BY <1>1 DEF Create
<1>. QED
  BY <1>1, <1>2 DEF Resume

\* A handler contributes once at most.
LEMMA Contributes ==
  ASSUME NEW hist \in Seq(Contribution)
  PROVE  hist \o <<>> = hist /\ \A c : hist \o <<c>> = Append(hist, c)
OBVIOUS

\* w begins the round.
LEMMA ExchangeStart ==
  ASSUME TypeOK, \A x \in Worker : Clean(node[x]), Uniform,
         NEW hist \in Seq(Contribution), NEW t \in Tid, NEW G \in Nat, NEW on \in SUBSET Worker,
         NEW heard \in [Worker -> SUBSET Worker], Exchanging(hist, t, G, on, heard),
         NEW w \in Worker \ on, NEW m \in net, m = StartOf(w, t, G, reduced),
         Create(m) \/ Resume(m)
  PROVE  \E also \in [Worker -> SUBSET Worker] : Exchanging(hist, t, G, on \cup {w}, also)'
<1>. DEFINE i == First + G + 1
            n == Started(node[w], w, t, G, reduced)
            now == on \cup {w}
<1>1. G < Rounds /\ reduced \in Nat /\ node[w] \in Nodes /\ FirstIt[w] = First
  BY DEF Exchanging, TypeOK, Uniform
<1>2. LateNode(node[w], w, t, G, heard[w]) /\ contribs[w] = hist
      /\ node[w].begun = Done(t) + G /\ heard[w] \in SUBSET Neighbors(w)
  BY DEF Exchanging
<1>3. Ready(n, w, t, G, GhostsOf(w, t, i), Done(t) + G + 1, <<>>, heard[w])
  BY <1>1, <1>2, StartsRound
<1>4. Become(w, n, net \ {m}) /\ UNCHANGED <<last_task, reduced>>
  BY StartArrives
<1>. HIDE DEF n, i
<1>5. PICK got \in SUBSET heard[w] :
        /\ OnNode(n, w, t, G, got)
        /\ n.adds = IF got = Neighbors(w) THEN Append(<<>>, ErrorOf(t)) ELSE <<>>
  BY <1>3 DEF Ready
<1>6. n \in Nodes /\ n.sends = GhostsOf(w, t, i) /\ n.begun = Done(t) + G + 1 /\ n.grid = {}
  BY <1>3 DEF Ready
<1>7. /\ node'[w].tasks = n.tasks /\ node'[w].buffers = n.buffers /\ node'[w].begun = n.begun
      /\ \A v \in Worker : v # w => node'[v] = node[v] /\ contribs'[v] = contribs[v]
      /\ net' = (net \ {m}) \cup n.sends
      /\ contribs'[w] = contribs[w] \o n.adds
      /\ grids' = grids \cup n.grid
  <2>1. net \ {m} \in SUBSET net
    OBVIOUS
  <2>. QED
    BY <1>4, <1>6, <2>1, BecomeFields
<1>. DEFINE also == [heard EXCEPT ![w] = got]
<1>8. also \in [Worker -> SUBSET Worker] /\ also[w] = got
      /\ \A x \in Worker : x # w => also[x] = heard[x]
  BY <1>5
<1>. HIDE DEF also
<1>9. \A x \in Worker : also[x] \in SUBSET (Neighbors(x) \cap now) /\ also[x] \in SUBSET heard[x]
  BY <1>5, <1>8 DEF Exchanging
<1>10. \A x \in Worker \ now :
         /\ LateNode(node'[x], x, t, G, also[x])
         /\ contribs'[x] = hist /\ node'[x].begun = Done(t) + G
  BY <1>7, <1>8 DEF Exchanging
<1>11. \A x \in now :
         /\ OnNode(node'[x], x, t, G, also[x])
         /\ contribs'[x] = IF also[x] = Neighbors(x) THEN Append(hist, ErrorOf(t)) ELSE hist
         /\ node'[x].begun = Done(t) + G + 1
  <2>1. OnNode(node'[w], w, t, G, got)
    BY <1>5, <1>7, SameNode
  <2>2. contribs'[w] = IF got = Neighbors(w) THEN Append(hist, ErrorOf(t)) ELSE hist
    <3>1. contribs'[w] = hist \o n.adds
      BY <1>2, <1>7
    <3>2. Append(<<>>, ErrorOf(t)) = <<ErrorOf(t)>>
      OBVIOUS
    <3>. QED
      BY <1>5, <3>1, <3>2, Contributes
  <2>3. \A x \in on : x # w /\ x \in Worker
    OBVIOUS
  <2>. QED
    BY <1>6, <1>7, <1>8, <2>1, <2>2, <2>3 DEF Exchanging
<1>12. ASSUME NEW p \in net'
       PROVE  \/ \E x \in Worker \ now : p = StartOf(x, t, G, reduced)
              \/ \E x \in Worker : \E v \in (Neighbors(x) \cap now) \ also[x] :
                   p = GhostTo(v, x, t, i)
  <2>1. CASE p \in net \ {m}
    <3>1. CASE \E x \in Worker \ on : p = StartOf(x, t, G, reduced)
      BY <2>1, <3>1
    <3>2. CASE \E x \in Worker : \E v \in (Neighbors(x) \cap on) \ heard[x] :
                 p = GhostTo(v, x, t, i)
      BY <1>9, <3>2
    <3>. QED
      BY <2>1, <3>1, <3>2 DEF Exchanging, i
  <2>2. CASE p \in GhostsOf(w, t, i)
    <3>1. PICK x \in Neighbors(w) : p = GhostTo(w, x, t, i)
      BY <2>2 DEF GhostsOf
    <3>2. x \in Worker /\ w \in Neighbors(x)
      BY <3>1, NeighborCount, WorkgroupAssumption DEF Neighbors, Worker
    <3>3. w \notin also[x]
      BY <1>9, <3>2 DEF Exchanging
    <3>. QED
      BY <3>1, <3>2, <3>3
  <2>. QED
    BY <1>6, <1>7, <2>1, <2>2
<1>13. last_task' = t + 1 /\ reduced' = reduced /\ \A g \in grids' : g[1] < t
  BY <1>4, <1>6, <1>7 DEF Exchanging
<1>14. Exchanging(hist, t, G, now, also)'
  BY <1>1, <1>9, <1>10, <1>11, <1>12, <1>13 DEF Exchanging, i
<1>. QED
  BY <1>8, <1>14

\* A ghost arrives.
LEMMA ExchangeGhost ==
  ASSUME TypeOK, \A x \in Worker : Clean(node[x]),
         NEW hist \in Seq(Contribution), NEW t \in Tid, NEW G \in Nat, NEW on \in SUBSET Worker,
         NEW heard \in [Worker -> SUBSET Worker], Exchanging(hist, t, G, on, heard),
         NEW w \in Worker, NEW v \in (Neighbors(w) \cap on) \ heard[w],
         NEW m \in net, m = GhostTo(v, w, t, First + G + 1), Create(m) \/ Resume(m)
  PROVE  \E also \in [Worker -> SUBSET Worker] : Exchanging(hist, t, G, on, also)'
<1>. DEFINE i == First + G + 1
            n == Resumed(node[w], w, t, m)
            all == heard[w] \cup {v}
<1>1. node[w] \in Nodes /\ heard[w] \in SUBSET (Neighbors(w) \cap on) /\ Clean(node[w])
  BY DEF Exchanging, TypeOK
<1>2. Become(w, n, net \ {m}) /\ UNCHANGED <<last_task, reduced>>
  BY OtherArrives
<1>3. \E got \in SUBSET all :
        /\ n \in Nodes /\ n.sends = {} /\ n.grid = {} /\ n.begun = node[w].begun
        /\ w \notin on => LateNode(n, w, t, G, got) /\ n.adds = <<>>
        /\ w \in on => /\ OnNode(n, w, t, G, got)
                       /\ n.adds = IF got = Neighbors(w) THEN Append(<<>>, ErrorOf(t)) ELSE <<>>
                       /\ heard[w] # Neighbors(w)
  <2>1. CASE w \notin on
    <3>1. LateNode(node[w], w, t, G, heard[w])
      BY <2>1 DEF Exchanging
    <3>2. v \in Neighbors(w) /\ v \notin heard[w]
      OBVIOUS
    <3>3. Later(n, node[w], w, t, G, all)
      BY <1>1, <3>1, <3>2, GhostEarly
    <3>. HIDE DEF n, all
    <3>. QED
      BY <1>1, <2>1, <3>3 DEF Clean, Later
  <2>2. CASE w \in on
    <3>1. OnNode(node[w], w, t, G, heard[w])
      BY <2>2 DEF Exchanging
    <3>2. heard[w] \in SUBSET Neighbors(w) /\ v \in Neighbors(w) \ heard[w]
      BY <1>1
    <3>3. Ready(n, w, t, G, {}, node[w].begun, <<>>, all)
      BY <1>1, <3>1, <3>2, GhostInTime
    <3>4. heard[w] # Neighbors(w)
      BY <3>2
    <3>. HIDE DEF n, all
    <3>. QED
      BY <2>2, <3>3, <3>4 DEF Ready
  <2>. QED
    BY <2>1, <2>2
<1>. HIDE DEF n, i
<1>4. PICK got \in SUBSET all :
        /\ n \in Nodes /\ n.sends = {} /\ n.grid = {} /\ n.begun = node[w].begun
        /\ w \notin on => LateNode(n, w, t, G, got) /\ n.adds = <<>>
        /\ w \in on => /\ OnNode(n, w, t, G, got)
                       /\ n.adds = IF got = Neighbors(w) THEN Append(<<>>, ErrorOf(t)) ELSE <<>>
                       /\ heard[w] # Neighbors(w)
  BY <1>3
<1>5. /\ node'[w].tasks = n.tasks /\ node'[w].buffers = n.buffers /\ node'[w].begun = n.begun
      /\ \A x \in Worker : x # w => node'[x] = node[x] /\ contribs'[x] = contribs[x]
      /\ net' = (net \ {m}) \cup n.sends
      /\ contribs'[w] = contribs[w] \o n.adds
      /\ grids' = grids \cup n.grid
  <2>1. net \ {m} \in SUBSET net
    OBVIOUS
  <2>. QED
    BY <1>2, <1>4, <2>1, BecomeFields
<1>. DEFINE also == [heard EXCEPT ![w] = got]
<1>6. also \in [Worker -> SUBSET Worker] /\ also[w] = got
      /\ \A x \in Worker : x # w => also[x] = heard[x]
  <2>1. all \in SUBSET Worker
    BY <1>1, NeighborCount
  <2>. QED
    BY <1>4, <2>1
<1>. HIDE DEF also
<1>7. \A x \in Worker : also[x] \in SUBSET (Neighbors(x) \cap on)
  BY <1>1, <1>4, <1>6 DEF Exchanging
<1>8. \A x \in Worker \ on :
        /\ LateNode(node'[x], x, t, G, also[x])
        /\ contribs'[x] = hist /\ node'[x].begun = Done(t) + G
  <2>1. ASSUME w \notin on
        PROVE  /\ LateNode(node'[w], w, t, G, got)
               /\ contribs'[w] = hist /\ node'[w].begun = Done(t) + G
    <3>1. LateNode(node'[w], w, t, G, got)
      BY <1>4, <1>5, <2>1, SameNode
    <3>2. contribs[w] = hist /\ node[w].begun = Done(t) + G
      BY <2>1 DEF Exchanging
    <3>. QED
      BY <1>4, <1>5, <2>1, <3>1, <3>2, Contributes
  <2>. QED
    BY <1>5, <1>6, <2>1 DEF Exchanging
<1>9. \A x \in on :
        /\ OnNode(node'[x], x, t, G, also[x])
        /\ contribs'[x] = IF also[x] = Neighbors(x) THEN Append(hist, ErrorOf(t)) ELSE hist
        /\ node'[x].begun = Done(t) + G + 1
  <2>1. ASSUME w \in on
        PROVE  /\ OnNode(node'[w], w, t, G, got)
               /\ contribs'[w] = IF got = Neighbors(w) THEN Append(hist, ErrorOf(t)) ELSE hist
               /\ node'[w].begun = Done(t) + G + 1
    <3>1. OnNode(node'[w], w, t, G, got)
      BY <1>4, <1>5, <2>1, SameNode
    <3>2. contribs[w] = hist /\ node[w].begun = Done(t) + G + 1
      BY <1>4, <2>1 DEF Exchanging
    <3>3. Append(<<>>, ErrorOf(t)) = <<ErrorOf(t)>> /\ contribs'[w] = hist \o n.adds
      BY <1>5, <3>2
    <3>4. contribs'[w] = IF got = Neighbors(w) THEN Append(hist, ErrorOf(t)) ELSE hist
      <4>1. CASE got = Neighbors(w)
        <5>1. n.adds = <<ErrorOf(t)>>
          BY <1>4, <2>1, <3>3, <4>1
        <5>. QED
          BY <3>3, <4>1, <5>1, Contributes
      <4>2. CASE got # Neighbors(w)
        <5>1. n.adds = <<>>
          BY <1>4, <2>1, <4>2
        <5>. QED
          BY <3>3, <4>2, <5>1, Contributes
      <4>. QED
        BY <4>1, <4>2
    <3>5. node'[w].begun = Done(t) + G + 1
      BY <1>4, <1>5, <3>2
    <3>. QED
      BY <3>1, <3>4, <3>5
  <2>2. \A x \in on : x \in Worker
    OBVIOUS
  <2>. QED
    BY <1>5, <1>6, <2>1, <2>2 DEF Exchanging
<1>10. ASSUME NEW p \in net'
       PROVE  \/ \E x \in Worker \ on : p = StartOf(x, t, G, reduced)
              \/ \E x \in Worker : \E u \in (Neighbors(x) \cap on) \ also[x] :
                   p = GhostTo(u, x, t, i)
  <2>1. p \in net /\ p # m
    BY <1>4, <1>5
  <2>2. CASE \E x \in Worker : \E u \in (Neighbors(x) \cap on) \ heard[x] :
               p = GhostTo(u, x, t, i)
    <3>1. PICK x \in Worker : \E u \in (Neighbors(x) \cap on) \ heard[x] : p = GhostTo(u, x, t, i)
      BY <2>2
    <3>2. PICK u \in (Neighbors(x) \cap on) \ heard[x] : p = GhostTo(u, x, t, i)
      BY <3>1
    <3>3. ~ (u = v /\ x = w)
      BY <2>1, <3>2 DEF i
    <3>4. u \notin also[x]
      BY <1>4, <1>6, <3>2, <3>3
    <3>. QED
      BY <3>2, <3>4
  <2>. QED
    BY <2>1, <2>2 DEF Exchanging, i
<1>11. last_task' = t + 1 /\ reduced' = reduced /\ G < Rounds /\ \A g \in grids' : g[1] < t
  BY <1>2, <1>4, <1>5 DEF Exchanging
<1>12. Exchanging(hist, t, G, on, also)'
  BY <1>7, <1>8, <1>9, <1>10, <1>11 DEF Exchanging, i
<1>. QED
  BY <1>6, <1>12

\* What is sent when all have contributed the same.
ResultsTo(workers, t, c, k) ==
  {[kind |-> "resume", to |-> w, cont |-> c, parts |-> {<<t, v, k>> : v \in Worker},
    tid |-> t] : w \in workers}

\* Then Combine sends these.
LEMMA AllCombined ==
  ASSUME TypeOK, Combine, NEW hist \in Seq(Contribution), Len(hist) = reduced,
         NEW t \in Tid, NEW c \in Cont, NEW workers,
         workers = IF c = "receive_grid" THEN {0} ELSE Worker,
         \A w \in Worker : contribs[w] = Append(hist, [tid |-> t, cont |-> c])
  PROVE  /\ reduced' = reduced + 1
         /\ UNCHANGED <<last_task, node, contribs, grids>>
         /\ net' = net \cup ResultsTo(workers, t, c, reduced + 1)
<1>. DEFINE k == reduced + 1
            p == {<<t, v, k>> : v \in Worker}
            e == [tid |-> t, cont |-> c]
            Res(w) == [kind |-> "resume", to |-> w, cont |-> c, parts |-> p, tid |-> t]
<1>1. reduced \in Nat /\ e \in Contribution
  BY DEF TypeOK, Contribution
<1>. HIDE DEF e
<1>2. \A w \in Worker : contribs[w][k] = e
  BY <1>1 DEF e
<1>3. e.tid = t /\ e.cont = c
  BY DEF e
<1>4. Parts(k) = p
  BY <1>2, <1>3 DEF Parts
<1>5. p \in SUBSET Part /\ p # {} /\ \A q \in p : q[1] = t
  <2>1. k \in Nat
    BY <1>1
  <2>. HIDE DEF k
  <2>2. \A v \in Worker : <<t, v, k>> \in Part
    BY <2>1 DEF Part
  <2>3. <<t, 0, k>> \in p
    BY FirstType
  <2>4. \A q \in p : q[1] = t
    OBVIOUS
  <2>5. p \in SUBSET Part
    BY <2>2
  <2>. QED
    BY <2>3, <2>4, <2>5
<1>. HIDE DEF p
<1>6. TidOf(Parts(k)) = t
  BY <1>4, <1>5, TidType
<1>7. reduced' = k /\ UNCHANGED <<last_task, node, contribs, grids>>
  BY CombineIs
<1>8. PICK v \in Worker : net' = net \cup
        {ResultTo(w, v, k) :
           w \in IF contribs[v][k].cont = "receive_grid" THEN {0} ELSE Worker}
  BY CombineIs
<1>9. contribs[v][k].cont = c
  BY <1>2, <1>3
<1>10. net' = net \cup {ResultTo(w, v, k) : w \in workers}
  BY <1>8, <1>9
<1>11. \A w : ResultTo(w, v, k) = Res(w)
  BY <1>4, <1>6, <1>9 DEF ResultTo
<1>. HIDE DEF k
<1>12. {ResultTo(w, v, k) : w \in workers} = {Res(w) : w \in workers}
  <2>. HIDE DEF Res
  <2>. QED
    BY <1>11
<1>13. net' = net \cup {Res(w) : w \in workers}
  BY <1>10, <1>12
<1>14. {Res(w) : w \in workers} = ResultsTo(workers, t, c, k)
  BY DEF ResultsTo, p
<1>. HIDE DEF Res
<1>. QED
  BY <1>7, <1>13, <1>14 DEF k

\* A round is over: the next one may begin.
LEMMA RoundCombined ==
  ASSUME TypeOK, Combine, NEW hist \in Seq(Contribution), Len(hist) = reduced,
         NEW t \in Tid, NEW G \in Nat, NEW on \in SUBSET Worker,
         NEW heard \in [Worker -> SUBSET Worker], Exchanging(hist, t, G, on, heard)
  PROVE  LET next == Append(hist, ErrorOf(t))
         IN  /\ reduced' = reduced + 1
             /\ \/ Exchanging(next, t, G + 1, {}, [w \in Worker |-> {}])'
                \/ Ending(next, t, {})'
<1>. DEFINE next == Append(hist, ErrorOf(t))
            none == [w \in Worker |-> {}]
<1>1. reduced \in Nat /\ \A w \in Worker : Len(contribs[w]) >= reduced + 1
  BY CombineIs DEF TypeOK
<1>2. \A w \in Worker : w \in on /\ heard[w] = Neighbors(w)
  <2>1. ASSUME NEW w \in Worker, contribs[w] = hist
        PROVE  FALSE
    BY <1>1, <2>1
  <2>2. on \in SUBSET Worker
    OBVIOUS
  <2>. QED
    BY <2>1, <2>2 DEF Exchanging
<1>3. \A w \in Worker : /\ OnNode(node[w], w, t, G, Neighbors(w)) /\ contribs[w] = next
                        /\ node[w].begun = Done(t) + G + 1
  BY <1>2 DEF Exchanging
<1>4. net = {}
  <2>1. ASSUME NEW p \in net
        PROVE  FALSE
    <3>1. \/ \E w \in Worker \ on : p = StartOf(w, t, G, reduced)
          \/ \E w \in Worker : \E v \in (Neighbors(w) \cap on) \ heard[w] :
               p = GhostTo(v, w, t, First + G + 1)
      BY DEF Exchanging
    <3>. QED
      BY <1>2, <3>1
  <2>. QED
    BY <2>1
<1>5. /\ reduced' = reduced + 1
      /\ UNCHANGED <<last_task, node, contribs, grids>>
      /\ net' = ResultsTo(Worker, t, "receive_max_error", reduced + 1)
  <2>1. \A w \in Worker :
          contribs[w] = Append(hist, [tid |-> t, cont |-> "receive_max_error"])
    BY <1>3 DEF ErrorOf
  <2>2. Worker = IF "receive_max_error" = "receive_grid" THEN {0} ELSE Worker
    OBVIOUS
  <2>3. /\ reduced' = reduced + 1
        /\ UNCHANGED <<last_task, node, contribs, grids>>
        /\ net' = net \cup ResultsTo(Worker, t, "receive_max_error", reduced + 1)
    BY <2>1, <2>2, AllCombined, ContNames
  <2>. QED
    BY <1>4, <2>3
<1>6. G + 1 # 0 /\ G + 1 \in Nat /\ G < Rounds /\ Rounds \in Nat
  BY FirstType DEF Exchanging
<1>7. \A p \in net' : \E w \in Worker : \A H : H # 0 => p = StartOf(w, t, H, reduced')
  BY <1>5 DEF StartOf, ResultsTo
<1>8. \A w \in Worker : LateNode(node[w], w, t, G + 1, {})
  <2>1. ASSUME NEW w \in Worker
        PROVE  LateNode(node[w], w, t, G + 1, {})
    <3>1. Only(node[w], t) /\ node[w].buffers[t]["receive_ghost"] = <<>>
          /\ InIteration(node[w], t, First + G + 1, "receive_max_error", Neighbors(w))
      BY <1>3 DEF OnNode, RunsRound
    <3>2. First + (G + 1) = First + G + 1
      BY FirstType
    <3>3. BeforeRound(node[w], w, t, G + 1)
      BY <1>6, <3>1, <3>2 DEF BeforeRound
    <3>4. Early(node[w].buffers[t]["receive_ghost"], w, t, First + (G + 1) + 1, {})
      BY <3>1, EarlyNone
    <3>. QED
      BY <3>1, <3>3, <3>4 DEF LateNode
  <2>. QED
    BY <2>1
<1>9. last_task' = t + 1 /\ \A g \in grids' : g[1] < t
  BY <1>5 DEF Exchanging
<1>. HIDE DEF next
<1>10. CASE G + 1 < Rounds
  <2>1. \A w \in Worker : none[w] \in SUBSET (Neighbors(w) \cap {}) /\ none[w] = {}
    OBVIOUS
  <2>2. \A w \in Worker : /\ LateNode(node'[w], w, t, G + 1, none[w])
                          /\ contribs'[w] = next /\ node'[w].begun = Done(t) + (G + 1)
    <3>1. Done(t) + G + 1 = Done(t) + (G + 1)
      <4>1. Done(t) \in Nat
        BY FirstType DEF Done
      <4>. QED
        BY <4>1
    <3>. QED
      BY <1>3, <1>5, <1>8, <2>1, <3>1
  <2>3. \A p \in net' : \E w \in Worker \ {} : p = StartOf(w, t, G + 1, reduced')
    BY <1>6, <1>7
  <2>. HIDE DEF none
  <2>4. Exchanging(next, t, G + 1, {}, none)'
    BY <1>9, <1>10, <2>1, <2>2, <2>3 DEF Exchanging
  <2>. QED
    BY <1>5, <2>4 DEF next, none
<1>11. CASE ~ (G + 1 < Rounds)
  <2>1. G + 1 = Rounds
    BY <1>6, <1>11
  <2>2. \A w \in Worker : LateNode(node'[w], w, t, Rounds, {}) /\ contribs'[w] = next
    BY <1>3, <1>5, <1>8, <2>1
  <2>3. \A w \in Worker : node'[w].begun = Done(last_task')
    <3>1. Done(t) + G + 1 = Done(t + 1)
      BY <2>1, WorkgroupAssumption, FirstType DEF Done, Tid
    <3>. QED
      BY <1>3, <1>5, <1>9, <3>1
  <2>4. \A p \in net' : \E w \in Worker \ {} : p = StartOf(w, t, Rounds, reduced')
    BY <1>6, <1>7, <2>1
  <2>5. Ending(next, t, {})'
    BY <1>9, <2>2, <2>3, <2>4 DEF Ending
  <2>. QED
    BY <1>5, <2>5 DEF next
<1>. QED
  BY <1>10, <1>11

\* w has done its rounds, and contributes its grid.
LEMMA EndStart ==
  ASSUME TypeOK, \A x \in Worker : Clean(node[x]), Uniform,
         NEW hist \in Seq(Contribution), NEW t \in Tid, NEW on \in SUBSET Worker,
         Ending(hist, t, on), NEW w \in Worker \ on, NEW m \in net,
         m = StartOf(w, t, Rounds, reduced), Create(m) \/ Resume(m)
  PROVE  Ending(hist, t, on \cup {w})'
<1>. DEFINE n == Started(node[w], w, t, Rounds, reduced)
            now == on \cup {w}
<1>1. reduced \in Nat /\ node[w] \in Nodes /\ FirstIt[w] = First
      /\ LateNode(node[w], w, t, Rounds, {}) /\ contribs[w] = hist /\ Clean(node[w])
  BY DEF Ending, TypeOK, Uniform
<1>2. /\ n \in Nodes /\ OverNode(n, w, t) /\ n.begun = node[w].begun /\ n.sends = {}
      /\ n.adds = <<GridFor(t)>> /\ n.grid = {}
  BY <1>1, StartsEnd
<1>3. Become(w, n, net \ {m}) /\ UNCHANGED <<last_task, reduced>>
  BY StartArrives
<1>. HIDE DEF n
<1>4. /\ node'[w].tasks = n.tasks /\ node'[w].buffers = n.buffers /\ node'[w].begun = n.begun
      /\ \A v \in Worker : v # w => node'[v] = node[v] /\ contribs'[v] = contribs[v]
      /\ net' = (net \ {m}) \cup n.sends
      /\ contribs'[w] = contribs[w] \o n.adds
      /\ grids' = grids \cup n.grid
  <2>1. net \ {m} \in SUBSET net
    OBVIOUS
  <2>. QED
    BY <1>2, <1>3, <2>1, BecomeFields
<1>5. \A x \in Worker \ now : LateNode(node'[x], x, t, Rounds, {}) /\ contribs'[x] = hist
  BY <1>4 DEF Ending
<1>6. \A x \in now : OverNode(node'[x], x, t) /\ contribs'[x] = Append(hist, GridFor(t))
  <2>1. OverNode(node'[w], w, t)
    BY <1>2, <1>4, SameNode
  <2>2. contribs'[w] = Append(hist, GridFor(t))
    BY <1>1, <1>2, <1>4, Contributes
  <2>3. \A x \in on : x # w /\ x \in Worker
    OBVIOUS
  <2>. QED
    BY <1>4, <2>1, <2>2, <2>3 DEF Ending
<1>7. \A x \in Worker : node'[x].begun = Done(last_task')
  BY <1>2, <1>3, <1>4 DEF Ending
<1>8. \A p \in net' : \E x \in Worker \ now : p = StartOf(x, t, Rounds, reduced')
  <2>1. ASSUME NEW p \in net'
        PROVE  \E x \in Worker \ now : p = StartOf(x, t, Rounds, reduced)
    <3>1. p \in net /\ p # m
      BY <1>2, <1>4
    <3>2. PICK x \in Worker \ on : p = StartOf(x, t, Rounds, reduced)
      BY <3>1 DEF Ending
    <3>3. x # w
      BY <3>1, <3>2
    <3>. QED
      BY <3>2, <3>3
  <2>. QED
    BY <1>3, <2>1
<1>9. last_task' = t + 1 /\ \A g \in grids' : g[1] < t
  BY <1>2, <1>3, <1>4 DEF Ending
<1>. QED
  BY <1>5, <1>6, <1>7, <1>8, <1>9 DEF Ending

\* The grids are combined.
LEMMA EndCombined ==
  ASSUME TypeOK, Combine, NEW hist \in Seq(Contribution), Len(hist) = reduced,
         NEW t \in Tid, NEW on \in SUBSET Worker, Ending(hist, t, on)
  PROVE  reduced' = reduced + 1 /\ Closing(Append(hist, GridFor(t)), t)'
<1>. DEFINE next == Append(hist, GridFor(t))
<1>1. reduced \in Nat /\ \A w \in Worker : Len(contribs[w]) >= reduced + 1
  BY CombineIs DEF TypeOK
<1>2. \A w \in Worker : w \in on
  <2>1. ASSUME NEW w \in Worker, contribs[w] = hist
        PROVE  FALSE
    BY <1>1, <2>1
  <2>. QED
    BY <2>1 DEF Ending
<1>3. \A w \in Worker : /\ OverNode(node[w], w, t) /\ contribs[w] = next
                        /\ node[w].begun = Done(last_task)
  BY <1>2 DEF Ending
<1>4. net = {}
  BY <1>2 DEF Ending
<1>5. /\ reduced' = reduced + 1
      /\ UNCHANGED <<last_task, node, contribs, grids>>
      /\ net' = ResultsTo({0}, t, "receive_grid", reduced + 1)
  <2>1. \A w \in Worker :
          contribs[w] = Append(hist, [tid |-> t, cont |-> "receive_grid"])
    BY <1>3 DEF GridFor
  <2>2. {0} = IF "receive_grid" = "receive_grid" THEN {0} ELSE Worker
    OBVIOUS
  <2>3. /\ reduced' = reduced + 1
        /\ UNCHANGED <<last_task, node, contribs, grids>>
        /\ net' = net \cup ResultsTo({0}, t, "receive_grid", reduced + 1)
    BY <2>1, <2>2, AllCombined, ContNames
  <2>. QED
    BY <1>4, <2>3
<1>6. net' \in SUBSET {GridMsg(t, reduced')}
  BY <1>5 DEF GridMsg, ResultsTo
<1>7. last_task' = t + 1 /\ \A g \in grids' : g[1] < t
  BY <1>5 DEF Ending
<1>. HIDE DEF next
<1>8. Closing(next, t)'
  BY <1>3, <1>5, <1>6, <1>7 DEF Closing
<1>. QED
  BY <1>5, <1>8 DEF next

\* Worker 0 has the grids: the task is over.
LEMMA CloseGrid ==
  ASSUME TypeOK, \A x \in Worker : Clean(node[x]),
         NEW hist \in Seq(Contribution), NEW t \in Tid, Closing(hist, t),
         NEW m \in net, Create(m) \/ Resume(m)
  PROVE  Idle(hist)' /\ reduced' = reduced
<1>. DEFINE n == Resumed(node[0], 0, t, m)
<1>1. m = GridMsg(t, reduced) /\ net = {m} /\ reduced \in Nat
  BY DEF Closing, TypeOK
<1>2. 0 \in Worker /\ node[0] \in Nodes /\ Clean(node[0]) /\ OverNode(node[0], 0, t)
      /\ contribs[0] = hist
  BY FirstType DEF Closing, TypeOK
<1>3. /\ n \in Nodes /\ \A s \in Tid : Without(n, s)
      /\ n.begun = node[0].begun /\ n.sends = {} /\ n.adds = <<>>
      /\ n.grid = {<<t, v>> : v \in Worker}
  BY <1>1, <1>2, GridTaken
<1>4. Become(0, n, net \ {m}) /\ UNCHANGED <<last_task, reduced>>
  BY <1>1, OtherArrives
<1>. HIDE DEF n
<1>5. /\ node'[0].tasks = n.tasks /\ node'[0].buffers = n.buffers /\ node'[0].begun = n.begun
      /\ \A v \in Worker : v # 0 => node'[v] = node[v] /\ contribs'[v] = contribs[v]
      /\ net' = (net \ {m}) \cup n.sends
      /\ contribs'[0] = contribs[0] \o n.adds
      /\ grids' = grids \cup n.grid
  <2>1. net \ {m} \in SUBSET net
    OBVIOUS
  <2>. QED
    BY <1>2, <1>3, <1>4, <2>1, BecomeFields
<1>6. \A s \in Tid : Without(node'[0], s)
  BY <1>3, <1>5, SameNode
<1>7. ASSUME NEW w \in Worker, w # 0
      PROVE  \A s \in Tid : Without(node'[w], s)
  <2>1. OverNode(node[w], w, t) /\ node'[w] = node[w]
    BY <1>5, <1>7 DEF Closing
  <2>2. Only(node[w], t) /\ node[w].buffers[t]["receive_ghost"] = <<>> /\ node[w].tasks[t] = None
    BY <1>7, <2>1 DEF OverNode
  <2>3. Without(node[w], t)
    BY <2>2, ContNames DEF Only, Without
  <2>. QED
    BY <2>1, <2>2, <2>3 DEF Only
<1>8. \A w \in Worker : (\A s \in Tid : Without(node'[w], s)) /\ contribs'[w] = hist
                        /\ node'[w].begun = Done(last_task')
  <2>1. contribs'[0] = hist
    BY <1>2, <1>3, <1>5, Contributes
  <2>. QED
    BY <1>3, <1>4, <1>5, <1>6, <1>7, <2>1 DEF Closing
<1>9. net' = {}
  BY <1>1, <1>3, <1>5
<1>10. \A g \in grids' : g[1] < last_task'
  <2>1. \A g \in n.grid : g[1] = t
    BY <1>3
  <2>2. last_task' = t + 1 /\ t \in Nat
    BY <1>4, WorkgroupAssumption DEF Closing, Tid
  <2>3. \A g \in grids : g[1] < t /\ g[1] \in Nat
    BY WorkgroupAssumption DEF Closing, TypeOK, Tid
  <2>. QED
    BY <1>5, <2>1, <2>2, <2>3
<1>. QED
  BY <1>4, <1>8, <1>9, <1>10 DEF Idle

\* A task is launched.
LEMMA Launched ==
  ASSUME TypeOK, Launch, NEW hist, Idle(hist), NEW t \in Tid, t = last_task
  PROVE  /\ reduced' = reduced
         /\ \/ Exchanging(hist, t, 0, {}, [w \in Worker |-> {}])'
            \/ Ending(hist, t, {})'
<1>. DEFINE none == [w \in Worker |-> {}]
<1>1. t \in Tid /\ last_task' = t + 1 /\ t \in Nat
  BY WorkgroupAssumption DEF Launch, TypeOK, Tid
<1>2. /\ UNCHANGED <<node, contribs, reduced, grids>>
      /\ net' = {[kind |-> "create", to |-> w, tid |-> t] : w \in Worker}
  BY DEF Launch, Idle
<1>3. \A p \in net' : \E w \in Worker : p = StartOf(w, t, 0, reduced')
  BY <1>2 DEF StartOf
<1>4. \A w \in Worker : LateNode(node[w], w, t, 0, {})
  <2>1. ASSUME NEW w \in Worker
        PROVE  LateNode(node[w], w, t, 0, {})
    <3>1. \A s \in Tid : Without(node[w], s)
      BY DEF Idle
    <3>2. Only(node[w], t) /\ BeforeRound(node[w], w, t, 0)
      BY <1>1, <3>1, ContNames DEF Only, Without, BeforeRound
    <3>3. node[w].buffers[t]["receive_ghost"] = <<>>
      BY <1>1, <3>1, ContNames DEF Without
    <3>4. Early(node[w].buffers[t]["receive_ghost"], w, t, First + 0 + 1, {})
      BY <3>3, EarlyNone
    <3>. QED
      BY <3>2, <3>4 DEF LateNode
  <2>. QED
    BY <2>1
<1>5. \A w \in Worker : contribs'[w] = hist /\ node'[w].begun = Done(t)
  BY <1>2 DEF Idle
<1>6. \A g \in grids' : g[1] < t
  BY <1>2 DEF Idle
<1>7. CASE 0 < Rounds
  <2>1. \A w \in Worker : none[w] \in SUBSET (Neighbors(w) \cap {}) /\ none[w] = {}
    OBVIOUS
  <2>2. \A w \in Worker : /\ LateNode(node'[w], w, t, 0, none[w])
                          /\ contribs'[w] = hist /\ node'[w].begun = Done(t) + 0
    <3>1. Done(t) + 0 = Done(t)
      <4>1. Done(t) \in Nat
        BY FirstType DEF Done
      <4>. QED
        BY <4>1
    <3>. QED
      BY <1>2, <1>4, <1>5, <2>1, <3>1
  <2>3. \A p \in net' : \E w \in Worker \ {} : p = StartOf(w, t, 0, reduced')
    BY <1>3
  <2>. HIDE DEF none
  <2>4. Exchanging(hist, t, 0, {}, none)'
    BY <1>1, <1>6, <1>7, <2>1, <2>2, <2>3 DEF Exchanging
  <2>. QED
    BY <1>1, <1>2, <2>4 DEF none
<1>8. CASE ~ (0 < Rounds)
  <2>1. Rounds = 0
    BY <1>8, FirstType
  <2>2. \A w \in Worker : LateNode(node'[w], w, t, Rounds, {}) /\ contribs'[w] = hist
    BY <1>2, <1>4, <1>5, <2>1
  <2>3. \A w \in Worker : node'[w].begun = Done(last_task')
    <3>1. Done(t) = Done(t + 1)
      BY <2>1 DEF Done
    <3>. QED
      BY <1>1, <1>5, <3>1
  <2>4. \A p \in net' : \E w \in Worker \ {} : p = StartOf(w, t, Rounds, reduced')
    BY <1>3, <2>1
  <2>5. Ending(hist, t, {})'
    BY <1>1, <1>6, <2>2, <2>3, <2>4 DEF Ending
  <2>. QED
    BY <1>1, <1>2, <2>5
<1>. QED
  BY <1>7, <1>8

\* No task is launched before the last one is over.
LEMMA LaunchedWhenIdle ==
  ASSUME Uniform, TypeOK, Launch, NEW hist, InStep(hist)
  PROVE  Idle(hist)
<1>1. ASSUME NEW t \in Tid, last_task = t + 1, \A g \in grids : g[1] < t
      PROVE  FALSE
  <2>1. t \in Nat /\ last_task - 1 = t /\ last_task # 0
    BY <1>1, WorkgroupAssumption DEF Tid
  <2>2. Finished(t)
    BY <2>1 DEF Launch, Uniform
  <2>3. <<t, 0>> \in grids
    BY <2>2, FirstType DEF Finished
  <2>4. <<t, 0>>[1] < t
    BY <1>1, <2>3
  <2>. QED
    BY <2>1, <2>4
<1>. QED
  BY <1>1 DEF InStep, Exchanging, Ending, Closing

\* What handlers send and contribute has left the node.
LEMMA StaysClean ==
  ASSUME TypeOK, \A x \in Worker : Clean(node[x]), NEW m \in net, Create(m) \/ Resume(m)
  PROVE  \A x \in Worker : Clean(node'[x])
<1>. DEFINE w == m.to
            t == m.tid
<1>1. w \in Worker /\ t \in Tid /\ (Resume(m) => m \in ResumeMsg)
  BY MessageFields DEF Resume
<1>2. node[w] \in Nodes
  BY <1>1 DEF TypeOK
<1>3. CASE Create(m)
  <2>. DEFINE n == Created(node[w], w, t)
  <2>1. Become(w, n, net \ {m})
    BY <1>3 DEF Create
  <2>2. n \in But(node[w], t)
    BY <1>1, <1>2, CreatedType
  <2>. HIDE DEF n, w, t
  <2>3. n \in Nodes /\ net \ {m} \in SUBSET net
    BY <2>2 DEF But
  <2>4. Clean(node'[w]) /\ \A v \in Worker : v # w => node'[v] = node[v]
    BY <1>1, <2>1, <2>3, BecomeFields
  <2>. QED
    BY <2>4
<1>4. CASE Resume(m)
  <2>. DEFINE n == Resumed(node[w], w, t, m)
  <2>1. Become(w, n, net \ {m})
    BY <1>4 DEF Resume
  <2>2. n \in But(node[w], t)
    BY <1>1, <1>2, <1>4, ResumedType
  <2>. HIDE DEF n, w, t
  <2>3. n \in Nodes /\ net \ {m} \in SUBSET net
    BY <2>2 DEF But
  <2>4. Clean(node'[w]) /\ \A v \in Worker : v # w => node'[v] = node[v]
    BY <1>1, <2>1, <2>3, BecomeFields
  <2>. QED
    BY <2>4
<1>. QED
  BY <1>3, <1>4

\* The iterations, as Lockstep sees them.
Iteration == [w \in Worker |-> node[w].begun]

\* A worker begins an iteration, or none does.
Advances == Abstract!Next \/ UNCHANGED Iteration

\* A handler that begins no iteration is a stutter of Lockstep.
LEMMA NodesKeep ==
  ASSUME \A w \in Worker : node'[w].begun = node[w].begun
  PROVE  Advances
BY DEF Advances, Iteration

\* A message, in each phase.
LEMMA ExchangeSteps ==
  ASSUME TypeOK, \A x \in Worker : Clean(node[x]), Uniform,
         NEW hist \in Seq(Contribution), NEW t \in Tid, NEW G \in Nat, NEW on \in SUBSET Worker,
         NEW heard \in [Worker -> SUBSET Worker], Exchanging(hist, t, G, on, heard),
         NEW m \in net, Create(m) \/ Resume(m)
  PROVE  InStep(hist)' /\ Advances
<1>1. \/ \E w \in Worker \ on : m = StartOf(w, t, G, reduced)
      \/ \E w \in Worker : \E v \in (Neighbors(w) \cap on) \ heard[w] :
           m = GhostTo(v, w, t, First + G + 1)
  BY DEF Exchanging
<1>2. CASE \E w \in Worker \ on : m = StartOf(w, t, G, reduced)
  <2>1. PICK w \in Worker \ on : m = StartOf(w, t, G, reduced)
    BY <1>2
  <2>2. PICK also \in [Worker -> SUBSET Worker] : Exchanging(hist, t, G, on \cup {w}, also)'
    BY <2>1, ExchangeStart
  <2>. DEFINE now == on \cup {w}
              B == Done(t) + G
  <2>3. now \in SUBSET Worker
    OBVIOUS
  <2>4. InStep(hist)'
    BY <2>2, <2>3 DEF InStep
  <2>5. /\ \A x \in Worker : node[x].begun = IF x \in on THEN B + 1 ELSE B
        /\ \A x \in Worker : node'[x].begun = IF x \in now THEN B + 1 ELSE B
    BY <2>2 DEF Exchanging
  <2>6. B \in Nat /\ B < Iterations
    <3>1. G < Rounds
      BY DEF Exchanging
    <3>2. Rounds = MaxIters - FirstIt[0] /\ Rounds \in Nat
      BY <3>1, FirstType DEF First, Rounds
    <3>3. CASE t = 0
      <4>1. B = G
        BY <3>3 DEF Done
      <4>2. MaxTasks = 1 \/ MaxTasks = 2
        BY WorkgroupAssumption
      <4>3. Iterations = Rounds \/ Iterations = Rounds + Rounds
        BY <3>2, <4>2 DEF Iterations
      <4>. QED
        BY <3>1, <3>2, <4>1, <4>3
    <3>4. CASE t # 0
      <4>1. t = 1 /\ MaxTasks = 2
        BY <3>4, WorkgroupAssumption DEF Tid
      <4>2. B = Rounds + G
        BY <4>1 DEF Done
      <4>3. Iterations = Rounds + Rounds
        BY <3>2, <4>1 DEF Iterations
      <4>. QED
        BY <3>1, <3>2, <4>2, <4>3
    <3>. QED
      BY <3>3, <3>4
  <2>. HIDE DEF B
  <2>7. Abstract!Begin(w)
    <3>1. Iteration[w] = B /\ \A v \in Worker : Iteration[v] = B \/ Iteration[v] = B + 1
      BY <2>5 DEF Iteration
    <3>2. Iteration' = [Iteration EXCEPT ![w] = B + 1]
      BY <2>5 DEF Iteration
    <3>3. Iteration[w] < Iterations /\ (\A v \in Worker : Iteration[w] <= Iteration[v])
          /\ Iteration' = [Iteration EXCEPT ![w] = Iteration[w] + 1]
      BY <2>6, <3>1, <3>2
    <3>. QED
      BY <3>3 DEF Abstract!Begin, Iteration
  <2>. QED
    BY <2>4, <2>7 DEF Advances, Abstract!Next
<1>3. CASE \E w \in Worker : \E v \in (Neighbors(w) \cap on) \ heard[w] :
             m = GhostTo(v, w, t, First + G + 1)
  <2>1. PICK w \in Worker : \E v \in (Neighbors(w) \cap on) \ heard[w] :
               m = GhostTo(v, w, t, First + G + 1)
    BY <1>3
  <2>2. PICK v \in (Neighbors(w) \cap on) \ heard[w] : m = GhostTo(v, w, t, First + G + 1)
    BY <2>1
  <2>3. PICK also \in [Worker -> SUBSET Worker] : Exchanging(hist, t, G, on, also)'
    BY <2>2, ExchangeGhost
  <2>4. InStep(hist)'
    BY <2>3 DEF InStep
  <2>5. \A x \in Worker : node'[x].begun = node[x].begun
    BY <2>3 DEF Exchanging
  <2>. QED
    BY <2>4, <2>5, NodesKeep
<1>. QED
  BY <1>1, <1>2, <1>3

\* A message, in any phase.
LEMMA MessageSteps ==
  ASSUME TypeOK, \A x \in Worker : Clean(node[x]), Uniform,
         NEW hist \in Seq(Contribution), InStep(hist), NEW m \in net, Create(m) \/ Resume(m)
  PROVE  InStep(hist)' /\ Advances
<1>1. CASE \E t \in Tid, G \in Nat, on \in SUBSET Worker, heard \in [Worker -> SUBSET Worker] :
             Exchanging(hist, t, G, on, heard)
  BY <1>1, ExchangeSteps
<1>2. CASE \E t \in Tid, on \in SUBSET Worker : Ending(hist, t, on)
  <2>1. PICK t \in Tid, on \in SUBSET Worker : Ending(hist, t, on)
    BY <1>2
  <2>2. PICK w \in Worker \ on : m = StartOf(w, t, Rounds, reduced)
    BY <2>1 DEF Ending
  <2>3. Ending(hist, t, on \cup {w})'
    BY <2>1, <2>2, EndStart
  <2>4. on \cup {w} \in SUBSET Worker
    OBVIOUS
  <2>5. InStep(hist)'
    BY <2>3, <2>4 DEF InStep
  <2>6. \A x \in Worker : node'[x].begun = node[x].begun
    <3>1. last_task' = last_task
      BY <2>1, <2>3 DEF Ending
    <3>. QED
      BY <2>1, <2>3, <3>1 DEF Ending
  <2>. QED
    BY <2>5, <2>6, NodesKeep
<1>3. CASE \E t \in Tid : Closing(hist, t)
  <2>1. PICK t \in Tid : Closing(hist, t)
    BY <1>3
  <2>2. Idle(hist)'
    BY <2>1, CloseGrid
  <2>3. last_task' = last_task
    BY DEF Create, Resume
  <2>4. \A x \in Worker : node'[x].begun = node[x].begun
    BY <2>1, <2>2, <2>3 DEF Closing, Idle
  <2>. QED
    BY <2>2, <2>4, NodesKeep DEF InStep
<1>4. CASE Idle(hist)
  BY <1>4 DEF Idle
<1>. QED
  BY <1>1, <1>2, <1>3, <1>4 DEF InStep

\* A reduction, in any phase.
LEMMA CombineSteps ==
  ASSUME TypeOK, Combine, NEW hist \in Seq(Contribution), Len(hist) = reduced, InStep(hist)
  PROVE  \E next \in Seq(Contribution) : Len(next) = reduced' /\ InStep(next)'
<1>1. reduced \in Nat /\ (\A w \in Worker : Len(contribs[w]) >= reduced + 1) /\ 0 \in Worker
  BY CombineIs, FirstType DEF TypeOK
<1>2. ~ (contribs[0] = hist)
  BY <1>1
<1>3. ASSUME NEW t \in Tid, NEW c \in Cont
      PROVE  LET next == Append(hist, [tid |-> t, cont |-> c])
             IN  next \in Seq(Contribution) /\ Len(next) = reduced + 1
  <2>. DEFINE e == [tid |-> t, cont |-> c]
  <2>1. e \in Contribution
    BY DEF Contribution
  <2>. HIDE DEF e
  <2>2. Append(hist, e) \in Seq(Contribution) /\ Len(Append(hist, e)) = reduced + 1
    BY <2>1
  <2>. QED
    BY <2>2 DEF e
<1>4. CASE \E t \in Tid, G \in Nat, on \in SUBSET Worker, heard \in [Worker -> SUBSET Worker] :
             Exchanging(hist, t, G, on, heard)
  <2>1. PICK t \in Tid, G \in Nat, on \in SUBSET Worker, heard \in [Worker -> SUBSET Worker] :
             Exchanging(hist, t, G, on, heard)
    BY <1>4
  <2>. DEFINE next == Append(hist, ErrorOf(t))
              none == [w \in Worker |-> {}]
  <2>2. reduced' = reduced + 1
        /\ (Exchanging(next, t, G + 1, {}, none)' \/ Ending(next, t, {})')
    BY <2>1, RoundCombined
  <2>3. next \in Seq(Contribution) /\ Len(next) = reduced + 1
    BY <1>3, ContNames DEF ErrorOf
  <2>4. none \in [Worker -> SUBSET Worker] /\ {} \in SUBSET Worker /\ G + 1 \in Nat
    OBVIOUS
  <2>. HIDE DEF next, none
  <2>5. InStep(next)'
    BY <2>2, <2>4 DEF InStep
  <2>. QED
    BY <2>2, <2>3, <2>5
<1>5. CASE \E t \in Tid, on \in SUBSET Worker : Ending(hist, t, on)
  <2>1. PICK t \in Tid, on \in SUBSET Worker : Ending(hist, t, on)
    BY <1>5
  <2>. DEFINE next == Append(hist, GridFor(t))
  <2>2. reduced' = reduced + 1 /\ Closing(next, t)'
    BY <2>1, EndCombined
  <2>3. next \in Seq(Contribution) /\ Len(next) = reduced + 1
    BY <1>3, ContNames DEF GridFor
  <2>. HIDE DEF next
  <2>4. InStep(next)'
    BY <2>2 DEF InStep
  <2>. QED
    BY <2>2, <2>3, <2>4
<1>. QED
  BY <1>1, <1>2, <1>4, <1>5 DEF InStep, Closing, Idle

\* Nothing of it depends on the active task.
LEMMA StaysInStep ==
  ASSUME NEW hist, InStep(hist), UNCHANGED <<last_task, net, contribs, reduced, grids>>,
         \A w \in Worker : /\ node'[w].tasks = node[w].tasks
                           /\ node'[w].buffers = node[w].buffers
                           /\ node'[w].begun = node[w].begun
  PROVE  InStep(hist)'
<1>1. \A w \in Worker : \A t, G, h :
        /\ LateNode(node[w], w, t, G, h) => LateNode(node'[w], w, t, G, h)
        /\ OnNode(node[w], w, t, G, h) => OnNode(node'[w], w, t, G, h)
        /\ OverNode(node[w], w, t) => OverNode(node'[w], w, t)
        /\ Without(node[w], t) => Without(node'[w], t)
  BY SameNode
<1>2. CASE \E t \in Tid, G \in Nat, on \in SUBSET Worker, heard \in [Worker -> SUBSET Worker] :
             Exchanging(hist, t, G, on, heard)
  <2>1. PICK t \in Tid, G \in Nat, on \in SUBSET Worker, heard \in [Worker -> SUBSET Worker] :
             Exchanging(hist, t, G, on, heard)
    BY <1>2
  <2>2. Exchanging(hist, t, G, on, heard)'
    BY <1>1, <2>1 DEF Exchanging
  <2>. QED
    BY <2>2 DEF InStep
<1>3. CASE \E t \in Tid, on \in SUBSET Worker : Ending(hist, t, on)
  <2>1. PICK t \in Tid, on \in SUBSET Worker : Ending(hist, t, on)
    BY <1>3
  <2>2. Ending(hist, t, on)'
    BY <1>1, <2>1 DEF Ending
  <2>. QED
    BY <2>2 DEF InStep
<1>4. CASE \E t \in Tid : Closing(hist, t)
  <2>1. PICK t \in Tid : Closing(hist, t)
    BY <1>4
  <2>2. Closing(hist, t)'
    BY <1>1, <2>1 DEF Closing
  <2>. QED
    BY <2>2 DEF InStep
<1>5. CASE Idle(hist)
  <2>1. Idle(hist)'
    BY <1>1, <1>5 DEF Idle
  <2>. QED
    BY <2>1 DEF InStep
<1>. QED
  BY <1>2, <1>3, <1>4, <1>5 DEF InStep

\* The invariant holds at first ...
LEMMA LockstepStarts ==
  ASSUME Init
  PROVE  LockstepInv /\ Abstract!Init
<1>1. TypeOK
  BY Starts
<1>2. \A w \in Worker : node[w] = Worker0
  BY DEF Init
<1>3. \A w \in Worker : Clean(node[w]) /\ node[w].begun = 0 /\ \A t \in Tid : Without(node[w], t)
  BY <1>2 DEF Worker0, Clean, Without
<1>4. Idle(<<>>)
  <2>1. Done(0) = 0
    BY DEF Done
  <2>. QED
    BY <1>3, <2>1 DEF Init, Idle
<1>5. <<>> \in Seq(Contribution) /\ Len(<<>>) = reduced
  BY DEF Init
<1>6. LockstepInv
  BY <1>1, <1>3, <1>4, <1>5 DEF LockstepInv, InStep
<1>7. Abstract!Init
  BY <1>3 DEF Abstract!Init
<1>. QED
  BY <1>6, <1>7

\* ... and every action keeps it.
LEMMA LockstepSteps ==
  ASSUME Uniform, LockstepInv, [Next]_vars
  PROVE  LockstepInv' /\ Advances
<1>1. TypeOK /\ \A w \in Worker : Clean(node[w])
  BY DEF LockstepInv
<1>2. PICK hist \in Seq(Contribution) : Len(hist) = reduced /\ InStep(hist)
  BY DEF LockstepInv
<1>3. CASE Launch
  <2>1. TypeOK' /\ UNCHANGED <<node, reduced>>
    BY <1>1, <1>3, LaunchStep DEF Launch
  <2>2. Idle(hist)
    BY <1>1, <1>2, <1>3, LaunchedWhenIdle
  <2>3. last_task \in Tid
    BY <1>1, <1>3, WorkgroupAssumption DEF Launch, TypeOK, Tid
  <2>4. PICK t \in Tid : t = last_task
    BY <2>3
  <2>. DEFINE none == [w \in Worker |-> {}]
  <2>5. Exchanging(hist, t, 0, {}, none)' \/ Ending(hist, t, {})'
    BY <1>1, <1>3, <2>2, <2>4, Launched
  <2>6. none \in [Worker -> SUBSET Worker] /\ {} \in SUBSET Worker /\ 0 \in Nat
    OBVIOUS
  <2>. HIDE DEF none
  <2>7. InStep(hist)'
    BY <2>5, <2>6 DEF InStep
  <2>8. LockstepInv'
    BY <1>1, <1>2, <2>1, <2>7 DEF LockstepInv
  <2>9. Advances
    BY <2>1, NodesKeep
  <2>. QED
    BY <2>8, <2>9
<1>4. ASSUME NEW m \in net, Create(m) \/ Resume(m)
      PROVE  LockstepInv' /\ Advances
  <2>1. TypeOK'
    BY <1>1, <1>4, CreateStep, ResumeStep
  <2>2. reduced' = reduced
    BY <1>4 DEF Create, Resume
  <2>3. InStep(hist)' /\ Advances
    BY <1>1, <1>2, <1>4, MessageSteps
  <2>4. \A w \in Worker : Clean(node'[w])
    BY <1>1, <1>4, StaysClean
  <2>5. LockstepInv'
    BY <1>2, <2>1, <2>2, <2>3, <2>4 DEF LockstepInv
  <2>. QED
    BY <2>3, <2>5
<1>5. CASE Combine
  <2>1. TypeOK' /\ node' = node
    BY <1>1, <1>5, CombineStep, CombineIs
  <2>2. \E next \in Seq(Contribution) : Len(next) = reduced' /\ InStep(next)'
    BY <1>1, <1>2, <1>5, CombineSteps
  <2>3. LockstepInv'
    BY <1>1, <2>1, <2>2 DEF LockstepInv
  <2>. QED
    BY <2>1, <2>3, NodesKeep
<1>6. ASSUME NEW w \in Worker, Migrate(w)
      PROVE  LockstepInv' /\ Advances
  <2>1. TypeOK'
    BY <1>1, <1>6, MigrateStep
  <2>2. \A v \in Worker : /\ node'[v].tasks = node[v].tasks /\ node'[v].buffers = node[v].buffers
                          /\ node'[v].begun = node[v].begun /\ node'[v].sends = node[v].sends
                          /\ node'[v].adds = node[v].adds /\ node'[v].grid = node[v].grid
    BY <1>1, <1>6, MigrateFields
  <2>3. UNCHANGED <<last_task, net, contribs, reduced, grids>>
    BY <1>6 DEF Migrate
  <2>4. InStep(hist)'
    BY <1>2, <2>2, <2>3, StaysInStep
  <2>5. LockstepInv'
    BY <1>1, <1>2, <2>1, <2>2, <2>3, <2>4 DEF LockstepInv, Clean
  <2>. QED
    BY <2>2, <2>5, NodesKeep
<1>7. CASE UNCHANGED vars
  <2>1. UNCHANGED <<last_task, node, net, contribs, reduced, grids>>
    BY <1>7 DEF vars
  <2>2. TypeOK'
    BY <1>1, <2>1 DEF TypeOK
  <2>3. InStep(hist)'
    BY <1>2, <2>1, StaysInStep
  <2>4. LockstepInv'
    BY <1>1, <1>2, <2>1, <2>2, <2>3 DEF LockstepInv
  <2>. QED
    BY <2>1, <2>4, NodesKeep
<1>. QED
  BY <1>3, <1>4, <1>5, <1>6, <1>7 DEF Next

LEMMA LockstepSafe ==
  ASSUME Uniform
  PROVE  Spec => []LockstepInv
<1>1. Init => LockstepInv
  BY LockstepStarts
<1>2. LockstepInv /\ [Next]_vars => LockstepInv'
  BY LockstepSteps
<1>. QED
  BY <1>1, <1>2, PTL DEF Spec

-----------------------------------------------------------------------------
\* What follows.

\* Two histories that differ by the same contribution at most agree.
LEMMA HistoryAgrees ==
  ASSUME NEW hist \in Seq(Contribution), NEW e \in Contribution, NEW a, NEW b,
         a \in {hist, Append(hist, e)}, b \in {hist, Append(hist, e)},
         NEW k \in (DOMAIN a) \cap DOMAIN b
  PROVE  a[k] = b[k]
OBVIOUS

\* In each phase the workers differ by one contribution at most.
LEMMA AgreeInStep ==
  ASSUME LockstepInv
  PROVE  ContributionsAgree
<1>1. PICK hist \in Seq(Contribution) : InStep(hist)
  BY DEF LockstepInv
<1>2. \E e \in Contribution : \A w \in Worker : contribs[w] \in {hist, Append(hist, e)}
  <2>1. CASE \E t \in Tid, G \in Nat, on \in SUBSET Worker,
                heard \in [Worker -> SUBSET Worker] : Exchanging(hist, t, G, on, heard)
    <3>1. PICK t \in Tid, G \in Nat, on \in SUBSET Worker, heard \in [Worker -> SUBSET Worker] :
                 Exchanging(hist, t, G, on, heard)
      BY <2>1
    <3>2. ErrorOf(t) \in Contribution
      BY ContNames DEF ErrorOf, Contribution
    <3>3. \A w \in Worker : contribs[w] \in {hist, Append(hist, ErrorOf(t))}
      BY <3>1 DEF Exchanging
    <3>. QED
      BY <3>2, <3>3
  <2>2. CASE \E t \in Tid, on \in SUBSET Worker : Ending(hist, t, on)
    <3>1. PICK t \in Tid, on \in SUBSET Worker : Ending(hist, t, on)
      BY <2>2
    <3>2. GridFor(t) \in Contribution
      BY ContNames DEF GridFor, Contribution
    <3>3. \A w \in Worker : contribs[w] \in {hist, Append(hist, GridFor(t))}
      BY <3>1 DEF Ending
    <3>. QED
      BY <3>2, <3>3
  <2>3. CASE (\E t \in Tid : Closing(hist, t)) \/ Idle(hist)
    <3>1. \A w \in Worker : contribs[w] = hist
      BY <2>3 DEF Closing, Idle
    <3>2. 0 \in Tid
      BY WorkgroupAssumption DEF Tid
    <3>3. GridFor(0) \in Contribution
      BY <3>2, ContNames DEF GridFor, Contribution
    <3>. QED
      BY <3>1, <3>3
  <2>. QED
    BY <1>1, <2>1, <2>2, <2>3 DEF InStep
<1>3. PICK e \in Contribution : \A w \in Worker : contribs[w] \in {hist, Append(hist, e)}
  BY <1>2
<1>. QED
  BY <1>3, HistoryAgrees DEF ContributionsAgree

\* The ghosts of a task in lockstep.
GhostsMatch(k, t, w) ==
  /\ k.ghosts \subseteq {<<t, v, k.it>> : v \in Neighbors(w)}
  /\ k.nRecvd = Cardinality(k.ghosts)

\* A task in an iteration has the ghosts that it counts.
LEMMA IterationGhosts ==
  ASSUME NEW n, NEW t \in Tid, NEW w \in Worker, NEW i, NEW cont, NEW heard \in SUBSET Neighbors(w),
         InIteration(n, t, i, cont, heard)
  PROVE  GhostsMatch(n.tasks[t], t, w)
<1>. DEFINE k == n.tasks[t]
            c == Cardinality(heard)
            g == GhostsFrom(heard, t, i)
<1>1. IsFiniteSet(heard)
  BY NeighborCount, FS_Subset
<1>2. Cardinality(g) = c
  BY <1>1, GhostCount
<1>3. g \subseteq {<<t, v, i>> : v \in Neighbors(w)}
  BY DEF GhostsFrom
<1>4. k = TaskOf(cont, i, c, g, TRUE)
  BY DEF InIteration
<1>. HIDE DEF k, c, g
<1>5. k.ghosts = g /\ k.it = i /\ k.nRecvd = c
  BY <1>4 DEF TaskOf
<1>6. GhostsMatch(k, t, w)
  BY <1>2, <1>3, <1>5 DEF GhostsMatch
<1>. QED
  BY <1>6 DEF k

LEMMA GhostsInStep ==
  ASSUME LockstepInv
  PROVE  GhostsOfThisIteration
<1>1. PICK hist \in Seq(Contribution) : InStep(hist)
  BY DEF LockstepInv
<1>2. ASSUME NEW w \in Worker, NEW s \in Tid, node[w].tasks[s] # None
      PROVE  GhostsMatch(node[w].tasks[s], s, w)
  <2>. DEFINE n == node[w]
  <2>1. ASSUME NEW t \in Tid, Only(n, t)
        PROVE  s = t
    BY <1>2, <2>1 DEF Only, Without
  <2>2. ASSUME NEW t \in Tid, NEW G, NEW heard, LateNode(n, w, t, G, heard)
        PROVE  GhostsMatch(n.tasks[s], s, w)
    <3>1. s = t
      BY <2>1, <2>2 DEF LateNode
    <3>2. InIteration(n, t, First + G, "receive_max_error", Neighbors(w))
      BY <1>2, <2>2, <3>1 DEF LateNode, BeforeRound
    <3>3. Neighbors(w) \in SUBSET Neighbors(w)
      OBVIOUS
    <3>. QED
      BY <3>1, <3>2, <3>3, IterationGhosts
  <2>3. ASSUME NEW t \in Tid, NEW G, NEW heard \in SUBSET Neighbors(w), OnNode(n, w, t, G, heard)
        PROVE  GhostsMatch(n.tasks[s], s, w)
    <3>1. s = t
      BY <2>1, <2>3 DEF OnNode
    <3>. QED
      BY <2>3, <3>1, IterationGhosts DEF OnNode, RunsRound
  <2>4. ASSUME NEW t \in Tid, OverNode(n, w, t)
        PROVE  GhostsMatch(n.tasks[s], s, w)
    <3>1. s = t
      BY <2>1, <2>4 DEF OverNode
    <3>2. w = 0
      BY <1>2, <2>4, <3>1 DEF OverNode
    <3>3. PICK heard \in {{}, Neighbors(0)} :
            InIteration(n, t, First + Rounds, "receive_grid", heard)
      BY <2>4, <3>2 DEF OverNode
    <3>4. heard \in SUBSET Neighbors(w)
      BY <3>2
    <3>. QED
      BY <3>1, <3>3, <3>4, IterationGhosts
  <2>5. CASE \E t \in Tid, G \in Nat, on \in SUBSET Worker,
                heard \in [Worker -> SUBSET Worker] : Exchanging(hist, t, G, on, heard)
    <3>1. PICK t \in Tid, G \in Nat, on \in SUBSET Worker, heard \in [Worker -> SUBSET Worker] :
                 Exchanging(hist, t, G, on, heard)
      BY <2>5
    <3>2. heard[w] \in SUBSET Neighbors(w)
          /\ (LateNode(n, w, t, G, heard[w]) \/ OnNode(n, w, t, G, heard[w]))
      BY <3>1 DEF Exchanging
    <3>. QED
      BY <2>2, <2>3, <3>2
  <2>6. CASE \E t \in Tid, on \in SUBSET Worker : Ending(hist, t, on)
    <3>1. PICK t \in Tid, on \in SUBSET Worker : Ending(hist, t, on)
      BY <2>6
    <3>2. LateNode(n, w, t, Rounds, {}) \/ OverNode(n, w, t)
      BY <3>1 DEF Ending
    <3>. QED
      BY <2>2, <2>4, <3>2
  <2>7. CASE \E t \in Tid : Closing(hist, t)
    BY <2>4, <2>7 DEF Closing
  <2>8. CASE Idle(hist)
    BY <1>2, <2>8 DEF Idle, Without
  <2>. QED
    BY <1>1, <2>5, <2>6, <2>7, <2>8 DEF InStep
<1>. QED
  BY <1>2 DEF GhostsOfThisIteration, GhostsMatch, Live

\* Tasks that run alone, and find the same value in `it': the k-th contributions
\* of all workers are for the same continuation of the same task, so that pairing
\* them by their order alone, as Charm++ does, gives the result of one reduction.
THEOREM WorkersAgree ==
  ASSUME Uniform
  PROVE  Spec => []ContributionsAgree
<1>1. LockstepInv => ContributionsAgree
  BY AgreeInStep
<1>. QED
  BY <1>1, LockstepSafe, PTL

\* ... a task counts the ghosts of its neighbours in its own iteration, each once,
\* however early they came: receive_ghost() compares no iteration numbers.
THEOREM OwnGhosts ==
  ASSUME Uniform
  PROVE  Spec => []GhostsOfThisIteration
<1>1. LockstepInv => GhostsOfThisIteration
  BY GhostsInStep
<1>. QED
  BY <1>1, LockstepSafe, PTL

\* ... and the workers implement Lockstep: initial states are initial states, and
\* a step begins one iteration, of a worker that is not ahead, or none.  (That
\* all get to the last one, the liveness of InLockstep, is checked only.)
THEOREM BulkSynchronous ==
  ASSUME Uniform
  PROVE  Spec => Abstract!Init /\ [][Abstract!Next]_Iteration
<1>1. Init => Abstract!Init
  BY LockstepStarts
<1>2. LockstepInv /\ [Next]_vars => [Abstract!Next]_Iteration
  BY LockstepSteps DEF Advances
<1>. QED
  BY <1>1, <1>2, LockstepSafe, PTL DEF Spec
============================================================================
