-------------------------- MODULE MyThreadPoolProofs --------------------------
(***************************************************************************)
(* Proofs about MyThreadPool.tla: in any program, on any number of threads *)
(* and with any stealing, a task is in one place at a time, and so is run  *)
(* at most once and never lost.                                            *)
(***************************************************************************)
EXTENDS MyThreadPool, SequenceTheorems, TLAPS

\* The task k is in the queue q, and each task is there at most once.
In(q, k) == \E i \in DOMAIN q : q[i] = k

Once(q) == \A i, j \in DOMAIN q : q[i] = q[j] => i = j

\* The tasks that are in some queue.
Waiting == {k \in Tasks : \/ In(shared, k)
                            \/ \E v \in DOMAIN queues : In(queues[v], k)}

\* The i-th act of the task k hands over another task.
IsRun(s, k, i) ==
  k \in Tasks /\ i \in DOMAIN s.acts[k] /\ s.acts[k][i].kind = "run"

Types ==
  /\ scenario \in Scenarios /\ running \in BOOLEAN
  /\ shared \in Seq(Tasks) /\ queues \in Seq(Seq(Tasks))
  /\ Len(queues) <= scenario.threads
  /\ given \in 0..Len(scenario.tasks)
  /\ pc \in [Workers ->
              {"none", "test", "pop", "shared", "steal", "run", "exited"}]
  /\ task \in [Workers -> Tasks \union {NoTask}]
  /\ act \in [Workers -> Nat \ {0}]
  /\ stole \in [Workers -> [i : Nat, numQueue : Nat]]
  /\ done \subseteq Tasks

\* A worker has a queue and, in a task, the task; it searches among the
\* queues there are.
Places ==
  \A w \in Workers :
    /\ pc[w] # "none" => w + 1 \in DOMAIN queues
    /\ pc[w] = "run" <=> task[w] # NoTask
    /\ pc[w] = "steal" => stole[w].numQueue \in 1..Len(queues)

\* A task is in one queue, once.
Apart ==
  /\ Once(shared)
  /\ \A v \in DOMAIN queues :
       /\ Once(queues[v])
       /\ \A k \in Tasks : In(queues[v], k) =>
            /\ ~In(shared, k)
            /\ \A u \in DOMAIN queues : In(queues[u], k) => u = v

\* A task that is run is in no queue, and run by one worker, once.
RunOnce ==
  /\ done \cap Waiting = {}
  /\ \A w \in Workers : task[w] # NoTask =>
       /\ task[w] \notin Waiting \union done
       /\ \A x \in Workers : task[x] = task[w] => x = w

\* The tasks that are nowhere, and the acts of tasks that are over.
NewTasks == (Tasks \ (Waiting \union done)) \ {task[w] : w \in Workers}

Executed ==
  {p \in Tasks \X Nat :
     \/ p[1] \in done
     \/ \E w \in Workers : task[w] = p[1] /\ p[2] < act[w]}

\* A task that nobody has handed over yet is nowhere.
Fresh ==
  /\ \A i \in DOMAIN scenario.tasks :
       given < i => scenario.tasks[i] \in NewTasks
  /\ \A k \in Tasks : \A i \in Nat :
       IsRun(scenario, k, i) /\ <<k, i>> \notin Executed =>
         scenario.acts[k][i].task \in NewTasks

IInv == Types /\ Places /\ Apart /\ RunOnce /\ Fresh

\* A task that is handed over by a task is handed over by nobody else.
LEMMA HandedOverOnce ==
  ASSUME NEW s \in Scenarios, NEW k \in Tasks, NEW i \in Nat, IsRun(s, k, i)
  PROVE  /\ s.acts[k][i].task \in Tasks
         /\ \A j \in DOMAIN s.tasks : s.tasks[j] # s.acts[k][i].task
         /\ \A l \in Tasks : \A j \in Nat :
              IsRun(s, l, j) /\ s.acts[l][j].task = s.acts[k][i].task =>
                k = l /\ i = j
BY HandedOverOnceAssumption DEF IsRun

-----------------------------------------------------------------------------
(* Queues.                                                                 *)

LEMMA AppendOnce ==
  ASSUME NEW S, NEW q \in Seq(S), NEW k \in S
  PROVE  /\ Append(q, k) \in Seq(S)
         /\ \A l : In(Append(q, k), l) <=> In(q, l) \/ l = k
         /\ Once(q) /\ ~In(q, k) => Once(Append(q, k))
<1>1. /\ Append(q, k) \in Seq(S) /\ Len(Append(q, k)) = Len(q) + 1
      /\ \A i \in 1..Len(q) : Append(q, k)[i] = q[i]
      /\ Append(q, k)[Len(q) + 1] = k
      /\ Len(q) \in Nat /\ DOMAIN q = 1..Len(q)
      /\ DOMAIN Append(q, k) = 1..Len(q) + 1
  BY AppendProperties, LenProperties
<1>2. \A i : i \in DOMAIN Append(q, k) <=> i \in DOMAIN q \/ i = Len(q) + 1
  BY <1>1
<1>3. Len(q) + 1 \notin DOMAIN q
  BY <1>1
<1>4. \A i \in DOMAIN q : Append(q, k)[i] = q[i]
  BY <1>1
<1>5. ASSUME NEW l PROVE In(Append(q, k), l) <=> In(q, l) \/ l = k
  BY <1>1, <1>2, <1>4 DEF In
<1>6. ASSUME Once(q), ~In(q, k) PROVE Once(Append(q, k))
  BY <1>1, <1>2, <1>3, <1>4, <1>6 DEF In, Once
<1> QED
  BY <1>1, <1>5, <1>6

LEMMA TailOnce ==
  ASSUME NEW S, NEW q \in Seq(S), q # <<>>, Once(q)
  PROVE  /\ Tail(q) \in Seq(S) /\ Head(q) \in S /\ In(q, Head(q))
         /\ \A l : In(Tail(q), l) <=> In(q, l) /\ l # Head(q)
         /\ Once(Tail(q))
<1>1. /\ Tail(q) \in Seq(S) /\ Len(Tail(q)) = Len(q) - 1
      /\ Head(q) \in S /\ Head(q) = q[1]
      /\ \A i \in 1..Len(Tail(q)) : Tail(q)[i] = q[i + 1]
  BY HeadTailProperties
<1>2. /\ Len(q) \in Nat \ {0} /\ DOMAIN q = 1..Len(q)
      /\ DOMAIN Tail(q) = 1..Len(q) - 1
  BY <1>1, LenProperties, EmptySeq
<1>3. \A i \in DOMAIN Tail(q) : /\ i + 1 \in DOMAIN q /\ i + 1 # 1 /\ i \in Nat
                                /\ Tail(q)[i] = q[i + 1]
  BY <1>1, <1>2
<1>4. 1 \in DOMAIN q
  BY <1>2
<1>5. \A j \in DOMAIN q : j # 1 => j - 1 \in DOMAIN Tail(q) /\ j - 1 + 1 = j
  BY <1>2
<1>6. ASSUME NEW l PROVE In(Tail(q), l) <=> In(q, l) /\ l # Head(q)
  <2>1. ASSUME In(Tail(q), l) PROVE In(q, l) /\ l # Head(q)
    <3>1. PICK i \in DOMAIN Tail(q) : Tail(q)[i] = l
      BY <2>1 DEF In
    <3>2. i + 1 \in DOMAIN q /\ i + 1 # 1 /\ q[i + 1] = l
      BY <1>3, <3>1
    <3> QED
      BY <1>1, <1>4, <3>2 DEF In, Once
  <2>2. ASSUME In(q, l), l # Head(q) PROVE In(Tail(q), l)
    <3>1. PICK j \in DOMAIN q : q[j] = l
      BY <2>2 DEF In
    <3>2. j - 1 \in DOMAIN Tail(q) /\ j - 1 + 1 = j
      BY <1>1, <1>5, <2>2, <3>1
    <3>3. Tail(q)[j - 1] = l
      BY <1>3, <3>1, <3>2
    <3> QED
      BY <3>2, <3>3 DEF In
  <2> QED
    BY <2>1, <2>2
<1>7. Once(Tail(q))
  <2> SUFFICES ASSUME NEW i \in DOMAIN Tail(q), NEW j \in DOMAIN Tail(q),
                      Tail(q)[i] = Tail(q)[j]
               PROVE  i = j
    BY DEF Once
  <2>1. i + 1 = j + 1
    BY <1>3 DEF Once
  <2> QED
    BY <1>3, <2>1
<1>8. In(q, Head(q))
  BY <1>1, <1>4 DEF In
<1> QED
  BY <1>1, <1>6, <1>7, <1>8

LEMMA FrontOnce ==
  ASSUME NEW S, NEW q \in Seq(S), q # <<>>, Once(q)
  PROVE  /\ Front(q) \in Seq(S) /\ Last(q) \in S /\ In(q, Last(q))
         /\ \A l : In(Front(q), l) <=> In(q, l) /\ l # Last(q)
         /\ Once(Front(q))
<1>1. Len(q) \in Nat \ {0} /\ DOMAIN q = 1..Len(q) /\ Len(q) \in DOMAIN q
  BY LenProperties, EmptySeq
<1>2. Last(q) = q[Len(q)] /\ Last(q) \in S /\ In(q, Last(q))
  BY <1>1, ElementOfSeq DEF Last, In
<1>3. /\ Front(q) \in Seq(S) /\ DOMAIN Front(q) = 1..Len(q) - 1
      /\ \A i \in 1..Len(q) - 1 : Front(q)[i] = q[i]
  <2>1. \A i \in 1..Len(q) - 1 : q[i] \in S
    BY <1>1, ElementOfSeq
  <2>2. Len(q) - 1 \in Nat /\ (Len(q) - 1) - 1 + 1 = Len(q) - 1
    BY <1>1
  <2> QED
    BY <1>1, <2>1, <2>2, SubSeqProperties, LenProperties DEF Front
<1>4. \A i : i \in DOMAIN q <=> i \in DOMAIN Front(q) \/ i = Len(q)
  BY <1>1, <1>3
<1>5. Len(q) \notin DOMAIN Front(q)
  BY <1>1, <1>3
<1>6. \A i \in DOMAIN Front(q) : Front(q)[i] = q[i]
  BY <1>3
<1>7. ASSUME NEW l PROVE In(Front(q), l) <=> In(q, l) /\ l # Last(q)
  BY <1>1, <1>2, <1>4, <1>5, <1>6 DEF In, Once
<1>8. Once(Front(q))
  BY <1>4, <1>6 DEF Once
<1> QED
  BY <1>2, <1>3, <1>7, <1>8

-----------------------------------------------------------------------------
(* The queues of the pool.                                                 *)

LEMMA IntoShared ==
  ASSUME Types, Apart, NEW k \in Tasks, k \notin Waiting,
         shared' = Append(shared, k), queues' = queues
  PROVE  shared' \in Seq(Tasks) /\ Apart' /\ Waiting' = Waiting \union {k}
<1>1. /\ shared \in Seq(Tasks) /\ Once(shared) /\ ~In(shared, k)
      /\ \A v \in DOMAIN queues : ~In(queues[v], k)
  BY DEF Types, Apart, Waiting
<1>2. /\ shared' \in Seq(Tasks) /\ Once(shared')
      /\ \A l : In(shared', l) <=> In(shared, l) \/ l = k
  BY <1>1, AppendOnce
<1> QED
  BY <1>1, <1>2 DEF Apart, Waiting

LEMMA OutOfShared ==
  ASSUME Types, Apart, shared # <<>>,
         shared' = Tail(shared), queues' = queues
  PROVE  /\ shared' \in Seq(Tasks) /\ Apart'
         /\ Head(shared) \in Waiting
         /\ Waiting' = Waiting \ {Head(shared)}
<1> DEFINE k == Head(shared)
<1>1. shared \in Seq(Tasks) /\ Once(shared)
  BY DEF Types, Apart
<1>2. /\ shared' \in Seq(Tasks) /\ k \in Tasks /\ In(shared, k)
      /\ Once(shared')
      /\ \A l : In(shared', l) <=> In(shared, l) /\ l # k
  BY <1>1, TailOnce
<1> HIDE DEF k
<1>3. \A v \in DOMAIN queues : ~In(queues[v], k)
  BY <1>2 DEF Apart
<1>4. k \in Waiting /\ Waiting' = Waiting \ {k}
  BY <1>2, <1>3 DEF Waiting
<1>5. Apart'
  BY <1>2 DEF Apart
<1> QED
  BY <1>2, <1>4, <1>5 DEF k

LEMMA IntoQueue ==
  ASSUME Types, Apart, NEW k \in Tasks, k \notin Waiting,
         NEW v \in DOMAIN queues, shared' = shared,
         queues' = [queues EXCEPT ![v] = Append(@, k)]
  PROVE  /\ queues' \in Seq(Seq(Tasks)) /\ Len(queues') = Len(queues)
         /\ Apart' /\ Waiting' = Waiting \union {k}
<1>1. /\ queues \in Seq(Seq(Tasks)) /\ queues[v] \in Seq(Tasks)
      /\ Once(queues[v]) /\ ~In(shared, k)
      /\ \A u \in DOMAIN queues : ~In(queues[u], k)
  BY ElementOfSeq, LenProperties DEF Types, Apart, Waiting
<1>2. /\ DOMAIN queues' = DOMAIN queues
      /\ queues'[v] = Append(queues[v], k)
      /\ \A u \in DOMAIN queues : u # v => queues'[u] = queues[u]
  BY <1>1
<1>3. /\ queues'[v] \in Seq(Tasks) /\ Once(queues'[v])
      /\ \A l : In(queues'[v], l) <=> In(queues[v], l) \/ l = k
  BY <1>1, <1>2, AppendOnce
<1>4. queues' \in Seq(Seq(Tasks)) /\ Len(queues') = Len(queues)
  BY <1>1, <1>2, <1>3, ExceptSeq
<1>5. Waiting' = Waiting \union {k}
  BY <1>1, <1>2, <1>3 DEF Waiting
<1>6. Apart'
  BY <1>1, <1>2, <1>3 DEF Apart
<1> QED
  BY <1>4, <1>5, <1>6

\* Taken from either end.
LEMMA OutOfQueue ==
  ASSUME Types, Apart, NEW k, NEW q \in Seq(Tasks),
         NEW v \in DOMAIN queues, shared' = shared,
         queues' = [queues EXCEPT ![v] = q],
         In(queues[v], k), Once(q),
         \A l : In(q, l) <=> In(queues[v], l) /\ l # k
  PROVE  /\ queues' \in Seq(Seq(Tasks)) /\ Len(queues') = Len(queues)
         /\ Apart' /\ k \in Waiting /\ Waiting' = Waiting \ {k}
<1>1. queues \in Seq(Seq(Tasks)) /\ queues[v] \in Seq(Tasks)
  BY ElementOfSeq, LenProperties DEF Types
<1>2. k \in Tasks
  BY <1>1, ElementOfSeq, LenProperties DEF In
<1>3. /\ ~In(shared, k)
      /\ \A u \in DOMAIN queues : u # v => ~In(queues[u], k)
  BY <1>2 DEF Apart
<1>4. /\ DOMAIN queues' = DOMAIN queues /\ queues'[v] = q
      /\ \A u \in DOMAIN queues : u # v => queues'[u] = queues[u]
  BY <1>1
<1>5. queues' \in Seq(Seq(Tasks)) /\ Len(queues') = Len(queues)
  BY <1>1, <1>4, ExceptSeq
<1>6. k \in Waiting /\ Waiting' = Waiting \ {k}
  BY <1>2, <1>3, <1>4 DEF Waiting
<1>7. Apart'
  BY <1>4 DEF Apart
<1> QED
  BY <1>5, <1>6, <1>7

LEMMA NewQueue ==
  ASSUME Types, Apart, shared' = shared, queues' = Append(queues, <<>>)
  PROVE  /\ queues' \in Seq(Seq(Tasks)) /\ Len(queues') = Len(queues) + 1
         /\ Apart' /\ Waiting' = Waiting
<1>1. queues \in Seq(Seq(Tasks)) /\ <<>> \in Seq(Tasks)
  BY EmptySeq DEF Types
<1>2. /\ queues' \in Seq(Seq(Tasks)) /\ Len(queues') = Len(queues) + 1
      /\ \A v \in 1..Len(queues) : queues'[v] = queues[v]
      /\ queues'[Len(queues) + 1] = <<>>
  BY <1>1, AppendProperties
<1>3. /\ DOMAIN queues = 1..Len(queues) /\ Len(queues) \in Nat
      /\ DOMAIN queues' = 1..Len(queues) + 1
  BY <1>1, <1>2, LenProperties
<1>4. \A v : v \in DOMAIN queues' <=> v \in DOMAIN queues \/ v = Len(queues) + 1
  BY <1>3
<1>5. /\ \A v \in DOMAIN queues : queues'[v] = queues[v]
      /\ \A k : ~In(queues'[Len(queues) + 1], k)
      /\ Once(queues'[Len(queues) + 1])
  BY <1>2, <1>3 DEF In, Once
<1>6. Waiting' = Waiting
  BY <1>4, <1>5 DEF Waiting
<1>7. Apart'
  BY <1>4, <1>5 DEF Apart
<1> QED
  BY <1>2, <1>6, <1>7

-----------------------------------------------------------------------------
(* What happens to a task: it is handed over, taken by a worker, and done. *)

\* The task k is put into a queue.
HandsOver(k) ==
  /\ k \in NewTasks
  /\ Waiting' = Waiting \union {k}
  /\ UNCHANGED <<task, done, scenario>>

\* Worker w takes the task k out of a queue.
Takes(w, k) ==
  /\ w \in Workers /\ k \in Waiting /\ task[w] = NoTask
  /\ Waiting' = Waiting \ {k}
  /\ task' = [task EXCEPT ![w] = k]
  /\ act' = [act EXCEPT ![w] = 1]
  /\ UNCHANGED <<done, scenario, given>>

\* Worker w has done its task.
Finishes(w) ==
  /\ w \in Workers /\ task[w] # NoTask
  /\ \A i \in Nat : IsRun(scenario, task[w], i) => i < act[w]
  /\ Waiting' = Waiting
  /\ done' = done \union {task[w]}
  /\ task' = [task EXCEPT ![w] = NoTask]
  /\ UNCHANGED <<act, scenario, given>>

LEMMA HandsOverOnce ==
  ASSUME IInv, NEW k, HandsOver(k) PROVE RunOnce'
<1>1. \A w \in Workers : task[w] # k
  BY DEF HandsOver, NewTasks
<1> QED
  BY <1>1 DEF IInv, HandsOver, NewTasks, RunOnce, Workers

LEMMA TakesOnce ==
  ASSUME IInv, NEW w, NEW k, Takes(w, k) PROVE RunOnce'
<1>1. /\ task'[w] = k /\ k # NoTask
      /\ \A x \in Workers : x # w => task'[x] = task[x]
      /\ Workers' = Workers /\ done' = done
  BY NoTaskAssumption DEF IInv, Types, Takes, Workers, Waiting
<1>2. k \notin done /\ \A x \in Workers : task[x] # k
  BY <1>1 DEF IInv, RunOnce, Takes
<1> QED
  BY <1>1, <1>2 DEF IInv, RunOnce, Takes

LEMMA FinishesOnce ==
  ASSUME IInv, NEW w, Finishes(w) PROVE RunOnce'
<1>1. /\ task'[w] = NoTask
      /\ \A x \in Workers : x # w => task'[x] = task[x]
      /\ Workers' = Workers /\ w \in Workers
  BY DEF IInv, Types, Finishes, Workers
<1>2. task[w] \notin Waiting /\ \A x \in Workers : x # w => task[x] # task[w]
  BY <1>1 DEF IInv, RunOnce, Finishes
<1> QED
  BY <1>1, <1>2 DEF IInv, RunOnce, Finishes

\* What was not new does not become new, and only the task that is handed
\* over stops being new.
LEMMA HandsOverNew ==
  ASSUME Types, NEW k, HandsOver(k)
  PROVE  NewTasks' = NewTasks \ {k}
BY DEF Types, HandsOver, NewTasks, Workers

LEMMA TakesNew ==
  ASSUME Types, NEW w, NEW k, Takes(w, k)
  PROVE  NewTasks \subseteq NewTasks' /\ Executed \subseteq Executed'
<1>1. /\ task'[w] = k /\ w \in Workers /\ Workers' = Workers
      /\ \A x \in Workers : x # w => task'[x] = task[x] /\ act'[x] = act[x]
  BY DEF Types, Takes, Workers
<1>2. NewTasks \subseteq NewTasks'
  BY <1>1 DEF Takes, NewTasks
<1>3. Executed \subseteq Executed'
  <2> SUFFICES ASSUME NEW p \in Executed PROVE p \in Executed'
    OBVIOUS
  <2>1. p \in Tasks \X Nat /\ p[1] \in Tasks
    BY DEF Executed
  <2>2. \A x \in Workers : task[x] = p[1] => x # w
    BY <2>1, NoTaskAssumption DEF Takes
  <2> QED
    BY <1>1, <2>1, <2>2 DEF Takes, Executed
<1> QED
  BY <1>2, <1>3

LEMMA FinishesNew ==
  ASSUME IInv, NEW w, Finishes(w)
  PROVE  NewTasks \subseteq NewTasks' /\ Executed \subseteq Executed'
<1>1. /\ task'[w] = NoTask /\ w \in Workers /\ Workers' = Workers
      /\ \A x \in Workers : x # w => task'[x] = task[x]
      /\ act' = act
  BY DEF IInv, Types, Finishes, Workers
<1>2. NewTasks \subseteq NewTasks'
  BY <1>1, NoTaskAssumption DEF Finishes, NewTasks
<1>3. Executed \subseteq Executed'
  <2> SUFFICES ASSUME NEW p \in Executed PROVE p \in Executed'
    OBVIOUS
  <2> QED
    BY <1>1 DEF Finishes, Executed
<1> QED
  BY <1>2, <1>3

\* What is new and not handed over stays fresh.
LEMMA FreshKept ==
  ASSUME Types, Fresh, UNCHANGED <<scenario, given>>,
         NewTasks \subseteq NewTasks', Executed \subseteq Executed'
  PROVE  Fresh'
BY DEF Fresh

-----------------------------------------------------------------------------
(* The invariant.                                                          *)

LEMMA InitInv == Init => IInv
<1> SUFFICES ASSUME Init PROVE IInv
  OBVIOUS
<1>1. /\ scenario \in Scenarios /\ Workers = 0..scenario.threads - 1
      /\ scenario.threads \in Nat /\ scenario.tasks \in Seq(Tasks)
      /\ Len(scenario.tasks) \in Nat
  BY ScenariosAssumption, LenProperties DEF Init, Workers
<1>2. Types
  <2>1. <<>> \in Seq(Tasks) /\ <<>> \in Seq(Seq(Tasks)) /\ Len(<<>>) = 0
    BY EmptySeq
  <2>2. shared \in Seq(Tasks) /\ queues \in Seq(Seq(Tasks)) /\ Len(queues) = 0
    BY <2>1 DEF Init
  <2>3. /\ pc \in [Workers -> {"none", "test", "pop", "shared", "steal", "run",
                             "exited"}]
        /\ task \in [Workers -> Tasks \union {NoTask}]
        /\ act \in [Workers -> Nat \ {0}] /\ done \subseteq Tasks
    BY DEF Init
  <2>4. stole \in [Workers -> [i : Nat, numQueue : Nat]]
    BY DEF Init
  <2>5. given \in 0..Len(scenario.tasks)
    BY <1>1 DEF Init
  <2>6. running \in BOOLEAN
    BY Zenon DEF Init
  <2>7. Len(queues) <= scenario.threads
    BY <1>1, <2>2
  <2> QED
    BY <1>1, <2>2, <2>3, <2>4, <2>5, <2>6, <2>7 DEF Types
<1>3. Places
  BY DEF Init, Places
<1>4. Waiting = {} /\ DOMAIN shared = {} /\ DOMAIN queues = {}
  BY DEF Init, Waiting, In
<1>5. Apart
  BY <1>4 DEF Apart, Once
<1>6. RunOnce
  BY <1>4 DEF Init, RunOnce
<1>7. NewTasks = Tasks
  BY <1>4, NoTaskAssumption DEF Init, NewTasks
<1>8. Fresh
  BY <1>1, <1>7, ElementOfSeq, LenProperties, HandedOverOnce DEF Fresh
<1> QED
  BY <1>2, <1>3, <1>5, <1>6, <1>8 DEF IInv

LEMMA SameTasks ==
  ASSUME IInv, Types', Places', Apart', Waiting' = Waiting,
         UNCHANGED <<scenario, given, task, done>>, Executed \subseteq Executed'
  PROVE  IInv'
<1>1. NewTasks' = NewTasks
  BY DEF NewTasks, Workers
<1>2. Fresh'
  BY <1>1, FreshKept DEF IInv
<1>3. RunOnce'
  BY DEF IInv, RunOnce, Workers
<1> QED
  BY <1>2, <1>3 DEF IInv

\* A worker begins a task that it has taken out of a queue.
LEMMA BeginInv ==
  ASSUME IInv, NEW w \in Workers, NEW k \in Waiting, Begin(w, k),
         pc[w] \in {"pop", "shared", "steal"}, UNCHANGED stole,
         shared' \in Seq(Tasks), queues' \in Seq(Seq(Tasks)),
         Len(queues') = Len(queues), Apart', Waiting' = Waiting \ {k}
  PROVE  IInv' /\ Takes(w, k)
<1>1. /\ k \in Tasks /\ k # NoTask /\ task[w] = NoTask
      /\ Workers' = Workers
  BY NoTaskAssumption DEF IInv, Places, Waiting, Begin, Workers
<1>2. Takes(w, k)
  BY <1>1 DEF Begin, Takes
<1>3. Types'
  BY <1>1 DEF IInv, Types, Begin, Goto
<1>4. DOMAIN queues' = DOMAIN queues
  BY LenProperties DEF IInv, Types
<1>5. Places'
  BY <1>1, <1>4 DEF IInv, Types, Places, Begin, Goto
<1>6. RunOnce' /\ Fresh'
  BY <1>2, TakesOnce, TakesNew, FreshKept DEF IInv, Takes
<1> QED
  BY <1>2, <1>3, <1>5, <1>6 DEF IInv

\* A worker finds no task, or looks whether the pool is running.
LEMMA EmptyInv ==
  ASSUME IInv, NEW w \in Workers, pc[w] \notin {"none", "run"},
         NEW place \in {"pop", "shared", "steal", "test", "exited"},
         Empty(w, place),
         stole' \in [Workers -> [i : Nat, numQueue : Nat]],
         \A x \in Workers : x # w => stole'[x] = stole[x],
         place = "steal" => stole'[w].numQueue \in 1..Len(queues)
  PROVE  IInv'
<1>1. Types'
  BY DEF IInv, Types, Empty, Goto, Workers
<1>2. Places'
  BY DEF IInv, Types, Places, Empty, Goto, Workers
<1>3. Apart' /\ Waiting' = Waiting /\ Executed' = Executed
  BY DEF IInv, Apart, Waiting, Empty, Executed, Workers
<1> QED
  BY <1>1, <1>2, <1>3, SameTasks DEF Empty

-----------------------------------------------------------------------------
(* The steps of the owner.                                                 *)

\* The owner's next task is new, and no other that is still to come.
LEMMA RunInv ==
  ASSUME IInv, Run PROVE IInv' /\ \E k : HandsOver(k)
<1> DEFINE k == scenario.tasks[given + 1]
<1>1. /\ scenario.tasks \in Seq(Tasks) /\ Len(scenario.tasks) \in Nat
      /\ DOMAIN scenario.tasks = 1..Len(scenario.tasks)
      /\ given \in Nat /\ given < Len(scenario.tasks)
      /\ given + 1 \in DOMAIN scenario.tasks
  BY ScenariosAssumption, LenProperties DEF IInv, Types, Run
<1>2. k \in NewTasks /\ k \in Tasks /\ k \notin Waiting
  BY <1>1 DEF IInv, Fresh, NewTasks
<1>3. shared' = Append(shared, k) /\ queues' = queues
  BY DEF Run
<1> HIDE DEF k
<1>4. shared' \in Seq(Tasks) /\ Apart' /\ Waiting' = Waiting \union {k}
  BY <1>2, <1>3, IntoShared DEF IInv
<1>5. HandsOver(k)
  BY <1>2, <1>4 DEF HandsOver, Run, workerVars
<1>6. Types' /\ Places'
  BY <1>1, <1>3, <1>4 DEF IInv, Types, Places, Run, workerVars, Workers
<1>7. NewTasks' = NewTasks \ {k} /\ Executed' = Executed
  BY <1>5, HandsOverNew DEF IInv, Run, workerVars, Executed, Workers
<1>8. \A i \in DOMAIN scenario.tasks :
        given + 1 < i => scenario.tasks[i] \in NewTasks /\ scenario.tasks[i] # k
  <2>1. \A i, j \in DOMAIN scenario.tasks :
          scenario.tasks[i] = scenario.tasks[j] => i = j
    BY HandedOverOnceAssumption DEF IInv, Types
  <2>2. \A i \in DOMAIN scenario.tasks :
          given + 1 < i => given < i /\ i # given + 1
    BY <1>1
  <2> QED
    BY <1>1, <2>1, <2>2 DEF IInv, Fresh, k
<1>9. \A l \in Tasks : \A i \in Nat :
        IsRun(scenario, l, i) => scenario.acts[l][i].task # k
  BY <1>1, HandedOverOnce DEF IInv, Types, k
<1>10. Fresh'
  BY <1>1, <1>7, <1>8, <1>9 DEF IInv, Fresh, Run
<1> QED
  BY <1>4, <1>5, <1>6, <1>10, HandsOverOnce DEF IInv

LEMMA StartThreadInv ==
  ASSUME IInv, StartThread
  PROVE  IInv' /\ UNCHANGED <<Waiting, task, done>>
<1> DEFINE w == Len(queues)
<1>1. /\ w \in Workers /\ Workers' = Workers /\ w \in Nat
      /\ w + 1 \notin DOMAIN queues /\ DOMAIN queues = 1..w
      /\ scenario.threads \in Nat /\ w < scenario.threads
  BY ScenariosAssumption, LenProperties
     DEF IInv, Types, StartThread, Workers
<1>2. pc[w] = "none" /\ task[w] = NoTask
  BY <1>1 DEF IInv, Places
<1>3. /\ queues' \in Seq(Seq(Tasks)) /\ Len(queues') = w + 1
      /\ Apart' /\ Waiting' = Waiting
  BY NewQueue DEF IInv, StartThread
<1>4. DOMAIN queues' = 1..w + 1 /\ 1..w \subseteq 1..w + 1
  BY <1>1, <1>3, LenProperties
<1> HIDE DEF w
<1>5. pc' = [pc EXCEPT ![w] = "test"] /\ w = Len(queues)
  BY DEF StartThread, w
<1>6. Types'
  <2>1. pc' \in [Workers -> {"none", "test", "pop", "shared", "steal", "run",
                             "exited"}]
    BY <1>1, <1>5 DEF IInv, Types
  <2>2. Len(queues') <= scenario.threads
    BY <1>1, <1>3, <1>5
  <2>3. UNCHANGED <<scenario, running, shared, given, task, act, stole, done>>
    BY DEF StartThread
  <2> QED
    BY <1>1, <1>3, <2>1, <2>2, <2>3 DEF IInv, Types
<1>7. Places'
  <2>1. UNCHANGED <<task, stole>>
    BY DEF StartThread
  <2>2. ASSUME NEW x \in Workers
        PROVE  /\ pc'[x] # "none" => x + 1 \in 1..w + 1
               /\ pc'[x] = "run" <=> task[x] # NoTask
               /\ pc'[x] = "steal" => stole[x].numQueue \in 1..w + 1
    <3>1. CASE x = w
      <4>1. pc'[x] = "test"
        BY <1>1, <1>5, <3>1 DEF IInv, Types
      <4>2. task[x] = NoTask /\ x + 1 \in 1..w + 1
        BY <1>1, <1>2, <3>1
      <4> QED
        BY <4>1, <4>2
    <3>2. CASE x # w
      <4>1. pc'[x] = pc[x]
        BY <1>5, <3>2 DEF IInv, Types
      <4>2. /\ pc[x] # "none" => x + 1 \in 1..w
            /\ pc[x] = "run" <=> task[x] # NoTask
            /\ pc[x] = "steal" => stole[x].numQueue \in 1..w
        BY <1>1, <1>5 DEF IInv, Places
      <4> QED
        BY <1>4, <4>1, <4>2
    <3> QED
      BY <3>1, <3>2
  <2> QED
    BY <1>1, <1>3, <1>4, <2>1, <2>2 DEF Places
<1>8. Executed' = Executed
  BY <1>1 DEF StartThread, Executed
<1> QED
  BY <1>3, <1>6, <1>7, <1>8, SameTasks DEF StartThread

LEMMA StartThrowsInv ==
  ASSUME IInv, StartThrows
  PROVE  IInv' /\ UNCHANGED <<Waiting, task, done>>
<1>1. /\ queues' \in Seq(Seq(Tasks)) /\ Len(queues') = Len(queues) + 1
      /\ Apart' /\ Waiting' = Waiting
  BY NewQueue DEF IInv, StartThrows
<1>2. /\ Len(queues) \in Nat /\ DOMAIN queues = 1..Len(queues)
      /\ DOMAIN queues' = 1..Len(queues) + 1
      /\ 1..Len(queues) \subseteq 1..Len(queues) + 1
      /\ scenario.threads \in Nat /\ Workers' = Workers
  BY <1>1, ScenariosAssumption, LenProperties
     DEF IInv, Types, StartThrows, Workers
<1>3. Types'
  <2>1. Len(queues') <= scenario.threads
    BY <1>1, <1>2 DEF StartThrows
  <2>3. running' \in BOOLEAN
    BY Zenon DEF StartThrows
  <2>2. UNCHANGED <<scenario, shared, given, pc, task, act, stole, done>>
    BY DEF StartThrows, workerVars
  <2> QED
    BY <1>1, <1>2, <2>1, <2>2, <2>3 DEF IInv, Types
<1>4. Places'
  BY <1>1, <1>2 DEF IInv, Types, Places, StartThrows, workerVars
<1>5. Executed' = Executed
  BY <1>2 DEF StartThrows, workerVars, Executed
<1> QED
  BY <1>1, <1>3, <1>4, <1>5, SameTasks DEF StartThrows, workerVars

\* Whatever else the owner does, no task is moved.
LEMMA OwnerInv ==
  ASSUME IInv, Start \/ StartReturns \/ Stop \/ Dtor \/ Join
  PROVE  IInv' /\ UNCHANGED <<Waiting, task, done>>
<1>1. UNCHANGED <<scenario, shared, queues, given, pc, task, act, stole, done>>
  BY DEF Start, StartReturns, Stop, Dtor, Join, workerVars
<1>2. running' \in BOOLEAN
  BY Zenon DEF IInv, Types, Start, StartReturns, Stop, Dtor, Join
<1>3. Types' /\ Places' /\ Apart'
  BY <1>1, <1>2 DEF IInv, Types, Places, Apart, Workers
<1>4. Waiting' = Waiting /\ Executed' = Executed
  BY <1>1 DEF Waiting, Executed, Workers
<1> QED
  BY <1>1, <1>3, <1>4, SameTasks

-----------------------------------------------------------------------------
(* The steps of a worker.                                                  *)

LEMMA WorkerHasQueue ==
  ASSUME IInv, NEW w \in Workers, pc[w] # "none"
  PROVE  /\ w + 1 \in DOMAIN queues /\ queues[w + 1] \in Seq(Tasks)
         /\ Len(queues) \in Nat \ {0} /\ DOMAIN queues = 1..Len(queues)
<1>1. w + 1 \in DOMAIN queues
  BY DEF IInv, Places
<1> QED
  BY <1>1, ElementOfSeq, LenProperties DEF IInv, Types

LEMMA PopInv ==
  ASSUME IInv, NEW w \in Workers, Pop(w)
  PROVE  IInv' /\ (\/ \E k : Takes(w, k)
                   \/ UNCHANGED <<Waiting, task, done>>)
<1>1. w + 1 \in DOMAIN queues /\ queues[w + 1] \in Seq(Tasks)
  BY WorkerHasQueue DEF Pop
<1>2. CASE queues[w + 1] # <<>>
  <2> DEFINE q == queues[w + 1]
             k == Last(q)
  <2>1. /\ Begin(w, k) /\ UNCHANGED <<shared, stole>> /\ pc[w] = "pop"
        /\ queues' = [queues EXCEPT ![w + 1] = Front(q)]
    BY <1>2 DEF Pop, LeftByPopBack, Empty
  <2>2. Once(q)
    BY <1>1 DEF IInv, Apart
  <2>3. /\ Front(q) \in Seq(Tasks) /\ In(q, k) /\ Once(Front(q))
        /\ \A l : In(Front(q), l) <=> In(q, l) /\ l # k
    BY <1>1, <1>2, <2>2, FrontOnce
  <2> HIDE DEF k
  <2>4. /\ queues' \in Seq(Seq(Tasks)) /\ Len(queues') = Len(queues)
        /\ Apart' /\ k \in Waiting /\ Waiting' = Waiting \ {k}
    BY <1>1, <2>1, <2>3, OutOfQueue DEF IInv
  <2>5. shared' \in Seq(Tasks)
    BY <2>1 DEF IInv, Types
  <2> QED
    BY <2>1, <2>4, <2>5, BeginInv
<1>3. CASE queues[w + 1] = <<>>
  <2>1. Empty(w, "shared") /\ stole' = stole /\ pc[w] = "pop"
    BY <1>3 DEF Pop
  <2>2. IInv'
    BY <2>1, EmptyInv DEF IInv, Types
  <2> QED
    BY <2>1, <2>2 DEF Empty, Waiting
<1> QED
  BY <1>2, <1>3

LEMMA PopSharedInv ==
  ASSUME IInv, NEW w \in Workers, PopShared(w)
  PROVE  IInv' /\ (\/ \E k : Takes(w, k)
                   \/ UNCHANGED <<Waiting, task, done>>)
<1>1. CASE shared # <<>>
  <2> DEFINE k == Head(shared)
  <2>1. /\ Begin(w, k) /\ UNCHANGED <<queues, stole>> /\ pc[w] = "shared"
        /\ shared' = Tail(shared)
    BY <1>1 DEF PopShared
  <2>2. /\ shared' \in Seq(Tasks) /\ Apart' /\ k \in Waiting
        /\ Waiting' = Waiting \ {k}
    BY <1>1, <2>1, OutOfShared DEF IInv
  <2> HIDE DEF k
  <2>3. queues' \in Seq(Seq(Tasks)) /\ Len(queues') = Len(queues)
    BY <2>1 DEF IInv, Types
  <2> QED
    BY <2>1, <2>2, <2>3, BeginInv
<1>2. CASE shared = <<>>
  <2>1. /\ Empty(w, "steal") /\ pc[w] = "shared"
        /\ stole' = [stole EXCEPT ![w] = [i |-> 0, numQueue |-> Len(queues)]]
    BY <1>2 DEF PopShared
  <2>2. Len(queues) \in Nat \ {0}
    BY <2>1, WorkerHasQueue
  <2>3. /\ stole' \in [Workers -> [i : Nat, numQueue : Nat]]
        /\ \A x \in Workers : x # w => stole'[x] = stole[x]
        /\ stole'[w].numQueue \in 1..Len(queues)
    BY <2>1, <2>2 DEF IInv, Types
  <2>4. IInv'
    BY <2>1, <2>3, EmptyInv
  <2> QED
    BY <2>1, <2>4 DEF Empty, Waiting
<1> QED
  BY <1>1, <1>2

LEMMA StealInv ==
  ASSUME IInv, NEW w \in Workers, Steal(w)
  PROVE  IInv' /\ (\/ \E k : Takes(w, k)
                   \/ UNCHANGED <<Waiting, task, done>>)
<1> DEFINE v == Victim(w) + 1
           q == queues[v]
<1>1. v \in DOMAIN queues /\ q \in Seq(Tasks)
  <2>1. /\ stole[w].numQueue \in 1..Len(queues) /\ stole[w].i \in Nat
        /\ Len(queues) \in Nat /\ DOMAIN queues = 1..Len(queues)
    BY WorkerHasQueue DEF IInv, Types, Places, Steal
  <2>2. w + stole[w].i + 1 \in Nat
    BY <2>1 DEF Workers
  <2>3. (w + stole[w].i + 1) % stole[w].numQueue \in 0..stole[w].numQueue - 1
    BY <2>1, <2>2
  <2>4. v \in DOMAIN queues
    BY <2>1, <2>3 DEF Victim
  <2> QED
    BY <2>4, ElementOfSeq, LenProperties DEF IInv, Types
<1>2. CASE q # <<>>
  <2> DEFINE k == Head(q)
  <2>1. /\ Begin(w, k) /\ UNCHANGED <<shared, stole>> /\ pc[w] = "steal"
        /\ queues' = [queues EXCEPT ![v] = Tail(q)]
    BY <1>2 DEF Steal
  <2>2. Once(q)
    BY <1>1 DEF IInv, Apart
  <2> HIDE DEF v
  <2>3. /\ Tail(q) \in Seq(Tasks) /\ In(q, k) /\ Once(Tail(q))
        /\ \A l : In(Tail(q), l) <=> In(q, l) /\ l # k
    BY <1>1, <1>2, <2>2, TailOnce
  <2> HIDE DEF k
  <2>4. /\ queues' \in Seq(Seq(Tasks)) /\ Len(queues') = Len(queues)
        /\ Apart' /\ k \in Waiting /\ Waiting' = Waiting \ {k}
    BY <1>1, <2>1, <2>3, OutOfQueue DEF IInv
  <2>5. shared' \in Seq(Tasks)
    BY <2>1 DEF IInv, Types
  <2> QED
    BY <2>1, <2>4, <2>5, BeginInv
<1>3. CASE q = <<>>
  <2> DEFINE place == IF stole[w].i + 1 < stole[w].numQueue
                      THEN "steal" ELSE "test"
  <2>1. /\ Empty(w, place) /\ pc[w] = "steal"
        /\ stole' = [stole EXCEPT ![w].i = @ + 1]
    BY <1>3 DEF Steal
  <2>2. /\ stole[w].numQueue \in 1..Len(queues)
        /\ stole[w] \in [i : Nat, numQueue : Nat]
    BY <2>1 DEF IInv, Types, Places
  <2>3. /\ stole' \in [Workers -> [i : Nat, numQueue : Nat]]
        /\ \A x \in Workers : x # w => stole'[x] = stole[x]
        /\ stole'[w].numQueue = stole[w].numQueue
    <3>1. stole \in [Workers -> [i : Nat, numQueue : Nat]]
      BY DEF IInv, Types
    <3>2. [stole[w] EXCEPT !.i = @ + 1] \in [i : Nat, numQueue : Nat]
      BY <2>2
    <3>3. stole'[w] = [stole[w] EXCEPT !.i = @ + 1]
      BY <2>1, <3>1
    <3> QED
      BY <2>1, <2>2, <3>1, <3>2, <3>3
  <2>4. place \in {"pop", "shared", "steal", "test", "exited"}
    OBVIOUS
  <2> HIDE DEF place
  <2>5. IInv'
    BY <2>1, <2>2, <2>3, <2>4, EmptyInv
  <2> QED
    BY <2>1, <2>5 DEF Empty, Waiting
<1> QED
  BY <1>2, <1>3

\* An act that hands a task to run() puts a new one into the worker's queue.
LEMMA ActRunInv ==
  ASSUME IInv, NEW w \in Workers, Act(w),
         scenario.acts[task[w]][act[w]].kind = "run"
  PROVE  IInv' /\ \E k : HandsOver(k)
<1> DEFINE t == task[w]
           n == act[w]
           k == scenario.acts[t][n].task
<1>1. /\ scenario \in Scenarios /\ n \in Nat \ {0}
      /\ task[w] \in Tasks /\ pc[w] = "run"
  BY DEF IInv, Types, Places, Act
<1>2. scenario.acts[t] \in Seq([kind : {"run", "wait", "stop"},
                                task : Tasks \union {NoTask}])
  BY <1>1, ScenariosAssumption
<1>3. n \in DOMAIN scenario.acts[t]
  BY <1>1, <1>2, LenProperties DEF Act
<1>4. IsRun(scenario, t, n)
  BY <1>1, <1>3 DEF IsRun
<1>5. t \notin done /\ \A x \in Workers : task[x] = t => x = w
  BY <1>1, NoTaskAssumption DEF IInv, RunOnce
<1>6. <<t, n>> \notin Executed
  BY <1>1, <1>5 DEF Executed
<1>7. k \in NewTasks /\ k \in Tasks /\ k \notin Waiting
  BY <1>1, <1>4, <1>6 DEF IInv, Fresh, NewTasks
<1>8. /\ queues' = [queues EXCEPT ![w + 1] = Append(@, k)]
      /\ act' = [act EXCEPT ![w] = @ + 1]
      /\ UNCHANGED <<scenario, running, shared, given, pc, task, stole, done>>
  BY DEF Act
<1>9. /\ \A l \in Tasks : \A i \in Nat :
           IsRun(scenario, l, i) /\ scenario.acts[l][i].task = k =>
             l = t /\ i = n
      /\ \A i \in DOMAIN scenario.tasks : scenario.tasks[i] # k
  BY <1>1, <1>4, HandedOverOnce
<1> HIDE DEF k, t, n
<1>10. w + 1 \in DOMAIN queues
  BY <1>1, WorkerHasQueue
<1>11. /\ queues' \in Seq(Seq(Tasks)) /\ Len(queues') = Len(queues)
       /\ Apart' /\ Waiting' = Waiting \union {k}
  BY <1>7, <1>8, <1>10, IntoQueue DEF IInv
<1>12. HandsOver(k)
  BY <1>7, <1>8, <1>11 DEF HandsOver
<1>13. Workers' = Workers /\ DOMAIN queues' = DOMAIN queues
  BY <1>8, <1>11, LenProperties DEF IInv, Types, Workers
<1>14. Types'
  <2>1. act' \in [Workers -> Nat \ {0}]
    BY <1>8 DEF IInv, Types
  <2> QED
    BY <1>8, <1>11, <1>13, <2>1 DEF IInv, Types
<1>15. Places'
  BY <1>8, <1>11, <1>13 DEF IInv, Places
<1>16. NewTasks' = NewTasks \ {k}
  BY <1>12, HandsOverNew DEF IInv
<1>17. Executed \subseteq Executed' /\ <<t, n>> \in Executed'
  <2>1. act'[w] = n + 1 /\ \A x \in Workers : x # w => act'[x] = act[x]
    BY <1>8 DEF IInv, Types, n
  <2>2. task[w] = t /\ act[w] = n /\ t \in Tasks /\ n \in Nat /\ n < n + 1
    BY <1>1 DEF t, n
  <2>3. ASSUME NEW p \in Executed PROVE p \in Executed'
    <3>1. p \in Tasks \X Nat /\ p[2] \in Nat
      BY DEF Executed
    <3>2. ASSUME NEW x \in Workers, task[x] = p[1], p[2] < act[x]
          PROVE  p[2] < act'[x]
      BY <2>1, <2>2, <3>1, <3>2
    <3> QED
      BY <1>8, <1>13, <3>1, <3>2 DEF Executed
  <2>4. <<t, n>> \in Executed'
    BY <1>8, <1>13, <2>1, <2>2 DEF Executed
  <2> QED
    BY <2>3, <2>4
<1>18. Fresh'
  BY <1>8, <1>9, <1>16, <1>17 DEF IInv, Fresh
<1> QED
  BY <1>11, <1>12, <1>14, <1>15, <1>18, HandsOverOnce DEF IInv

\* The other acts move no task.
LEMMA ActElseInv ==
  ASSUME IInv, NEW w \in Workers, Act(w),
         scenario.acts[task[w]][act[w]].kind # "run"
  PROVE  IInv' /\ UNCHANGED <<Waiting, task, done>>
<1>1. /\ act' = [act EXCEPT ![w] = @ + 1]
      /\ UNCHANGED <<scenario, shared, queues, given, pc, task, stole, done>>
  BY DEF Act
<1>2. running' \in BOOLEAN
  BY Zenon DEF IInv, Types, Act
<1>3. Workers' = Workers
  BY <1>1 DEF Workers
<1>4. Types'
  BY <1>1, <1>2, <1>3 DEF IInv, Types
<1>5. Places' /\ Apart' /\ Waiting' = Waiting
  BY <1>1, <1>3 DEF IInv, Places, Apart, Waiting
<1>6. Executed \subseteq Executed'
  <2> SUFFICES ASSUME NEW p \in Executed PROVE p \in Executed'
    OBVIOUS
  <2>1. p \in Tasks \X Nat /\ p[2] \in Nat
    BY DEF Executed
  <2>2. ASSUME NEW x \in Workers, p[2] < act[x] PROVE p[2] < act'[x]
    BY <1>1, <2>1, <2>2 DEF IInv, Types
  <2> QED
    BY <1>1, <1>3, <2>1, <2>2 DEF Executed
<1> QED
  BY <1>1, <1>4, <1>5, <1>6, SameTasks

LEMMA TaskReturnsInv ==
  ASSUME IInv, NEW w \in Workers, TaskReturns(w)
  PROVE  IInv' /\ Finishes(w)
<1>1. /\ scenario \in Scenarios /\ act[w] \in Nat
      /\ task[w] \in Tasks /\ task[w] # NoTask
  BY DEF IInv, Types, Places, TaskReturns
<1>2. Len(scenario.acts[task[w]]) \in Nat
      /\ DOMAIN scenario.acts[task[w]] = 1..Len(scenario.acts[task[w]])
  BY <1>1, ScenariosAssumption, LenProperties
<1>3. \A i \in Nat : IsRun(scenario, task[w], i) => i < act[w]
  BY <1>1, <1>2 DEF IsRun, TaskReturns
<1>4. Finishes(w)
  BY <1>1, <1>3 DEF TaskReturns, Finishes, Waiting
<1>5. Workers' = Workers
  BY DEF TaskReturns, Workers
<1>6. Types'
  BY <1>1, <1>5 DEF IInv, Types, TaskReturns, Goto
<1>7. Places'
  BY <1>5 DEF IInv, Types, Places, TaskReturns, Goto
<1>8. Apart'
  BY DEF IInv, Apart, TaskReturns
<1>9. RunOnce' /\ Fresh'
  BY <1>4, FinishesOnce, FinishesNew, FreshKept DEF IInv, Finishes
<1> QED
  BY <1>4, <1>6, <1>7, <1>8, <1>9 DEF IInv

LEMMA TestRunningInv ==
  ASSUME IInv, NEW w \in Workers, TestRunning(w)
  PROVE  IInv' /\ UNCHANGED <<Waiting, task, done>>
<1>1. PICK place \in {"pop", "exited"} :
        Empty(w, place) /\ stole' = stole /\ pc[w] = "test"
  BY DEF TestRunning, Empty
<1>2. IInv'
  BY <1>1, EmptyInv DEF IInv, Types
<1> QED
  BY <1>1, <1>2 DEF Empty, Waiting

LEMMA StepInv ==
  IInv /\ [Next]_vars =>
    /\ IInv'
    /\ \/ \E k : HandsOver(k)
       \/ \E w, k : Takes(w, k)
       \/ \E w : Finishes(w)
       \/ UNCHANGED <<Waiting, task, done, scenario>>
<1> SUFFICES ASSUME IInv, [Next]_vars
             PROVE  /\ IInv'
                    /\ \/ \E k : HandsOver(k)
                       \/ \E w, k : Takes(w, k)
                       \/ \E w : Finishes(w)
                       \/ UNCHANGED <<Waiting, task, done, scenario>>
  OBVIOUS
<1>1. CASE UNCHANGED vars
  <2>1. Waiting' = Waiting /\ Executed' = Executed
    BY <1>1 DEF vars, workerVars, Waiting, Executed, Workers
  <2>2. Types' /\ Places' /\ Apart'
    BY <1>1 DEF vars, workerVars, IInv, Types, Places, Apart, Workers
  <2> QED
    BY <1>1, <2>1, <2>2, SameTasks DEF vars, workerVars
<1>2. CASE Run
  BY <1>2, RunInv
<1>3. CASE StartThread
  BY <1>3, StartThreadInv DEF StartThread
<1>4. CASE StartThrows
  BY <1>4, StartThrowsInv DEF StartThrows
<1>5. CASE Start \/ StartReturns \/ Stop \/ Dtor \/ Join
  BY <1>5, OwnerInv DEF Start, StartReturns, Stop, Dtor, Join
<1>6. ASSUME NEW w \in Workers, TestRunning(w)
      PROVE  IInv' /\ UNCHANGED <<Waiting, task, done, scenario>>
  BY <1>6, TestRunningInv DEF TestRunning
<1>7. ASSUME NEW w \in Workers, Pop(w)
      PROVE  IInv' /\ (\/ \E k : Takes(w, k)
                       \/ UNCHANGED <<Waiting, task, done, scenario>>)
  BY <1>7, PopInv DEF Pop, Begin, Empty
<1>8. ASSUME NEW w \in Workers, PopShared(w)
      PROVE  IInv' /\ (\/ \E k : Takes(w, k)
                       \/ UNCHANGED <<Waiting, task, done, scenario>>)
  BY <1>8, PopSharedInv DEF PopShared, Begin, Empty
<1>9. ASSUME NEW w \in Workers, Steal(w)
      PROVE  IInv' /\ (\/ \E k : Takes(w, k)
                       \/ UNCHANGED <<Waiting, task, done, scenario>>)
  BY <1>9, StealInv DEF Steal, Begin, Empty
<1>10. ASSUME NEW w \in Workers, Act(w)
       PROVE  IInv' /\ (\/ \E k : HandsOver(k)
                        \/ UNCHANGED <<Waiting, task, done, scenario>>)
  BY <1>10, ActRunInv, ActElseInv DEF Act
<1>11. ASSUME NEW w \in Workers, TaskReturns(w)
       PROVE  IInv' /\ Finishes(w)
  BY <1>11, TaskReturnsInv
<1>12. CASE \E w \in Workers : WorkerStep(w)
  BY <1>6, <1>7, <1>8, <1>9, <1>10, <1>11, <1>12 DEF WorkerStep
<1> QED
  BY <1>1, <1>2, <1>3, <1>4, <1>5, <1>12 DEF Next, OwnerStep

LEMMA Invariant == Spec => []IInv
<1>1. IInv /\ [Next]_vars => IInv'
  BY StepInv
<1> QED
  BY InitInv, <1>1, PTL DEF Spec

-----------------------------------------------------------------------------
(* The refinement of TaskPool.tla.                                         *)

\* The state of a task is where it is.
StateMeans ==
  \A k \in Tasks :
    /\ State[k] = "queued" <=> k \in Waiting
    /\ State[k] = "running" <=> \E w \in Workers : task[w] = k
    /\ State[k] = "done" <=> k \in done
    /\ State[k] = "new" <=> k \in NewTasks
    /\ State[k] \in {"queued", "running", "done", "new"}

LEMMA StateOf == IInv => StateMeans
<1> SUFFICES ASSUME IInv, NEW k \in Tasks
             PROVE  /\ State[k] = "queued" <=> k \in Waiting
                    /\ State[k] = "running" <=> \E w \in Workers : task[w] = k
                    /\ State[k] = "done" <=> k \in done
                    /\ State[k] = "new" <=> k \in NewTasks
                    /\ State[k] \in {"queued", "running", "done", "new"}
  BY DEF StateMeans
<1>1. \A w \in Workers : task[w] = k => k \notin Waiting \union done
  BY NoTaskAssumption DEF IInv, RunOnce
<1>2. k \in done => k \notin Waiting
  BY DEF IInv, RunOnce
<1>3. State[k] = IF k \in Waiting THEN "queued"
                 ELSE IF \E w \in Workers : task[w] = k THEN "running"
                 ELSE IF k \in done THEN "done" ELSE "new"
  BY DEF State, Queued, Waiting, In
<1> QED
  BY <1>1, <1>2, <1>3 DEF NewTasks

LEMMA StateOfNext == IInv' => StateMeans'
BY StateOf, PTL

\* One task goes on to another state.
LEMMA MoveOf ==
  ASSUME NEW k \in Tasks, NEW to, State'[k] = to,
         \A l \in Tasks : l # k => State'[l] = State[l]
  PROVE  State' = [State EXCEPT ![k] = to]
<1>1. /\ State = [l \in Tasks |-> State[l]]
      /\ State' = [l \in Tasks |-> State'[l]]
  BY DEF State
<1> HIDE DEF State
<1> QED
  BY <1>1

\* A task that is in the same place has the same state.
LEMMA SameState ==
  ASSUME StateMeans, StateMeans', NEW k \in Tasks,
         k \in Waiting' <=> k \in Waiting, k \in done' <=> k \in done,
         (\E w \in Workers' : task'[w] = k) <=> \E w \in Workers : task[w] = k
  PROVE  State'[k] = State[k]
BY DEF StateMeans

LEMMA HandsOverStep ==
  ASSUME IInv, IInv', NEW k, HandsOver(k) PROVE Abstract!Next
<1>1. StateMeans /\ StateMeans' /\ k \in Tasks /\ Workers' = Workers
  BY StateOf, StateOfNext DEF HandsOver, NewTasks, Workers
<1>2. State[k] = "new" /\ State'[k] = "queued"
  BY <1>1 DEF HandsOver, StateMeans
<1>3. \A l \in Tasks : l # k => State'[l] = State[l]
  BY <1>1, SameState DEF HandsOver
<1>4. State' = [State EXCEPT ![k] = "queued"]
  BY <1>1, <1>2, <1>3, MoveOf
<1> QED
  BY <1>1, <1>2, <1>4 DEF Abstract!Next, Abstract!Move

LEMMA TakesStep ==
  ASSUME IInv, IInv', NEW w, NEW k, Takes(w, k) PROVE Abstract!Next
<1>1. /\ StateMeans /\ StateMeans' /\ k \in Tasks /\ Workers' = Workers
      /\ w \in Workers /\ task'[w] = k /\ task[w] = NoTask
      /\ \A x \in Workers : x # w => task'[x] = task[x]
  BY StateOf, StateOfNext DEF IInv, Types, Takes, Waiting, Workers
<1>2. State[k] = "queued" /\ State'[k] = "running"
  BY <1>1 DEF Takes, StateMeans
<1>3. \A l \in Tasks : l # k => State'[l] = State[l]
  <2> SUFFICES ASSUME NEW l \in Tasks, l # k PROVE State'[l] = State[l]
    OBVIOUS
  <2>1. (\E x \in Workers : task'[x] = l) <=> \E x \in Workers : task[x] = l
    BY <1>1, NoTaskAssumption
  <2> QED
    BY <1>1, <2>1, SameState DEF Takes
<1>4. State' = [State EXCEPT ![k] = "running"]
  BY <1>1, <1>2, <1>3, MoveOf
<1> QED
  BY <1>1, <1>2, <1>4 DEF Abstract!Next, Abstract!Move

LEMMA FinishesStep ==
  ASSUME IInv, IInv', NEW w, Finishes(w) PROVE Abstract!Next
<1> DEFINE k == task[w]
<1>1. /\ StateMeans /\ StateMeans' /\ k \in Tasks /\ Workers' = Workers
      /\ w \in Workers /\ task'[w] = NoTask
      /\ \A x \in Workers : x # w => task'[x] = task[x]
  BY StateOf, StateOfNext DEF IInv, Types, Finishes, Workers
<1>2. done' = done \union {k} /\ Waiting' = Waiting
  BY DEF Finishes
<1>3. State[k] = "running" /\ State'[k] = "done"
  BY <1>1, <1>2 DEF StateMeans
<1>4. \A l \in Tasks : l # k => State'[l] = State[l]
  <2> SUFFICES ASSUME NEW l \in Tasks, l # k PROVE State'[l] = State[l]
    OBVIOUS
  <2>1. (\E x \in Workers : task'[x] = l) <=> \E x \in Workers : task[x] = l
    BY <1>1, NoTaskAssumption
  <2> QED
    BY <1>1, <1>2, <2>1, SameState
<1> HIDE DEF k
<1>5. State' = [State EXCEPT ![k] = "done"]
  BY <1>1, <1>3, <1>4, MoveOf
<1> QED
  BY <1>1, <1>3, <1>5 DEF Abstract!Next, Abstract!Move

\* A task that is handed over is run by one worker, once, whoever takes or
\* steals it, or stays queued (StealingQueue.h:25-50, MyThreadPool.cc:18-49).
THEOREM EachTaskRunsOnce == Spec => Implements
<1>1. Init => Abstract!Init
  <2> SUFFICES ASSUME Init PROVE State = [k \in Tasks |-> "new"]
    BY DEF Abstract!Init
  <2>1. \A k \in Tasks : State[k] = "new"
    <3>1. NewTasks = Tasks
      BY NoTaskAssumption DEF Init, NewTasks, Waiting, In
    <3> QED
      BY <3>1, InitInv, StateOf DEF StateMeans
  <2>2. State = [k \in Tasks |-> State[k]]
    BY DEF State
  <2> QED
    BY <2>1, <2>2
<1>2. IInv /\ IInv' /\ [Next]_vars => [Abstract!Next]_State
  <2> SUFFICES ASSUME IInv, IInv', [Next]_vars
               PROVE  Abstract!Next \/ State' = State
    OBVIOUS
  <2>1. CASE UNCHANGED <<Waiting, task, done, scenario>>
    <3>1. StateMeans /\ StateMeans' /\ Workers' = Workers
      BY <2>1, StateOf, StateOfNext DEF Workers
    <3>2. \A k \in Tasks : State'[k] = State[k]
      BY <2>1, <3>1, SameState
    <3>3. /\ State = [k \in Tasks |-> State[k]]
          /\ State' = [k \in Tasks |-> State'[k]]
      BY DEF State
    <3> QED
      BY <3>2, <3>3
  <2> QED
    BY <2>1, StepInv, HandsOverStep, TakesStep, FinishesStep
<1> QED
  BY <1>1, <1>2, Invariant, PTL DEF Spec, Implements, Abstract!Spec

=============================================================================
