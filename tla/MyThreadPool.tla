---------------------------- MODULE MyThreadPool ----------------------------
(***************************************************************************)
(* libeva/Thread/MyThreadPool with ds/StealingQueue and ThreadsJoiner:     *)
(* every worker has a queue of its own, which it uses as a stack and the   *)
(* others steal from at the other end; threads outside the pool use a      *)
(* shared queue (FineGrainedQueue, here the FifoQueue it implements).      *)
(*                                                                         *)
(* Workers are numbered from 0.  A task is a sequence of acts: it hands    *)
(* another task to run(), waits for a task to be done, or stops the pool.  *)
(* The owner hands over its own tasks, starts the pool once and destroys   *)
(* it.  A worker may look at queues_ while start() still fills it: it sees *)
(* what is there (the vector is taken to have room; see the hazard at      *)
(* MyThreadPool.cc:61).                                                    *)
(***************************************************************************)
EXTENDS Integers, Sequences, SequencesExt

CONSTANTS Tasks, NoTask,
          MaxThreads,
          Scenarios    \* the programs

ASSUME ScenariosAssumption ==
  \A s \in Scenarios :
    /\ s.threads \in 1..MaxThreads
    /\ s.fails \in Int            \* this thread cannot be made
    /\ s.tasks \in Seq(Tasks)     \* what the owner hands over, and all
    /\ s.all \subseteq Tasks      \* that comes of it
    /\ s.acts \in [Tasks -> Seq([kind : {"run", "wait", "stop"},
                                task : Tasks \union {NoTask}])]
    /\ s.patient \in BOOLEAN      \* the owner waits for all its tasks
ASSUME NoTaskAssumption == NoTask \notin Tasks

\* Each call of run() is for a task of its own: what it is given is an object
\* that nobody else has.
ASSUME HandedOverOnceAssumption ==
  \A s \in Scenarios :
    /\ \A i, j \in DOMAIN s.tasks : s.tasks[i] = s.tasks[j] => i = j
    /\ \A k \in Tasks : \A i \in DOMAIN s.acts[k] :
         s.acts[k][i].kind = "run" =>
           /\ s.acts[k][i].task \in Tasks
           /\ \A j \in DOMAIN s.tasks : s.tasks[j] # s.acts[k][i].task
           /\ \A l \in Tasks : \A j \in DOMAIN s.acts[l] :
                /\ s.acts[l][j].kind = "run"
                /\ s.acts[l][j].task = s.acts[k][i].task
                => k = l /\ i = j

VARIABLES scenario,
          running,      \* running_
          shared,       \* shared_queue_
          queues,       \* queues_: private queues, by worker + 1
          owner,        \* where the owner is
          given,        \* how many tasks the owner has handed over
          pc, task, act,\* of each worker: place, its task, the next act of it
          stole,        \* stealWork(): i and numQueue
          done          \* the tasks that have run (history)

vars == <<scenario, running, shared, queues, owner, given, pc, task, act,
          stole, done>>
workerVars == <<pc, task, act, stole, done>>

Workers == 0..scenario.threads - 1
Started == 0..Len(queues) - 1

Init ==
  /\ scenario \in Scenarios
  /\ running = FALSE /\ shared = <<>> /\ queues = <<>>
  /\ owner = "idle" /\ given = 0
  /\ pc = [w \in Workers |-> "none"] /\ task = [w \in Workers |-> NoTask]
  /\ act = [w \in Workers |-> 1]
  /\ stole = [w \in Workers |-> [i |-> 0, numQueue |-> 0]]
  /\ done = {}
-----------------------------------------------------------------------------
(* The owner.                                                              *)

\* run() outside the pool's threads, whose private_queue_ is null.
Run ==
  /\ owner \in {"idle", "started"} /\ given < Len(scenario.tasks)
  /\ shared' = Append(shared, scenario.tasks[given + 1])
  /\ given' = given + 1
  /\ UNCHANGED <<scenario, running, queues, owner, workerVars>>

Start == /\ owner = "idle" /\ owner' = "starting" /\ running' = TRUE
         /\ UNCHANGED <<scenario, shared, queues, given, workerVars>>

\* One turn of the loop: a queue, and a thread that begins to run.
StartThread ==
  LET w == Len(queues)
  IN  /\ owner = "starting" /\ w < scenario.threads /\ w # scenario.fails
      /\ queues' = Append(queues, <<>>)
      /\ pc' = [pc EXCEPT ![w] = "test"]
      /\ UNCHANGED <<scenario, running, shared, owner, given, task, act,
                     stole, done>>

\* std::thread throws: the queue is there, the thread is not.
StartThrows ==
  /\ owner = "starting"
  /\ Len(queues) < scenario.threads /\ Len(queues) = scenario.fails
  /\ queues' = Append(queues, <<>>)
  /\ running' = FALSE /\ owner' = "started"
  /\ UNCHANGED <<scenario, shared, given, workerVars>>

StartReturns ==
  /\ owner = "starting" /\ Len(queues) = scenario.threads
  /\ owner' = "started"
  /\ UNCHANGED <<scenario, running, shared, queues, given, workerVars>>

AllDone == given = Len(scenario.tasks) /\ done = scenario.all

Stop == /\ owner = "started" /\ running /\ ~scenario.patient
        /\ running' = FALSE
        /\ UNCHANGED <<scenario, shared, queues, owner, given, workerVars>>

\* Mutant of Dtor: the destructor does not stop the pool.
DtorWithoutStop ==
  /\ owner = "started" /\ (scenario.patient => AllDone)
  /\ owner' = "joining"
  /\ UNCHANGED <<scenario, running, shared, queues, given, workerVars>>

\* A patient owner destroys the pool when all of its tasks are done.
Dtor == /\ owner = "started" /\ (scenario.patient => AllDone)
        /\ running' = FALSE /\ owner' = "joining"
        /\ UNCHANGED <<scenario, shared, queues, given, workerVars>>

\* joiner_ is destroyed first, and joins the threads there are.
Join ==
  /\ owner = "joining" /\ \A w \in Workers : pc[w] \in {"none", "exited"}
  /\ owner' = "gone"
  /\ UNCHANGED <<scenario, running, shared, queues, given, workerVars>>

OwnerStep == \/ Run \/ Start \/ StartThread \/ StartThrows \/ StartReturns
             \/ Stop \/ Dtor \/ Join
-----------------------------------------------------------------------------
(* The workers.                                                            *)

Goto(w, place) == pc' = [pc EXCEPT ![w] = place]

TestRunning(w) ==
  /\ pc[w] = "test" /\ Goto(w, IF running THEN "pop" ELSE "exited")
  /\ UNCHANGED <<scenario, running, shared, queues, owner, given, task, act,
                 stole, done>>

\* The worker has k, and begins it.
Begin(w, k) ==
  /\ Goto(w, "run") /\ task' = [task EXCEPT ![w] = k]
  /\ act' = [act EXCEPT ![w] = 1]
  /\ UNCHANGED <<scenario, running, owner, given, done>>

\* Goes on where it found no task.
Empty(w, place) ==
  /\ Goto(w, place)
  /\ UNCHANGED <<scenario, running, shared, queues, owner, given, task, act,
                 done>>

\* Mutant of LeftByPopBack: the back is taken, the front is removed.
LeftWithoutFront(q) == Tail(q)

LeftByPopBack(q) == Front(q)

\* tryPopBack() of the own queue.
Pop(w) ==
  LET own == queues[w + 1]
  IN  /\ pc[w] = "pop" /\ UNCHANGED stole
      /\ \/ /\ own # <<>> /\ Begin(w, Last(own))
            /\ queues' = [queues EXCEPT ![w + 1] = LeftByPopBack(own)]
            /\ UNCHANGED shared
         \/ own = <<>> /\ Empty(w, "shared")

PopShared(w) ==
  /\ pc[w] = "shared"
  /\ \/ /\ shared # <<>> /\ Begin(w, Head(shared))
        /\ shared' = Tail(shared) /\ UNCHANGED <<queues, stole>>
     \/ /\ shared = <<>> /\ Empty(w, "steal")
        /\ stole' = [stole EXCEPT ![w] = [i |-> 0, numQueue |-> Len(queues)]]

\* Mutant of Victim: the turn of the loop is forgotten.
VictimIsSelf(w) == w

Victim(w) == (w + stole[w].i + 1) % stole[w].numQueue

\* tryStealFront() of one queue after the other, the own one last.
Steal(w) ==
  LET from == queues[Victim(w) + 1]
  IN  /\ pc[w] = "steal"
      /\ \/ /\ from # <<>> /\ Begin(w, Head(from))
            /\ queues' = [queues EXCEPT ![Victim(w) + 1] = Tail(from)]
            /\ UNCHANGED <<shared, stole>>
         \/ /\ from = <<>>
            /\ stole' = [stole EXCEPT ![w].i = @ + 1]
            /\ Empty(w, IF stole[w].i + 1 < stole[w].numQueue
                        THEN "steal" ELSE "test")

\* One act of the task; run() in a worker uses the private queue.
Act(w) ==
  LET acts == scenario.acts[task[w]]
      a == acts[act[w]]
  IN  /\ pc[w] = "run" /\ act[w] <= Len(acts)
      /\ \/ /\ a.kind = "run"
            /\ queues' = [queues EXCEPT ![w + 1] = Append(@, a.task)]
            /\ UNCHANGED running
         \/ a.kind = "wait" /\ a.task \in done /\ UNCHANGED <<queues, running>>
         \/ a.kind = "stop" /\ running' = FALSE /\ UNCHANGED queues
      /\ act' = [act EXCEPT ![w] = @ + 1]
      /\ UNCHANGED <<scenario, shared, owner, given, pc, task, stole, done>>

TaskReturns(w) ==
  /\ pc[w] = "run" /\ act[w] > Len(scenario.acts[task[w]])
  /\ done' = done \union {task[w]}
  /\ task' = [task EXCEPT ![w] = NoTask] /\ Goto(w, "test")
  /\ UNCHANGED <<scenario, running, shared, queues, owner, given, act, stole>>

WorkerStep(w) == \/ TestRunning(w) \/ Pop(w) \/ PopShared(w) \/ Steal(w)
                 \/ Act(w) \/ TaskReturns(w)

Next == OwnerStep \/ \E w \in Workers : WorkerStep(w)

Spec == Init /\ [][Next]_vars

\* Threads go on with what they do; nobody has to stop or destroy a pool.
FairSpec == /\ Spec
            /\ WF_vars(StartThread \/ StartThrows \/ StartReturns \/ Join)
            /\ \A w \in 0..MaxThreads - 1 :
                 WF_vars(w \in Workers /\ WorkerStep(w))
-----------------------------------------------------------------------------
Queued(k) == \/ \E i \in DOMAIN shared : shared[i] = k
             \/ \E w \in DOMAIN queues :
                  \E i \in DOMAIN queues[w] : queues[w][i] = k

State == [k \in Tasks |->
            IF Queued(k) THEN "queued"
            ELSE IF \E w \in Workers : task[w] = k THEN "running"
            ELSE IF k \in done THEN "done" ELSE "new"]

\* No task is lost, duplicated or run twice on its way through the queues,
\* whoever takes or steals it (StealingQueue.h:25-50, MyThreadPool.cc:18-49).
Abstract == INSTANCE TaskPool WITH state <- State
Implements == Abstract!Spec

\* Every task that was handed over is run if the pool is not stopped, though
\* the worker that has it in its queue may itself wait (MyThreadPool.cc:38).
EveryTaskRuns ==
  \A k \in Tasks : Queued(k) /\ running ~> k \in done \/ ~running

\* The destructor returns, also if start() threw half way.
DtorReturns == owner = "joining" ~> owner = "gone"
=============================================================================
