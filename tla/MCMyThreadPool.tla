--------------------------- MODULE MCMyThreadPool ---------------------------
(* Programs with two tasks of the owner, which may hand over two more.     *)
EXTENDS MyThreadPool, TLC

CONSTANTS r1, r2, c1, c2

Runs(k) == [kind |-> "run", task |-> k]
Waits(k) == [kind |-> "wait", task |-> k]
Stops == [kind |-> "stop", task |-> NoTask]

Program(threads, fails, patient, all, acts1, acts2) ==
  [threads |-> threads, fails |-> fails, patient |-> patient,
   tasks |-> <<r1, r2>>, all |-> all,
   acts |-> (r1 :> acts1 @@ r2 :> acts2 @@ c1 :> <<>> @@ c2 :> <<>>)]

NoFail == -1

\* A task waits for one that is behind it in its own worker's queue; two
\* tasks do, on three threads; the pool is stopped at any time, by its owner
\* or by a task; the second thread cannot be made; there is one thread.
MCScenarios ==
  { Program(2, NoFail, TRUE, Tasks, <<Runs(c1), Waits(c1)>>, <<Runs(c2)>>),
    Program(3, NoFail, TRUE, Tasks, <<Runs(c1), Waits(c1)>>,
            <<Runs(c2), Waits(c2)>>),
    Program(2, NoFail, FALSE, Tasks, <<Runs(c1), Runs(c2)>>, <<>>),
    Program(2, NoFail, TRUE, Tasks, <<Runs(c1), Runs(c2)>>, <<>>),
    Program(2, NoFail, FALSE, {r1, r2, c1}, <<Runs(c1)>>, <<Stops>>),
    Program(2, 1, FALSE, {r1, r2, c1}, <<Runs(c1)>>, <<>>),
    Program(1, NoFail, TRUE, Tasks, <<Runs(c1), Runs(c2)>>, <<>>) }
=============================================================================
